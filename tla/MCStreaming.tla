----------------------------- MODULE MCStreaming -----------------------------
(* Instances of StreamingTransport for TLC.                                *)
EXTENDS StreamingTransport
=============================================================================
