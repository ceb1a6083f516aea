----------------------------- MODULE MCPolling ------------------------------
(* Instances of PollingTransport for TLC.                                  *)
EXTENDS PollingTransport
=============================================================================
