---------------------------- MODULE MCEventSource ----------------------------
(* Instances of EventSource for TLC.                                       *)
EXTENDS EventSource
=============================================================================
