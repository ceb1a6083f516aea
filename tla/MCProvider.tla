----------------------------- MODULE MCProvider -----------------------------
(* Instances of Provider for TLC.                                          *)
EXTENDS Provider
=============================================================================
