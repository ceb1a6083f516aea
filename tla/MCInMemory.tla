----------------------------- MODULE MCInMemory -----------------------------
(* Instances of InMemoryConnection for TLC.                                *)
EXTENDS InMemoryConnection
=============================================================================
