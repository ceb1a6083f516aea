\* One life of a provider, with two threads that resolve flags again and again.
SPECIFICATION Spec
CONSTANTS
  None = None
  Evaluators = {e1, e2}
INVARIANTS ReadyReportedOnce DetailsMatchValue
PROPERTIES ReadyInTheEnd ShutdownEnds
CHECK_DEADLOCK FALSE
