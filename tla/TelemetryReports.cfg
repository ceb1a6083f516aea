\* Two recording threads, the flush thread and close(): what is reported, what
\* is left unreported, and how collecting ends.
SPECIFICATION Spec
CONSTANTS
  None = None
  Recorders = {r1, r2}
  Contexts = {x}
  EventLimit = 1
  ContextLimit = 1
  MaxEvents = 2
  MaxInvalid = 1
INVARIANTS EverythingAccounted ContextsReported CloseReportsAll
PROPERTIES ReportsInOrder Shutdown
CHECK_DEADLOCK FALSE
