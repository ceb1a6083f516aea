\* close() while initialize() is connecting.
SPECIFICATION Spec
CONSTANTS
  None = None
  Callers = {t1, t2}
  MaxConnects = 1
  MaxSessions = 1
INVARIANT NothingRunsAfterClose
CHECK_DEADLOCK FALSE
