\* initialize() again and again, and a close() at any time.
SPECIFICATION Spec
CONSTANTS
  None = None
  Callers = {t1}
  MaxConnects = 2
  MaxSessions = 2
INVARIANT NothingLeftRunning
PROPERTIES FatalRaised HeartbeatsGoOn
CHECK_DEADLOCK FALSE
