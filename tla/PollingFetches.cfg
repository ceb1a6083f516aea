\* Two threads that call initialize(), every failure, close() at any time.
SPECIFICATION Spec
CONSTANTS
  None = None
  Closer = closer
  Initializers = {i1, i2}
  Pollers = {p1}
  Faults = {"transient", "body", "fatal"}
  MaxVer = 2
  MaxInits = 2
INVARIANT TimestampNotAheadAlone
PROPERTIES EditsAreServed FatalEndsPolling QuietAfterClose CloseReturns
CHECK_DEADLOCK FALSE
