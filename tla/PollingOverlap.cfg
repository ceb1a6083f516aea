\* Two threads that call initialize(): their requests may overlap.
SPECIFICATION Spec
CONSTANTS
  None = None
  Closer = closer
  Initializers = {i1, i2}
  Pollers = {p1, p2}
  Faults = {"transient", "body", "fatal"}
  MaxVer = 2
  MaxInits = 2
INVARIANT TimestampNotAhead
CHECK_DEADLOCK FALSE
