\* One worker: what is read, and how the worker ends.
SPECIFICATION Spec
CONSTANTS
  None = None
  Callers = {c1, c2}
  MaxConnects = 1
  MaxMsgs = 2
  Sequential = TRUE
INVARIANT InOrderOnce
PROPERTIES MessagesArrive StoppedWorkerEnds CloseNeverBlocks
CHECK_DEADLOCK FALSE
