\* Two transport threads that deliver, callers of initialize(), get_value() and close(),
\* registrations coming and going.
SPECIFICATION Spec
CONSTANTS
  None = None
  k1 = k1
  Keys = {k1}
  Segs = {s1}
  Watchers = {w1}
  WatchKey <- MCWatchKey
  Handlers = {h1}
  HandlerEvent <- MCHandlerEvent
  Deliverers = {d1, d2}
  Readers = {r1}
  Initializers = {i1}
  Shapes <- SomeShapes
  MaxBundles = 2
INVARIANTS WatchersCurrent DefinitionsMeetTheirSegments ReadyOnce FirstCallbacksFirst
PROPERTIES RemovedStaysSilent ClosedIsFinal InitializeReleased ImplementsFeed
CHECK_DEADLOCK FALSE
