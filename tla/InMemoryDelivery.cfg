\* Two threads of a test and two that initialize, so that an attempt begins while another
\* is held; the key has a value from the start.
SPECIFICATION Spec
CONSTANTS
  Keys = {k1}
  Given = {k1}
  Testers = {t1, t2}
  Initializers = {i1, i2}
  MaxOps = 2
  MaxAttempts = 2
INVARIANT StoredIsServed
INVARIANT OneOwner
PROPERTY HeldIsReleased
CHECK_DEADLOCK FALSE
