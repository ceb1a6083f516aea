\* The same streams: a definition whose number overflows costs the others of its bundle.
SPECIFICATION Spec
CONSTANTS
  None = None
  MaxLineChars = 5
  MaxEventChars = 5
  Texts <- MCTexts
  Documents <- MCDocuments
  Keys = {"a", "b"}
  MarkMayBeCut = FALSE
INVARIANT LastReadableServed
CHECK_DEADLOCK FALSE
