\* Every cut of streams of up to three messages or lines, and some longer.
SPECIFICATION Spec
CONSTANTS
  None = None
  MaxLineChars = 5
  MaxEventChars = 5
  Texts <- MCTexts
  Documents <- MCDocuments
  Keys = {"a", "b"}
  MarkMayBeCut = FALSE
INVARIANTS CutsDoNotMatter OthersServed
CHECK_DEADLOCK FALSE
