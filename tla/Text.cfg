SPECIFICATION Spec
SYMMETRY Symmetry
CONSTANTS
  Bytes <- BoundaryBytes
  MaxBytes = 5
  MaxRead = 3
  MaxReceived = 7
  Structure <- TextCharacters
  MaxStringBytes = 13
  MaxRuns = 6
  Keys = {j, k}
  Reasons = {"complete", "length"}
  MaxDepth = 2
  MaxQueuedEvents = 6
  MaxInput = 11
  MaxTrailing = 1
  TrailingData = "isolate"
  RawControlCharacters = "escape"
  CloseContainersAtFinish = TRUE
  MaxTokens = 11
INVARIANTS
  DecodesAsWhole DisplaysWholeEvents LexesOnlyJson RefusesOnlyGarbage
  JsonTypeOK ValidTextExecutes ExecutableUpToStrays SalvageOnlyCloses
PROPERTIES ImplementsSummary
CHECK_DEADLOCK FALSE
