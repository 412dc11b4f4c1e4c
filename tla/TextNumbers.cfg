SPECIFICATION Spec
CONSTANTS
  Bytes = {65}
  MaxBytes = 1
  MaxRead = 1
  MaxReceived = 1
  Structure <- TextCharacters
  MaxStringBytes = 13
  MaxRuns = 6
  Keys = {k}
  Reasons = {"complete"}
  MaxDepth = 1
  MaxQueuedEvents = 2
  MaxInput = 2
  MaxTrailing = 1
  TrailingData = "isolate"
  RawControlCharacters = "escape"
  CloseContainersAtFinish = FALSE
  MaxTokens = 2
INVARIANT NumbersAreJson
CHECK_DEADLOCK FALSE
