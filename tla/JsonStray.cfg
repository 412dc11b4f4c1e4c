SPECIFICATION JsonSpec
CONSTANTS
  Keys = {k}
  Reasons = {"complete", "length"}
  MaxDepth = 2
  MaxQueuedEvents = 6
  MaxInput = 6
  MaxTrailing = 1
  TrailingData = "isolate"
  RawControlCharacters = "escape"
  CloseContainersAtFinish = TRUE
  MaxTokens = 6
CHECK_DEADLOCK FALSE
INVARIANTS ExecutableIsValid
