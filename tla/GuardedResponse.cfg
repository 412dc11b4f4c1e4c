SPECIFICATION Spec
CHECK_DEADLOCK FALSE
CONSTANTS
  MaxResponses = 1
  ToolCallIds = {i1, i2}
  Inputs = {x, y}
  i1 = i1
  i2 = i2
  x = x
  y = y
  TextFrame = TextFrame
  BadFrame = BadFrame
  CallFrames <- TwoFrames
  None = None
  Buffered = FALSE
  Recording = "all"
  MaxFrames = 3
INVARIANTS TypeOK HeldUntilBatchReady ToldWhatHappened ReplayIsFaithful
PROPERTIES CancelledSettles AbortedSettles
