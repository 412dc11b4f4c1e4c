SPECIFICATION Spec
CHECK_DEADLOCK FALSE
CONSTANTS
  MaxResponses = 2
  ToolCallIds = {i1, i2}
  Inputs = {x, y}
  i1 = i1
  i2 = i2
  x = x
  y = y
  TextFrame = TextFrame
  BadFrame = BadFrame
  CallFrames <- OneFrame
  None = None
  Buffered = FALSE
  Recording = "off"
  MaxFrames = 2
INVARIANTS AuthorityIsCurrent
PROPERTIES ImplementsBatchRelease
