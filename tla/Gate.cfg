SPECIFICATION Spec
SYMMETRY Symmetry
CONSTANTS
  SourceKeys = {a, b, c}
  ToolCallIds = {i, j}
  ToolIndices = {}
  Absent = Absent
  InitialNames <- Missing
  DeltaLengths = {2}
  Reasons = {"complete", "length"}
  ProviderCodes = {"E_TOOL_ARGUMENTS_AFTER_END", "E_SDK_EXECUTION_OBSERVED"}
  ValidatorAnswers = {"none", "valid", "invalid"}
  MaxToolCalls = 2
  MaxToolNameBytes = 2
  MaxNormalizedEvents = 5
  CloseContainersAtFinish = FALSE
INVARIANTS
  GateTypeOK ExecuteIsEarned CleanCallExecutes RejectedPushBlocksAll
  EarlyViolationBlocks FinishedEventAgrees
PROPERTIES ImplementsAuthority TakenWasReported SettledNeverImproves
