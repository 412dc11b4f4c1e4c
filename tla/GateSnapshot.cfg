SPECIFICATION Spec
SYMMETRY Symmetry
CONSTANTS
  SourceKeys = {a, b}
  ToolCallIds = {}
  ToolIndices = {}
  Absent = Absent
  InitialNames = {0}
  DeltaLengths = {}
  Reasons = {"complete", "length"}
  ProviderCodes = {"E_TOOL_ARGUMENTS_AFTER_END", "E_SDK_EXECUTION_OBSERVED"}
  ValidatorAnswers = {"none", "valid", "invalid"}
  MaxToolCalls = 2
  MaxToolNameBytes = 2
  MaxNormalizedEvents = 6
  CloseContainersAtFinish = FALSE
INVARIANT SnapshotNeverExecutes
