SPECIFICATION AdaptersSpec
CONSTANTS
  SourceKeys <- Coordinates
  ChoiceIndices = {0, 1}
  ToolCallIds = {x}
  ToolIndices = {}
  Absent = Absent
  InitialNames = {1}
  DeltaLengths = {1}
  Reasons = {"complete", "length", "provider_error", "cancelled", "unknown"}
  CallerReasons = {Absent, "complete", "length"}
  FinishReasons = {"stop", "length"}
  StopReasons = {"tool_use", "max_tokens"}
  SdkFinishReasons = {"tool-calls", "content-filter"}
  InputBlocks <- OneInput
  SdkInputs <- OneInput
  CandidateFinishReasons = {"STOP", "MAX_TOKENS"}
  IncompleteReasons = {"max_output_tokens", "content_filter"}
  ArgumentPieces = {"whole"}
  ProviderCodes <- Codes
  ValidatorAnswers = {"none"}
  MaxToolCalls = 3
  MaxToolNameBytes = 9
  MaxNormalizedEvents = 99
  MaxRawEvents <- RawEventBounds
  CloseContainersAtFinish = FALSE
  Providers = {"openai-compatible"}
INVARIANT UnfinishedChoiceNeverExecutes
CHECK_DEADLOCK FALSE
