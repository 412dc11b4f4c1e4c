\* All six adapters; MCAdapters bounds the raw events of each.
SPECIFICATION AdaptersSpec
CONSTANTS
  SourceKeys <- Coordinates
  ChoiceIndices = {0, 1}
  ToolCallIds = {x}
  ToolIndices = {}
  Absent = Absent
  InitialNames = {1}
  DeltaLengths = {1}
  Reasons = {"complete", "length", "provider_error", "cancelled", "unknown"}
  CallerReasons = {Absent, "complete", "length"}
  FinishReasons = {"stop", "length"}
  StopReasons = {"tool_use"}
  SdkFinishReasons = {"tool-calls", "content-filter"}
  InputBlocks <- OneInput
  SdkInputs <- OneInput
  CandidateFinishReasons = {"STOP", "MAX_TOKENS"}
  IncompleteReasons = {"max_output_tokens", "content_filter"}
  ArgumentPieces = {"whole"}
  ProviderCodes <- Codes
  ValidatorAnswers = {"none"}
  MaxToolCalls = 3
  MaxToolNameBytes = 9
  MaxNormalizedEvents = 99
  MaxRawEvents <- RawEventBounds
  CloseContainersAtFinish = FALSE
  Providers = {"openai-compatible", "openrouter", "openai", "anthropic", "ai-sdk", "gemini"}
INVARIANTS
  CompatibleExecutesClean OpenRouterExecutesClean OpenAIExecutesClean
  AnthropicExecutesClean SdkExecutesClean GeminiRecordsDisorder
CHECK_DEADLOCK FALSE
