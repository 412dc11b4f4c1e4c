----------------------------- MODULE Diagnostics -----------------------------
(***************************************************************************)
(* The diagnostic codes that decide something.  The coordinator stores     *)
(* [code, severity, internalId?, sourceKey?] records in one append-only    *)
(* list; only the code, its severity and its scope are ever read back, so  *)
(* a list is modelled by three families of sets of codes, one per scope    *)
(* (see ToolCallCoordinator), and a severity by the class of its code.     *)
(***************************************************************************)

\* AUTHORITY_PROTOCOL_VIOLATION_CODES: they disqualify their scope for good.
AuthorityProtocolViolationCodes ==
  { "E_TOOL_ARGUMENTS_BEFORE_START", "E_TOOL_END_BEFORE_START",
    "E_TOOL_ARGUMENTS_AFTER_END", "E_DUPLICATE_TOOL_END",
    "E_DUPLICATE_MESSAGE_TERMINAL", "E_MESSAGE_CONTENT_AFTER_STOP_REASON",
    "E_DUPLICATE_TOOL_CALL_START", "E_CHOICE_INDEX_INVALID",
    "E_CHOICE_INDEX_DUPLICATE", "E_DUPLICATE_TOOL_CALL_ID",
    "E_EVENT_AFTER_STREAM_END", "E_TERMINAL_REASON_CONFLICT",
    "E_PROVIDER_EVENT_IDENTITY_AMBIGUOUS" }

\* Evidence that the provider SDK's own loop has already run the tool.
SdkExecutionObservedCodes ==
  { "E_SDK_EXECUTION_OBSERVED", "E_PROVIDER_TOOL_ERROR" }

ContentFilteredCode == "E_CONTENT_FILTERED"

ProjectionOnlyCode == "E_ARGUMENT_EVIDENCE_PROJECTION_ONLY"

\* Limits the coordinator reports in the scope of a call or of the stream.
CoordinatorResourceLimitCodes ==
  { "E_COORDINATOR_LIMIT_CALLS", "E_COORDINATOR_LIMIT_EVENTS",
    "E_TOOL_NAME_LIMIT" }

\* Codes the coordinator raises itself with severity "error", none of which
\* the decision table looks at: they matter only through hasCallConflict().
CallDefectCodes ==
  { "E_PROVIDER_IDENTITY_CONFLICT", "E_PROVIDER_INDEX_CONFLICT",
    "E_NAME_DELTA_AFTER_END", "E_ARGUMENT_DELTA_AFTER_END",
    "E_TOOL_NAME_MISSING", "E_STREAM_ENDED_WITH_OPEN_CALL",
    "E_SCHEMA_VALIDATION_FAILED", "E_FINAL_ARGUMENTS_CONFLICT" }

\* Codes of severity "error" that only the adapters raise and nothing else reads.
AdapterDefectCodes ==
  { "E_PROVIDER_EVENT_MALFORMED", "E_PROVIDER_ERROR" }

ChoiceDefectCodes == { "E_CHOICE_TERMINAL_PROTOCOL_VIOLATION" }

GeminiDefectCodes == { "E_GEMINI_ARGUMENT_PROJECTION_FAILED" }

\* The adapters raise these two with severity "warning", all others with
\* "error" or "fatal".
WarningCodes == { ProjectionOnlyCode, "W_EVENT_AFTER_STREAM_END" }

Codes ==
  UNION { AuthorityProtocolViolationCodes, SdkExecutionObservedCodes,
          { ContentFilteredCode }, CoordinatorResourceLimitCodes,
          CallDefectCodes, AdapterDefectCodes, ChoiceDefectCodes,
          GeminiDefectCodes, WarningCodes }

\* Is there a diagnostic of severity "error" or "fatal" among these codes?
HasError(codes) == codes \ WarningCodes # {}
==============================================================================
