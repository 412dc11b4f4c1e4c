----------------------------- MODULE DecisionTable -----------------------------
(***************************************************************************)
(* decideExecution() (src/src/gate/decide.ts): the pure map from what is   *)
(* known about one call to a decision, named by its reason.  Only the      *)
(* reason "complete" means execute; "stream_incomplete" and "truncated"    *)
(* mean retry, and all the others mean reject.                             *)
(***************************************************************************)
EXTENDS Integers, Diagnostics

ExecuteReason == "complete"

RetryReasons == { "stream_incomplete", "truncated" }

RejectReasons ==
  { "sdk_execution_observed", "resource_limit", "provider_error",
    "content_filtered", "projection_only", "protocol_violation",
    "schema_invalid", "malformed" }

ExecutionReasons == { ExecuteReason } \cup RetryReasons \cup RejectReasons

Action(reason) ==
  IF reason = ExecuteReason THEN "execute"
  ELSE IF reason \in RetryReasons THEN "retry" ELSE "reject"

SdkExecutionEvidence(call, stream) ==
  \/ call.status = "sdk_execution_observed"
  \/ stream \cap SdkExecutionObservedCodes # {}

ResourceLimitEvidence(call, own, stream) ==
  \/ call.parser = "limited"
  \/ own \cap CoordinatorResourceLimitCodes # {}
  \/ "E_COORDINATOR_LIMIT_EVENTS" \in stream

ProtocolViolationEvidence(own, stream) ==
  (own \cup stream) \cap AuthorityProtocolViolationCodes # {}

\* Mutant of DecideByStatus: the parser's executable flag is not consulted.
DecideByStatusAlone(call) ==
  CASE call.status = "complete" ->
         IF call.schemaValid = "invalid" THEN "schema_invalid" ELSE ExecuteReason
    [] call.status = "truncated" -> "truncated"
    [] call.status = "invalid"   -> "malformed"
    [] OTHER                     -> "stream_incomplete"

\* The switch over call.status, reached when no disqualifier applied.
DecideByStatus(call) ==
  CASE call.status = "complete" ->
         IF call.schemaValid = "invalid" THEN "schema_invalid"
         ELSE IF call.executable /\ call.name >= 0 THEN ExecuteReason
         ELSE "stream_incomplete"
    [] call.status = "truncated" -> "truncated"
    [] call.status = "invalid"   -> "malformed"
    [] OTHER                     -> "stream_incomplete"

\* own and stream are the codes in the scope of the call and of the stream;
\* the disqualifiers are tried in the order of the source.
Decide(call, own, stream, endReason) ==
  IF SdkExecutionEvidence(call, stream) THEN "sdk_execution_observed"
  ELSE IF ResourceLimitEvidence(call, own, stream) THEN "resource_limit"
  ELSE IF endReason = "provider_error" THEN "provider_error"
  ELSE IF ContentFilteredCode \in stream THEN "content_filtered"
  ELSE IF ProjectionOnlyCode \in own THEN "projection_only"
  ELSE IF ProtocolViolationEvidence(own, stream) THEN "protocol_violation"
  ELSE DecideByStatus(call)
==============================================================================
