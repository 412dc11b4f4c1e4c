------------------------------ MODULE AiSdkAdapter ------------------------------
(***************************************************************************)
(* AiSdkStreamAdapter (providers/ai-sdk.ts): the parts of the AI SDK's     *)
(* fullStream.  A call is named by its tool call id alone, so the key of a *)
(* call stands for its id.                                                 *)
(***************************************************************************)
EXTENDS ProviderGuard

CONSTANTS
  SdkFinishReasons,  \* the finishReason strings in use
  SdkInputs          \* the calls that may have input; of others there are only results

Inputs == KeysOf(0)

NewAiSdk ==
  [ provider |-> "ai-sdk",
    finished |-> FALSE,
    started  |-> {},    \* startedCallKeys
    ended    |-> {} ]   \* endedCallKeys

\* A part may name its call, not name one, or name two of them (its id and its
\* toolCallId differ); only what follows from each is kept here.
Identities(keys) == [ name : { "key" }, key : keys ]
                      \cup [ name : { "missing", "conflicting" } ]

SdkRawEvents ==
  UNION { [ kind : { "malformed", "tool_call", "error", "abort" } ],
          [ kind : { "input_start", "input_end" }, call : Identities(SdkInputs) ],
          [ kind : { "tool_result", "tool_error" }, call : Identities(Inputs) ],
          [ kind : { "input_delta" }, call : Identities(SdkInputs),
            piece : ArgumentPieces ],
          [ kind : { "finish" }, reason : SdkFinishReasons ] }

MapSdkFinishReason(reason) ==
  CASE reason \in { "stop", "tool-calls" } -> "complete"
    [] reason = "length" -> "length"
    [] reason = "content-filter" -> "cancelled"
    [] reason = "error" -> "provider_error"
    [] OTHER -> "unknown"

\* The codes of the diagnostics that this adapter raises.
SdkCodes ==
  { "E_TOOL_ARGUMENTS_BEFORE_START", "E_TOOL_ARGUMENTS_AFTER_END",
    "E_TOOL_END_BEFORE_START", "E_DUPLICATE_TOOL_END", "E_CONTENT_FILTERED",
    "E_SDK_EXECUTION_OBSERVED", "E_PROVIDER_TOOL_ERROR",
    "E_PROVIDER_EVENT_IDENTITY_AMBIGUOUS", "E_PROVIDER_EVENT_MALFORMED" }

ASSUME SdkAssumption ==
  /\ SdkInputs \subseteq Inputs
  /\ SdkCodes \subseteq ProviderCodes
  /\ { "provider_error", "cancelled" } \subseteq Reasons
  /\ { MapSdkFinishReason(reason) : reason \in SdkFinishReasons } \subseteq Reasons

------------------------------------------------------------------------------
(* push() *)

InputStart(a, k) ==
  Step([ a EXCEPT !.started = @ \cup { k } ], << StartEvent(k, Absent, Absent) >>)

InputDelta(a, k, piece) ==
  Step(a, << CASE k \notin a.started -> DiagnosticEvent(k, "E_TOOL_ARGUMENTS_BEFORE_START")
               [] k \in a.started \cap a.ended ->
                    DiagnosticEvent(k, "E_TOOL_ARGUMENTS_AFTER_END")
               [] OTHER -> ArgumentsEvent(k, piece) >>)

InputEnd(a, k) ==
  CASE k \notin a.started -> Step(a, << DiagnosticEvent(k, "E_TOOL_END_BEFORE_START") >>)
    [] k \in a.started \cap a.ended ->
         Step(a, << DiagnosticEvent(k, "E_DUPLICATE_TOOL_END") >>)
    [] OTHER -> Step([ a EXCEPT !.ended = @ \cup { k } ], << EndEvent(k) >>)

\* Mutant of ToolRan: a result that names no call is dropped.
ToolRanNamedOnly(a, call, code) ==
  Step(a, IF call.name = "key" THEN << DiagnosticEvent(call.key, code) >> ELSE << >>)

\* The SDK ran a tool: against the call it names, or against all.
ToolRan(a, call, code) ==
  Step(a, << IF call.name = "key" THEN DiagnosticEvent(call.key, code)
             ELSE StreamDiagnosticEvent(code) >>)

SdkStreamEnd(a, reason) ==
  Step([ a EXCEPT !.finished = TRUE ],
       OnlyIf(reason = "content-filter", StreamDiagnosticEvent("E_CONTENT_FILTERED"))
         \o << StreamEndEvent(MapSdkFinishReason(reason)) >>)

\* The parts that carry an identity, once resolveIdentity() has returned; only
\* a result matters without one.
SdkCallPart(a, raw) ==
  CASE raw.kind = "tool_result" -> ToolRan(a, raw.call, "E_SDK_EXECUTION_OBSERVED")
    [] raw.kind = "tool_error"  -> ToolRan(a, raw.call, "E_PROVIDER_TOOL_ERROR")
    [] OTHER ->
         IF raw.call.name # "key" THEN Step(a, << >>)
         ELSE CASE raw.kind = "input_start" -> InputStart(a, raw.call.key)
                [] raw.kind = "input_delta" -> InputDelta(a, raw.call.key, raw.piece)
                [] raw.kind = "input_end"   -> InputEnd(a, raw.call.key)

\* resolveIdentity(): a conflict is reported, and then names no call.
SdkIdentityPart(a, raw) ==
  LET handled == SdkCallPart(a, raw)
  IN Step(handled.fields,
          OnlyIf(raw.call.name = "conflicting",
                 StreamDiagnosticEvent("E_PROVIDER_EVENT_IDENTITY_AMBIGUOUS"))
            \o handled.events)

SdkPush(a, raw) ==
  CASE raw.kind = "malformed" ->
         Step(a, << StreamDiagnosticEvent("E_PROVIDER_EVENT_MALFORMED") >>)
    [] raw.kind = "tool_call" -> Step(a, << >>)
    [] raw.kind = "finish"    -> SdkStreamEnd(a, raw.reason)
    [] raw.kind = "error"     -> SdkStreamEnd(a, "error")
    [] raw.kind = "abort" ->
         Step([ a EXCEPT !.finished = TRUE ], << StreamEndEvent("cancelled") >>)
    [] OTHER -> SdkIdentityPart(a, raw)

SdkFinish(a, reason) ==
  IF a.finished THEN Step(a, << >>)
  ELSE Step([ a EXCEPT !.finished = TRUE ],
            << StreamEndEvent(IF reason = Absent THEN "unknown" ELSE reason) >>)

------------------------------------------------------------------------------

\* What a part that names the call of k says while the stream goes on.
SdkCallSays(e, raw, k) ==
  CASE raw.kind = "input_start" ->
         IF k \in e.started THEN Spoiled(e, { k }) ELSE SawStart(e, k)
    [] raw.kind = "input_delta" ->
         IF k \notin e.started \/ e.ends[k] # << >> THEN Spoiled(e, { k })
         ELSE SawText(e, k, raw.piece)
    [] raw.kind = "input_end" ->
         IF k \notin e.started THEN Spoiled(e, { k }) ELSE SawEnd(e, k, "end")
    [] raw.kind \in { "tool_result", "tool_error" } ->
         IF k \in e.started THEN Spoiled(e, { k }) ELSE e

\* A part without an identity is nothing, unless it says that a tool ran.
SdkIdentityShown(e, raw) ==
  CASE raw.call.name = "conflicting" -> SawFault(e)
    [] raw.call.name = "missing" ->
         IF raw.kind \in { "tool_result", "tool_error" } THEN SawFault(e) ELSE e
    [] raw.call.name = "key" ->
         IF Over(e) THEN SawFault(e) ELSE SdkCallSays(e, raw, raw.call.key)

SdkShown(e, raw) ==
  CASE raw.kind = "tool_call" -> e
    [] raw.kind \in { "error", "abort" } -> SawFault(e)
    [] raw.kind = "malformed" -> IF Over(e) THEN SawFault(e) ELSE e
    [] raw.kind = "finish" ->
         IF Over(e) THEN SawFault(e) ELSE SawEnd(e, Message, raw.reason)
    [] OTHER -> SdkIdentityShown(e, raw)

SdkEvent ==
  /\ adapter.provider = "ai-sdk"
  /\ \E raw \in SdkRawEvents : RawEvent(SdkPush(adapter, raw), SdkShown(evidence, raw))

SdkGuardFinish ==
  /\ adapter.provider = "ai-sdk"
  /\ \E reason \in CallerReasons : FinishAdapter(SdkFinish(adapter, reason), reason)

SdkNext == SdkEvent \/ SdkGuardFinish

\* The guard of one AI SDK stream.
SdkSpec ==
  /\ GuardInit /\ adapter = NewAiSdk
  /\ [][GuardNext \/ SdkNext]_guardVars

\* The input of the call of k started, came whole and ended once, in this order,
\* nothing says that the SDK may have run it since it started or an unknown call
\* at any time, and the stream's one end, or else the caller, says that it is
\* complete, with no part that matters after it.
SdkClean(k) ==
  /\ k \in evidence.started
  /\ ~evidence.fault /\ k \notin evidence.spoiled
  /\ evidence.text[k] = "closed" /\ evidence.ends[k] = << "end" >>
  /\ \/ evidence.ends[Message] \in { << "stop" >>, << "tool-calls" >> }
     \/ evidence.ends[Message] = << >> /\ evidence.caller = "complete"

\* When the guard has finished, a call may run exactly if all that the stream said
\* of it is clean.
SdkExecutesClean ==
  adapter.provider = "ai-sdk" /\ Settled =>
    \A k \in SourceKeys : Executable(k) <=> SdkClean(k)
================================================================================
