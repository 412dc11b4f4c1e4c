--------------------------- MODULE AnthropicAdapter ---------------------------
(***************************************************************************)
(* AnthropicStreamAdapter (providers/anthropic.ts): one message whose      *)
(* content blocks start and stop each on their own; a stop_reason closes   *)
(* the content, and only message_stop ends the stream.  The key of a block *)
(* is its place in choice 0.                                               *)
(***************************************************************************)
EXTENDS ProviderGuard

CONSTANTS
  StopReasons,  \* the stop_reason strings in use
  InputBlocks   \* the blocks that may have input and stop; the others only start

Blocks == KeysOf(0)

NewAnthropic ==
  [ provider   |-> "anthropic",
    finished   |-> FALSE,
    terminal   |-> "none",     \* terminalReason
    ids        |-> NoTracker,  \* toolCallIds
    terminated |-> {} ]        \* terminatedBlockIndices

AnthropicRawEvents ==
  UNION { [ kind : { "malformed", "message_stop", "error", "text_block_start" } ],
          [ kind : { "tool_block_start" }, key : Blocks, id : ToolCallIds ],
          [ kind : { "block_delta" }, key : InputBlocks, piece : ArgumentPieces ],
          [ kind : { "block_stop" }, key : InputBlocks ],
          [ kind : { "stop_reason" }, reason : StopReasons ] }

ContentBlockKinds ==
  { "text_block_start", "tool_block_start", "block_delta", "block_stop" }

MapStopReason(reason) ==
  CASE reason \in { "end_turn", "tool_use" } -> "complete"
    [] reason = "max_tokens" -> "length"
    [] OTHER -> "unknown"

\* The codes of the diagnostics that this adapter raises.
AnthropicCodes ==
  { "E_TOOL_ARGUMENTS_AFTER_END", "E_DUPLICATE_TOOL_END", "E_DUPLICATE_MESSAGE_TERMINAL",
    "E_PROVIDER_EVENT_MALFORMED", "E_MESSAGE_CONTENT_AFTER_STOP_REASON",
    "E_DUPLICATE_TOOL_CALL_ID" }

ASSUME AnthropicAssumption ==
  /\ 0 \in ChoiceIndices
  /\ InputBlocks \subseteq Blocks
  /\ AnthropicCodes \subseteq ProviderCodes
  /\ "provider_error" \in Reasons
  /\ { MapStopReason(reason) : reason \in StopReasons } \subseteq Reasons

------------------------------------------------------------------------------
(* push() *)

ToolBlockStart(a, k, id) ==
  Step([ a EXCEPT !.ids = Observed(@, id, k) ],
       << StartEvent(k, id, Absent) >> \o IdDiagnostics(a.ids, id, k))

BlockDelta(a, k, piece) ==
  Step(a, << IF k \in a.terminated
             THEN DiagnosticEvent(k, "E_TOOL_ARGUMENTS_AFTER_END")
             ELSE ArgumentsEvent(k, piece) >>)

BlockStop(a, k) ==
  IF k \in a.terminated
  THEN Step(a, << DiagnosticEvent(k, "E_DUPLICATE_TOOL_END") >>)
  ELSE Step([ a EXCEPT !.terminated = @ \cup { k } ], << EndEvent(k) >>)

\* stop_reason is only remembered: message_stop confirms it.
StopReason(a, reason) ==
  IF a.finished THEN Step(a, << StreamEndEvent(MapStopReason(reason)) >>)
  ELSE IF a.terminal # "none"
  THEN Step(a, << StreamDiagnosticEvent("E_DUPLICATE_MESSAGE_TERMINAL") >>)
  ELSE Step([ a EXCEPT !.terminal = MapStopReason(reason) ], << >>)

MessageStop(a) ==
  Step([ a EXCEPT !.finished = TRUE ],
       << StreamEndEvent(IF a.terminal = "none" THEN "unknown" ELSE a.terminal) >>)

\* Content after the stop_reason disqualifies the whole stream.
AnthropicContentAfterStop(a, raw) ==
  OnlyIf(a.terminal # "none" /\ ~a.finished /\ raw.kind \in ContentBlockKinds,
         StreamDiagnosticEvent("E_MESSAGE_CONTENT_AFTER_STOP_REASON"))

\* The switch over the type of the event.
AnthropicHandled(a, raw) ==
  CASE raw.kind = "malformed" ->
         Step(a, << StreamDiagnosticEvent("E_PROVIDER_EVENT_MALFORMED") >>)
    [] raw.kind = "text_block_start" -> Step(a, << >>)
    [] raw.kind = "tool_block_start" -> ToolBlockStart(a, raw.key, raw.id)
    [] raw.kind = "block_delta"      -> BlockDelta(a, raw.key, raw.piece)
    [] raw.kind = "block_stop"       -> BlockStop(a, raw.key)
    [] raw.kind = "stop_reason"      -> StopReason(a, raw.reason)
    [] raw.kind = "message_stop"     -> MessageStop(a)
    [] raw.kind = "error" ->
         Step([ a EXCEPT !.finished = TRUE ], << StreamEndEvent("provider_error") >>)

AnthropicPush(a, raw) ==
  LET handled == AnthropicHandled(a, raw)
  IN Step(handled.fields, AnthropicContentAfterStop(a, raw) \o handled.events)

\* Mutant of AnthropicFinish: the caller's word stands for message_stop.
AnthropicFinishTrusting(a, reason) ==
  IF a.finished THEN Step(a, << >>)
  ELSE Step([ a EXCEPT !.finished = TRUE ],
            << StreamEndEvent(CASE reason # Absent -> reason
                                [] reason = Absent /\ a.terminal # "none" -> a.terminal
                                [] OTHER -> "unknown") >>)

\* The caller cannot invent a missing message_stop.
AnthropicFinish(a, reason) ==
  LET observed == IF reason # Absent THEN reason
                  ELSE IF a.terminal # "none" THEN a.terminal ELSE "unknown"
  IN IF a.finished THEN Step(a, << >>)
     ELSE Step([ a EXCEPT !.finished = TRUE ],
               << StreamEndEvent(IF observed = "complete" THEN "unknown" ELSE observed) >>)

------------------------------------------------------------------------------

\* What a raw event says while the message goes on.
AnthropicSays(e, raw) ==
  CASE raw.kind \in { "malformed", "text_block_start" } -> e
    [] raw.kind = "tool_block_start" ->
         IF raw.key \in e.started THEN SawId(Spoiled(e, { raw.key }), raw.key, raw.id)
         ELSE SawId(SawStart(e, raw.key), raw.key, raw.id)
    [] raw.kind = "block_delta" ->
         IF e.ends[raw.key] # << >> THEN Spoiled(e, { raw.key })
         ELSE IF raw.key \in e.started THEN SawText(e, raw.key, raw.piece) ELSE e
    [] raw.kind = "block_stop"   -> SawEnd(e, raw.key, "stop")
    [] raw.kind = "stop_reason"  -> SawEnd(e, Choice(0), raw.reason)
    [] raw.kind = "message_stop" -> SawEnd(e, Message, "stop")
    [] raw.kind = "error"        -> SawFault(e)

\* Anything but a text block is a fault once the message is over.
AnthropicShown(e, raw) ==
  IF Over(e) THEN IF raw.kind = "text_block_start" THEN e ELSE SawFault(e)
  ELSE LET says == AnthropicSays(e, raw)
       IN IF raw.kind \in ContentBlockKinds /\ e.ends[Choice(0)] # << >>
          THEN Spoiled(says, { Message }) ELSE says

AnthropicEvent ==
  /\ adapter.provider = "anthropic"
  /\ \E raw \in AnthropicRawEvents :
       RawEvent(AnthropicPush(adapter, raw), AnthropicShown(evidence, raw))

AnthropicGuardFinish ==
  /\ adapter.provider = "anthropic"
  /\ \E reason \in CallerReasons :
       FinishAdapter(AnthropicFinish(adapter, reason), reason)

AnthropicNext == AnthropicEvent \/ AnthropicGuardFinish

\* The guard of one Anthropic stream.
AnthropicSpec ==
  /\ GuardInit /\ adapter = NewAnthropic
  /\ [][GuardNext \/ AnthropicNext]_guardVars

\* The block of k started once, its whole input came before its one stop, its id is
\* its own, all content came before the one successful stop_reason, and the
\* provider, not the caller, ended the message last.
AnthropicClean(k) ==
  /\ k \in evidence.started
  /\ ~evidence.fault /\ evidence.spoiled \cap { k, Message } = {}
  /\ evidence.text[k] = "closed" /\ evidence.ends[k] = << "stop" >>
  /\ OwnId(k, Blocks)
  /\ evidence.ends[Choice(0)] \in { << "end_turn" >>, << "tool_use" >> }
  /\ evidence.ends[Message] = << "stop" >>

\* When the guard has finished, a tool block may run exactly if all that the stream
\* said of it is clean.
AnthropicExecutesClean ==
  adapter.provider = "anthropic" /\ Settled =>
    \A k \in SourceKeys : Executable(k) <=> AnthropicClean(k)
================================================================================
