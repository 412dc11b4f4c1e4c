----------------------------- MODULE OpenAIAdapter -----------------------------
(***************************************************************************)
(* OpenAIStreamAdapter (providers/openai.ts): Chat Completions with plural *)
(* tool_calls, handed to an OpenAI-compatible adapter, or with one legacy  *)
(* function_call per choice, whose key is that of the choice; and the      *)
(* Responses API, whose output items are keyed as places in choice 0.      *)
(***************************************************************************)
EXTENDS OpenAICompatibleAdapter

CONSTANT IncompleteReasons  \* incomplete_details.reason strings in use

Items == KeysOf(0)

\* A stream comes from one of the two APIs; push() tells by each event's type.
NewOpenAI(api) ==
  [ provider       |-> "openai",
    api            |-> api,                 \* "chat" or "responses"
    finished       |-> FALSE,
    compatible     |-> NewCompatible,
    plural         |-> FALSE,               \* hasCompatibleToolCalls
    legacy         |-> FALSE,               \* hasLegacyFunctionCall
    legacyKnown    |-> {},                  \* the keys of legacyChoiceOpen
    legacyOpen     |-> {},                  \* those that map to true
    legacyTerminal |-> [ c \in ChoiceIndices |-> "none" ],
    accumulated    |-> [ k \in SourceKeys |-> "empty" ],  \* accumulatedArguments
    received       |-> {},                  \* receivedDeltas
    done           |-> {},                  \* doneOutputItemIds
    ids            |-> NoTracker ]          \* responsesToolCallIds

\* The bound leaves out of plural chunks what only the compatible adapter sees:
\* ids, a second call of a choice and doubled choices of other shapes.
ChatRawEvents ==
  { raw \in CompatibleRawEvents :
      /\ raw.kind = "duplicate_choice" => raw.keys = { << 0, 0 >> }
      /\ raw.kind = "tool_call" => raw.id = Absent /\ raw.key[2] = 0 }
    \cup UNION { [ kind : { "mixed", "legacy_invalid" } ],
                 [ kind : { "legacy_duplicate" }, choice : ChoiceIndices ],
                 [ kind : { "legacy_call" }, choice : ChoiceIndices, renamed : BOOLEAN,
                   piece : ArgumentPieces \cup { "none" } ] }

ResponsesRawEvents ==
  UNION { [ kind : { "malformed", "error", "completed", "failed" } ],
          [ kind : { "item_added" }, key : Items, id : ToolCallIds \cup { Absent } ],
          [ kind : { "item_delta" }, key : Items, piece : ArgumentPieces ],
          [ kind : { "arguments_done" }, key : Items,
            piece : ArgumentPieces \cup { "none" } ],
          [ kind : { "item_done" }, key : Items ],
          [ kind : { "incomplete" }, reason : IncompleteReasons ] }

------------------------------------------------------------------------------
(* push() of Chat Completions chunks *)

HasPluralEvidence(raw) ==
  raw.kind \in { "tool_call", "invalid_tool", "invalid_choice", "duplicate_choice", "mixed" }
HasLegacyEvidence(raw) ==
  raw.kind \in { "legacy_call", "legacy_invalid", "legacy_duplicate", "mixed" }

\* Mutant of MixesFormats: plural evidence after a legacy call is let through.
MixesFormatsOneWay(a, raw) ==
  (HasPluralEvidence(raw) /\ HasLegacyEvidence(raw)) \/ (HasLegacyEvidence(raw) /\ a.plural)

MixesFormats(a, raw) ==
  \/ HasPluralEvidence(raw) /\ (HasLegacyEvidence(raw) \/ a.legacy)
  \/ HasLegacyEvidence(raw) /\ a.plural

MapLegacyFinishReason(reason) ==
  IF reason = "function_call" THEN "complete" ELSE MapFinishReason(reason)

LegacyCall(a, c, renamed, piece) ==
  LET k == Choice(c) IN
  IF c \in a.legacyKnown \ a.legacyOpen
  THEN Step(a, << DiagnosticEvent(k, "E_TOOL_ARGUMENTS_AFTER_END") >>)
  ELSE Step([ a EXCEPT !.legacy = TRUE, !.legacyKnown = @ \cup { c },
                       !.legacyOpen = @ \cup { c } ],
            (IF c \notin a.legacyKnown THEN << StartEvent(k, Absent, Absent) >>
             ELSE OnlyIf(renamed, NameEvent(k)))
            \o OnlyIf(piece # "none", ArgumentsEvent(k, piece)))

LegacyTerminal(a, c, reason) ==
  LET again == << DiagnosticEvent(Choice(c), "E_DUPLICATE_TOOL_END") >> IN
  CASE a.legacyTerminal[c] # "none" -> Step(a, again)
    [] a.legacyTerminal[c] = "none" /\ a.finished ->
         Step(a, IF c \in a.legacyKnown THEN again ELSE << >>)
    [] OTHER ->
         Step([ a EXCEPT !.legacyTerminal[c] = MapLegacyFinishReason(reason),
                         !.legacyOpen = @ \ { c } ],
              OnlyIf(c \in a.legacyOpen, EndEvent(Choice(c))))

LegacyPush(a, raw) ==
  CASE raw.kind = "legacy_invalid" ->
         Step(a, << StreamDiagnosticEvent("E_CHOICE_INDEX_INVALID") >>)
    [] raw.kind = "legacy_duplicate" ->
         Step(a, << DiagnosticEvent(Choice(raw.choice), "E_CHOICE_INDEX_DUPLICATE") >>)
    [] raw.kind = "legacy_call" -> LegacyCall(a, raw.choice, raw.renamed, raw.piece)
    [] raw.kind = "terminal"    -> LegacyTerminal(a, raw.choice, raw.reason)

\* A stream that has shown plural tool_calls goes to the compatible adapter for
\* good; before that, a finish_reason is taken by the legacy path.
ChatPush(a, raw) ==
  LET delegated == CompatiblePush(a.compatible, raw) IN
  CASE MixesFormats(a, raw) ->
         Step([ a EXCEPT !.finished = TRUE ], << StreamEndEvent("provider_error") >>)
    [] ~MixesFormats(a, raw) /\ (HasPluralEvidence(raw) \/ a.plural) ->
         Step([ a EXCEPT !.plural = TRUE, !.compatible = delegated.fields ],
              delegated.events)
    [] OTHER -> LegacyPush(a, raw)

------------------------------------------------------------------------------
(* push() of Responses events *)

ItemAdded(a, k, id) ==
  Step([ a EXCEPT !.ids = Observed(@, id, k) ],
       << StartEvent(k, id, Absent) >> \o IdDiagnostics(a.ids, id, k))

ItemDelta(a, k, piece) ==
  IF k \in a.done THEN Step(a, << DiagnosticEvent(k, "E_TOOL_ARGUMENTS_AFTER_END") >>)
  ELSE Step([ a EXCEPT !.received = @ \cup { k }, !.accumulated[k] = Fed(@, piece) ],
            << ArgumentsEvent(k, piece) >>)

\* The full text repeats the deltas, or stands in for them. Texts are compared
\* by what they parse to.
ArgumentsDone(a, k, piece) ==
  LET text == IF piece = "none" THEN "empty" ELSE Fed("empty", piece) IN
  CASE k \in a.done -> Step(a, << DiagnosticEvent(k, "E_TOOL_ARGUMENTS_AFTER_END") >>)
    [] k \in a.received \ a.done ->
         Step(a, OnlyIf(text # a.accumulated[k],
                        DiagnosticEvent(k, "E_FINAL_ARGUMENTS_CONFLICT")))
    [] OTHER ->
         IF piece = "none" THEN Step(a, << >>)
         ELSE Step([ a EXCEPT !.accumulated[k] = text ], << ArgumentsEvent(k, piece) >>)

MapIncompleteReason(reason) ==
  CASE reason = "max_output_tokens" -> "length"
    [] reason = "content_filter"    -> "cancelled"
    [] OTHER                        -> "unknown"

ResponsesEnd(a, reason) ==
  Step([ a EXCEPT !.finished = TRUE ], << StreamEndEvent(reason) >>)

ResponsesPush(a, raw) ==
  CASE raw.kind = "failed"         -> ResponsesEnd(a, "provider_error")
    [] raw.kind = "item_added"     -> ItemAdded(a, raw.key, raw.id)
    [] raw.kind = "item_delta"     -> ItemDelta(a, raw.key, raw.piece)
    [] raw.kind = "arguments_done" -> ArgumentsDone(a, raw.key, raw.piece)
    [] raw.kind = "item_done" ->
         Step([ a EXCEPT !.done = @ \cup { raw.key } ], << EndEvent(raw.key) >>)
    [] raw.kind = "completed"      -> ResponsesEnd(a, "complete")
    [] raw.kind = "incomplete" ->
         LET end == ResponsesEnd(a, MapIncompleteReason(raw.reason))
         IN Step(end.fields, OnlyIf(raw.reason = "content_filter",
                                    StreamDiagnosticEvent("E_CONTENT_FILTERED"))
                               \o end.events)

------------------------------------------------------------------------------

OpenAIPush(a, raw) ==
  CASE raw.kind = "malformed" ->
         Step(a, << StreamDiagnosticEvent("E_PROVIDER_EVENT_MALFORMED") >>)
    [] raw.kind = "error" ->
         Step([ a EXCEPT !.finished = TRUE ],
              << StreamDiagnosticEvent("E_PROVIDER_ERROR"),
                 StreamEndEvent("provider_error") >>)
    [] OTHER -> IF a.api = "chat" THEN ChatPush(a, raw) ELSE ResponsesPush(a, raw)

OpenAIFinish(a, callerReason) ==
  LET closing == CompatibleFinish(a.compatible, callerReason)
      ended   == [ a EXCEPT !.finished = TRUE, !.compatible = closing.fields ]
      reasons == ({ a.legacyTerminal[c] : c \in ChoiceIndices } \ { "none" })
                   \cup ({ callerReason } \ { Absent })
  IN CASE a.finished -> Step(a, << >>)
       [] ~a.finished /\ ~a.legacy -> Step(ended, closing.events)
       [] ~a.finished /\ a.legacy ->
            Step([ ended EXCEPT !.legacyOpen = {} ],
                 ForEach({ Choice(c) : c \in a.legacyOpen }, EndEvent)
                   \o << StreamEndEvent(WorstReason(reasons)) >>)

------------------------------------------------------------------------------
(* What the raw events say *)

\* The format of the calls seen so far.
SpeaksPlural(e) == e.started \cap Places # {}
SpeaksLegacy(e) == e.started \ Places # {}

\* A finish_reason before any tool call of the stream leaves a mark on the
\* message: a stream that turns out plural has forgotten it by then.
ChatTerminalShown(e, c, reason) ==
  LET shown == SawEnd(e, Choice(c), reason) IN
  CASE SpeaksPlural(e) -> IF phase = "finished" THEN SawFault(e) ELSE shown
    [] ~SpeaksPlural(e) /\ phase = "finished" ->
         IF Choice(c) \in e.started \/ e.ends[Choice(c)] # << >> THEN SawFault(e) ELSE e
    [] OTHER -> IF SpeaksLegacy(e)
                THEN [ shown EXCEPT !.closed = @ \cup ({ Choice(c) } \cap e.started) ]
                ELSE Spoiled(shown, { Message })

LegacyCallShown(e, k, piece) ==
  IF k \in e.closed THEN Spoiled(e, { k })
  ELSE SawText(SawStart(e, k), k, piece)

ChatShown(e, raw) ==
  CASE raw.kind = "terminal" -> ChatTerminalShown(e, raw.choice, raw.reason)
    [] \/ phase = "finished" \/ raw.kind \in { "mixed", "legacy_invalid" }
       \/ HasPluralEvidence(raw) /\ SpeaksLegacy(e)
       \/ HasLegacyEvidence(raw) /\ adapter.plural -> SawFault(e)
    [] raw.kind = "legacy_duplicate" -> Spoiled(e, { Choice(raw.choice) })
    [] raw.kind = "legacy_call" -> LegacyCallShown(e, Choice(raw.choice), raw.piece)
    [] OTHER -> CompatibleShown(e, raw)

ArgumentsDoneShown(e, k, piece) ==
  CASE e.ends[k] # << >> -> Spoiled(e, { k })
    [] e.ends[k] = << >> /\ k \in e.pieces ->
         IF piece # "none" /\ Fed("empty", piece) = e.text[k] THEN e ELSE Spoiled(e, { k })
    [] OTHER -> SawText(e, k, piece)

ResponsesShown(e, raw) ==
  CASE Over(e) \/ raw.kind \in { "failed", "error" } -> SawFault(e)
    [] raw.kind = "item_added" ->
         SawId(IF raw.key \in e.started THEN Spoiled(e, { raw.key })
               ELSE SawStart(e, raw.key), raw.key, raw.id)
    [] raw.kind = "item_delta" ->
         IF e.ends[raw.key] # << >> THEN Spoiled(e, { raw.key })
         ELSE SawText([ e EXCEPT !.pieces = @ \cup { raw.key } ], raw.key, raw.piece)
    [] raw.kind = "arguments_done" -> ArgumentsDoneShown(e, raw.key, raw.piece)
    [] raw.kind = "item_done"  -> SawEnd(e, raw.key, "done")
    [] raw.kind = "completed"  -> SawEnd(e, Message, "completed")
    [] raw.kind = "incomplete" -> SawEnd(e, Message, raw.reason)
    [] raw.kind = "malformed"  -> e

OpenAIChatEvent ==
  /\ adapter.provider = "openai" /\ adapter.api = "chat"
  /\ \E raw \in ChatRawEvents :
       RawEvent(OpenAIPush(adapter, raw), ChatShown(evidence, raw))

\* The text of an item follows the event that adds it, and its full text does
\* not follow the end of the response.
OpenAIResponsesEvent ==
  /\ adapter.provider = "openai" /\ adapter.api = "responses"
  /\ \E raw \in ResponsesRawEvents :
       /\ raw.kind \in { "item_delta", "arguments_done" } => raw.key \in evidence.started
       /\ raw.kind = "arguments_done" => ~Over(evidence)
       /\ RawEvent(OpenAIPush(adapter, raw), ResponsesShown(evidence, raw))

OpenAIGuardFinish ==
  /\ adapter.provider = "openai"
  /\ \E reason \in CallerReasons :
       FinishAdapter(OpenAIFinish(adapter, reason), reason)

OpenAINext == OpenAIChatEvent \/ OpenAIResponsesEvent \/ OpenAIGuardFinish

------------------------------------------------------------------------------
(* Properties *)

\* One function call of a choice; of a repeated end, the first counts for the
\* stream, and the choice's own call is refused.
LegacyClean(k) ==
  LET firsts == { evidence.ends[Choice(c)][1] :
                    c \in { d \in ChoiceIndices : evidence.ends[Choice(d)] # << >> } }
  IN /\ ~evidence.fault /\ k \notin evidence.spoiled
     /\ evidence.text[k] = "closed" /\ Len(evidence.ends[k]) <= 1
     /\ firsts \subseteq { "stop", "function_call", "tool_calls" }
     /\ evidence.caller \in { Absent, "complete" }
     /\ evidence.caller = "complete" \/ firsts # {}

ItemClean(k) ==
  /\ ~evidence.fault /\ k \notin evidence.spoiled
  /\ k \in evidence.started
  /\ evidence.text[k] = "closed" /\ evidence.ends[k] # << >>
  /\ OwnId(k, Items)
  /\ \/ evidence.ends[Message] = << "completed" >>
     \/ evidence.ends[Message] = << >> /\ evidence.caller = "complete"

\* A call runs exactly if the raw stream speaks for it, in the terms of its own
\* API and format; two formats in one stream refuse every call of it, also of
\* the format that came first. (A plural stream in which a choice ended before
\* any tool call came is left to ForgottenEndCounts.)
OpenAIExecutesClean ==
  adapter.provider = "openai" /\ Settled =>
    \A k \in SourceKeys :
      CASE adapter.api = "responses" -> Executable(k) <=> k \in Items /\ ItemClean(k)
        [] adapter.api = "chat" /\ k \in Places ->
             Message \notin evidence.spoiled =>
               (Executable(k) <=> ChoiceClean(k, { "stop", "tool_calls" }))
        [] OTHER ->
             Executable(k) <=> k \in evidence.started /\ LegacyClean(k)

\* src/providers/openai-compatible.ts: "complete" only if every choice's own
\* reason was "complete". A choice that ended short refuses every call.
ForgottenEndCounts ==
  Settled /\ adapter.provider = "openai" =>
    \A k \in SourceKeys : Executable(k) =>
      \A c \in ChoiceIndices : evidence.ends[Choice(c)] # << "length" >>
================================================================================
