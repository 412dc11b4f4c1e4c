------------------------ MODULE OpenAICompatibleAdapter ------------------------
(***************************************************************************)
(* OpenAICompatibleStreamAdapter (providers/openai-compatible.ts): chunks  *)
(* of several choices, each with its own tool calls and its own            *)
(* finish_reason.  A source key is a pair << choice index, tool index >>.  *)
(* A chunk is taken apart into raw events with one entry each: push()      *)
(* handles the entries one after another, and looks for an earlier         *)
(* finish_reason before either part of an entry.                           *)
(***************************************************************************)
EXTENDS ProviderGuard

CONSTANT FinishReasons  \* the providers' finish_reason strings in use

NewCompatible ==
  [ provider |-> "openai-compatible",
    open     |-> {},                                     \* openSourceKeysByChoice
    known    |-> {},                                     \* allSourceKeysByChoice
    terminal |-> [ c \in ChoiceIndices |-> "none" ],     \* choiceTerminalReasons
    violated |-> FALSE,                                  \* choiceTerminalProtocolViolation
    ids      |-> [ c \in ChoiceIndices |-> NoTracker ],  \* toolCallIdsByChoice
    finished |-> FALSE ]

MapFinishReason(providerReason) ==
  CASE providerReason \in { "stop", "tool_calls" } -> "complete"
    [] providerReason \in { "length", "cancelled" } -> providerReason
    [] OTHER -> "unknown"

CompatibleRawEvents ==
  UNION { [ kind : { "malformed", "error", "invalid_choice", "invalid_tool" } ],
          [ kind : { "tool_call" }, key : Places,
            id : ToolCallIds \cup { Absent }, piece : ArgumentPieces \cup { "none" } ],
          [ kind : { "terminal" }, choice : ChoiceIndices, reason : FinishReasons ],
          [ kind : { "duplicate_choice" },
            keys : UNION { SUBSET KeysOf(c) : c \in ChoiceIndices } ] }

------------------------------------------------------------------------------
(* push() *)

\* Mutant of LateToolCall: only the call that the late entry names is spoiled.
LateToolCallOnlyNamed(a, k) ==
  Step(a, << DiagnosticEvent(k, "E_TOOL_ARGUMENTS_AFTER_END") >>)

\* A tool call of a choice that has finished spoils all that the choice started.
LateToolCall(a, k) ==
  LET known == a.known \cap KeysOf(k[1])
  IN Step(a, ForEach(IF known = {} THEN { k } ELSE known,
                     LAMBDA j : DiagnosticEvent(j, "E_TOOL_ARGUMENTS_AFTER_END")))

ToolCall(a, k, id, piece) ==
  LET c == k[1] IN
  Step([ a EXCEPT !.open = @ \cup { k }, !.known = @ \cup { k },
                  !.ids[c] = Observed(@, id, k) ],
       (IF k \notin a.known THEN << StartEvent(k, id, Absent) >>
        ELSE OnlyIf(id # Absent, IdentityEvent(k, id, Absent)))
       \o IdDiagnostics(a.ids[c], id, k)
       \o OnlyIf(piece # "none", ArgumentsEvent(k, piece)))

SecondTerminal(a) ==
  Step([ a EXCEPT !.violated = TRUE ],
       << StreamDiagnosticEvent("E_CHOICE_TERMINAL_PROTOCOL_VIOLATION") >>)

\* finish_reason ends the open calls of its own choice, never the stream.
FirstTerminal(a, c, providerReason) ==
  LET own == a.open \cap KeysOf(c)
  IN Step([ a EXCEPT !.terminal[c] = MapFinishReason(providerReason),
                     !.open = @ \ own ],
          ForEach(own, EndEvent))

DuplicateChoice(a, keys) ==
  Step(a, IF keys = {} THEN << StreamDiagnosticEvent("E_CHOICE_INDEX_DUPLICATE") >>
          ELSE ForEach(keys, LAMBDA k : DiagnosticEvent(k, "E_CHOICE_INDEX_DUPLICATE")))

\* aggregateTermination()
AggregateTermination(a, callerReason) ==
  IF a.violated THEN "provider_error"
  ELSE WorstReason(({ a.terminal[c] : c \in ChoiceIndices } \ { "none" })
                     \cup ({ callerReason } \ { Absent }))

CompatibleFinish(a, callerReason) ==
  IF a.finished THEN Step(a, << >>)
  ELSE Step([ a EXCEPT !.finished = TRUE, !.open = {} ],
            ForEach(a.open, EndEvent)
              \o << StreamEndEvent(AggregateTermination(a, callerReason)) >>)

CompatibleError(a) ==
  LET closing == CompatibleFinish(a, "provider_error")
  IN Step(closing.fields, << StreamDiagnosticEvent("E_PROVIDER_ERROR") >> \o closing.events)

CompatiblePush(a, raw) ==
  IF a.finished THEN Step(a, << StreamDiagnosticEvent("W_EVENT_AFTER_STREAM_END") >>)
  ELSE CASE raw.kind \in { "malformed", "invalid_tool" } ->
              Step(a, << StreamDiagnosticEvent("E_PROVIDER_EVENT_MALFORMED") >>)
         [] raw.kind = "error" -> CompatibleError(a)
         [] raw.kind = "invalid_choice" ->
              Step(a, << StreamDiagnosticEvent("E_CHOICE_INDEX_INVALID") >>)
         [] raw.kind = "duplicate_choice" -> DuplicateChoice(a, raw.keys)
         [] raw.kind = "tool_call" ->
              IF a.terminal[raw.key[1]] # "none" THEN LateToolCall(a, raw.key)
              ELSE ToolCall(a, raw.key, raw.id, raw.piece)
         [] raw.kind = "terminal" ->
              IF a.terminal[raw.choice] # "none" THEN SecondTerminal(a)
              ELSE FirstTerminal(a, raw.choice, raw.reason)

------------------------------------------------------------------------------

\* What such a raw event says.
CompatibleShown(e, raw) ==
  CASE phase = "finished" -> SawFault(e)
    [] raw.kind \in { "malformed", "invalid_tool" } -> e
    [] raw.kind \in { "error", "invalid_choice" } -> SawFault(e)
    [] raw.kind = "duplicate_choice" ->
         IF raw.keys = {} THEN SawFault(e) ELSE Spoiled(e, raw.keys)
    [] raw.kind = "tool_call" ->
         IF e.ends[Choice(raw.key[1])] # << >> THEN Spoiled(e, KeysOf(raw.key[1]))
         ELSE SawText(SawId(SawStart(e, raw.key), raw.key, raw.id), raw.key, raw.piece)
    [] raw.kind = "terminal" -> SawEnd(e, Choice(raw.choice), raw.reason)

CompatibleEvent ==
  /\ adapter.provider = "openai-compatible"
  /\ \E raw \in CompatibleRawEvents :
       RawEvent(CompatiblePush(adapter, raw), CompatibleShown(evidence, raw))

CompatibleGuardFinish ==
  /\ adapter.provider = "openai-compatible"
  /\ \E reason \in CallerReasons :
       FinishAdapter(CompatibleFinish(adapter, reason), reason)

CompatibleNext == CompatibleEvent \/ CompatibleGuardFinish

------------------------------------------------------------------------------
(* Properties *)

\* Some choice or the caller reports the end of the stream, and all of them
\* report a success, where one that ends twice reports none.
EndedWell(successes) ==
  LET ends == { evidence.ends[Choice(c)] : c \in ChoiceIndices }
  IN /\ ends \subseteq { << >> } \cup { << r >> : r \in successes }
     /\ evidence.caller \in { Absent, "complete" }
     /\ evidence.caller = "complete" \/ ends # { << >> }

\* What the raw stream must say for the call of k to run: its whole text, an id
\* of its own, no disorder in its choice, no fault, and a good end.
ChoiceClean(k, successes) ==
  /\ ~evidence.fault /\ k \notin evidence.spoiled
  /\ evidence.text[k] = "closed"
  /\ OwnId(k, KeysOf(k[1]))
  /\ EndedWell(successes)

\* When the guard has finished, it executes a call exactly if the raw stream
\* speaks for it: a choice that goes on after its end or reuses an id costs its
\* own calls, an error or an end that is repeated costs all, in every order.
CompatibleExecutesClean ==
  adapter.provider = "openai-compatible" /\ Settled =>
    \A k \in SourceKeys :
      Executable(k) <=> k \in Places /\ ChoiceClean(k, { "stop", "tool_calls" })

\* test/providers/openai-compatible-choice-lifecycle.test.ts: a call does not
\* execute before its own choice ended (or the caller confirmed the end).
UnfinishedChoiceNeverExecutes ==
  Settled /\ evidence.caller = Absent =>
    \A k \in Places : Executable(k) => evidence.ends[Choice(k[1])] # << >>
================================================================================
