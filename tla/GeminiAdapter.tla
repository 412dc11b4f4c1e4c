----------------------------- MODULE GeminiAdapter -----------------------------
(***************************************************************************)
(* GeminiStreamAdapter (providers/gemini.ts): candidates that deliver      *)
(* whole function calls.  A call is named by its candidate and its id, or  *)
(* by how many calls without an id the candidate had before; the candidate *)
(* itself is a key that no call ever has.  The arguments are a projection  *)
(* of an object, never the provider's own text.                            *)
(***************************************************************************)
EXTENDS ProviderGuard

CONSTANT CandidateFinishReasons  \* the finishReason strings in use

NewGemini ==
  [ provider |-> "gemini",
    finished |-> FALSE,
    terminal |-> [ c \in ChoiceIndices |-> "none" ],  \* candidateTerminalReasons
    known    |-> {},                                  \* candidateSourceKeys
    counters |-> [ c \in ChoiceIndices |-> 0 ] ]      \* noIdFunctionCallCounters

\* args: undefined, an object that JSON.stringify() refuses, or a whole object.
GeminiRawEvents ==
  UNION { [ kind : { "malformed", "invalid_candidate" } ],
          [ kind : { "duplicate_candidate" }, candidate : ChoiceIndices ],
          [ kind : { "function_call" }, candidate : ChoiceIndices,
            id : ToolCallIds \cup { Absent }, args : { "none", "failed", "whole" } ],
          [ kind : { "finish" }, candidate : ChoiceIndices,
            reason : CandidateFinishReasons ] }

MapCandidateFinishReason(reason) ==
  CASE reason = "STOP"       -> "complete"
    [] reason = "MAX_TOKENS" -> "length"
    [] reason \in { "SAFETY", "RECITATION", "OTHER" } -> "cancelled"
    [] OTHER -> "unknown"

------------------------------------------------------------------------------
(* push() *)

\* callSourceKey()
CallSourceKey(a, c, id) == IF id # Absent THEN << c, id >> ELSE << c, a.counters[c] >>

\* Every known call of the candidate, or else a key that is only a record.
AgainstCandidate(a, c, forensic, code) ==
  LET known == { k \in a.known : k[1] = c }
  IN ForEach(IF known = {} THEN { forensic } ELSE known,
             LAMBDA k : DiagnosticEvent(k, code))

\* The arguments as they reach the coordinator.
Projected(k, args) ==
  CASE args = "none"   -> << >>
    [] args = "failed" -> << DiagnosticEvent(k, "E_GEMINI_ARGUMENT_PROJECTION_FAILED") >>
    [] args = "whole"  -> << ArgumentsEvent(k, "whole") >>

\* Mutant of FunctionCall: a repeated call is silently left out.
FunctionCallIgnoresRepeats(a, c, id, args) ==
  LET k       == CallSourceKey(a, c, id)
      counted == IF id # Absent THEN a ELSE [ a EXCEPT !.counters[c] = @ + 1 ]
  IN CASE a.terminal[c] # "none" ->
            Step(counted, AgainstCandidate(a, c, k, "E_TOOL_ARGUMENTS_AFTER_END"))
       [] a.terminal[c] = "none" /\ k \in a.known -> Step(counted, << >>)
       [] OTHER ->
            Step([ counted EXCEPT !.known = @ \cup { k } ],
                 << StartEvent(k, Absent, Absent),
                    DiagnosticEvent(k, "E_ARGUMENT_EVIDENCE_PROJECTION_ONLY") >>
                   \o Projected(k, args) \o << EndEvent(k) >>)

\* A call is delivered once and ends at once; later news of it is disorder.
FunctionCall(a, c, id, args) ==
  LET k       == CallSourceKey(a, c, id)
      counted == IF id # Absent THEN a ELSE [ a EXCEPT !.counters[c] = @ + 1 ]
  IN CASE a.terminal[c] # "none" ->
            Step(counted, AgainstCandidate(a, c, k, "E_TOOL_ARGUMENTS_AFTER_END"))
       [] a.terminal[c] = "none" /\ k \in a.known ->
            Step(counted, << DiagnosticEvent(k, "E_TOOL_ARGUMENTS_AFTER_END") >>)
       [] OTHER ->
            Step([ counted EXCEPT !.known = @ \cup { k } ],
                 << StartEvent(k, Absent, Absent),
                    DiagnosticEvent(k, "E_ARGUMENT_EVIDENCE_PROJECTION_ONLY") >>
                   \o Projected(k, args) \o << EndEvent(k) >>)

\* A finishReason ends its candidate and no call.
CandidateFinish(a, c, reason) ==
  IF a.terminal[c] # "none"
  THEN Step(a, AgainstCandidate(a, c, Choice(c), "E_DUPLICATE_TOOL_END"))
  ELSE Step([ a EXCEPT !.terminal[c] = MapCandidateFinishReason(reason) ], << >>)

GeminiPush(a, raw) ==
  CASE raw.kind = "malformed" ->
         Step(a, << StreamDiagnosticEvent("E_PROVIDER_EVENT_MALFORMED") >>)
    [] raw.kind = "invalid_candidate" ->
         Step(a, << StreamDiagnosticEvent("E_CHOICE_INDEX_INVALID") >>)
    [] raw.kind = "duplicate_candidate" ->
         Step(a, AgainstCandidate(a, raw.candidate, Choice(raw.candidate),
                                  "E_CHOICE_INDEX_DUPLICATE"))
    [] raw.kind = "function_call" -> FunctionCall(a, raw.candidate, raw.id, raw.args)
    [] raw.kind = "finish"        -> CandidateFinish(a, raw.candidate, raw.reason)

GeminiFinish(a, callerReason) ==
  IF a.finished THEN Step(a, << >>)
  ELSE Step([ a EXCEPT !.finished = TRUE ],
            << StreamEndEvent(
                 WorstReason(({ a.terminal[c] : c \in ChoiceIndices } \ { "none" })
                               \cup ({ callerReason } \ { Absent }))) >>)

------------------------------------------------------------------------------

\* The calls of candidate c so far; those without an id are numbered.
Delivered(e, c) == { k \in e.started : k[1] = c }

GeminiShown(e, raw) ==
  CASE raw.kind = "finish" ->
         LET again == e.ends[Choice(raw.candidate)] # << >>
             shown == SawEnd(e, Choice(raw.candidate), raw.reason)
         IN CASE again /\ phase = "finished" -> SawFault(shown)
              [] again /\ phase # "finished" ->
                   Spoiled(shown, Delivered(e, raw.candidate))
              [] OTHER -> shown
    [] phase = "finished" \/ raw.kind = "invalid_candidate" -> SawFault(e)
    [] raw.kind = "malformed" -> e
    [] raw.kind = "duplicate_candidate" -> Spoiled(e, Delivered(e, raw.candidate))
    [] raw.kind = "function_call" ->
         LET k == CallSourceKey(adapter, raw.candidate, raw.id) IN
         IF e.ends[Choice(raw.candidate)] # << >>
         THEN Spoiled(e, Delivered(e, raw.candidate))
         ELSE IF k \in e.started THEN Spoiled(e, { k }) ELSE SawStart(e, k)

\* SourceKeys bounds the calls: it may not have a key for one more of them.
GeminiEvent ==
  /\ adapter.provider = "gemini"
  /\ \E raw \in GeminiRawEvents :
       /\ raw.kind = "function_call" =>
            CallSourceKey(adapter, raw.candidate, raw.id) \in SourceKeys
       /\ RawEvent(GeminiPush(adapter, raw), GeminiShown(evidence, raw))

GeminiGuardFinish ==
  /\ adapter.provider = "gemini"
  /\ \E reason \in CallerReasons :
       FinishAdapter(GeminiFinish(adapter, reason), reason)

GeminiNext == GeminiEvent \/ GeminiGuardFinish

\* No call ever executes, every call is on record up to the limit of calls, and
\* the evidence kept about each is exact: a protocol violation is held against a
\* call if and only if its candidate went on after its end or was doubled while
\* the call was known, the call itself came again, or something came that puts
\* the whole stream in doubt.
GeminiRecordsDisorder ==
  adapter.provider = "gemini" /\ Settled =>
    \A k \in evidence.started :
      /\ ~Executable(k)
      /\ Known(k) \/ Cardinality(evidence.started) > MaxToolCalls
      /\ Known(k) => (ProtocolViolationEvidence(callDiagnostics[k], streamDiagnostics)
                        <=> evidence.fault \/ k \in evidence.spoiled)
================================================================================
