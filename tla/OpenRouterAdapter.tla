--------------------------- MODULE OpenRouterAdapter ---------------------------
(***************************************************************************)
(* OpenRouterStreamAdapter (providers/openrouter.ts): an OpenAI-compatible *)
(* adapter behind a filter that accepts one accounting frame after the end *)
(* and remembers an output limit that the upstream provider reported.      *)
(***************************************************************************)
EXTENDS OpenAICompatibleAdapter

NewOpenRouter ==
  [ provider   |-> "openrouter",
    compatible |-> NewCompatible,
    finished   |-> FALSE,
    terminals  |-> [ c \in ChoiceIndices |-> << >> ],  \* terminalChoices
    accounted  |-> FALSE,                              \* accountingTrailerSeen
    limited    |-> FALSE ]                             \* nativeOutputLimitReason

\* "limit" is any of NATIVE_OUTPUT_LIMIT_REASONS, "none" no native reason.
NativeReasons == { "none", "limit" }

\* A terminal entry may come in a content-free chunk with usage numbers. The
\* bound leaves out ids, which only the adapter behind the filter handles.
OpenRouterRawEvents ==
  { raw \in CompatibleRawEvents : \/ raw.kind \in { "error", "malformed" }
                                  \/ raw.kind = "tool_call" /\ raw.id = Absent }
    \cup [ kind : { "terminal" }, choice : ChoiceIndices, reason : FinishReasons,
           native : NativeReasons, usage : BOOLEAN ]

------------------------------------------------------------------------------

\* Mutant of IsAccountingTrailer: such a frame is taken any number of times.
IsAnyAccountingFrame(a, raw) ==
  ~a.finished /\ raw.usage /\ a.terminals[raw.choice] = << raw.reason, raw.native >>

IsAccountingTrailer(a, raw) ==
  /\ ~a.finished /\ ~a.accounted /\ raw.usage
  /\ a.terminals[raw.choice] = << raw.reason, raw.native >>

\* push() of a terminal entry; an accounting frame arrives without its reason.
OpenRouterTerminal(a, raw) ==
  LET accounting == IsAccountingTrailer(a, raw)
      delegated  == CompatiblePush(a.compatible, raw)
  IN Step([ a EXCEPT !.accounted = @ \/ accounting,
                     !.terminals[raw.choice] = << raw.reason, raw.native >>,
                     !.limited = @ \/ raw.native = "limit",
                     !.compatible = IF accounting THEN @ ELSE delegated.fields ],
          IF accounting THEN << >> ELSE delegated.events)

\* There is no early return once the adapter is finished.
OpenRouterPush(a, raw) ==
  CASE raw.kind = "malformed" ->
         Step(a, << StreamDiagnosticEvent("E_PROVIDER_EVENT_MALFORMED") >>)
    [] raw.kind = "error" ->
         LET closing == CompatibleFinish(a.compatible, "provider_error")
         IN Step([ a EXCEPT !.compatible = closing.fields, !.finished = TRUE ],
                 << StreamDiagnosticEvent("E_PROVIDER_ERROR") >> \o closing.events)
    [] raw.kind = "tool_call" ->
         LET delegated == CompatiblePush(a.compatible, raw)
         IN Step([ a EXCEPT !.compatible = delegated.fields ], delegated.events)
    [] raw.kind = "terminal" -> OpenRouterTerminal(a, raw)

OpenRouterFinish(a, reason) ==
  LET effective == IF a.limited /\ reason \in { Absent, "complete", "cancelled", "length" }
                   THEN "length" ELSE reason
      closing   == CompatibleFinish(a.compatible, effective)
  IN IF a.finished THEN Step(a, << >>)
     ELSE Step([ a EXCEPT !.finished = TRUE, !.compatible = closing.fields ],
               closing.events)

------------------------------------------------------------------------------

\* A second report of an end that repeats the first one is the accounting frame
\* when it has usage numbers and is the first such report.
OpenRouterShown(e, raw) ==
  IF raw.kind # "terminal" THEN CompatibleShown(e, raw)
  ELSE LET end == << raw.reason, raw.native >> IN
    CASE phase = "finished" -> SawFault(e)
      [] /\ raw.usage /\ e.ends[Message] = << >>
         /\ e.ends[Choice(raw.choice)] # << >>
         /\ Last(e.ends[Choice(raw.choice)]) = end -> SawEnd(e, Message, "usage")
      [] OTHER -> SawEnd(e, Choice(raw.choice), end)

OpenRouterEvent ==
  /\ adapter.provider = "openrouter"
  /\ \E raw \in OpenRouterRawEvents :
       RawEvent(OpenRouterPush(adapter, raw), OpenRouterShown(evidence, raw))

OpenRouterGuardFinish ==
  /\ adapter.provider = "openrouter"
  /\ \E reason \in CallerReasons :
       FinishAdapter(OpenRouterFinish(adapter, reason), reason)

OpenRouterNext == OpenRouterEvent \/ OpenRouterGuardFinish

\* As CompatibleExecutesClean; besides, an upstream output limit on any choice
\* refuses every call, whatever reason the router or the caller reports, and
\* one accounting frame is not a second end.
OpenRouterExecutesClean ==
  adapter.provider = "openrouter" /\ Settled =>
    \A k \in SourceKeys :
      Executable(k) <=>
        k \in Places /\ ChoiceClean(k, { "stop", "tool_calls" } \X { "none" })
================================================================================
