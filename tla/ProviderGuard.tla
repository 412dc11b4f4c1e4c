------------------------------ MODULE ProviderGuard ------------------------------
(***************************************************************************)
(* A provider adapter composed with the execution gate, as                 *)
(* createProviderExecutionGuard() does (guard/provider-guard.ts): each raw *)
(* event is translated into normalized events, and these are pushed into   *)
(* the gate before the caller can do anything else.  The adapters' modules *)
(* extend this one with one action per kind of raw event.                  *)
(***************************************************************************)
EXTENDS ExecutionGate, SequencesExt

CONSTANTS
  ChoiceIndices,    \* choice or candidate indices
  ArgumentPieces,   \* fragments of argument text that an event may carry
  CallerReasons,    \* reasons the caller may give to finish(), Absent included
  MaxRawEvents      \* bound on the raw events of one stream, for each provider

\* A source key is the pair of the choice and of the place in it; the choice
\* itself and the whole message are written the same way.
NoKey == << >>
Choice(c) == << c >>
Message == << >>

\* The keys that name a call by its place, and those of one choice.
Places == SourceKeys \cap (Nat \X Nat)
KeysOf(c) == { k \in Places : k[1] = c }

ASSUME GuardAssumption ==
  /\ IsFiniteSet(SourceKeys)
  /\ NoKey \notin SourceKeys
  /\ 1 \in InitialNames \cap DeltaLengths
  /\ ArgumentPieces \subseteq { "whole", "head", "tail" }
  /\ CallerReasons \subseteq Reasons \cup { Absent }
  /\ { "complete", "unknown" } \subseteq Reasons /\ Absent \notin Reasons

\* What a raw event may end or spoil.
Scopes == SourceKeys \cup { Choice(c) : c \in ChoiceIndices } \cup { Message }

VARIABLES
  adapter,   \* the private fields of the adapter in use
  emitted,   \* normalized events that the guard has yet to push into the gate
  phase,     \* "streaming"; "finishing" inside finish(); "finished" after it
  evidence   \* observer: what the raw events said, whatever was made of them

guardVars == << vars, adapter, emitted, phase, evidence >>

------------------------------------------------------------------------------
(* Normalized events *)

StartEvent(k, id, index) ==
  [ type |-> "tool_call_start", key |-> k, id |-> id, index |-> index ]
IdentityEvent(k, id, index) ==
  [ type |-> "tool_call_identity", key |-> k, id |-> id, index |-> index ]
NameEvent(k) == [ type |-> "tool_call_name_delta", key |-> k ]
ArgumentsEvent(k, piece) ==
  [ type |-> "tool_call_arguments_delta", key |-> k, piece |-> piece ]
EndEvent(k) == [ type |-> "tool_call_end", key |-> k ]
DiagnosticEvent(k, code) ==
  [ type |-> "provider_diagnostic", key |-> k, code |-> code ]
StreamDiagnosticEvent(code) == DiagnosticEvent(NoKey, code)
StreamEndEvent(reason) == [ type |-> "provider_stream_end", reason |-> reason ]

\* One event for each key of a set, in some order.
ForEach(keys, event(_)) ==
  LET order == SetToSeq(keys) IN [ i \in DOMAIN order |-> event(order[i]) ]

\* At most one event.
OnlyIf(condition, event) == IF condition THEN << event >> ELSE << >>

------------------------------------------------------------------------------
(* Fragments of argument text: a whole object, or its two halves.           *)

\* What one parser state and a fragment give, as one case of PushArguments.
Fed(p, piece) ==
  CASE p = "empty" /\ piece = "whole" -> "closed"
    [] p = "empty" /\ piece = "head"  -> "open"
    [] p = "open"  /\ piece = "tail"  -> "closed"
    [] p = "closed"                   -> "trailing"
    [] p = "trailing"                 -> "trailing"
    [] OTHER                          -> "invalid"

------------------------------------------------------------------------------
(* Shared by the adapters *)

REASON_PRIORITY ==
  << "provider_error", "unknown", "network_error", "length", "cancelled", "complete" >>

\* The worst of some reasons; "unknown" when there is none.
WorstReason(reasons) ==
  IF reasons = {} THEN "unknown"
  ELSE REASON_PRIORITY[Min({ i \in DOMAIN REASON_PRIORITY :
                               REASON_PRIORITY[i] \in reasons })]

\* ToolCallIdTracker: the first owner of an id is kept, and each coordinate is
\* reported once.
NoTracker == [ owners |-> [ id \in ToolCallIds |-> NoKey ], conflicted |-> {} ]

Observed(tracker, id, k) ==
  IF id = Absent THEN tracker
  ELSE IF tracker.owners[id] = NoKey THEN [ tracker EXCEPT !.owners[id] = k ]
  ELSE IF tracker.owners[id] = k THEN tracker
  ELSE [ tracker EXCEPT !.conflicted = @ \cup { tracker.owners[id], k } ]

\* The diagnostics that observe() asks for.
IdDiagnostics(tracker, id, k) ==
  ForEach(Observed(tracker, id, k).conflicted \ tracker.conflicted,
          LAMBDA j : DiagnosticEvent(j, "E_DUPLICATE_TOOL_CALL_ID"))

------------------------------------------------------------------------------
(* What the raw events say, whatever the adapter makes of them.             *)

NoEvidence ==
  [ started |-> {},                                 \* calls that were announced
    text    |-> [ k \in SourceKeys |-> "empty" ],  \* their argument text, in order
    pieces  |-> {},                                 \* calls whose text came in pieces
    ids     |-> [ k \in SourceKeys |-> {} ],       \* the ids given
    ends    |-> [ s \in Scopes |-> << >> ],        \* the ends reported, two at most
    closed  |-> {},     \* calls that were ended after they were announced
    spoiled |-> {},     \* scopes where something came out of order
    fault   |-> FALSE,  \* an error, or content that belongs to no call
    caller  |-> "none", \* the reason given to finish()
    count   |-> 0 ]     \* raw events so far

SawStart(e, k) == [ e EXCEPT !.started = @ \cup { k } ]
SawText(e, k, piece) ==
  IF piece = "none" THEN e ELSE [ e EXCEPT !.text[k] = Fed(@, piece) ]
SawId(e, k, id) == IF id = Absent THEN e ELSE [ e EXCEPT !.ids[k] = @ \cup { id } ]
SawEnd(e, s, reason) ==
  [ e EXCEPT !.ends[s] = IF Len(@) < 2 THEN Append(@, reason) ELSE @ ]
Spoiled(e, scopes) == [ e EXCEPT !.spoiled = @ \cup scopes ]
SawFault(e) == [ e EXCEPT !.fault = TRUE ]

\* The message has ended, or the caller has finished the guard.
Over(e) == e.ends[Message] # << >> \/ phase = "finished"

\* The id of k was given to no other call of these.
OwnId(k, others) ==
  /\ Cardinality(evidence.ids[k]) <= 1
  /\ \A j \in others \ { k } : evidence.ids[j] \cap evidence.ids[k] = {}

------------------------------------------------------------------------------
(* One call of the guard: what the adapter keeps and what it returns.       *)

Step(fields, events) == [ fields |-> fields, events |-> events ]

\* push() of a raw event; shown is the evidence with what that event says.
RawEvent(step, shown) ==
  /\ emitted = << >> /\ phase # "finishing"
  /\ evidence.count < MaxRawEvents[adapter.provider]
  /\ adapter' = step.fields
  /\ emitted' = step.events
  /\ evidence' = [ shown EXCEPT !.count = @ + 1 ]
  /\ UNCHANGED << vars, phase >>

\* The adapter's part of finish({reason}); the gate's part is FinishGate.
FinishAdapter(step, reason) ==
  /\ emitted = << >> /\ phase = "streaming"
  /\ adapter' = step.fields
  /\ emitted' = step.events
  /\ phase' = "finishing"
  /\ evidence' = [ evidence EXCEPT !.caller = reason ]
  /\ UNCHANGED vars

\* finish() has returned, and so has the last push().
Settled == phase = "finished" /\ emitted = << >>

------------------------------------------------------------------------------
(* The guard *)

GuardInit ==
  /\ Init
  /\ emitted = << >>
  /\ phase = "streaming"
  /\ evidence = NoEvidence

\* The name of a call is always given with its start.
Dispatch(event) ==
  CASE event.type = "tool_call_start" ->
         \/ Start(event.key, event.id, event.index, 1)
         \/ DuplicateStart(event.key)
         \/ StartOverLimit(event.key)
    [] event.type = "tool_call_identity" ->
         \/ Known(event.key) /\ Identity(event.key, event.id, event.index)
         \/ EventOfUnknownCall(event.key)
    [] event.type = "tool_call_name_delta" ->
         (Known(event.key) /\ NameDelta(event.key, 1)) \/ EventOfUnknownCall(event.key)
    [] event.type = "tool_call_arguments_delta" ->
         \/ /\ Known(event.key) /\ ArgumentsDelta(event.key)
            /\ Collecting(calls[event.key]) =>
                 calls'[event.key].parser = Fed(calls[event.key].parser, event.piece)
         \/ EventOfUnknownCall(event.key)
    [] event.type = "tool_call_end" ->
         (Known(event.key) /\ CallEnd(event.key)) \/ EventOfUnknownCall(event.key)
    [] event.type = "provider_diagnostic" ->
         IF event.key = NoKey THEN StreamDiagnostic(event.code)
         ELSE \/ Known(event.key) /\ CallDiagnostic(event.key, event.code)
              \/ SourceDiagnostic(event.key, event.code)

\* gate.push() of the next normalized event; no tool has a schema here.
Deliver ==
  /\ emitted # << >>
  /\ LET event == Head(emitted) IN
       \/ /\ event.type # "provider_stream_end"
          /\ Dispatch(event) \/ PushRejected
          /\ UNCHANGED streamEndReason
       \/ /\ event.type = "provider_stream_end"
          /\ CaptureEnd(event.reason)
          /\ PushEnd(event.reason)
          /\ \A k \in SourceKeys : calls'[k].schemaValid = "none"
  /\ ObservePush
  /\ emitted' = Tail(emitted)
  /\ UNCHANGED << finalResult, gateFinished, consumedExecutionIds, released,
                  adapter, phase, evidence >>

FinishGate ==
  /\ emitted = << >> /\ phase = "finishing"
  /\ Finish
  /\ phase' = "finished"
  /\ UNCHANGED << adapter, emitted, evidence >>

GuardNext == Deliver \/ FinishGate
================================================================================
