-------------------------- MODULE ProviderGuard_proofs --------------------------
(***************************************************************************)
(* Proofs about what every provider guard shares: as long as its adapter   *)
(* emits well-formed events, the guard is an execution gate, so whatever   *)
(* is proved of the gate holds of the guard.                               *)
(***************************************************************************)
EXTENDS ProviderGuard, CallHistory_proofs, FiniteSetTheorems

\* What an adapter may emit.
NormalizedEvents ==
  UNION { [ type : { "tool_call_start", "tool_call_identity" }, key : SourceKeys,
            id : ToolCallIds \cup { Absent }, index : ToolIndices \cup { Absent } ],
          [ type : { "tool_call_name_delta", "tool_call_end" }, key : SourceKeys ],
          [ type : { "tool_call_arguments_delta" }, key : SourceKeys,
            piece : ArgumentPieces ],
          [ type : { "provider_diagnostic" }, key : SourceKeys \cup { NoKey },
            code : ProviderCodes ],
          [ type : { "provider_stream_end" }, reason : Reasons ] }

EmittedOK == emitted \in Seq(NormalizedEvents)

\* The guard with any adapter, before the steps of the adapter.
LEMMA NormalizedEvent ==
  ASSUME NEW event \in NormalizedEvents
  PROVE  /\ event.type \in { "tool_call_start", "tool_call_identity" } =>
              /\ event.key \in SourceKeys
              /\ event.id \in ToolCallIds \cup { Absent }
              /\ event.index \in ToolIndices \cup { Absent }
         /\ event.type \in { "tool_call_name_delta", "tool_call_end" } =>
              event.key \in SourceKeys
         /\ event.type = "tool_call_arguments_delta" =>
              event.key \in SourceKeys /\ event.piece \in ArgumentPieces
         /\ event.type = "provider_diagnostic" =>
              event.key \in SourceKeys \cup { NoKey } /\ event.code \in ProviderCodes
         /\ event.type = "provider_stream_end" => event.reason \in Reasons
BY DEF NormalizedEvents

\* Dispatching a normalized event is a push of one.
LEMMA DispatchIsPush ==
  ASSUME NEW event \in NormalizedEvents, Dispatch(event),
         event.type # "provider_stream_end"
  PROVE  PushCallEvent
<1> USE NormalizedEvent, GuardAssumption
<1>1. event.type \in { "tool_call_start", "tool_call_identity", "tool_call_name_delta",
                       "tool_call_arguments_delta", "tool_call_end",
                       "provider_diagnostic" }
  BY DEF NormalizedEvents
<1>2. CASE event.type = "tool_call_start"
  BY <1>2 DEF Dispatch, PushCallEvent
<1>3. CASE event.type = "tool_call_identity"
  BY <1>3 DEF Dispatch, PushCallEvent
<1>4. CASE event.type = "tool_call_name_delta"
  BY <1>4 DEF Dispatch, PushCallEvent
<1>5. CASE event.type = "tool_call_arguments_delta"
  BY <1>5 DEF Dispatch, PushCallEvent
<1>6. CASE event.type = "tool_call_end"
  BY <1>6 DEF Dispatch, PushCallEvent
<1>7. CASE event.type = "provider_diagnostic" /\ event.key = NoKey
  BY <1>7 DEF Dispatch, PushCallEvent
<1>8. CASE event.type = "provider_diagnostic" /\ event.key # NoKey
  BY <1>8 DEF Dispatch, PushCallEvent
<1> QED
  BY <1>1, <1>2, <1>3, <1>4, <1>5, <1>6, <1>7, <1>8

\* So is delivering one.
LEMMA DeliverIsPush ==
  ASSUME EmittedOK, Deliver
  PROVE  Push /\ EmittedOK'
<1> DEFINE event == Head(emitted)
<1>1. event \in NormalizedEvents /\ EmittedOK'
  BY DEF Deliver, EmittedOK
<1>2. CASE /\ event.type # "provider_stream_end"
           /\ Dispatch(event) \/ PushRejected
           /\ UNCHANGED streamEndReason
  <2>1. PushCallEvent
    BY <1>1, <1>2, DispatchIsPush DEF PushCallEvent
  <2> QED
    BY <1>1, <1>2, <2>1 DEF Deliver, Push
<1>3. CASE /\ event.type = "provider_stream_end"
           /\ CaptureEnd(event.reason)
           /\ PushEnd(event.reason)
  <2>1. event.reason \in Reasons
    BY <1>1, <1>3, NormalizedEvent
  <2> QED
    BY <1>1, <1>3, <2>1 DEF Deliver, Push
<1> QED
  BY <1>2, <1>3 DEF Deliver

\* The steps of the guard are steps of the gate.
LEMMA GuardStepImplements ==
  ASSUME EmittedOK, GuardNext
  PROVE  Next /\ EmittedOK'
<1>1. CASE Deliver
  BY <1>1, DeliverIsPush DEF Next
<1>2. CASE FinishGate
  BY <1>2 DEF FinishGate, Next, EmittedOK
<1> QED
  BY <1>1, <1>2 DEF GuardNext

------------------------------------------------------------------------------
(* What lets no call of the stream run any more.                            *)

\* Codes that, in the scope of the stream, let no call of it execute.
BlockingCodes ==
  AuthorityProtocolViolationCodes \cup SdkExecutionObservedCodes
    \cup { ContentFilteredCode, "E_COORDINATOR_LIMIT_EVENTS" }

Starved == "E_COORDINATOR_LIMIT_EVENTS" \in streamDiagnostics

\* No call can execute any more.
Dead ==
  \/ streamDiagnostics \cap BlockingCodes # {}
  \/ isFinished /\ finishedReason # "complete"

Kills(event) ==
  \/ /\ event.type = "provider_diagnostic" /\ event.key = NoKey
     /\ event.code \in BlockingCodes
  \/ event.type = "provider_stream_end" /\ event.reason # "complete"

------------------------------------------------------------------------------
(* What one push into the gate does.                                        *)

\* Pushing anything into a finished coordinator kills the stream, and so does a
\* refusal for the limit of events.
LEMMA RefusedPushKills ==
  ASSUME TypeOK, PushRejected
  PROVE  /\ Dead' /\ UNCHANGED << calls, callDiagnostics, finishVars >>
         /\ ~isFinished => Starved'
<1>1. PICK code \in { "E_EVENT_AFTER_STREAM_END", "E_COORDINATOR_LIMIT_EVENTS" } :
        /\ RejectedPush(code)
        /\ ~isFinished => code = "E_COORDINATOR_LIMIT_EVENTS"
  BY DEF PushRejected, PushAfterStreamEnd, PushOverLimit
<1>2. code \in BlockingCodes
  BY DEF BlockingCodes, AuthorityProtocolViolationCodes
<1> QED
  BY <1>1, <1>2 DEF RejectedPush, Dead, Starved, finishVars

\* A refused end does the same, and an accepted one ends the stream.
LEMMA PushEndMeans ==
  ASSUME TypeOK, NEW reason \in Reasons, PushEnd(reason)
  PROVE  \/ PushStreamEnd(reason)
         \/ /\ Dead' /\ (~isFinished => Starved')
            /\ UNCHANGED << calls, callDiagnostics, finishVars >>
<1>1. CASE PushConflictingEnd(reason)
  <2>1. "E_TERMINAL_REASON_CONFLICT" \in BlockingCodes
    BY DEF BlockingCodes, AuthorityProtocolViolationCodes
  <2> QED
    BY <1>1, <2>1 DEF PushConflictingEnd, RejectedPush, Dead, finishVars
<1>2. CASE PushAfterStreamEnd \/ PushOverLimit
  BY <1>2, RefusedPushKills DEF PushRejected
<1> QED
  BY <1>1, <1>2 DEF PushEnd

\* The codes of the stream only ever grow, and a finished coordinator keeps its reason.
LEMMA PushGrows ==
  ASSUME TypeOK, Push
  PROVE  /\ streamDiagnostics \subseteq streamDiagnostics'
         /\ isFinished => UNCHANGED finishVars
<1>1. CASE PushCallEvent
  BY <1>1, PushCallEventEffect DEF finishVars
<1>2. CASE \E reason \in Reasons : PushEnd(reason)
  BY <1>2, PushEndEffect DEF finishVars
<1> QED
  BY <1>1, <1>2 DEF Push

\* Only an event that is taken is dispatched.
LEMMA DispatchAccepts ==
  ASSUME NEW event \in NormalizedEvents, event.type # "provider_stream_end",
         Dispatch(event)
  PROVE  Accepted
<1> USE DEF Dispatch, Start, DuplicateStart, StartOverLimit, Identity, NameDelta,
            ArgumentsDelta, CallEnd, CallDiagnostic, SourceDiagnostic,
            StreamDiagnostic, EventOfUnknownCall, CallEvent
<1>1. event.type \in { "tool_call_start", "tool_call_identity", "tool_call_name_delta",
                       "tool_call_arguments_delta", "tool_call_end",
                       "provider_diagnostic" }
  BY DEF NormalizedEvents
<1>2. CASE event.type = "tool_call_start"
  BY <1>2
<1>3. CASE event.type \in { "tool_call_identity", "tool_call_name_delta" }
  BY <1>3
<1>4. CASE event.type = "tool_call_arguments_delta"
  BY <1>4
<1>5. CASE event.type = "tool_call_end"
  BY <1>5
<1>6. CASE event.type = "provider_diagnostic"
  BY <1>6
<1> QED
  BY <1>1, <1>2, <1>3, <1>4, <1>5, <1>6

\* A dead stream stays dead, whatever the guard does.
LEMMA DeadStays ==
  ASSUME TypeOK, Dead, Push \/ Finish \/ UNCHANGED vars
  PROVE  Dead'
<1>1. CASE Push
  BY <1>1, PushGrows DEF Dead, finishVars
<1>2. CASE Finish
  <2>1. PICK reason \in Reasons : FinishCoordinator(reason)
    BY <1>2 DEF Finish
  <2> QED
    BY <2>1, FinishCoordinatorEffect
       DEF Dead, FinishCoordinator, coordinatorVars, finishVars
<1>3. CASE UNCHANGED vars
  BY <1>3 DEF vars, coordinatorVars, diagnosticVars, finishVars, Dead
<1> QED
  BY <1>1, <1>2, <1>3

\* Delivering an event to a finished coordinator, or an event that kills, kills.
LEMMA DeliveryKills ==
  ASSUME EmittedOK, TypeOK, Deliver, isFinished \/ Kills(Head(emitted))
  PROVE  Dead'
<1> DEFINE event == Head(emitted)
<1>1. event \in NormalizedEvents
  BY DEF Deliver, EmittedOK
<1>2. CASE event.type # "provider_stream_end"
  <2>1. Dispatch(event) \/ PushRejected
    BY <1>2 DEF Deliver
  <2>2. CASE PushRejected
    BY <2>2, RefusedPushKills
  <2>3. CASE Dispatch(event)
    <3>1. PushCallEvent
      BY <1>1, <1>2, <2>3, DispatchIsPush
    <3>2. CASE isFinished
      <4>1. ~isFinished
        BY <1>1, <1>2, <2>3, DispatchAccepts DEF Accepted
      <4> QED
        BY <3>2, <4>1
    <3>3. CASE Kills(event)
      <4>1. /\ event.type = "provider_diagnostic" /\ event.key = NoKey
            /\ event.code \in BlockingCodes
        BY <1>2, <3>3 DEF Kills
      <4>2. StreamDiagnostic(event.code)
        BY <2>3, <4>1 DEF Dispatch
      <4> QED
        BY <4>1, <4>2 DEF StreamDiagnostic, Dead
    <3> QED
      BY <3>2, <3>3
  <2> QED
    BY <2>1, <2>2, <2>3
<1>3. CASE event.type = "provider_stream_end"
  <2>1. PushEnd(event.reason) /\ event.reason \in Reasons
    BY <1>1, <1>3, NormalizedEvent DEF Deliver
  <2>2. CASE PushStreamEnd(event.reason)
    <3>1. ~isFinished /\ isFinished' = TRUE /\ finishedReason' = event.reason
      BY <2>2 DEF PushStreamEnd, Accepted, EndStream
    <3>2. event.reason # "complete"
      BY <1>3, <3>1 DEF Kills
    <3> QED
      BY <3>1, <3>2 DEF Dead
  <2> QED
    BY <2>1, <2>2, PushEndMeans
<1> QED
  BY <1>2, <1>3

------------------------------------------------------------------------------
(* The record of one key.                                                   *)

\* The call was refused for the limit of calls.
Refused(k) ==
  ~Known(k) /\ Cardinality({ j \in SourceKeys : Known(j) }) >= MaxToolCalls

\* Codes that keep a call they are recorded against from running, and that an event
\* about the call may raise.
CallViolations ==
  AuthorityProtocolViolationCodes
    \cup { "E_PROVIDER_IDENTITY_CONFLICT", "E_PROVIDER_INDEX_CONFLICT" }

\* What was recorded against a key disqualifies its call.
Dirty(k) ==
  IF Known(k)
  THEN \/ calls[k].status = "sdk_execution_observed"
       \/ callDiagnostics[k] \cap CallViolations # {}
  ELSE pendingProtocolDiagnostics[k] \cap CallViolations # {}

\* A call that nothing disqualifies has a clean record; a key without a call has
\* none.
Tidy(k) ==
  /\ Known(k) => calls[k].name = 1 /\ calls[k].schemaValid = "none"
  /\ Known(k) /\ ~Dirty(k) /\ (isFinished => calls[k].ended) => callDiagnostics[k] = {}
  /\ Known(k) /\ ~Dirty(k) /\ ~isFinished => Collecting(calls[k])
  /\ ~Known(k) => /\ callDiagnostics[k] = {}
                  /\ calls[k].parser = "empty" /\ ~calls[k].ended
                  /\ calls[k].toolCallId = Absent
                  /\ pendingProtocolDiagnostics[k] \subseteq AuthorityProtocolViolationCodes

\* Nothing about a key has changed in the coordinator.
KeyKept(j) ==
  /\ calls'[j] = calls[j] /\ callDiagnostics'[j] = callDiagnostics[j]
  /\ pendingProtocolDiagnostics'[j] = pendingProtocolDiagnostics[j]

\* A key whose record is kept is known, dirty and tidy as before.
LEMMA KeptKeyIsTidy ==
  ASSUME NEW j \in SourceKeys, KeyKept(j), isFinished' = isFinished
  PROVE  /\ Known(j)' = Known(j) /\ Dirty(j)' = Dirty(j)
         /\ Tidy(j) => Tidy(j)'
BY DEF KeyKept, Known, Dirty, Tidy, Collecting

\* Refusals depend only on which calls are known.
LEMMA SameKnown ==
  ASSUME \A j \in SourceKeys : Known(j)' = Known(j)
  PROVE  \A k \in SourceKeys : Refused(k)' = Refused(k)
<1>1. { j \in SourceKeys : Known(j) }' = { j \in SourceKeys : Known(j) }
  OBVIOUS
<1> QED
  BY <1>1 DEF Refused

\* What is known of a call that an event finds collecting, or finds disqualified.
LEMMA KnownCall ==
  ASSUME TypeOK, ~isFinished, NEW k \in SourceKeys, Known(k), Tidy(k)
  PROVE  /\ calls[k] \in Call /\ calls[k].status # "absent"
         /\ calls[k].name = 1 /\ calls[k].schemaValid = "none"
         /\ callDiagnostics[k] \in SUBSET Codes
         /\ Dirty(k) <=> \/ calls[k].status = "sdk_execution_observed"
                         \/ callDiagnostics[k] \cap CallViolations # {}
         /\ ~Dirty(k) => Collecting(calls[k]) /\ callDiagnostics[k] = {}
         /\ Dirty(k) \in BOOLEAN
BY DEF TypeOK, Known, Tidy, Dirty

\* While the coordinator stands still, so does all that is said of its state.
LEMMA SameCoordinator ==
  ASSUME UNCHANGED coordinatorVars
  PROVE  /\ Dead' = Dead /\ Starved' = Starved
         /\ isFinished' = isFinished /\ finishedReason' = finishedReason
         /\ calls' = calls
         /\ \A k \in SourceKeys :
              /\ Known(k)' = Known(k) /\ Dirty(k)' = Dirty(k)
              /\ Tidy(k)' = Tidy(k) /\ Refused(k)' = Refused(k)
<1>1. /\ streamDiagnostics' = streamDiagnostics /\ isFinished' = isFinished
      /\ finishedReason' = finishedReason /\ calls' = calls
      /\ callDiagnostics' = callDiagnostics
      /\ pendingProtocolDiagnostics' = pendingProtocolDiagnostics
  BY DEF coordinatorVars, diagnosticVars, finishVars
<1> QED
  BY <1>1 DEF Dead, Starved, Known, Dirty, Tidy, Refused, Collecting

------------------------------------------------------------------------------
(* What dispatching one event about a call makes of its record.             *)

\* The codes that disqualify a call they are recorded against.
DisqualifyingCodes == AuthorityProtocolViolationCodes \cup SdkExecutionObservedCodes

\* The event disqualifies the call of k.
Spoils(event, k) ==
  \/ /\ event.type = "provider_diagnostic" /\ event.key = k
     /\ \/ event.code \in AuthorityProtocolViolationCodes
        \/ event.code \in SdkExecutionObservedCodes /\ Known(k)
  \/ /\ event.type = "tool_call_identity" /\ event.key = k
     /\ Known(k) /\ Clashes(calls[k].toolCallId, event.id)

\* The parser of a call that is not disqualified, once the event was dispatched.
ParserAfter(event, k) ==
  IF event.type = "tool_call_arguments_delta"
  THEN Fed(calls[k].parser, event.piece) ELSE calls[k].parser

\* Its tool call id.
IdAfter(event, k) ==
  CASE event.type = "tool_call_start"    -> event.id
    [] event.type = "tool_call_identity" -> Fill(calls[k].toolCallId, event.id)
    [] OTHER                             -> calls[k].toolCallId

\* The event about k was taken in: it is refused for the limit of calls, or its record
\* is what the event makes of it; nothing else has changed but the count of events.
Dispatched(k, event) ==
  /\ UNCHANGED finishVars
  /\ \A j \in SourceKeys \ { k } : KeyKept(j)
  /\ streamDiagnostics' \subseteq streamDiagnostics \cup { "E_COORDINATOR_LIMIT_CALLS" }
  /\ \A j \in SourceKeys : Refused(j) => Refused(j)'
  /\ Tidy(k)'
  /\ \/ Refused(k)'
     \/ /\ Known(k)' <=> Known(k) \/ event.type = "tool_call_start"
        /\ Dirty(k)' <=> \/ Dirty(k) \/ Spoils(event, k)
                         \/ Known(k) /\ event.type = "tool_call_start"
        /\ Known(k)' /\ ~Dirty(k)' =>
             /\ calls'[k].ended <=> calls[k].ended \/ event.type = "tool_call_end"
             /\ calls'[k].parser = ParserAfter(event, k)
             /\ calls'[k].toolCallId = IdAfter(event, k)

\* An event about a known call, in general.
LEMMA CallEventDispatched ==
  ASSUME TypeOK, NEW k \in SourceKeys, NEW c, NEW codes,
         CallEvent(k, c, codes), c.status # "absent",
         NEW dirty \in BOOLEAN,
         dirty <=> \/ c.status = "sdk_execution_observed"
                   \/ (callDiagnostics[k] \cup codes)
                         \cap CallViolations # {},
         c.name = 1, c.schemaValid = "none",
         ~dirty => callDiagnostics[k] \cup codes = {} /\ Collecting(c),
         NEW event, event.type # "tool_call_start",
         dirty <=> Dirty(k) \/ Spoils(event, k),
         ~dirty => /\ c.ended <=> calls[k].ended \/ event.type = "tool_call_end"
                   /\ c.parser = ParserAfter(event, k)
                   /\ c.toolCallId = IdAfter(event, k)
  PROVE  Dispatched(k, event)
<1>1. /\ ~isFinished /\ Known(k)
      /\ calls' = [ calls EXCEPT ![k] = c ]
      /\ callDiagnostics' = [ callDiagnostics EXCEPT ![k] = @ \cup codes ]
      /\ UNCHANGED << streamDiagnostics, pendingProtocolDiagnostics, finishVars >>
  BY DEF CallEvent, Accepted
<1>2. /\ calls'[k] = c /\ callDiagnostics'[k] = callDiagnostics[k] \cup codes
      /\ \A j \in SourceKeys \ { k } : KeyKept(j)
  BY <1>1 DEF TypeOK, KeyKept
<1>3. Known(k)' /\ (Dirty(k)' <=> dirty)
  BY <1>2 DEF Known, Dirty
<1>4. \A j \in SourceKeys : Known(j)' = Known(j)
  BY <1>1, <1>2, <1>3 DEF KeyKept, Known
<1>5. Tidy(k)'
  BY <1>1, <1>2, <1>3 DEF Tidy, finishVars, Collecting
<1>6. \A j \in SourceKeys : Refused(j)' = Refused(j)
  BY <1>4, SameKnown
<1>7. /\ Known(k)' <=> Known(k) \/ event.type = "tool_call_start"
      /\ Dirty(k)' <=> \/ Dirty(k) \/ Spoils(event, k)
                       \/ Known(k) /\ event.type = "tool_call_start"
      /\ Known(k)' /\ ~Dirty(k)' =>
           /\ calls'[k].ended <=> calls[k].ended \/ event.type = "tool_call_end"
           /\ calls'[k].parser = ParserAfter(event, k)
           /\ calls'[k].toolCallId = IdAfter(event, k)
  BY <1>1, <1>2, <1>3
<1> QED
  BY <1>1, <1>2, <1>5, <1>6, <1>7 DEF Dispatched

\* An event about a key without a call changes nothing but the count of events; if the
\* key may still start a call, that is what it should do.
LEMMA UnknownCallDispatched ==
  ASSUME TypeOK, NEW k \in SourceKeys, EventOfUnknownCall(k), Tidy(k),
         NEW event, event.type \in { "tool_call_identity", "tool_call_arguments_delta",
                                    "tool_call_end" }
  PROVE  Dispatched(k, event)
<1>1. /\ \A j \in SourceKeys : KeyKept(j)
      /\ UNCHANGED << streamDiagnostics, finishVars >> /\ ~Known(k)
  BY DEF EventOfUnknownCall, diagnosticVars, KeyKept
<1>2. \A j \in SourceKeys :
        Known(j)' = Known(j) /\ Dirty(j)' = Dirty(j) /\ (Tidy(j) => Tidy(j)')
  BY <1>1, KeptKeyIsTidy DEF finishVars
<1>3. \A j \in SourceKeys : Refused(j)' = Refused(j)
  BY <1>2, SameKnown
<1> QED
  BY <1>1, <1>2, <1>3 DEF Dispatched, Spoils

\* The start of a call.
LEMMA StartDispatched ==
  ASSUME TypeOK, NEW k \in SourceKeys, NEW event, NEW id, NEW index,
         event.type = "tool_call_start", event.id = id, Tidy(k),
         \/ Start(k, id, index, 1) \/ DuplicateStart(k) \/ StartOverLimit(k)
  PROVE  Dispatched(k, event)
<1>1. /\ ~Spoils(event, k) /\ ParserAfter(event, k) = calls[k].parser
      /\ IdAfter(event, k) = id
  BY DEF Spoils, ParserAfter, IdAfter
<1>2. CASE Start(k, id, index, 1)
  <2> DEFINE c == NewCall(id, index, 1)
  <2>1. /\ ~isFinished /\ ~Known(k)
        /\ Cardinality({ j \in SourceKeys : Known(j) }) < MaxToolCalls
        /\ calls' = [ calls EXCEPT ![k] = c ]
        /\ callDiagnostics' =
             [ callDiagnostics EXCEPT ![k] = @ \cup pendingProtocolDiagnostics[k] ]
        /\ pendingProtocolDiagnostics' = [ pendingProtocolDiagnostics EXCEPT ![k] = {} ]
        /\ UNCHANGED << streamDiagnostics, finishVars >>
    BY <1>2 DEF Start, Accepted
  <2>2. /\ c.status = "collecting" /\ c.name = 1 /\ c.schemaValid = "none"
        /\ c.parser = "empty" /\ ~c.ended /\ c.toolCallId = id
    BY DEF NewCall
  <2> HIDE DEF c
  <2>3. /\ calls'[k] = c /\ callDiagnostics'[k] = pendingProtocolDiagnostics[k]
        /\ \A j \in SourceKeys \ { k } : KeyKept(j)
    BY <2>1 DEF TypeOK, KeyKept, Tidy
  <2>4. /\ pendingProtocolDiagnostics[k] \subseteq AuthorityProtocolViolationCodes
        /\ Dirty(k) <=> pendingProtocolDiagnostics[k] # {}
        /\ calls[k].parser = "empty" /\ ~calls[k].ended
    BY <2>1 DEF Tidy, Dirty, CallViolations
  <2>5. Known(k)' /\ (Dirty(k)' <=> Dirty(k))
    BY <2>2, <2>3, <2>4 DEF Known, Dirty, CallViolations
  <2>6. \A j \in SourceKeys : ~Refused(j)
    <3>1. Cardinality({ j \in SourceKeys : Known(j) }) \in Nat
      BY GuardAssumption, FS_Subset, FS_CardinalityType
    <3>2. ASSUME NEW j \in SourceKeys, Refused(j)  PROVE FALSE
      BY <2>1, <3>1, <3>2, CoordinatorAssumption DEF Refused
    <3> QED  BY <3>2
  <2>7. Tidy(k)'
    BY <2>2, <2>3, <2>4, <2>5 DEF Tidy, Collecting
  <2> QED
    BY <1>1, <2>1, <2>2, <2>3, <2>4, <2>5, <2>6, <2>7 DEF Dispatched
<1>3. CASE DuplicateStart(k)
  <2>1. /\ ~isFinished /\ Known(k)
        /\ CallEvent(k, calls[k], { "E_DUPLICATE_TOOL_CALL_START" })
    <3>1. calls' = [ calls EXCEPT ![k] = calls[k] ]
      BY <1>3 DEF DuplicateStart, TypeOK
    <3> QED
      BY <1>3, <3>1 DEF DuplicateStart, CallEvent, Accepted
  <2> DEFINE spoiler == DiagnosticEvent(k, "E_DUPLICATE_TOOL_CALL_START")
  <2>2. /\ spoiler.type = "provider_diagnostic" /\ Spoils(spoiler, k)
    BY DEF DiagnosticEvent, Spoils, AuthorityProtocolViolationCodes
  <2>3. "E_DUPLICATE_TOOL_CALL_START" \in CallViolations
    BY DEF CallViolations, AuthorityProtocolViolationCodes
  <2> HIDE DEF spoiler
  <2>4. Dispatched(k, spoiler)
    BY <2>1, <2>2, <2>3, KnownCall, CallEventDispatched
  <2> QED
    BY <2>1, <2>2, <2>4 DEF Dispatched
<1>4. CASE StartOverLimit(k)
  <2>1. /\ \A j \in SourceKeys : KeyKept(j)
        /\ streamDiagnostics' = streamDiagnostics \cup { "E_COORDINATOR_LIMIT_CALLS" }
        /\ UNCHANGED finishVars /\ Refused(k)
    BY <1>4 DEF StartOverLimit, KeyKept, Refused
  <2>2. \A j \in SourceKeys : Known(j)' = Known(j) /\ (Tidy(j) => Tidy(j)')
    BY <2>1, KeptKeyIsTidy DEF finishVars
  <2>3. \A j \in SourceKeys : Refused(j)' = Refused(j)
    BY <2>2, SameKnown
  <2> QED
    BY <2>1, <2>2, <2>3 DEF Dispatched
<1> QED
  BY <1>2, <1>3, <1>4

\* A fragment of the arguments of a call.
LEMMA TextDispatched ==
  ASSUME TypeOK, NEW k \in SourceKeys, NEW event, event.key = k,
         event.type = "tool_call_arguments_delta", Tidy(k), Dispatch(event)
  PROVE  Dispatched(k, event)
<1> DEFINE fed == Fed(calls[k].parser, event.piece)
<1>1. \/ /\ Known(k) /\ ArgumentsDelta(k)
         /\ Collecting(calls[k]) => calls'[k].parser = fed
      \/ EventOfUnknownCall(k)
  BY DEF Dispatch
<1>2. /\ ~Spoils(event, k) /\ ParserAfter(event, k) = fed
      /\ IdAfter(event, k) = calls[k].toolCallId
  BY DEF Spoils, ParserAfter, IdAfter
<1> HIDE DEF fed
<1>3. CASE EventOfUnknownCall(k)
  BY <1>3, UnknownCallDispatched
<1>4. CASE /\ Known(k) /\ ArgumentsDelta(k)
           /\ Collecting(calls[k]) => calls'[k].parser = fed
  <2>1. ~isFinished
    BY <1>4 DEF ArgumentsDelta, CallEvent, Accepted
  <2>2. CASE ~Collecting(calls[k])
    <3>1. CallEvent(k, calls[k], { "E_ARGUMENT_DELTA_AFTER_END" })
      BY <1>4, <2>2 DEF ArgumentsDelta
    <3>2. \/ calls[k].status = "sdk_execution_observed"
          \/ (callDiagnostics[k] \cup { "E_ARGUMENT_DELTA_AFTER_END" })
                \cap CallViolations # {}
      BY <1>4, <2>1, <2>2, KnownCall
    <3>3. Dirty(k)
      BY <1>4, <2>1, <2>2, KnownCall
    <3> QED
      BY <1>4, <2>1, <3>1, <3>2, <3>3, KnownCall, CallEventDispatched
  <2>3. CASE Collecting(calls[k])
    <3>1. PICK p : CallEvent(k, [ calls[k] EXCEPT !.parser = p ], {})
      BY <1>4, <2>3 DEF ArgumentsDelta
    <3> DEFINE c == [ calls[k] EXCEPT !.parser = p ]
    <3>2. /\ c.status = calls[k].status /\ c.name = calls[k].name
          /\ c.schemaValid = calls[k].schemaValid /\ c.ended = calls[k].ended
          /\ c.parser = p /\ c.toolCallId = calls[k].toolCallId
      BY <1>4, <2>1, KnownCall DEF Call
    <3> HIDE DEF c
    <3>3. calls'[k] = c
      BY <3>1 DEF CallEvent, TypeOK, c
    <3>4. c.parser = fed
      BY <1>4, <2>3, <3>3
    <3>5. CallEvent(k, c, {}) /\ callDiagnostics[k] \cup {} = callDiagnostics[k]
      BY <3>1 DEF c
    <3>6. ~Dirty(k) => Collecting(c)
      BY <2>3, <3>2 DEF Collecting
    <3>7. /\ c.status # "absent" /\ c.name = 1 /\ c.schemaValid = "none"
          /\ Dirty(k) \in BOOLEAN
          /\ Dirty(k) <=> \/ c.status = "sdk_execution_observed"
                          \/ (callDiagnostics[k] \cup {})
                                \cap CallViolations # {}
      BY <1>4, <2>1, <3>2, <3>5, KnownCall
    <3>8. ~Dirty(k) => callDiagnostics[k] \cup {} = {} /\ Collecting(c)
      BY <1>4, <2>1, <3>5, <3>6, KnownCall
    <3>9. c.ended <=> calls[k].ended \/ event.type = "tool_call_end"
      BY <3>2
    <3> QED
      BY <1>2, <3>2, <3>4, <3>5, <3>7, <3>8, <3>9, CallEventDispatched
  <2> QED
    BY <2>2, <2>3
<1> QED
  BY <1>1, <1>3, <1>4

\* The end of a call.
LEMMA EndDispatched ==
  ASSUME TypeOK, NEW k \in SourceKeys, NEW event,
         event.type = "tool_call_end", Tidy(k),
         (Known(k) /\ CallEnd(k)) \/ EventOfUnknownCall(k)
  PROVE  Dispatched(k, event)
<1>1. /\ ~Spoils(event, k) /\ ParserAfter(event, k) = calls[k].parser
      /\ IdAfter(event, k) = calls[k].toolCallId
  BY DEF Spoils, ParserAfter, IdAfter
<1>2. CASE EventOfUnknownCall(k)
  BY <1>2, UnknownCallDispatched
<1>3. CASE Known(k) /\ CallEnd(k)
  <2>1. ~isFinished
    BY <1>3 DEF CallEnd, CallEvent, Accepted
  <2>2. CASE ~Collecting(calls[k])
    <3>1. CallEvent(k, calls[k], {}) /\ callDiagnostics[k] \cup {} = callDiagnostics[k]
      BY <1>3, <2>2 DEF CallEnd
    <3>2. Dirty(k)
      BY <1>3, <2>1, <2>2, KnownCall
    <3> QED
      BY <1>3, <2>1, <3>1, <3>2, KnownCall, CallEventDispatched
  <2>3. CASE Collecting(calls[k])
    <3> DEFINE c == [ calls[k] EXCEPT !.ended = TRUE ]
    <3>1. CallEvent(k, c, {}) /\ callDiagnostics[k] \cup {} = callDiagnostics[k]
      BY <1>3, <2>1, <2>3, KnownCall DEF CallEnd, NoName
    <3>2. /\ c.status = calls[k].status /\ c.name = calls[k].name
          /\ c.schemaValid = calls[k].schemaValid /\ c.ended = TRUE
          /\ c.parser = calls[k].parser /\ c.toolCallId = calls[k].toolCallId
      BY <1>3, <2>1, KnownCall DEF Call
    <3> HIDE DEF c
    <3>3. ~Dirty(k) => Collecting(c)
      BY <2>3, <3>2 DEF Collecting
    <3>4. /\ c.status # "absent" /\ c.name = 1 /\ c.schemaValid = "none"
          /\ Dirty(k) \in BOOLEAN
          /\ Dirty(k) <=> \/ c.status = "sdk_execution_observed"
                          \/ (callDiagnostics[k] \cup {})
                                \cap CallViolations # {}
      BY <1>3, <2>1, <3>2, <3>1, KnownCall
    <3>5. ~Dirty(k) => callDiagnostics[k] \cup {} = {} /\ Collecting(c)
      BY <1>3, <2>1, <3>1, <3>3, KnownCall
    <3> QED
      BY <1>1, <3>1, <3>2, <3>4, <3>5, CallEventDispatched
  <2> QED
    BY <2>2, <2>3
<1> QED
  BY <1>2, <1>3

\* A diagnostic about a call, or about a key that has none yet.
LEMMA DiagnosticDispatched ==
  ASSUME TypeOK, NEW k \in SourceKeys, NEW event, event.key = k,
         event.type = "provider_diagnostic", event.code \in DisqualifyingCodes, Tidy(k),
         (Known(k) /\ CallDiagnostic(k, event.code)) \/ SourceDiagnostic(k, event.code)
  PROVE  Dispatched(k, event)
<1> DEFINE code == event.code
<1>1. /\ ParserAfter(event, k) = calls[k].parser
      /\ Spoils(event, k) <=> code \in AuthorityProtocolViolationCodes \/ Known(k)
  BY DEF Spoils, ParserAfter, DisqualifyingCodes
<1>2. CASE Known(k) /\ CallDiagnostic(k, code)
  <2> DEFINE status == IF code \in SdkExecutionObservedCodes /\ Collecting(calls[k])
                       THEN "sdk_execution_observed" ELSE calls[k].status
             c == [ calls[k] EXCEPT !.status = status ]
  <2>1. ~isFinished /\ CallEvent(k, c, { code })
    BY <1>2 DEF CallDiagnostic, CallEvent, Accepted
  <2>2. /\ c.status = status /\ c.name = calls[k].name
        /\ c.schemaValid = calls[k].schemaValid /\ c.ended = calls[k].ended
        /\ c.parser = calls[k].parser
    BY <1>2, <2>1, KnownCall DEF Call
  <2>3. /\ status # "absent"
        /\ \/ status = "sdk_execution_observed"
           \/ (callDiagnostics[k] \cup { code }) \cap CallViolations # {}
    BY <1>2, <2>1, KnownCall DEF Collecting, DisqualifyingCodes, CallViolations
  <2> HIDE DEF c, status
  <2> QED
    BY <1>1, <1>2, <2>1, <2>2, <2>3, KnownCall, CallEventDispatched
<1>3. CASE SourceDiagnostic(k, code)
  <2>1. /\ ~isFinished /\ ~Known(k)
        /\ pendingProtocolDiagnostics' =
             [ pendingProtocolDiagnostics EXCEPT
                 ![k] = @ \cup ({ code } \cap AuthorityProtocolViolationCodes) ]
        /\ UNCHANGED << calls, callDiagnostics, streamDiagnostics, finishVars >>
    BY <1>3 DEF SourceDiagnostic, Accepted
  <2>2. /\ pendingProtocolDiagnostics'[k] = pendingProtocolDiagnostics[k]
             \cup ({ code } \cap AuthorityProtocolViolationCodes)
        /\ \A j \in SourceKeys \ { k } : KeyKept(j)
    BY <2>1 DEF TypeOK, KeyKept
  <2>3. /\ \A j \in SourceKeys : Known(j)' = Known(j)
        /\ Dirty(k)' <=> Dirty(k) \/ code \in AuthorityProtocolViolationCodes
    BY <2>1, <2>2 DEF Known, Dirty, CallViolations
  <2>4. \A j \in SourceKeys : Refused(j)' = Refused(j)
    BY <2>3, SameKnown
  <2>5. Tidy(k)'
    BY <2>1, <2>2, <2>3 DEF Tidy
  <2> QED
    BY <1>1, <2>1, <2>2, <2>3, <2>4, <2>5 DEF Dispatched
<1> QED
  BY <1>2, <1>3

\* A call is named again, by a provider that gives it no index.
LEMMA IdentityDispatched ==
  ASSUME TypeOK, NEW k \in SourceKeys, NEW event, event.key = k,
         event.type = "tool_call_identity", event.index = Absent, Tidy(k),
         (Known(k) /\ Identity(k, event.id, event.index)) \/ EventOfUnknownCall(k)
  PROVE  Dispatched(k, event)
<1>1. CASE EventOfUnknownCall(k)
  BY <1>1, UnknownCallDispatched
<1>2. CASE Known(k) /\ Identity(k, event.id, event.index)
  <2> DEFINE clash == Clashes(calls[k].toolCallId, event.id)
             codes == IF clash THEN { "E_PROVIDER_IDENTITY_CONFLICT" } ELSE {}
             c     == [ calls[k] EXCEPT !.toolCallId = Fill(calls[k].toolCallId, event.id),
                                        !.toolIndex = Fill(calls[k].toolIndex, event.index),
                                        !.status = IF clash THEN "invalid"
                                                   ELSE calls[k].status ]
  <2>1. ~Clashes(calls[k].toolIndex, event.index)
    BY DEF Clashes
  <2>2. codes = { code \in { "E_PROVIDER_IDENTITY_CONFLICT" } :
                    Clashes(calls[k].toolCallId, event.id) }
                  \cup { code \in { "E_PROVIDER_INDEX_CONFLICT" } :
                           Clashes(calls[k].toolIndex, event.index) }
    BY <2>1
  <2>3. CallEvent(k, c, codes)
    BY <1>2, <2>2 DEF Identity
  <2>4. ~isFinished
    BY <2>3 DEF CallEvent, Accepted
  <2>5. /\ c.status = IF clash THEN "invalid" ELSE calls[k].status
        /\ c.name = calls[k].name /\ c.schemaValid = calls[k].schemaValid
        /\ c.ended = calls[k].ended /\ c.parser = calls[k].parser
        /\ c.toolCallId = Fill(calls[k].toolCallId, event.id)
    BY <1>2, <2>4, KnownCall DEF Call
  <2>6. /\ Spoils(event, k) <=> clash
        /\ ParserAfter(event, k) = calls[k].parser
        /\ IdAfter(event, k) = Fill(calls[k].toolCallId, event.id)
    BY <1>2 DEF Spoils, ParserAfter, IdAfter
  <2>7. /\ clash => codes \cap CallViolations # {}
        /\ ~clash => codes = {}
    BY DEF CallViolations
  <2> HIDE DEF c, codes, clash
  <2>8. CASE clash
    <3>1. /\ c.status # "absent" /\ c.name = 1 /\ c.schemaValid = "none"
          /\ (callDiagnostics[k] \cup codes) \cap CallViolations # {}
      BY <1>2, <2>4, <2>5, <2>7, <2>8, KnownCall
    <3> QED
      BY <2>3, <2>6, <2>8, <3>1, CallEventDispatched
  <2>9. CASE ~clash
    <3>1. /\ c.status # "absent" /\ c.name = 1 /\ c.schemaValid = "none"
          /\ callDiagnostics[k] \cup codes = callDiagnostics[k]
          /\ Dirty(k) \in BOOLEAN
          /\ Dirty(k) <=> \/ c.status = "sdk_execution_observed"
                          \/ (callDiagnostics[k] \cup codes) \cap CallViolations # {}
      BY <1>2, <2>4, <2>5, <2>7, <2>9, KnownCall
    <3>2. ~Dirty(k) => callDiagnostics[k] \cup codes = {} /\ Collecting(c)
      BY <1>2, <2>4, <2>5, <2>9, <3>1, KnownCall DEF Collecting
    <3> QED
      BY <2>3, <2>5, <2>6, <2>9, <3>1, <3>2, CallEventDispatched
  <2> QED
    BY <2>8, <2>9
<1> QED
  BY <1>1, <1>2

\* Any event about a call that disqualifies it or says what it is.
LEMMA EventDispatched ==
  ASSUME TypeOK, NEW event \in NormalizedEvents, Dispatch(event),
         event.type \in { "tool_call_start", "tool_call_identity",
                          "tool_call_arguments_delta", "tool_call_end",
                          "provider_diagnostic" },
         event.type = "tool_call_identity" => event.index = Absent,
         NEW k \in SourceKeys, event.key = k, Tidy(k),
         event.type = "provider_diagnostic" => event.code \in DisqualifyingCodes
  PROVE  Dispatched(k, event)
<1>1. CASE event.type = "tool_call_start"
  <2>1. \/ Start(k, event.id, event.index, 1) \/ DuplicateStart(k) \/ StartOverLimit(k)
    BY <1>1 DEF Dispatch
  <2> QED
    BY <1>1, <2>1, StartDispatched
<1>2. CASE event.type = "tool_call_arguments_delta"
  BY <1>2, TextDispatched
<1>3. CASE event.type = "tool_call_end"
  <2>1. (Known(k) /\ CallEnd(k)) \/ EventOfUnknownCall(k)
    BY <1>3 DEF Dispatch
  <2> QED
    BY <1>3, <2>1, EndDispatched
<1>4. CASE event.type = "provider_diagnostic"
  <2>1. k # NoKey
    BY GuardAssumption
  <2>2. (Known(k) /\ CallDiagnostic(k, event.code)) \/ SourceDiagnostic(k, event.code)
    BY <1>4, <2>1 DEF Dispatch
  <2> QED
    BY <1>4, <2>2, DiagnosticDispatched
<1>5. CASE event.type = "tool_call_identity"
  <2>1. (Known(k) /\ Identity(k, event.id, event.index)) \/ EventOfUnknownCall(k)
    BY <1>5 DEF Dispatch
  <2> QED
    BY <1>5, <2>1, IdentityDispatched
<1> QED
  BY <1>1, <1>2, <1>3, <1>4, <1>5

------------------------------------------------------------------------------
(* The end of the stream.                                                   *)

\* What the end of the stream makes of each call, and what it notices.
LEMMA EndStreamMeans ==
  ASSUME NEW reason \in Reasons, EndStream(reason)
  PROVE  /\ \A k \in SourceKeys : calls'[k] \in Settlements(k, reason)
         /\ \A k \in SourceKeys :
              callDiagnostics'[k] = NoticedAtEnd(k) \cup
                { code \in { "E_SCHEMA_VALIDATION_FAILED" } :
                    Collecting(calls[k]) /\ calls'[k].schemaValid = "invalid" }
         /\ isFinished' = TRUE /\ finishedReason' = reason
         /\ UNCHANGED << streamDiagnostics, pendingProtocolDiagnostics >>
<1> DEFINE settling == { k \in SourceKeys : Settlements(k, reason) # { calls[k] } }
<1>1. PICK outcomes \in [ settling -> UNION { Settlements(k, reason) : k \in settling } ] :
        /\ \A k \in settling : outcomes[k] \in Settlements(k, reason)
        /\ calls' = [ k \in SourceKeys |->
                        IF k \in settling THEN outcomes[k] ELSE calls[k] ]
        /\ callDiagnostics' =
             [ k \in SourceKeys |-> NoticedAtEnd(k) \cup
                 { code \in { "E_SCHEMA_VALIDATION_FAILED" } :
                     Collecting(calls[k]) /\ calls'[k].schemaValid = "invalid" } ]
  BY DEF EndStream
<1>2. ASSUME NEW k \in SourceKeys  PROVE calls'[k] \in Settlements(k, reason)
  <2>1. CASE k \in settling
    BY <1>1, <2>1
  <2>2. CASE k \notin settling
    BY <1>1, <2>2
  <2> QED  BY <2>1, <2>2
<1> QED
  BY <1>1, <1>2 DEF EndStream

\* A settled call keeps its name, its text and its end, and no settlement says
\* that the SDK ran it.
LEMMA SettlementKeeps ==
  ASSUME TypeOK, NEW reason \in Reasons, NEW k \in SourceKeys, Collecting(calls[k]),
         NEW c \in Settlements(k, reason)
  PROVE  /\ c.name = calls[k].name /\ c.ended = calls[k].ended
         /\ c.parser = calls[k].parser /\ c.toolCallId = calls[k].toolCallId
         /\ c.status \notin { "absent", "collecting", "sdk_execution_observed" }
<1>1. /\ c.name = calls[k].name /\ c.ended = calls[k].ended
      /\ c.parser = calls[k].parser
  BY SettlementHistory
<1>2. PICK r \in FinishParser(calls[k].parser, reason), verdict \in ValidatorAnswers :
        c = FinishCall(calls[k], r, reason, verdict, HasError(NoticedAtEnd(k)))
  BY DEF Settlements
<1>3. calls[k] \in Call
  BY DEF TypeOK
<1>4. r.outcome \in { "valid", "truncated", "salvaged", "invalid" }
  BY <1>3, FinishParserResult DEF Call, ParserOutcomes
<1>5. /\ c.status \in { "truncated", "salvaged", "invalid", "complete", "cancelled" }
      /\ c.toolCallId = calls[k].toolCallId
  BY <1>2, <1>3, <1>4 DEF FinishCall, Call
<1> QED
  BY <1>1, <1>5

\* Without a schema, the end of the stream leaves the history of every call alone.
LEMMA EndKeepsHistory ==
  ASSUME TypeOK, ~isFinished, NEW reason \in Reasons, EndStream(reason),
         \A k \in SourceKeys : calls'[k].schemaValid = "none",
         NEW k \in SourceKeys, Tidy(k)
  PROVE  /\ Known(k)' = Known(k) /\ Dirty(k)' = Dirty(k) /\ Tidy(k)'
         /\ calls'[k].parser = calls[k].parser /\ calls'[k].ended = calls[k].ended
         /\ calls'[k].toolCallId = calls[k].toolCallId
<1>1. /\ calls'[k] \in Settlements(k, reason) /\ calls'[k].schemaValid = "none"
      /\ callDiagnostics'[k] = callDiagnostics[k] \cup
           { code \in { "E_STREAM_ENDED_WITH_OPEN_CALL" } :
               Collecting(calls[k]) /\ ~calls[k].ended }
      /\ isFinished' /\ pendingProtocolDiagnostics'[k] = pendingProtocolDiagnostics[k]
  BY EndStreamMeans DEF NoticedAtEnd
<1>2. "E_STREAM_ENDED_WITH_OPEN_CALL" \notin CallViolations
  BY DEF CallViolations, AuthorityProtocolViolationCodes
<1>3. CASE Collecting(calls[k])
  <2>1. /\ calls'[k].name = calls[k].name /\ calls'[k].ended = calls[k].ended
        /\ calls'[k].parser = calls[k].parser
        /\ calls'[k].toolCallId = calls[k].toolCallId
        /\ calls'[k].status \notin { "absent", "collecting", "sdk_execution_observed" }
    BY <1>1, <1>3, SettlementKeeps
  <2>2. Known(k) /\ Known(k)'
    BY <1>3, <2>1 DEF Known, Collecting
  <2>3. Dirty(k)' <=> Dirty(k)
    BY <1>1, <1>2, <1>3, <2>1, <2>2 DEF Dirty, Collecting
  <2>4. calls[k].ended => callDiagnostics'[k] = callDiagnostics[k]
    BY <1>1
  <2>5. Tidy(k)'
    BY <1>1, <2>1, <2>2, <2>3, <2>4 DEF Tidy
  <2> QED
    BY <2>1, <2>2, <2>3, <2>5 DEF Known, Dirty
<1>4. CASE ~Collecting(calls[k])
  <2>1. calls'[k] = calls[k] /\ callDiagnostics'[k] = callDiagnostics[k]
    BY <1>1, <1>4 DEF Settlements
  <2>2. Known(k)' = Known(k) /\ Dirty(k)' = Dirty(k)
    BY <1>1, <2>1 DEF Known, Dirty
  <2>3. Tidy(k)'
    BY <1>1, <2>1, <2>2 DEF Tidy, Collecting
  <2> QED
    BY <2>1, <2>2, <2>3
<1> QED
  BY <1>3, <1>4

\* The end of the stream makes no call known.
LEMMA EndStreamKnows ==
  ASSUME NEW reason \in Reasons, EndStream(reason), NEW k \in SourceKeys, Known(k)'
  PROVE  Known(k)
<1>1. calls'[k] \in Settlements(k, reason)
  BY EndStreamMeans
<1> QED
  BY <1>1 DEF Settlements, Known, Collecting

------------------------------------------------------------------------------
(* What the coordinator will know of a key once all that waits is pushed.   *)

Waiting == { emitted[i] : i \in DOMAIN emitted }

\* When an event about a call has its turn; 0 when it may come at any time.
Turn(event) ==
  CASE event.type \in { "tool_call_start", "tool_call_identity" } -> 1
    [] event.type = "provider_diagnostic" ->
         IF event.code \in SdkExecutionObservedCodes THEN 1 ELSE 0
    [] event.type = "tool_call_arguments_delta" -> 2
    [] event.type = "tool_call_end" -> 3
    [] OTHER -> 0

\* The events about one call wait in the order that they have to come in, the end of
\* the stream waits last, and nothing waits after it.
InOrder ==
  /\ \A event \in Waiting :
       /\ event.type # "tool_call_name_delta"
       /\ event.type = "tool_call_identity" => event.index = Absent
       /\ event.type = "provider_diagnostic" /\ event.key # NoKey =>
            event.code \in DisqualifyingCodes
  /\ \A i \in DOMAIN emitted :
       emitted[i].type = "provider_stream_end" => i = Len(emitted)
  /\ \A i, j \in DOMAIN emitted :
       /\ i < j /\ emitted[i].key = emitted[j].key
       /\ Turn(emitted[i]) > 0 /\ Turn(emitted[j]) > 0
       => Turn(emitted[i]) < Turn(emitted[j])
  /\ isFinished => emitted = << >>

Pending(k, type) == \E event \in Waiting : event.type = type /\ event.key = k

KnownSoon(k) == Known(k) \/ Pending(k, "tool_call_start")

DirtySoon(k) ==
  \/ Dirty(k)
  \/ Known(k) /\ Pending(k, "tool_call_start")
  \/ \E event \in Waiting : Spoils(event, k)

EndedSoon(k) == calls[k].ended \/ Pending(k, "tool_call_end")

TextSoon(k, p) ==
  \/ p = calls[k].parser /\ ~Pending(k, "tool_call_arguments_delta")
  \/ \E event \in Waiting :
       /\ event.type = "tool_call_arguments_delta" /\ event.key = k
       /\ p = Fed(calls[k].parser, event.piece)

IdSoon(k, id) ==
  \/ /\ id = calls[k].toolCallId
     /\ ~Pending(k, "tool_call_start") /\ ~Pending(k, "tool_call_identity")
  \/ \E event \in Waiting :
       event.type = "tool_call_start" /\ event.key = k /\ id = event.id
  \/ \E event \in Waiting :
       /\ event.type = "tool_call_identity" /\ event.key = k
       /\ id = Fill(calls[k].toolCallId, event.id)

\* The push changes nothing of what will be known of k.
Foreseen(k) ==
  /\ KnownSoon(k)' <=> KnownSoon(k)
  /\ DirtySoon(k)' <=> DirtySoon(k)
  /\ KnownSoon(k)' /\ ~DirtySoon(k)' =>
       /\ EndedSoon(k)' <=> EndedSoon(k)
       /\ \A p : TextSoon(k, p) => TextSoon(k, p)'
       /\ \A id : IdSoon(k, id) => IdSoon(k, id)'

\* The stream goes on.
GoesOn == ~isFinished /\ \A event \in Waiting : event.type # "provider_stream_end"

\* The coordinator is told that the stream ends for this reason, or has been.
EndSoon(reason) ==
  \/ ~isFinished /\ StreamEndEvent(reason) \in Waiting
  \/ isFinished /\ finishedReason = reason /\ emitted = << >>

\* What waits behind the first event keeps its place.
LEMMA QueueMoves ==
  ASSUME EmittedOK, emitted # << >>, emitted' = Tail(emitted)
  PROVE  /\ Len(emitted) \in Nat \ { 0 } /\ DOMAIN emitted = 1 .. Len(emitted)
         /\ Len(emitted') = Len(emitted) - 1 /\ DOMAIN emitted' = 1 .. Len(emitted) - 1
         /\ \A i \in DOMAIN emitted' : i + 1 \in DOMAIN emitted /\ emitted'[i] = emitted[i + 1]
         /\ 1 \in DOMAIN emitted /\ emitted[1] = Head(emitted)
         /\ Waiting = { Head(emitted) } \cup Waiting'
<1>1. /\ Len(emitted) \in Nat \ { 0 } /\ DOMAIN emitted = 1 .. Len(emitted)
      /\ Len(emitted') = Len(emitted) - 1 /\ DOMAIN emitted' = 1 .. Len(emitted) - 1
      /\ \A i \in DOMAIN emitted' : i + 1 \in DOMAIN emitted /\ emitted'[i] = emitted[i + 1]
      /\ 1 \in DOMAIN emitted /\ emitted[1] = Head(emitted)
  BY DEF EmittedOK
<1>2. ASSUME NEW i \in DOMAIN emitted
      PROVE  \/ i = 1
             \/ i - 1 \in DOMAIN emitted' /\ emitted[i] = emitted'[i - 1]
  <2>1. CASE i = 1
    BY <2>1
  <2>2. CASE i # 1
    <3>1. i - 1 \in DOMAIN emitted' /\ (i - 1) + 1 = i
      BY <1>1, <2>2
    <3> QED
      BY <1>1, <3>1
  <2> QED
    BY <2>1, <2>2
<1>3. Waiting' = { emitted'[i] : i \in DOMAIN emitted' }
  BY DEF Waiting
<1>4. Waiting \subseteq { Head(emitted) } \cup Waiting'
  BY <1>1, <1>2, <1>3 DEF Waiting
<1>5. { Head(emitted) } \cup Waiting' \subseteq Waiting
  BY <1>1, <1>3 DEF Waiting
<1> QED
  BY <1>1, <1>4, <1>5

\* The turn of an event is one of few.
LEMMA Turns ==
  ASSUME NEW event
  PROVE  /\ Turn(event) \in 0 .. 3
         /\ event.type \in { "tool_call_start", "tool_call_identity" } => Turn(event) = 1
         /\ event.type = "provider_diagnostic" /\ event.code \in SdkExecutionObservedCodes =>
              Turn(event) = 1
         /\ event.type = "tool_call_arguments_delta" => Turn(event) = 2
         /\ event.type = "tool_call_end" => Turn(event) = 3
BY DEF Turn

\* What waits about a call comes after the first event about it.
LEMMA FirstTurn ==
  ASSUME EmittedOK, emitted # << >>, emitted' = Tail(emitted), InOrder,
         NEW event \in Waiting', event.key = Head(emitted).key, Turn(Head(emitted)) > 0,
         Turn(event) > 0
  PROVE  Turn(Head(emitted)) < Turn(event)
<1>1. PICK i \in DOMAIN emitted' : event = emitted'[i]
  BY DEF Waiting
<1>2. 1 \in DOMAIN emitted /\ i + 1 \in DOMAIN emitted /\ 1 < i + 1
      /\ event = emitted[i + 1] /\ Head(emitted) = emitted[1]
  BY <1>1, QueueMoves
<1> QED
  BY <1>2 DEF InOrder

\* The queue stays in order.
LEMMA OrderKept ==
  ASSUME EmittedOK, emitted # << >>, emitted' = Tail(emitted), InOrder,
         isFinished' => Head(emitted).type = "provider_stream_end"
  PROVE  InOrder'
<1> USE QueueMoves
<1>1. Waiting' \subseteq Waiting
  OBVIOUS
<1>2. ASSUME NEW i \in DOMAIN emitted', emitted'[i].type = "provider_stream_end"
      PROVE  i = Len(emitted')
  <2>1. i + 1 = Len(emitted) /\ i \in Int
    BY <1>2 DEF InOrder
  <2> QED
    BY <2>1
<1>3. ASSUME NEW i \in DOMAIN emitted', NEW j \in DOMAIN emitted',
             i < j, emitted'[i].key = emitted'[j].key,
             Turn(emitted'[i]) > 0, Turn(emitted'[j]) > 0
      PROVE  Turn(emitted'[i]) < Turn(emitted'[j])
  <2>1. /\ i + 1 \in DOMAIN emitted /\ j + 1 \in DOMAIN emitted /\ i + 1 < j + 1
        /\ emitted'[i] = emitted[i + 1] /\ emitted'[j] = emitted[j + 1]
    BY <1>3
  <2> QED
    BY <1>3, <2>1 DEF InOrder
<1>4. ASSUME isFinished'  PROVE emitted' = << >>
  <2>1. Len(emitted) = 1
    BY <1>4 DEF InOrder
  <2> QED
    BY <2>1 DEF EmittedOK
<1>5. \A event \in Waiting' :
        /\ event.type # "tool_call_name_delta"
        /\ event.type = "tool_call_identity" => event.index = Absent
        /\ event.type = "provider_diagnostic" /\ event.key # NoKey =>
             event.code \in DisqualifyingCodes
  BY <1>1 DEF InOrder
<1>6. \A event : Turn(event)' = Turn(event)
  BY DEF Turn
<1> QED
  BY <1>2, <1>3, <1>4, <1>5, <1>6 DEF InOrder, Turn

\* What is known of k, split into what the first event says and what waits behind it.
LEMMA FirstAndRest ==
  ASSUME EmittedOK, emitted # << >>, emitted' = Tail(emitted), NEW k
  PROVE  /\ \A type : Pending(k, type) <=>
                        \/ Head(emitted).type = type /\ Head(emitted).key = k
                        \/ Pending(k, type)'
         /\ \A event \in Waiting' : event \in Waiting
         /\ Head(emitted) \in Waiting
<1>1. Waiting = { Head(emitted) } \cup Waiting'
  BY QueueMoves
<1> QED
  BY <1>1 DEF Pending

\* A push that leaves the record of k alone and is not about k was foreseen.
LEMMA OtherForeseen ==
  ASSUME EmittedOK, emitted # << >>, emitted' = Tail(emitted), NEW k \in SourceKeys,
         \/ Head(emitted).type = "provider_stream_end"
         \/ Head(emitted).key # k,
         Known(k)' = Known(k), Dirty(k)' = Dirty(k),
         calls'[k].parser = calls[k].parser, calls'[k].ended = calls[k].ended,
         calls'[k].toolCallId = calls[k].toolCallId
  PROVE  Foreseen(k)
<1> DEFINE h == Head(emitted)
<1>1. Waiting = { h } \cup Waiting'
  BY QueueMoves
<1>2. \A event \in Waiting :
        /\ event.key = k
        /\ event.type \in { "tool_call_start", "tool_call_identity",
                            "tool_call_arguments_delta", "tool_call_end",
                            "provider_diagnostic" }
        => event \in Waiting'
  BY <1>1
<1> HIDE DEF h
<1>3. \A event : Spoils(event, k)' <=> Spoils(event, k)
  BY DEF Spoils
<1>4. \A type \in { "tool_call_start", "tool_call_identity", "tool_call_arguments_delta",
                    "tool_call_end" } :
        Pending(k, type)' <=> Pending(k, type)
  BY <1>1, <1>2 DEF Pending
<1>5. KnownSoon(k)' <=> KnownSoon(k)
  BY <1>4 DEF KnownSoon
<1>6. (\E event \in Waiting : Spoils(event, k))' <=> \E event \in Waiting : Spoils(event, k)
  BY <1>1, <1>2, <1>3 DEF Spoils
<1>7. DirtySoon(k)' <=> DirtySoon(k)
  BY <1>4, <1>6 DEF DirtySoon
<1>8. EndedSoon(k)' <=> EndedSoon(k)
  BY <1>4 DEF EndedSoon
<1>9. \A p : TextSoon(k, p) => TextSoon(k, p)'
  BY <1>1, <1>2, <1>4 DEF TextSoon
<1>10. \A id : IdSoon(k, id) => IdSoon(k, id)'
  BY <1>1, <1>2, <1>4 DEF IdSoon
<1> QED
  BY <1>5, <1>7, <1>8, <1>9, <1>10 DEF Foreseen

\* A push about k that the gate took in was foreseen, or k was refused.
LEMMA OwnForeseen ==
  ASSUME EmittedOK, emitted # << >>, emitted' = Tail(emitted), InOrder,
         NEW k \in SourceKeys, Head(emitted).key = k, Tidy(k), ~Refused(k)',
         Head(emitted).type \in { "tool_call_start", "tool_call_identity",
                                  "tool_call_arguments_delta", "tool_call_end",
                                  "provider_diagnostic" },
         Dispatched(k, Head(emitted))
  PROVE  Foreseen(k)
<1> DEFINE h == Head(emitted)
<1>1. /\ Waiting = { h } \cup Waiting'
      /\ h.key = k
      /\ \A event \in Waiting' :
           event.key = k /\ Turn(h) > 0 /\ Turn(event) > 0 => Turn(h) < Turn(event)
  BY QueueMoves, FirstTurn
<1>2. /\ Tidy(k)'
      /\ Known(k)' <=> Known(k) \/ h.type = "tool_call_start"
      /\ Dirty(k)' <=> \/ Dirty(k) \/ Spoils(h, k)
                       \/ Known(k) /\ h.type = "tool_call_start"
      /\ Known(k)' /\ ~Dirty(k)' =>
           /\ calls'[k].ended <=> calls[k].ended \/ h.type = "tool_call_end"
           /\ calls'[k].parser = ParserAfter(h, k)
           /\ calls'[k].toolCallId = IdAfter(h, k)
  BY DEF Dispatched
<1>3. h.type \in { "tool_call_start", "tool_call_identity", "tool_call_arguments_delta",
                   "tool_call_end", "provider_diagnostic" }
  OBVIOUS
<1> HIDE DEF h
<1>4. ASSUME NEW event \in Waiting', event.key = k
      PROVE  /\ h.type \in { "tool_call_start", "tool_call_identity" } =>
                  /\ event.type \notin { "tool_call_start", "tool_call_identity" }
                  /\ ~(/\ event.type = "provider_diagnostic"
                       /\ event.code \in SdkExecutionObservedCodes)
             /\ h.type = "tool_call_arguments_delta" =>
                  event.type \notin { "tool_call_start", "tool_call_identity",
                                      "tool_call_arguments_delta" }
             /\ h.type = "tool_call_end" =>
                  event.type \notin { "tool_call_start", "tool_call_identity",
                                      "tool_call_arguments_delta", "tool_call_end" }
  BY <1>1, <1>4, Turns
<1>5. \A type : Pending(k, type) <=> h.type = type \/ Pending(k, type)'
  BY <1>1 DEF Pending
<1>6. KnownSoon(k)' <=> KnownSoon(k)
  BY <1>2, <1>5 DEF KnownSoon
<1>7. h.type \in { "tool_call_start", "tool_call_identity", "tool_call_arguments_delta",
                   "tool_call_end" } => ~Pending(k, "tool_call_start")'
  BY <1>4 DEF Pending
<1>8. ASSUME NEW event \in Waiting', ~Dirty(k)', ~Dirty(k)
      PROVE  Spoils(event, k)' <=> Spoils(event, k)
  <2>1. CASE /\ event.type = "provider_diagnostic" /\ event.key = k
             /\ event.code \in SdkExecutionObservedCodes
    <3>1. h.type # "tool_call_start"
      BY <1>4, <2>1
    <3>2. Known(k)' <=> Known(k)
      BY <1>2, <3>1
    <3> QED
      BY <2>1, <3>2 DEF Spoils
  <2>2. CASE event.type = "tool_call_identity" /\ event.key = k
    <3>1. h.type \in { "provider_diagnostic" }
      BY <1>3, <1>4, <2>2
    <3>2. /\ Known(k)' <=> Known(k)
          /\ Known(k)' => calls'[k].toolCallId = calls[k].toolCallId
      BY <1>2, <1>8, <3>1 DEF IdAfter
    <3> QED
      BY <2>2, <3>2 DEF Spoils
  <2> QED
    BY <2>1, <2>2 DEF Spoils
<1>9. DirtySoon(k)' <=> DirtySoon(k)
  <2>1. CASE Dirty(k)
    BY <1>2, <2>1 DEF DirtySoon
  <2>2. CASE Dirty(k)' /\ ~Dirty(k)
    BY <1>1, <1>2, <1>5, <2>2 DEF DirtySoon
  <2>3. CASE ~Dirty(k)' /\ ~Dirty(k)
    <3>1. ~Spoils(h, k) /\ ~(Known(k) /\ h.type = "tool_call_start")
      BY <1>2, <2>3
    <3>2. (\E event \in Waiting : Spoils(event, k))' <=> \E event \in Waiting : Spoils(event, k)
      BY <1>1, <1>8, <2>3, <3>1
    <3>3. Known(k)' /\ Pending(k, "tool_call_start")' <=> Known(k) /\ Pending(k, "tool_call_start")
      BY <1>2, <1>5, <1>7, <3>1
    <3> QED
      BY <2>3, <3>2, <3>3 DEF DirtySoon
  <2> QED
    BY <2>1, <2>2, <2>3
<1>10. ASSUME KnownSoon(k)', ~DirtySoon(k)'
       PROVE  /\ EndedSoon(k)' <=> EndedSoon(k)
              /\ \A p : TextSoon(k, p) => TextSoon(k, p)'
              /\ \A id : IdSoon(k, id) => IdSoon(k, id)'
  <2>1. ~Dirty(k)' /\ ~(Known(k) /\ h.type = "tool_call_start")
    BY <1>2, <1>10 DEF DirtySoon
  <2>2. CASE Known(k)'
    <3>1. /\ calls'[k].ended <=> calls[k].ended \/ h.type = "tool_call_end"
          /\ calls'[k].parser = ParserAfter(h, k)
          /\ calls'[k].toolCallId = IdAfter(h, k)
      BY <1>2, <2>1, <2>2
    <3>2. EndedSoon(k)' <=> EndedSoon(k)
      BY <1>5, <3>1 DEF EndedSoon
    <3>3. ASSUME NEW p, TextSoon(k, p)  PROVE TextSoon(k, p)'
      <4>1. CASE h.type = "tool_call_arguments_delta"
        <5>1. \A event \in Waiting' : event.type = "tool_call_arguments_delta" => event.key # k
          BY <1>4, <4>1
        <5>2. p = Fed(calls[k].parser, h.piece)
          BY <1>1, <1>5, <3>3, <4>1, <5>1 DEF TextSoon
        <5> QED
          BY <3>1, <4>1, <5>1, <5>2 DEF TextSoon, ParserAfter, Pending
      <4>2. CASE h.type # "tool_call_arguments_delta"
        <5>1. calls'[k].parser = calls[k].parser
          BY <3>1, <4>2 DEF ParserAfter
        <5> QED
          BY <1>1, <1>5, <3>3, <4>2, <5>1 DEF TextSoon
      <4> QED
        BY <4>1, <4>2
    <3>4. ASSUME NEW id, IdSoon(k, id)  PROVE IdSoon(k, id)'
      <4>1. CASE h.type \in { "tool_call_start", "tool_call_identity" }
        <5>1. \A event \in Waiting' :
                event.type \in { "tool_call_start", "tool_call_identity" } => event.key # k
          BY <1>4, <4>1
        <5>2. id = IdAfter(h, k)
          BY <1>1, <1>5, <3>4, <4>1, <5>1 DEF IdSoon, IdAfter
        <5> QED
          BY <3>1, <5>1, <5>2 DEF IdSoon, Pending
      <4>2. CASE h.type \notin { "tool_call_start", "tool_call_identity" }
        <5>1. calls'[k].toolCallId = calls[k].toolCallId
          BY <3>1, <4>2 DEF IdAfter
        <5> QED
          BY <1>1, <1>5, <3>4, <4>2, <5>1 DEF IdSoon
      <4> QED
        BY <4>1, <4>2
    <3> QED
      BY <3>2, <3>3, <3>4
  <2>3. CASE ~Known(k)'
    <3>1. /\ Pending(k, "tool_call_start")' /\ h.type = "provider_diagnostic"
          /\ ~Known(k)
      BY <1>2, <1>3, <1>7, <1>10, <2>3 DEF KnownSoon
    <3>2. /\ calls[k].parser = "empty" /\ ~calls[k].ended
          /\ calls'[k].parser = "empty" /\ ~calls'[k].ended
          /\ calls'[k].toolCallId = calls[k].toolCallId
      BY <1>2, <2>3, <3>1 DEF Tidy
    <3>3. EndedSoon(k)' <=> EndedSoon(k)
      BY <1>5, <3>1, <3>2 DEF EndedSoon
    <3>4. \A p : TextSoon(k, p) => TextSoon(k, p)'
      BY <1>1, <1>5, <3>1, <3>2 DEF TextSoon
    <3>5. \A id : IdSoon(k, id) => IdSoon(k, id)'
      BY <1>1, <1>5, <3>1, <3>2 DEF IdSoon
    <3> QED
      BY <3>3, <3>4, <3>5
  <2> QED
    BY <2>2, <2>3
<1> QED
  BY <1>6, <1>9, <1>10 DEF Foreseen

------------------------------------------------------------------------------
(* Delivering what waits.                                                   *)

\* A delivery that leaves the stream alive takes the event in.
LEMMA DeliveryTaken ==
  ASSUME EmittedOK, TypeOK, Deliver, InOrder, ~Dead'
  PROVE  LET event == Head(emitted)
         IN /\ emitted # << >> /\ emitted' = Tail(emitted) /\ ~isFinished
            /\ event \in NormalizedEvents /\ event \in Waiting
            /\ UNCHANGED << adapter, phase, evidence >>
            /\ \/ event.type # "provider_stream_end" /\ Dispatch(event)
               \/ /\ event.type = "provider_stream_end" /\ event.reason \in Reasons
                  /\ EndStream(event.reason)
                  /\ \A k \in SourceKeys : calls'[k].schemaValid = "none"
<1> DEFINE event == Head(emitted)
<1>1. /\ emitted # << >> /\ emitted' = Tail(emitted) /\ ~isFinished
      /\ UNCHANGED << adapter, phase, evidence >>
  BY DEF Deliver, InOrder
<1>2. event \in NormalizedEvents /\ event \in Waiting
  BY <1>1, QueueMoves DEF EmittedOK
<1>3. CASE event.type # "provider_stream_end"
  BY <1>1, <1>2, <1>3, RefusedPushKills DEF Deliver
<1>4. CASE event.type = "provider_stream_end"
  <2>1. /\ PushEnd(event.reason) /\ event.reason \in Reasons
        /\ \A k \in SourceKeys : calls'[k].schemaValid = "none"
    BY <1>2, <1>4, NormalizedEvent DEF Deliver
  <2>2. PushStreamEnd(event.reason)
    BY <2>1, PushEndMeans
  <2> QED
    BY <1>1, <1>2, <1>4, <2>1, <2>2 DEF PushStreamEnd
<1> QED
  BY <1>1, <1>2, <1>3, <1>4

\* A delivery that leaves the stream alive makes known what was foreseen.
LEMMA DeliverForeseen ==
  ASSUME EmittedOK, TypeOK, Deliver, InOrder, \A k \in SourceKeys : Tidy(k), ~Dead'
  PROVE  /\ InOrder'
         /\ \A k \in SourceKeys :
              /\ Tidy(k)' /\ (Refused(k) => Refused(k)')
              /\ Refused(k)' \/ Foreseen(k)
         /\ GoesOn => GoesOn'
         /\ \A reason \in Reasons : EndSoon(reason) => EndSoon(reason)'
<1> DEFINE h == Head(emitted)
           Goal == /\ InOrder'
                   /\ \A k \in SourceKeys :
                        /\ Tidy(k)' /\ (Refused(k) => Refused(k)')
                        /\ Refused(k)' \/ Foreseen(k)
                   /\ GoesOn => GoesOn'
                   /\ \A reason \in Reasons : EndSoon(reason) => EndSoon(reason)'
<1>1. /\ emitted # << >> /\ emitted' = Tail(emitted) /\ ~isFinished
      /\ h \in NormalizedEvents /\ h \in Waiting
      /\ \/ h.type # "provider_stream_end" /\ Dispatch(h)
         \/ /\ h.type = "provider_stream_end" /\ h.reason \in Reasons
            /\ EndStream(h.reason)
            /\ \A k \in SourceKeys : calls'[k].schemaValid = "none"
  BY DeliveryTaken
<1>2. Waiting = { h } \cup Waiting'
  BY <1>1, QueueMoves
<1>3. ASSUME h.type # "provider_stream_end", isFinished' = isFinished
      PROVE  /\ InOrder' /\ (GoesOn => GoesOn')
             /\ \A reason \in Reasons : EndSoon(reason) => EndSoon(reason)'
  <2>1. InOrder' /\ (GoesOn => GoesOn')
    BY <1>1, <1>2, <1>3, OrderKept DEF GoesOn
  <2>2. \A reason \in Reasons : StreamEndEvent(reason) # h
    BY <1>3 DEF StreamEndEvent
  <2> QED
    BY <1>1, <1>2, <1>3, <2>1, <2>2 DEF EndSoon
<1>4. CASE h.type = "provider_stream_end"
  <2>1. /\ EndStream(h.reason) /\ h.reason \in Reasons
        /\ \A k \in SourceKeys : calls'[k].schemaValid = "none"
    BY <1>1, <1>4
  <2>2. \A k \in SourceKeys :
          /\ Known(k)' = Known(k) /\ Dirty(k)' = Dirty(k) /\ Tidy(k)'
          /\ calls'[k].parser = calls[k].parser /\ calls'[k].ended = calls[k].ended
          /\ calls'[k].toolCallId = calls[k].toolCallId
    BY <1>1, <2>1, EndKeepsHistory
  <2>3. \A k \in SourceKeys : Refused(k)' = Refused(k)
    BY <2>2, SameKnown
  <2>4. \A k \in SourceKeys : Foreseen(k)
    BY <1>1, <1>4, <2>2, OtherForeseen
  <2>5. InOrder'
    BY <1>1, <1>4, OrderKept
  <2>6. ~GoesOn
    BY <1>1, <1>4 DEF GoesOn
  <2>7. ASSUME NEW reason \in Reasons, EndSoon(reason)  PROVE EndSoon(reason)'
    <3>1. emitted' = << >> /\ isFinished' /\ finishedReason' = h.reason
      BY <2>1, <2>5, EndStreamMeans DEF InOrder
    <3>2. Waiting' = {}
      BY <3>1 DEF Waiting
    <3>3. StreamEndEvent(reason) = h
      BY <1>1, <1>2, <2>7, <3>2 DEF EndSoon
    <3> QED
      BY <3>1, <3>3 DEF EndSoon, StreamEndEvent
  <2> QED
    BY <2>2, <2>3, <2>4, <2>5, <2>6, <2>7
<1>5. CASE h.type = "provider_diagnostic" /\ h.key = NoKey
  <2>1. StreamDiagnostic(h.code)
    BY <1>1, <1>5 DEF Dispatch
  <2>2. isFinished' = isFinished /\ \A k \in SourceKeys : KeyKept(k)
    BY <2>1 DEF StreamDiagnostic, KeyKept, finishVars
  <2>3. \A k \in SourceKeys : Known(k)' = Known(k) /\ Dirty(k)' = Dirty(k) /\ Tidy(k)'
    BY <2>2, KeptKeyIsTidy
  <2>4. \A k \in SourceKeys : Refused(k)' = Refused(k)
    BY <2>3, SameKnown
  <2>5. \A k \in SourceKeys : Foreseen(k)
    <3> TAKE k \in SourceKeys
    <3>1. h.key # k
      BY <1>5, GuardAssumption
    <3> QED
      BY <1>1, <2>2, <2>3, <3>1, OtherForeseen DEF KeyKept
  <2> QED
    BY <1>3, <1>5, <2>2, <2>3, <2>4, <2>5
<1>6. CASE h.type # "provider_stream_end" /\ ~(h.type = "provider_diagnostic" /\ h.key = NoKey)
  <2>0. PICK own : own = h.key
    OBVIOUS
  <2>1. /\ h.type \in { "tool_call_start", "tool_call_identity", "tool_call_arguments_delta",
                        "tool_call_end", "provider_diagnostic" }
        /\ own \in SourceKeys
    BY <2>0, <1>1, <1>6, NormalizedEvent DEF InOrder, NormalizedEvents
  <2>2. /\ h.type = "tool_call_identity" => h.index = Absent
        /\ h.type = "provider_diagnostic" => h.code \in DisqualifyingCodes
    BY <1>1, <1>6 DEF InOrder
  <2> HIDE DEF h
  <2>3. Dispatched(own, h)
    BY <1>1, <1>6, <2>0, <2>1, <2>2, EventDispatched
  <2>4. /\ isFinished' = isFinished /\ \A j \in SourceKeys \ { own } : KeyKept(j)
        /\ \A j \in SourceKeys : Refused(j) => Refused(j)'
        /\ Tidy(own)'
    BY <2>3 DEF Dispatched, finishVars
  <2>5. ~Refused(own)' => Foreseen(own)
    BY <1>1, <2>0, <2>1, <2>3, OwnForeseen DEF h
  <2>6. ASSUME NEW k \in SourceKeys \ { own }  PROVE Tidy(k)' /\ Foreseen(k)
    <3>1. KeyKept(k)
      BY <2>4
    <3>2. Known(k)' = Known(k) /\ Dirty(k)' = Dirty(k) /\ Tidy(k)'
      BY <2>4, <3>1, KeptKeyIsTidy
    <3> QED
      BY <1>1, <2>0, <3>1, <3>2, OtherForeseen DEF KeyKept, h
  <2> QED
    BY <1>3, <1>6, <2>4, <2>5, <2>6
<1> HIDE DEF Goal
<1> QED
  BY <1>4, <1>5, <1>6 DEF Goal

\* A delivery kills the stream when the event does, or for the limit of events.
LEMMA DeliveryDies ==
  ASSUME EmittedOK, TypeOK, Deliver, InOrder, ~Dead, Dead'
  PROVE  Starved' \/ Kills(Head(emitted))
<1> DEFINE h == Head(emitted)
<1>1. /\ h \in NormalizedEvents /\ ~isFinished /\ streamDiagnostics \cap BlockingCodes = {}
      /\ \A event \in { h } : event.type = "provider_diagnostic" /\ event.key # NoKey =>
                                event.code \in DisqualifyingCodes
      /\ h.type # "tool_call_name_delta"
  BY QueueMoves DEF Deliver, EmittedOK, InOrder, Dead
<1>2. CASE PushRejected
  BY <1>1, <1>2, RefusedPushKills
<1>3. CASE h.type = "provider_stream_end"
  <2>1. PushEnd(h.reason) /\ h.reason \in Reasons
    BY <1>1, <1>3, NormalizedEvent DEF Deliver
  <2>2. CASE PushStreamEnd(h.reason)
    <3>1. isFinished' = TRUE /\ finishedReason' = h.reason /\ UNCHANGED streamDiagnostics
      BY <2>1, <2>2, EndStreamMeans DEF PushStreamEnd
    <3> QED
      BY <1>1, <1>3, <3>1 DEF Dead, Kills
  <2> QED
    BY <1>1, <2>1, <2>2, PushEndMeans
<1>4. CASE h.type # "provider_stream_end" /\ Dispatch(h)
  <2>1. h.type \in { "tool_call_start", "tool_call_identity", "tool_call_arguments_delta",
                     "tool_call_end", "provider_diagnostic" }
    BY <1>1, <1>4 DEF NormalizedEvents
  <2>2. CASE h.type = "provider_diagnostic" /\ h.key = NoKey
    <3>1. StreamDiagnostic(h.code)
      BY <1>4, <2>2 DEF Dispatch
    <3>2. streamDiagnostics' = streamDiagnostics \cup { h.code } /\ ~isFinished'
      BY <1>1, <3>1 DEF StreamDiagnostic, finishVars
    <3> QED
      BY <1>1, <2>2, <3>2 DEF Dead, Kills
  <2>3. CASE ~(h.type = "provider_diagnostic" /\ h.key = NoKey)
    <3>1. /\ ~isFinished'
          /\ streamDiagnostics' \subseteq streamDiagnostics \cup { "E_COORDINATOR_LIMIT_CALLS" }
      BY <1>1, <1>4, <2>1, <2>3
         DEF Dispatch, Start, DuplicateStart, StartOverLimit, Identity, ArgumentsDelta,
             CallEnd, EventOfUnknownCall, CallDiagnostic, SourceDiagnostic, CallEvent,
             finishVars, diagnosticVars
    <3>2. "E_COORDINATOR_LIMIT_CALLS" \notin BlockingCodes
      BY DEF BlockingCodes, AuthorityProtocolViolationCodes, SdkExecutionObservedCodes,
             ContentFilteredCode
    <3> QED
      BY <1>1, <3>1, <3>2 DEF Dead
  <2> QED
    BY <2>2, <2>3
<1> QED
  BY <1>2, <1>3, <1>4 DEF Deliver

------------------------------------------------------------------------------
(* What a step of the adapter leaves to be pushed.                          *)

\* Nothing has waited, and the gate stands still: what will be known of k follows
\* from the events that the adapter returned.
LEMMA Queued ==
  ASSUME emitted = << >>, UNCHANGED vars, NEW k \in SourceKeys
  PROVE  /\ KnownSoon(k) <=> Known(k)
         /\ KnownSoon(k)' <=> KnownSoon(k) \/ Pending(k, "tool_call_start")'
         /\ DirtySoon(k)' <=> \/ DirtySoon(k)
                              \/ KnownSoon(k) /\ Pending(k, "tool_call_start")'
                              \/ \E event \in Waiting' : Spoils(event, k)
         /\ EndedSoon(k)' <=> EndedSoon(k) \/ Pending(k, "tool_call_end")'
         /\ \A p : TextSoon(k, p) /\ ~Pending(k, "tool_call_arguments_delta")' =>
                     TextSoon(k, p)'
         /\ \A p, event : /\ TextSoon(k, p) /\ event \in Waiting'
                          /\ event.type = "tool_call_arguments_delta" /\ event.key = k
                          => TextSoon(k, Fed(p, event.piece))'
         /\ \A id : /\ IdSoon(k, id) /\ ~Pending(k, "tool_call_start")'
                    /\ ~Pending(k, "tool_call_identity")'
                    => IdSoon(k, id)'
         /\ \A event \in Waiting' :
              event.type = "tool_call_start" /\ event.key = k => IdSoon(k, event.id)'
         /\ \A id, event : /\ IdSoon(k, id) /\ event \in Waiting'
                           /\ event.type = "tool_call_identity" /\ event.key = k
                           => IdSoon(k, Fill(id, event.id))'
         /\ Tidy(k)' = Tidy(k) /\ Refused(k)' = Refused(k)
<1>1. /\ Waiting = {} /\ calls' = calls
      /\ Known(k)' = Known(k) /\ Dirty(k)' = Dirty(k)
      /\ Tidy(k)' = Tidy(k) /\ Refused(k)' = Refused(k)
  BY SameCoordinator DEF Waiting, vars
<1>2. \A event : Spoils(event, k)' <=> Spoils(event, k)
  BY <1>1 DEF Spoils
<1>3. /\ ~Pending(k, "tool_call_start") /\ ~Pending(k, "tool_call_identity")
      /\ ~Pending(k, "tool_call_arguments_delta") /\ ~Pending(k, "tool_call_end")
  BY <1>1 DEF Pending
<1>4. (\E event \in Waiting : Spoils(event, k))' <=> \E event \in Waiting' : Spoils(event, k)
  BY <1>2
<1>5. /\ DirtySoon(k) <=> Dirty(k)
      /\ DirtySoon(k)' <=> \/ DirtySoon(k)
                           \/ Known(k) /\ Pending(k, "tool_call_start")'
                           \/ \E event \in Waiting' : Spoils(event, k)
  BY <1>1, <1>3, <1>4 DEF DirtySoon
<1>6. /\ KnownSoon(k) <=> Known(k)
      /\ KnownSoon(k)' <=> KnownSoon(k) \/ Pending(k, "tool_call_start")'
      /\ EndedSoon(k)' <=> EndedSoon(k) \/ Pending(k, "tool_call_end")'
  BY <1>1, <1>3 DEF KnownSoon, EndedSoon
<1>7. /\ \A p : TextSoon(k, p) => p = calls[k].parser
      /\ \A id : IdSoon(k, id) => id = calls[k].toolCallId
  BY <1>1 DEF TextSoon, IdSoon
<1>8. /\ \A p : TextSoon(k, p) /\ ~Pending(k, "tool_call_arguments_delta")' =>
                  TextSoon(k, p)'
      /\ \A p, event : /\ TextSoon(k, p) /\ event \in Waiting'
                       /\ event.type = "tool_call_arguments_delta" /\ event.key = k
                       => TextSoon(k, Fed(p, event.piece))'
  BY <1>1, <1>7 DEF TextSoon
<1>9. /\ \A id : /\ IdSoon(k, id) /\ ~Pending(k, "tool_call_start")'
                 /\ ~Pending(k, "tool_call_identity")'
                 => IdSoon(k, id)'
      /\ \A event \in Waiting' :
           event.type = "tool_call_start" /\ event.key = k => IdSoon(k, event.id)'
      /\ \A id, event : /\ IdSoon(k, id) /\ event \in Waiting'
                        /\ event.type = "tool_call_identity" /\ event.key = k
                        => IdSoon(k, Fill(id, event.id))'
  BY <1>1, <1>7 DEF IdSoon
<1> QED
  BY <1>1, <1>5, <1>6, <1>8, <1>9

\* The events of two sequences, one after the other.
LEMMA JoinedEvents ==
  ASSUME NEW S, NEW s \in Seq(S), NEW t \in Seq(S)
  PROVE  /\ s \o t \in Seq(S) /\ Len(s \o t) = Len(s) + Len(t)
         /\ \A i \in DOMAIN s : i \in DOMAIN (s \o t) /\ (s \o t)[i] = s[i]
         /\ \A i \in DOMAIN t : Len(s) + i \in DOMAIN (s \o t) /\ (s \o t)[Len(s) + i] = t[i]
         /\ \A i \in DOMAIN (s \o t) :
              \/ i \in DOMAIN s /\ (s \o t)[i] = s[i]
              \/ i - Len(s) \in DOMAIN t /\ (s \o t)[i] = t[i - Len(s)]
<1>1. /\ Len(s) \in Nat /\ DOMAIN s = 1 .. Len(s)
      /\ Len(t) \in Nat /\ DOMAIN t = 1 .. Len(t)
  OBVIOUS
<1>2. /\ s \o t \in Seq(S) /\ Len(s \o t) = Len(s) + Len(t)
      /\ DOMAIN (s \o t) = 1 .. Len(s) + Len(t)
  OBVIOUS
<1>3. \A i \in 1 .. Len(s) + Len(t) :
        (s \o t)[i] = IF i <= Len(s) THEN s[i] ELSE t[i - Len(s)]
  OBVIOUS
<1>4. \A i \in DOMAIN s : i \in DOMAIN (s \o t) /\ (s \o t)[i] = s[i]
  BY <1>1, <1>2, <1>3
<1>5. ASSUME NEW i \in DOMAIN t
      PROVE  Len(s) + i \in DOMAIN (s \o t) /\ (s \o t)[Len(s) + i] = t[i]
  <2>1. /\ Len(s) + i \in 1 .. Len(s) + Len(t) /\ ~(Len(s) + i <= Len(s))
        /\ (Len(s) + i) - Len(s) = i
    BY <1>1
  <2> QED
    BY <1>2, <1>3, <2>1
<1>6. ASSUME NEW i \in DOMAIN (s \o t)
      PROVE  \/ i \in DOMAIN s /\ (s \o t)[i] = s[i]
             \/ i - Len(s) \in DOMAIN t /\ (s \o t)[i] = t[i - Len(s)]
  BY <1>1, <1>2, <1>3
<1> QED
  BY <1>2, <1>4, <1>5, <1>6

\* The elements of a finite set, in some order.
LEMMA SetInOrder ==
  ASSUME NEW S, IsFiniteSet(S)
  PROVE  /\ Cardinality(S) \in Nat
         /\ SetToSeq(S) \in [ 1 .. Cardinality(S) -> S ]
         /\ \A x \in S : \E i \in 1 .. Cardinality(S) : SetToSeq(S)[i] = x
<1> DEFINE n == Cardinality(S)
<1>1. n \in Nat /\ ExistsBijection(1 .. n, S)
  BY FS_CardinalityType
<1>2. PICK f \in [ 1 .. n -> S ] : IsInjective(f)
  BY <1>1 DEF ExistsBijection, Bijection, Injection
<1>3. SetToSeq(S) \in [ 1 .. n -> S ] /\ IsInjective(SetToSeq(S))
  BY <1>2 DEF SetToSeq
<1>4. Cardinality(1 .. n) = n
  BY <1>1, FS_Interval
<1>5. SetToSeq(S) \in Surjection(1 .. n, S)
  BY <1>3, <1>4, FS_Injection DEF Injection
<1> QED
  BY <1>1, <1>3, <1>5 DEF Surjection

\* One diagnostic for each key of a set.
EachDiagnosed(keys, code) == ForEach(keys, LAMBDA j : DiagnosticEvent(j, code))

\* They are as many as the keys.
LEMMA DiagnosticForEach ==
  ASSUME NEW keys, IsFiniteSet(keys), NEW code
  PROVE  LET events == EachDiagnosed(keys, code)
         IN /\ events \in Seq({ DiagnosticEvent(j, code) : j \in keys })
            /\ { events[i] : i \in DOMAIN events } = { DiagnosticEvent(j, code) : j \in keys }
            /\ Len(events) = Cardinality(keys)
<1> DEFINE order == SetToSeq(keys)
           n == Cardinality(keys)
           events == [ i \in 1 .. n |-> DiagnosticEvent(order[i], code) ]
<1>1. /\ n \in Nat /\ order \in [ 1 .. n -> keys ]
      /\ \A j \in keys : \E i \in 1 .. n : order[i] = j
  BY SetInOrder
<1>2. EachDiagnosed(keys, code) = events
  BY <1>1 DEF EachDiagnosed, ForEach
<1> HIDE DEF order, n
<1>3. events \in [ 1 .. n -> { DiagnosticEvent(j, code) : j \in keys } ]
  BY <1>1
<1>4. { events[i] : i \in DOMAIN events } = { DiagnosticEvent(j, code) : j \in keys }
  BY <1>1
<1>5. events \in Seq({ DiagnosticEvent(j, code) : j \in keys }) /\ Len(events) = n
  BY <1>1, <1>3
<1> QED
  BY <1>2, <1>4, <1>5 DEF n

\* Short sequences, one element at a time.
LEMMA Appended ==
  ASSUME NEW x, NEW y
  PROVE  Append(<< >>, x) = << x >> /\ Append(<< x >>, y) = << x, y >>
<1>1. Append(<< >>, x) = << x >>
  <2>1. << >> \in Seq({ x })
    OBVIOUS
  <2>2. << x >> \in Seq({ x }) /\ Len(<< x >>) = 1 /\ << x >>[1] = x
    OBVIOUS
  <2>3. /\ Append(<< >>, x) \in Seq({ x })
        /\ Len(Append(<< >>, x)) = 1 /\ Append(<< >>, x)[1] = x
    BY <2>1
  <2> QED
    BY <2>2, <2>3
<1>2. << x, y >> = Append(<< x >>, y)
  OBVIOUS
<1> QED
  BY <1>1, <1>2

\* Two one-event sequences, joined.
LEMMA Joined ==
  ASSUME NEW x, NEW y  PROVE  << x >> \o << y >> = << x, y >>
<1>1. << x >> \o << y >> = Append(<< x >>, y)
  OBVIOUS
<1>2. << x, y >> = Append(<< x >>, y)
  OBVIOUS
<1> QED
  BY <1>1, <1>2

\* Nothing is left to be pushed.
LEMMA NoneQueued ==
  ASSUME emitted' = << >>
  PROVE  EmittedOK' /\ Waiting' = {} /\ InOrder' /\ Len(emitted') = 0
<1>1. /\ << >> \in Seq(NormalizedEvents) /\ Len(<< >>) = 0
      /\ { << >>[i] : i \in DOMAIN << >> } = {} /\ DOMAIN << >> = {}
  OBVIOUS
<1>2. Waiting' = { emitted'[i] : i \in DOMAIN emitted' }
  BY DEF Waiting
<1>3. EmittedOK' /\ Waiting' = {} /\ Len(emitted') = 0 /\ DOMAIN emitted' = {}
  BY <1>1, <1>2 DEF EmittedOK
<1> QED
  BY <1>3 DEF InOrder

\* The event may wait among others.
MayWait(event) ==
  /\ event.type # "tool_call_name_delta"
  /\ event.type = "tool_call_identity" => event.index = Absent
  /\ event.type = "provider_diagnostic" /\ event.key # NoKey =>
       event.code \in DisqualifyingCodes

\* One event is left to be pushed.
LEMMA OneQueued ==
  ASSUME NEW event \in NormalizedEvents, MayWait(event), emitted' = << event >>, ~isFinished'
  PROVE  EmittedOK' /\ Waiting' = { event } /\ InOrder' /\ Len(emitted') = 1
<1>1. /\ << event >> \in Seq(NormalizedEvents) /\ Len(<< event >>) = 1
      /\ DOMAIN << event >> = { 1 } /\ << event >>[1] = event
  OBVIOUS
<1>2. Waiting' = { emitted'[i] : i \in DOMAIN emitted' }
  BY DEF Waiting
<1>3. /\ EmittedOK' /\ Waiting' = { event } /\ Len(emitted') = 1
      /\ DOMAIN emitted' = { 1 } /\ emitted'[1] = event
  BY <1>1, <1>2 DEF EmittedOK
<1>4. \A i, j \in DOMAIN emitted' : ~(i < j)
  BY <1>3
<1> QED
  BY <1>3, <1>4 DEF InOrder, MayWait

\* Several events are left to be pushed, of which one at most has a turn.
LEMMA ManyQueued ==
  ASSUME NEW first \in NormalizedEvents, NEW rest \in Seq(NormalizedEvents),
         \A event \in { first } \cup { rest[i] : i \in DOMAIN rest } : MayWait(event),
         first.type = "provider_stream_end" => rest = << >>,
         \A i \in DOMAIN rest :
           /\ Turn(rest[i]) = 0
           /\ rest[i].type = "provider_stream_end" => i = Len(rest),
         emitted' = << first >> \o rest, ~isFinished'
  PROVE  /\ EmittedOK' /\ InOrder' /\ Len(emitted') = 1 + Len(rest)
         /\ Waiting' = { first } \cup { rest[i] : i \in DOMAIN rest }
<1> DEFINE all == << first >> \o rest
<1>1. /\ << first >> \in Seq(NormalizedEvents) /\ Len(<< first >>) = 1
      /\ DOMAIN << first >> = { 1 } /\ << first >>[1] = first
      /\ Len(rest) \in Nat /\ DOMAIN rest = 1 .. Len(rest)
  OBVIOUS
<1>2. /\ all \in Seq(NormalizedEvents) /\ Len(all) = 1 + Len(rest)
      /\ 1 \in DOMAIN all /\ all[1] = first
      /\ \A i \in DOMAIN rest : 1 + i \in DOMAIN all /\ all[1 + i] = rest[i]
      /\ \A i \in DOMAIN all :
           \/ i = 1 /\ all[i] = first
           \/ i - 1 \in DOMAIN rest /\ all[i] = rest[i - 1]
  BY <1>1, JoinedEvents
<1>3. all \in Seq(NormalizedEvents) /\ DOMAIN all = 1 .. 1 + Len(rest)
  BY <1>1, <1>2
<1> HIDE DEF all
<1>4. emitted' = all
  BY DEF all
<1>5. { all[i] : i \in DOMAIN all } = { first } \cup { rest[i] : i \in DOMAIN rest }
  <2>1. \A i \in DOMAIN all : all[i] \in { first } \cup { rest[j] : j \in DOMAIN rest }
    BY <1>2
  <2>2. first \in { all[i] : i \in DOMAIN all }
    BY <1>2
  <2>3. \A j \in DOMAIN rest : rest[j] \in { all[i] : i \in DOMAIN all }
    BY <1>2
  <2> QED
    BY <2>1, <2>2, <2>3
<1>6. Waiting' = { emitted'[i] : i \in DOMAIN emitted' }
  BY DEF Waiting
<1>7. Waiting' = { first } \cup { rest[i] : i \in DOMAIN rest }
  BY <1>4, <1>5, <1>6
<1>8. EmittedOK' /\ Len(emitted') = 1 + Len(rest)
  BY <1>2, <1>4 DEF EmittedOK
<1>9. \A i \in DOMAIN all : all[i].type = "provider_stream_end" => i = Len(all)
  <2> SUFFICES ASSUME NEW i \in DOMAIN all, all[i].type = "provider_stream_end"
               PROVE  i = Len(all)
    OBVIOUS
  <2>1. CASE i = 1 /\ all[i] = first
    <3>1. Len(<< >>) = 0
      OBVIOUS
    <3> QED
      BY <1>2, <2>1, <3>1
  <2>2. CASE i - 1 \in DOMAIN rest /\ all[i] = rest[i - 1]
    <3>1. i - 1 = Len(rest) /\ i \in Int
      BY <1>3, <2>2
    <3> QED
      BY <1>1, <1>2, <3>1
  <2> QED
    BY <1>2, <2>1, <2>2
<1>10. \A i, j \in DOMAIN all : i < j => Turn(all[j]) = 0
  <2> SUFFICES ASSUME NEW i \in DOMAIN all, NEW j \in DOMAIN all, i < j
               PROVE  Turn(all[j]) = 0
    OBVIOUS
  <2>1. j # 1
    BY <1>3
  <2> QED
    BY <1>2, <2>1
<1>11. \A event \in Waiting' : MayWait(event)
  BY <1>7
<1>12. InOrder'
  <2>1. \A i, j \in DOMAIN emitted' : i < j => ~(Turn(emitted'[j]) > 0)
    <3>1. ~(0 > 0)
      OBVIOUS
    <3> QED
      BY <1>4, <1>10, <3>1
  <2> QED
    BY <1>4, <1>9, <1>11, <2>1 DEF InOrder, MayWait
<1> QED
  BY <1>7, <1>8, <1>12

\* What one diagnostic for each key of a set adds behind an event.
LEMMA DiagnosticsQueued ==
  ASSUME NEW first \in NormalizedEvents, MayWait(first), first.type # "provider_stream_end",
         NEW keys \in SUBSET SourceKeys, NEW code \in AuthorityProtocolViolationCodes,
         code \in ProviderCodes,
         emitted' = << first >> \o EachDiagnosed(keys, code),
         ~isFinished'
  PROVE  /\ EmittedOK' /\ InOrder' /\ Len(emitted') = 1 + Cardinality(keys)
         /\ Waiting' = { first } \cup { DiagnosticEvent(j, code) : j \in keys }
<1>1. IsFiniteSet(keys)
  <2>1. IsFiniteSet(SourceKeys) /\ keys \in SUBSET SourceKeys
    BY GuardAssumption
  <2> QED
    BY <2>1, FS_Subset
<1>2. PICK rest : rest = EachDiagnosed(keys, code)
  OBVIOUS
<1>a. LET events == EachDiagnosed(keys, code)
      IN /\ events \in Seq({ DiagnosticEvent(j, code) : j \in keys })
         /\ { events[i] : i \in DOMAIN events } = { DiagnosticEvent(j, code) : j \in keys }
         /\ Len(events) = Cardinality(keys)
  BY <1>1, DiagnosticForEach
<1>3. /\ rest \in Seq({ DiagnosticEvent(j, code) : j \in keys })
      /\ { rest[i] : i \in DOMAIN rest } = { DiagnosticEvent(j, code) : j \in keys }
      /\ Len(rest) = Cardinality(keys)
  BY <1>2, <1>a
<1>4. \A j \in keys : /\ DiagnosticEvent(j, code) \in NormalizedEvents
                      /\ MayWait(DiagnosticEvent(j, code))
                      /\ Turn(DiagnosticEvent(j, code)) = 0
                      /\ DiagnosticEvent(j, code).type # "provider_stream_end"
  <2>1. code \notin SdkExecutionObservedCodes
    BY DEF AuthorityProtocolViolationCodes, SdkExecutionObservedCodes
  <2> QED
    BY <2>1 DEF DiagnosticEvent, NormalizedEvents, MayWait, Turn, DisqualifyingCodes
<1>5. rest \in Seq(NormalizedEvents)
  BY <1>3, <1>4
<1>6. \A i \in DOMAIN rest : rest[i] \in { DiagnosticEvent(j, code) : j \in keys }
  BY <1>3
<1>7. /\ \A event \in { first } \cup { rest[i] : i \in DOMAIN rest } : MayWait(event)
      /\ \A i \in DOMAIN rest : /\ Turn(rest[i]) = 0
                               /\ rest[i].type # "provider_stream_end"
  BY <1>3, <1>4, <1>6
<1>8. emitted' = << first >> \o rest
  BY <1>2
<1>9. /\ EmittedOK' /\ InOrder' /\ Len(emitted') = 1 + Len(rest)
      /\ Waiting' = { first } \cup { rest[i] : i \in DOMAIN rest }
  <2> HIDE <1>3, <1>6
  <2> QED
    BY <1>5, <1>7, <1>8, ManyQueued
<1> QED
  BY <1>3, <1>9

------------------------------------------------------------------------------
(* What the stream says, field by field.                                    *)

TextStates == { "empty", "open", "closed", "trailing", "invalid" }

Texts == [ SourceKeys -> TextStates ]
Ids == [ SourceKeys -> SUBSET ToolCallIds ]
Ends(words) == [ Scopes -> Seq(words) ]

\* The evidence of a stream whose ends are reported in these words.
EvidenceOf(words) ==
  [ started : SUBSET SourceKeys,
    text    : Texts,
    pieces  : SUBSET SourceKeys,
    ids     : Ids,
    ends    : Ends(words),
    closed  : SUBSET SourceKeys,
    spoiled : SUBSET Scopes,
    fault   : BOOLEAN,
    caller  : CallerReasons \cup { "none" },
    count   : Nat ]

EvidenceFields ==
  { "started", "text", "pieces", "ids", "ends", "closed", "spoiled", "fault", "caller", "count" }

\* One evidence differs from another in these fields at most.
SameBut(e, f, changed) ==
  \A field \in EvidenceFields \ changed : f[field] = e[field]

\* What a raw event shows, and that it was one raw event.
Shows(e) == evidence' = [ e EXCEPT !.count = @ + 1 ]

\* The fields that are the same, by their names.
LEMMA FieldsSame ==
  ASSUME NEW e, NEW f, NEW changed, SameBut(e, f, changed)
  PROVE  /\ "started" \notin changed => f.started = e.started
         /\ "text" \notin changed => f.text = e.text
         /\ "ids" \notin changed => f.ids = e.ids
         /\ "ends" \notin changed => f.ends = e.ends
         /\ "spoiled" \notin changed => f.spoiled = e.spoiled
         /\ "fault" \notin changed => f.fault = e.fault
         /\ "caller" \notin changed => f.caller = e.caller
         /\ "count" \notin changed => f.count = e.count
BY DEF SameBut, EvidenceFields

\* The evidence is what the raw event shows, and one raw event more.
LEMMA ShowsCounted ==
  ASSUME NEW words, NEW e \in EvidenceOf(words), Shows(e)
  PROVE  /\ evidence' \in EvidenceOf(words) /\ SameBut(e, evidence', { "count" })
         /\ evidence'.count = e.count + 1
BY DEF EvidenceOf, Shows, SameBut, EvidenceFields

\* A fault is kept.
LEMMA SawFaultMeans ==
  ASSUME NEW words, NEW e \in EvidenceOf(words)
  PROVE  /\ SawFault(e) \in EvidenceOf(words) /\ SameBut(e, SawFault(e), { "fault" })
         /\ SawFault(e).fault = TRUE
BY DEF EvidenceOf, SawFault, SameBut, EvidenceFields

\* Spoiled scopes are added to those that are.
LEMMA SpoiledMeans ==
  ASSUME NEW words, NEW e \in EvidenceOf(words), NEW scopes \in SUBSET Scopes
  PROVE  /\ Spoiled(e, scopes) \in EvidenceOf(words)
         /\ SameBut(e, Spoiled(e, scopes), { "spoiled" })
         /\ Spoiled(e, scopes).spoiled = e.spoiled \cup scopes
BY DEF EvidenceOf, Spoiled, SameBut, EvidenceFields

\* An announced call is added to those that are.
LEMMA SawStartMeans ==
  ASSUME NEW words, NEW e \in EvidenceOf(words), NEW k \in SourceKeys
  PROVE  /\ SawStart(e, k) \in EvidenceOf(words)
         /\ SameBut(e, SawStart(e, k), { "started" })
         /\ SawStart(e, k).started = e.started \cup { k }
BY DEF EvidenceOf, SawStart, SameBut, EvidenceFields

\* A fragment leads from one of these states of the text to another.
LEMMA FedStays ==
  ASSUME NEW p \in TextStates, NEW piece \in ArgumentPieces
  PROVE  Fed(p, piece) \in TextStates /\ piece # "none"
BY GuardAssumption DEF TextStates, Fed

\* A fragment feeds the text of its call, and of no other.
LEMMA SawTextMeans ==
  ASSUME NEW words, NEW e \in EvidenceOf(words), NEW k \in SourceKeys,
         NEW piece \in ArgumentPieces
  PROVE  /\ SawText(e, k, piece) \in EvidenceOf(words)
         /\ SameBut(e, SawText(e, k, piece), { "text" })
         /\ SawText(e, k, piece).text = [ e.text EXCEPT ![k] = Fed(e.text[k], piece) ]
<1> DEFINE text == [ e.text EXCEPT ![k] = Fed(e.text[k], piece) ]
           Goal(f) == /\ f \in EvidenceOf(words) /\ SameBut(e, f, { "text" })
                      /\ f.text = text
<1>1. text \in Texts
  BY FedStays DEF EvidenceOf, Texts
<1>2. SawText(e, k, piece) = [ e EXCEPT !.text = text ]
  BY FedStays DEF SawText, EvidenceOf, Texts
<1> HIDE DEF text
<1>3. Goal([ e EXCEPT !.text = text ])
  BY <1>1 DEF EvidenceOf, SameBut, EvidenceFields
<1> QED
  BY <1>2, <1>3 DEF text

\* An id is added to those of its call.
LEMMA SawIdMeans ==
  ASSUME NEW words, NEW e \in EvidenceOf(words), NEW k \in SourceKeys,
         NEW id \in ToolCallIds
  PROVE  /\ SawId(e, k, id) \in EvidenceOf(words)
         /\ SameBut(e, SawId(e, k, id), { "ids" })
         /\ SawId(e, k, id).ids = [ e.ids EXCEPT ![k] = e.ids[k] \cup { id } ]
<1> DEFINE ids == [ e.ids EXCEPT ![k] = e.ids[k] \cup { id } ]
           Goal(f) == /\ f \in EvidenceOf(words) /\ SameBut(e, f, { "ids" })
                      /\ f.ids = ids
<1>1. ids \in Ids
  BY DEF EvidenceOf, Ids
<1>2. SawId(e, k, id) = [ e EXCEPT !.ids = ids ]
  BY CoordinatorAssumption DEF SawId, EvidenceOf, Ids
<1> HIDE DEF ids
<1>3. Goal([ e EXCEPT !.ids = ids ])
  BY <1>1 DEF EvidenceOf, SameBut, EvidenceFields
<1> QED
  BY <1>2, <1>3 DEF ids

\* The first two ends of a scope are kept in their order, and a third adds nothing.
LEMMA SawEndMeans ==
  ASSUME NEW words, NEW e \in EvidenceOf(words), NEW s \in Scopes, NEW said \in words
  PROVE  /\ SawEnd(e, s, said) \in EvidenceOf(words)
         /\ SameBut(e, SawEnd(e, s, said), { "ends" })
         /\ SawEnd(e, s, said).ends =
              [ e.ends EXCEPT ![s] = IF Len(e.ends[s]) < 2 THEN Append(e.ends[s], said)
                                     ELSE e.ends[s] ]
<1> DEFINE more == IF Len(e.ends[s]) < 2 THEN Append(e.ends[s], said) ELSE e.ends[s]
           ends == [ e.ends EXCEPT ![s] = more ]
           Goal(f) == /\ f \in EvidenceOf(words) /\ SameBut(e, f, { "ends" })
                      /\ f.ends = ends
<1>1. e.ends[s] \in Seq(words)
  BY DEF EvidenceOf, Ends
<1>2. more \in Seq(words)
  BY <1>1
<1>3. SawEnd(e, s, said) = [ e EXCEPT !.ends = ends ]
  BY DEF SawEnd, EvidenceOf
<1> HIDE DEF more
<1>4. ends \in Ends(words)
  BY <1>2 DEF EvidenceOf, Ends
<1> HIDE DEF ends
<1>5. Goal([ e EXCEPT !.ends = ends ])
  BY <1>4 DEF EvidenceOf, SameBut, EvidenceFields
<1> QED
  BY <1>3, <1>5 DEF ends, more

\* At first nothing was said.
LEMMA NothingSaid ==
  ASSUME NEW words
  PROVE  /\ NoEvidence \in EvidenceOf(words)
         /\ NoEvidence.started = {} /\ NoEvidence.spoiled = {} /\ NoEvidence.fault = FALSE
         /\ NoEvidence.count = 0
         /\ \A k \in SourceKeys : NoEvidence.text[k] = "empty" /\ NoEvidence.ids[k] = {}
         /\ \A s \in Scopes : NoEvidence.ends[s] = << >>
<1>1. << >> \in Seq(words)
  OBVIOUS
<1> QED
  BY <1>1 DEF NoEvidence, EvidenceOf, Texts, Ids, Ends, TextStates

\* Every key is a scope, and so is the message.
LEMMA KeyScopes == SourceKeys \subseteq Scopes /\ Message \in Scopes
BY DEF Scopes

------------------------------------------------------------------------------
(* What was said, what is on its way to the gate, and what the coordinator  *)
(* holds agree at every moment.  What was said is given by the keys of the  *)
(* calls it makes known, those of them that it disqualifies, the reasons    *)
(* for which the stream ends, none as long as it goes on, and whether       *)
(* something was said that lets nothing run (fatal).                        *)

\* What will be known of k is what was said of it.
Agrees(k, known, dirty) ==
  /\ KnownSoon(k) <=> k \in known
  /\ DirtySoon(k) <=> k \in dirty
  /\ k \in known \ dirty =>
       /\ \A p : p = evidence.text[k] => TextSoon(k, p)
       /\ EndedSoon(k) => evidence.ends[k] # << >>
       /\ evidence.text[k] # "empty" /\ evidence.ends[k] # << >> => EndedSoon(k)

Heard(known, dirty, ends) ==
  /\ InOrder
  /\ \A k \in SourceKeys : /\ Tidy(k)
                           /\ Refused(k) \/ Agrees(k, known, dirty)
  /\ IF ends = {} THEN GoesOn ELSE \E reason \in ends : EndSoon(reason)
  /\ \A event \in Waiting : Kills(event) => ends \ { "complete" } # {}

\* A stream of which nothing fatal was said is told to the coordinator as it was said,
\* or dies of what was said, or of the limit of events.
Accounted(fatal, known, dirty, ends) ==
  /\ fatal => \/ Dead
              \/ emitted # << >> /\ (isFinished \/ Kills(Head(emitted)))
  /\ ~fatal /\ ~Dead => Heard(known, dirty, ends)
  /\ ~fatal /\ Dead => Starved \/ ends \ { "complete" } # {}

\* Nothing more is said of k while a step is taken.
SaidKept(k) ==
  evidence'.text[k] = evidence.text[k] /\ evidence'.ends[k] = evidence.ends[k]

\* What is foreseen of k agrees with what was said, as before.
LEMMA ForeseenAgrees ==
  ASSUME NEW k, NEW known, NEW dirty,
         Agrees(k, known, dirty), Foreseen(k), SaidKept(k)
  PROVE  Agrees(k, known, dirty)'
<1>1. evidence'.text[k] = evidence.text[k] /\ evidence'.ends[k] = evidence.ends[k]
  BY DEF SaidKept
<1>2. /\ KnownSoon(k)' <=> KnownSoon(k)
      /\ DirtySoon(k)' <=> DirtySoon(k)
      /\ KnownSoon(k)' /\ ~DirtySoon(k)' =>
           /\ EndedSoon(k)' <=> EndedSoon(k)
           /\ \A p : TextSoon(k, p) => TextSoon(k, p)'
  BY DEF Foreseen
<1>3. /\ KnownSoon(k) <=> k \in known
      /\ DirtySoon(k) <=> k \in dirty
      /\ k \in known \ dirty =>
           /\ \A p : p = evidence.text[k] => TextSoon(k, p)
           /\ EndedSoon(k) => evidence.ends[k] # << >>
           /\ evidence.text[k] # "empty" /\ evidence.ends[k] # << >> => EndedSoon(k)
  BY DEF Agrees
<1>4. /\ KnownSoon(k)' <=> k \in known
      /\ DirtySoon(k)' <=> k \in dirty
      /\ k \in known \ dirty =>
           /\ \A p : p = evidence'.text[k] => TextSoon(k, p)'
           /\ EndedSoon(k)' => evidence'.ends[k] # << >>
           /\ evidence'.text[k] # "empty" /\ evidence'.ends[k] # << >> => EndedSoon(k)'
  BY <1>1, <1>2, <1>3
<1> QED
  BY <1>4 DEF Agrees

\* While nothing is pushed, nothing of what will be known changes.
LEMMA NothingPushed ==
  ASSUME UNCHANGED << coordinatorVars, emitted >>
  PROVE  /\ InOrder' = InOrder /\ Waiting' = Waiting
         /\ GoesOn' = GoesOn
         /\ \A reason : EndSoon(reason) => EndSoon(reason)'
         /\ \A k \in SourceKeys : Foreseen(k) /\ Tidy(k)' = Tidy(k) /\ Refused(k)' = Refused(k)
<1>1. /\ emitted' = emitted /\ calls' = calls
      /\ isFinished' = isFinished /\ finishedReason' = finishedReason
      /\ \A k \in SourceKeys : /\ Known(k)' = Known(k) /\ Dirty(k)' = Dirty(k)
                               /\ Tidy(k)' = Tidy(k) /\ Refused(k)' = Refused(k)
  BY SameCoordinator
<1>2. Waiting' = Waiting
  BY <1>1 DEF Waiting
<1>3. InOrder' = InOrder
  BY <1>1, <1>2 DEF InOrder
<1>4. GoesOn' = GoesOn /\ \A reason : EndSoon(reason) => EndSoon(reason)'
  BY <1>1, <1>2 DEF GoesOn, EndSoon
<1>5. ASSUME NEW k \in SourceKeys  PROVE Foreseen(k)
  <2>1. \A type : Pending(k, type)' <=> Pending(k, type)
    BY <1>2 DEF Pending
  <2>2. \A event : Spoils(event, k)' <=> Spoils(event, k)
    BY <1>1 DEF Spoils
  <2>3. /\ KnownSoon(k)' <=> KnownSoon(k)
        /\ EndedSoon(k)' <=> EndedSoon(k)
    BY <1>1, <2>1 DEF KnownSoon, EndedSoon
  <2>4. DirtySoon(k)' <=> DirtySoon(k)
    BY <1>1, <1>2, <2>1, <2>2 DEF DirtySoon
  <2>5. /\ \A p : TextSoon(k, p) => TextSoon(k, p)'
        /\ \A id : IdSoon(k, id) => IdSoon(k, id)'
    BY <1>1, <1>2, <2>1 DEF TextSoon, IdSoon
  <2> QED
    BY <2>3, <2>4, <2>5 DEF Foreseen
<1> QED
  BY <1>1, <1>2, <1>3, <1>4, <1>5

\* What was heard stays heard while nothing is said and nothing pushed.
LEMMA HeardKept ==
  ASSUME UNCHANGED << coordinatorVars, emitted >>, \A k \in SourceKeys : SaidKept(k),
         NEW known, NEW dirty, NEW ends, Heard(known, dirty, ends)
  PROVE  Heard(known, dirty, ends)'
<1>1. /\ InOrder /\ IF ends = {} THEN GoesOn ELSE \E reason \in ends : EndSoon(reason)
      /\ \A event \in Waiting : Kills(event) => ends \ { "complete" } # {}
      /\ \A k \in SourceKeys : /\ Tidy(k)
                               /\ Refused(k) \/ Agrees(k, known, dirty)
  BY DEF Heard
<1>2. ASSUME NEW k \in SourceKeys
      PROVE  Tidy(k)' /\ (Refused(k)' \/ Agrees(k, known, dirty)')
  BY <1>1, NothingPushed, ForeseenAgrees
<1>3. /\ InOrder' /\ IF ends = {} THEN GoesOn' ELSE \E reason \in ends : EndSoon(reason)'
      /\ \A event \in Waiting' : Kills(event) => ends \ { "complete" } # {}
  BY <1>1, NothingPushed
<1>4. \A event : Kills(event)' = Kills(event)
  BY DEF Kills
<1> QED
  BY <1>2, <1>3, <1>4 DEF Heard

\* A delivery tells the coordinator what was said, or kills the stream as was said.
LEMMA DeliverHeard ==
  ASSUME EmittedOK, TypeOK, Deliver, NEW known, NEW dirty, NEW ends \in SUBSET Reasons,
         Heard(known, dirty, ends), ~Dead
  PROVE  /\ ~Dead' => Heard(known, dirty, ends)'
         /\ Dead' => Starved' \/ ends \ { "complete" } # {}
<1>1. /\ InOrder /\ IF ends = {} THEN GoesOn ELSE \E reason \in ends : EndSoon(reason)
      /\ \A event \in Waiting : Kills(event) => ends \ { "complete" } # {}
      /\ \A k \in SourceKeys : /\ Tidy(k)
                               /\ Refused(k) \/ Agrees(k, known, dirty)
  BY DEF Heard
<1>2. emitted # << >> /\ emitted' = Tail(emitted) /\ evidence' = evidence
  BY DEF Deliver
<1>3. Waiting = { Head(emitted) } \cup Waiting'
  BY <1>2, QueueMoves
<1>4. \A event : Kills(event)' = Kills(event)
  BY DEF Kills
<1>5. ASSUME ~Dead'  PROVE Heard(known, dirty, ends)'
  <2>1. /\ InOrder' /\ (GoesOn => GoesOn')
        /\ \A reason \in Reasons : EndSoon(reason) => EndSoon(reason)'
        /\ \A k \in SourceKeys : /\ Tidy(k)' /\ (Refused(k) => Refused(k)')
                                 /\ Refused(k)' \/ Foreseen(k)
    BY <1>1, <1>5, DeliverForeseen
  <2>2. \A k \in SourceKeys : SaidKept(k)
    BY <1>2 DEF SaidKept
  <2>3. ASSUME NEW k \in SourceKeys
        PROVE  Tidy(k)' /\ (Refused(k)' \/ Agrees(k, known, dirty)')
    BY <1>1, <2>1, <2>2, ForeseenAgrees
  <2>4. IF ends = {} THEN GoesOn' ELSE \E reason \in ends : EndSoon(reason)'
    BY <1>1, <2>1
  <2>5. \A event \in Waiting' : Kills(event) => ends \ { "complete" } # {}
    BY <1>1, <1>3
  <2> QED
    BY <1>4, <2>1, <2>3, <2>4, <2>5 DEF Heard
<1>6. ASSUME Dead'  PROVE Starved' \/ ends \ { "complete" } # {}
  BY <1>1, <1>3, <1>6, DeliveryDies
<1> QED
  BY <1>5, <1>6

\* The end of the stream is on its way once it is said.
LEMMA EndHeard ==
  ASSUME emitted = << >>, UNCHANGED vars, \A k \in SourceKeys : SaidKept(k),
         NEW known, NEW dirty, Heard(known, dirty, {}),
         NEW reason \in Reasons,
         \/ emitted' = << StreamEndEvent(reason) >>
         \/ \E code \in ProviderCodes :
              /\ reason # "complete"
              /\ emitted' = << StreamDiagnosticEvent(code), StreamEndEvent(reason) >>
  PROVE  Heard(known, dirty, { reason })' /\ EmittedOK'
<1> DEFINE end == StreamEndEvent(reason)
<1>1. /\ InOrder /\ GoesOn
      /\ \A k \in SourceKeys : /\ Tidy(k)
                               /\ Refused(k) \/ Agrees(k, known, dirty)
  BY DEF Heard
<1>2. ~isFinished'
  BY <1>1 DEF GoesOn, vars, coordinatorVars, finishVars
<1>3. /\ end \in NormalizedEvents /\ MayWait(end) /\ Turn(end) = 0
      /\ end.type = "provider_stream_end" /\ (Kills(end) => reason # "complete")
  BY DEF StreamEndEvent, NormalizedEvents, MayWait, Turn, Kills
<1>4. \A code \in ProviderCodes :
        /\ StreamDiagnosticEvent(code) \in NormalizedEvents
        /\ MayWait(StreamDiagnosticEvent(code))
        /\ StreamDiagnosticEvent(code).type = "provider_diagnostic"
        /\ StreamDiagnosticEvent(code).key = NoKey
  BY DEF StreamDiagnosticEvent, DiagnosticEvent, NormalizedEvents, MayWait
<1> HIDE DEF end
<1>5. ASSUME NEW code \in ProviderCodes, reason # "complete",
             emitted' = << StreamDiagnosticEvent(code), end >>
      PROVE  /\ EmittedOK' /\ InOrder'
             /\ Waiting' = { StreamDiagnosticEvent(code), end }
  <2>1. /\ << end >> \in Seq(NormalizedEvents) /\ Len(<< end >>) = 1
        /\ DOMAIN << end >> = { 1 } /\ << end >>[1] = end
    BY <1>3
  <2>2. emitted' = << StreamDiagnosticEvent(code) >> \o << end >>
    BY <1>5, Joined
  <2>3. { << end >>[i] : i \in DOMAIN << end >> } = { end }
    BY <2>1
  <2>4. PICK rest \in Seq(NormalizedEvents) :
          /\ rest = << end >> /\ Len(rest) = 1 /\ DOMAIN rest = { 1 } /\ rest[1] = end
          /\ { rest[i] : i \in DOMAIN rest } = { end }
    BY <2>1, <2>3
  <2>5. emitted' = << StreamDiagnosticEvent(code) >> \o rest
    BY <2>2, <2>4
  <2>6. /\ EmittedOK' /\ InOrder'
        /\ Waiting' = { StreamDiagnosticEvent(code) } \cup { rest[i] : i \in DOMAIN rest }
    <3>1. /\ \A event \in { StreamDiagnosticEvent(code) } \cup { rest[i] : i \in DOMAIN rest } :
               MayWait(event)
          /\ StreamDiagnosticEvent(code).type # "provider_stream_end"
          /\ \A i \in DOMAIN rest :
               /\ Turn(rest[i]) = 0
               /\ rest[i].type = "provider_stream_end" => i = Len(rest)
      BY <1>3, <1>4, <2>4
    <3> QED
      BY <1>2, <1>4, <2>5, <3>1, ManyQueued
  <2> QED
    BY <2>4, <2>6
<1>6. /\ EmittedOK' /\ InOrder' /\ end \in Waiting'
      /\ \A event \in Waiting' :
           /\ \/ event = end
              \/ event.type = "provider_diagnostic" /\ event.key = NoKey
           /\ Kills(event) => reason # "complete"
  <2>1. CASE emitted' = << end >>
    BY <1>2, <1>3, <2>1, OneQueued
  <2>2. ASSUME NEW code \in ProviderCodes, reason # "complete",
               emitted' = << StreamDiagnosticEvent(code), end >>
        PROVE  /\ EmittedOK' /\ InOrder' /\ end \in Waiting'
               /\ \A event \in Waiting' :
                    /\ \/ event = end
                       \/ event.type = "provider_diagnostic" /\ event.key = NoKey
                    /\ Kills(event) => reason # "complete"
    BY <1>4, <1>5, <2>2
  <2> QED
    BY <2>1, <2>2 DEF end
<1>7. ASSUME NEW k \in SourceKeys
      PROVE  Tidy(k)' /\ (Refused(k)' \/ Agrees(k, known, dirty)')
  <2>1. k # NoKey
    BY GuardAssumption
  <2>2. /\ \A type : type \in { "tool_call_start", "tool_call_identity", "tool_call_end",
                                "tool_call_arguments_delta" } => ~Pending(k, type)'
        /\ \A event \in Waiting' : ~Spoils(event, k)
    BY <1>3, <1>6, <2>1 DEF Pending, Spoils
  <2>3. Foreseen(k) /\ Tidy(k)' = Tidy(k) /\ Refused(k)' = Refused(k)
    BY <2>2, Queued DEF Foreseen
  <2> QED
    BY <1>1, <2>3, ForeseenAgrees
<1>8. EndSoon(reason)'
  BY <1>2, <1>6 DEF EndSoon, end
<1>9. \A event : Kills(event)' = Kills(event)
  BY DEF Kills
<1>10. { reason } # {} /\ (reason # "complete" => { reason } \ { "complete" } # {})
  OBVIOUS
<1> QED
  BY <1>6, <1>7, <1>8, <1>9, <1>10 DEF Heard

\* Between two calls of the guard the coordinator knows what was said.
LEMMA HeardNow ==
  ASSUME emitted = << >>, NEW known, NEW dirty, NEW ends, Heard(known, dirty, ends)
  PROVE  /\ ends = {} => ~isFinished
         /\ ends # {} => isFinished /\ finishedReason \in ends
         /\ \A k \in SourceKeys :
              /\ Tidy(k)
              /\ \/ Refused(k)
                 \/ /\ Known(k) <=> k \in known
                    /\ Dirty(k) <=> k \in dirty
                    /\ k \in known \ dirty =>
                         /\ calls[k].parser = evidence.text[k]
                         /\ calls[k].ended => evidence.ends[k] # << >>
                         /\ evidence.text[k] # "empty" /\ evidence.ends[k] # << >> =>
                              calls[k].ended
<1>1. Waiting = {}
  BY DEF Waiting
<1>2. /\ IF ends = {} THEN GoesOn ELSE \E reason \in ends : EndSoon(reason)
      /\ \A k \in SourceKeys : Tidy(k) /\ (Refused(k) \/ Agrees(k, known, dirty))
  BY DEF Heard
<1>3. /\ GoesOn => ~isFinished
      /\ \A reason : EndSoon(reason) => isFinished /\ finishedReason = reason
  BY <1>1 DEF GoesOn, EndSoon
<1>4. ASSUME NEW k \in SourceKeys, Agrees(k, known, dirty)
      PROVE  /\ Known(k) <=> k \in known
             /\ Dirty(k) <=> k \in dirty
             /\ k \in known \ dirty =>
                  /\ calls[k].parser = evidence.text[k]
                  /\ calls[k].ended => evidence.ends[k] # << >>
                  /\ evidence.text[k] # "empty" /\ evidence.ends[k] # << >> => calls[k].ended
  <2>1. \A type : ~Pending(k, type)
    BY <1>1 DEF Pending
  <2>2. /\ KnownSoon(k) <=> Known(k)
        /\ DirtySoon(k) <=> Dirty(k)
        /\ EndedSoon(k) <=> calls[k].ended
        /\ \A p : TextSoon(k, p) => p = calls[k].parser
    BY <1>1, <2>1 DEF KnownSoon, DirtySoon, EndedSoon, TextSoon
  <2> QED
    BY <1>4, <2>2 DEF Agrees
<1> QED
  BY <1>2, <1>3, <1>4

\* What a raw event says of k, while the stream goes on, is what it leaves to be pushed.
News(k, known, dirty, known2, dirty2) ==
  /\ k \in known2 <=> k \in known \/ Pending(k, "tool_call_start")'
  /\ k \in dirty2 <=> \/ k \in dirty
                      \/ k \in known /\ Pending(k, "tool_call_start")'
                      \/ \E event \in Waiting' : Spoils(event, k)
  /\ k \in known2 \ dirty2 =>
       /\ LET text == IF k \in known THEN evidence.text[k] ELSE "empty"
          IN \/ /\ evidence'.text[k] = text
                /\ ~Pending(k, "tool_call_arguments_delta")'
             \/ \E event \in Waiting' :
                  /\ event.type = "tool_call_arguments_delta" /\ event.key = k
                  /\ evidence'.text[k] = Fed(text, event.piece)
       /\ \/ Pending(k, "tool_call_end")'
          \/ k \in known /\ evidence.ends[k] # << >>
          => evidence'.ends[k] # << >>
       /\ evidence'.text[k] # "empty" /\ evidence'.ends[k] # << >> =>
            \/ Pending(k, "tool_call_end")'
            \/ k \in known /\ evidence.text[k] # "empty" /\ evidence.ends[k] # << >>

\* Of a key of which nothing is said, and for which nothing is left, there is no news.
LEMMA NoNews ==
  ASSUME NEW k \in SourceKeys, SaidKept(k),
         NEW known, NEW dirty, NEW known2, NEW dirty2,
         k \in known2 <=> k \in known, k \in dirty2 <=> k \in dirty,
         k \notin known => evidence.text[k] = "empty",
         \A event \in Waiting' : event.type = "provider_stream_end" \/ event.key # k
  PROVE  News(k, known, dirty, known2, dirty2)
<1>1. /\ \A type : type # "provider_stream_end" => ~Pending(k, type)'
      /\ \A event \in Waiting' : ~Spoils(event, k)
  BY DEF Pending, Spoils
<1> QED
  BY <1>1 DEF News, SaidKept

\* News is foreseen, unless the call was refused.
LEMMA NewsForeseen ==
  ASSUME emitted = << >>, UNCHANGED vars, NEW k \in SourceKeys,
         NEW known, NEW dirty, NEW known2, NEW dirty2,
         Tidy(k), Refused(k) \/ Agrees(k, known, dirty),
         News(k, known, dirty, known2, dirty2)
  PROVE  Tidy(k)' /\ (Refused(k)' \/ Agrees(k, known2, dirty2)')
<1> SUFFICES ASSUME Agrees(k, known, dirty)  PROVE Tidy(k)' /\ Agrees(k, known2, dirty2)'
  BY Queued
<1>1. /\ KnownSoon(k)' <=> k \in known2
      /\ DirtySoon(k)' <=> k \in dirty2
  BY Queued DEF News, Agrees
<1>2. ASSUME k \in known2 \ dirty2
      PROVE  /\ \A p : p = evidence'.text[k] => TextSoon(k, p)'
             /\ EndedSoon(k)' => evidence'.ends[k] # << >>
             /\ evidence'.text[k] # "empty" /\ evidence'.ends[k] # << >> => EndedSoon(k)'
  <2> DEFINE text == IF k \in known THEN evidence.text[k] ELSE "empty"
  <2>0. k \notin dirty
    BY <1>2 DEF News
  <2>1. PICK p : p = text
    OBVIOUS
  <2>2. TextSoon(k, p) /\ (k \notin known => ~EndedSoon(k))
    <3>1. CASE k \in known
      BY <1>2, <2>0, <2>1, <3>1 DEF Agrees
    <3>2. CASE k \notin known
      <4>1. ~Known(k) /\ Waiting = {}
        BY <3>2, Queued DEF Agrees, Waiting
      <4>2. calls[k].parser = "empty" /\ ~calls[k].ended
        BY <4>1 DEF Tidy
      <4> QED
        BY <2>1, <3>2, <4>1, <4>2 DEF TextSoon, EndedSoon, Pending
    <3> QED
      BY <3>1, <3>2
  <2>3. \/ evidence'.text[k] = p /\ ~Pending(k, "tool_call_arguments_delta")'
        \/ \E event \in Waiting' :
             /\ event.type = "tool_call_arguments_delta" /\ event.key = k
             /\ evidence'.text[k] = Fed(p, event.piece)
    BY <1>2, <2>1 DEF News
  <2> HIDE DEF text
  <2>4. \A q : q = evidence'.text[k] => TextSoon(k, q)'
    BY <2>2, <2>3, Queued
  <2>5. EndedSoon(k)' <=> EndedSoon(k) \/ Pending(k, "tool_call_end")'
    BY Queued
  <2>6. k \in known => /\ EndedSoon(k) => evidence.ends[k] # << >>
                       /\ evidence.text[k] # "empty" /\ evidence.ends[k] # << >> =>
                            EndedSoon(k)
    BY <2>0 DEF Agrees
  <2>7. /\ \/ Pending(k, "tool_call_end")'
           \/ k \in known /\ evidence.ends[k] # << >>
           => evidence'.ends[k] # << >>
        /\ evidence'.text[k] # "empty" /\ evidence'.ends[k] # << >> =>
             \/ Pending(k, "tool_call_end")'
             \/ k \in known /\ evidence.text[k] # "empty" /\ evidence.ends[k] # << >>
    BY <1>2 DEF News
  <2> QED
    BY <2>2, <2>4, <2>5, <2>6, <2>7
<1>3. Tidy(k)'
  BY Queued
<1> QED
  BY <1>1, <1>2, <1>3 DEF Agrees

\* While the stream goes on, all news is heard.
LEMMA NewsHeard ==
  ASSUME emitted = << >>, UNCHANGED vars,
         NEW known, NEW dirty, NEW known2, NEW dirty2, Heard(known, dirty, {}),
         InOrder',
         \A event \in Waiting' : event.type # "provider_stream_end" /\ ~Kills(event),
         \A k \in SourceKeys : News(k, known, dirty, known2, dirty2)
  PROVE  Heard(known2, dirty2, {})'
<1>1. ~isFinished /\ GoesOn
  BY HeardNow DEF Heard
<1>2. GoesOn'
  BY <1>1 DEF GoesOn, vars, coordinatorVars, finishVars
<1>3. ASSUME NEW k \in SourceKeys
      PROVE  Tidy(k)' /\ (Refused(k)' \/ Agrees(k, known2, dirty2)')
  BY NewsForeseen DEF Heard
<1>4. \A event : Kills(event)' = Kills(event)
  BY DEF Kills
<1> QED
  BY <1>2, <1>3, <1>4 DEF Heard

\* A step of the adapter keeps the account.
LEMMA EventAccounts ==
  ASSUME emitted = << >>, UNCHANGED vars,
         NEW fatal \in BOOLEAN, NEW known, NEW dirty, NEW ends,
         NEW fatal2 \in BOOLEAN, NEW known2, NEW dirty2, NEW ends2,
         Accounted(fatal, known, dirty, ends),
         fatal => fatal2,
         ~fatal2 /\ ends \ { "complete" } # {} => ends2 \ { "complete" } # {},
         ~fatal /\ fatal2 /\ Heard(known, dirty, ends) =>
           emitted' # << >> /\ (isFinished \/ Kills(Head(emitted'))),
         ~fatal2 /\ Heard(known, dirty, ends) => Heard(known2, dirty2, ends2)'
  PROVE  Accounted(fatal2, known2, dirty2, ends2)'
<1>1. Dead' = Dead /\ Starved' = Starved /\ isFinished' = isFinished
  BY SameCoordinator DEF vars
<1>2. /\ fatal => Dead
      /\ ~fatal /\ ~Dead => Heard(known, dirty, ends)
      /\ ~fatal /\ Dead => Starved \/ ends \ { "complete" } # {}
  BY DEF Accounted
<1>3. (Kills(Head(emitted)))' <=> Kills(Head(emitted'))
  BY DEF Kills
<1> QED
  BY <1>1, <1>2, <1>3 DEF Accounted

\* So does a delivery.
LEMMA DeliverAccounts ==
  ASSUME EmittedOK, TypeOK, Deliver,
         NEW fatal \in BOOLEAN, NEW known, NEW dirty, NEW ends \in SUBSET Reasons,
         Accounted(fatal, known, dirty, ends)
  PROVE  Accounted(fatal, known, dirty, ends)'
<1>1. Push
  BY DeliverIsPush
<1>2. /\ Dead => Dead'
      /\ Starved => Starved'
  BY <1>1, DeadStays, PushGrows DEF Starved
<1>3. isFinished \/ Kills(Head(emitted)) => Dead'
  BY DeliveryKills
<1> QED
  BY <1>2, <1>3, DeliverHeard DEF Accounted

\* And the end of finish(), which finds nothing left to tell.
LEMMA FinishGateAccounts ==
  ASSUME TypeOK, FinishGate,
         NEW fatal \in BOOLEAN, NEW known, NEW dirty, NEW ends, ends # {},
         Accounted(fatal, known, dirty, ends)
  PROVE  Accounted(fatal, known, dirty, ends)'
<1>1. /\ emitted = << >> /\ emitted' = << >> /\ evidence' = evidence /\ Finish
  BY DEF FinishGate
<1>2. PICK given \in Reasons : FinishCoordinator(given)
  BY <1>1 DEF Finish
<1>3. /\ Dead => Dead'
      /\ Starved => Starved'
  BY <1>1, <1>2, DeadStays, FinishCoordinatorEffect DEF Starved
<1>4. ASSUME ~fatal, ~Dead  PROVE ~Dead' /\ Heard(known, dirty, ends)'
  <2>1. Heard(known, dirty, ends)
    BY <1>4 DEF Accounted
  <2>2. isFinished
    BY <1>1, <2>1, HeardNow
  <2>3. UNCHANGED << coordinatorVars, emitted >>
    BY <1>1, <1>2, <2>2 DEF FinishCoordinator
  <2>4. \A k \in SourceKeys : SaidKept(k)
    BY <1>1 DEF SaidKept
  <2> QED
    BY <1>4, <2>1, <2>3, <2>4, HeardKept, SameCoordinator
<1>5. fatal => Dead
  BY <1>1 DEF Accounted
<1> QED
  BY <1>3, <1>4, <1>5 DEF Accounted

\* And a step that changes nothing.
LEMMA StutteringAccounts ==
  ASSUME UNCHANGED << vars, emitted, evidence >>,
         NEW fatal \in BOOLEAN, NEW known, NEW dirty, NEW ends,
         Accounted(fatal, known, dirty, ends)
  PROVE  Accounted(fatal, known, dirty, ends)'
<1>1. UNCHANGED << coordinatorVars, emitted >> /\ \A k \in SourceKeys : SaidKept(k)
  BY DEF vars, SaidKept
<1>2. Dead' = Dead /\ Starved' = Starved /\ isFinished' = isFinished
  BY <1>1, SameCoordinator
<1>3. Heard(known, dirty, ends) => Heard(known, dirty, ends)'
  BY <1>1, HeardKept
<1>4. (Kills(Head(emitted)))' <=> Kills(Head(emitted))
  BY <1>1 DEF Kills
<1> QED
  BY <1>1, <1>2, <1>3, <1>4 DEF Accounted

------------------------------------------------------------------------------
(* What may run, and where there is room for it.                            *)

\* Nothing of a dead stream may run, nor of one that ran into the limit of events.
LEMMA DeadRunsNothing ==
  ASSUME GateInv, NEW k \in SourceKeys, Executable(k)
  PROVE  ~Dead /\ ~Starved /\ Known(k) /\ isFinished
<1>1. /\ Decision(k) = ExecuteReason /\ Known(k)
      /\ calls[k].status = "complete" /\ calls[k].executable
      /\ ~Starved
      /\ streamDiagnostics \cap AuthorityProtocolViolationCodes = {}
  BY ExecutableMeans DEF Executable, Starved
<1>2. streamDiagnostics \cap SdkExecutionObservedCodes = {}
  BY <1>1 DEF Decision, Decide, SdkExecutionEvidence, ExecuteReason
<1>3. ContentFilteredCode \notin streamDiagnostics
  BY <1>1, <1>2 DEF Decision, Decide, ExecuteReason
<1>4. isFinished /\ finishedReason = "complete"
  BY <1>1 DEF GateInv, CoordinatorInv, CompleteIsEarned, Earned
<1> QED
  BY <1>1, <1>2, <1>3, <1>4 DEF Dead, BlockingCodes, Starved

\* The guard has not run into its limits as far as the call of k is concerned.
WithinLimits(k) == Known(k) /\ ~Starved

\* What may run between two calls of the guard is what was said to be good.
LEMMA AccountedRuns ==
  ASSUME GateInv, emitted = << >>, evidence.text \in Texts,
         NEW fatal \in BOOLEAN, NEW known, NEW dirty, NEW ends,
         Accounted(fatal, known, dirty, ends),
         NEW k \in SourceKeys, Executable(k)
  PROVE  /\ ~fatal /\ "complete" \in ends /\ k \in known \ dirty
         /\ evidence.text[k] = "closed" /\ evidence.ends[k] # << >>
         /\ WithinLimits(k)
<1>1. ~Dead /\ ~Starved /\ Known(k) /\ isFinished
  BY DeadRunsNothing
<1>2. ~fatal /\ Heard(known, dirty, ends)
  BY <1>1 DEF Accounted
<1>3. /\ calls[k].status = "complete" /\ calls[k].executable /\ finishedReason = "complete"
      /\ calls[k].ended /\ calls[k].parser \in { "closed", "scalar" }
      /\ ~HasError(callDiagnostics[k])
  BY ExecutableMeans DEF GateInv, CoordinatorInv, CompleteIsEarned, Earned
<1>4. ~Dirty(k)
  <2>1. CallViolations \cap WarningCodes = {}
    BY DEF CallViolations, AuthorityProtocolViolationCodes, WarningCodes, ProjectionOnlyCode
  <2> QED
    BY <1>1, <1>3, <2>1 DEF Dirty, HasError
<1>5. finishedReason \in ends
  BY <1>1, <1>2, HeardNow
<1>6. /\ Known(k) <=> k \in known
      /\ Dirty(k) <=> k \in dirty
      /\ k \in known \ dirty =>
           /\ calls[k].parser = evidence.text[k]
           /\ calls[k].ended => evidence.ends[k] # << >>
  BY <1>1, <1>2, HeardNow DEF Refused
<1>7. k \in known \ dirty
  BY <1>1, <1>4, <1>6
<1>8. evidence.text[k] = "closed"
  <2>1. evidence.text[k] \in TextStates /\ "scalar" \notin TextStates
    BY DEF Texts, TextStates
  <2> QED
    BY <1>3, <1>6, <1>7, <2>1
<1> QED
  BY <1>1, <1>2, <1>3, <1>5, <1>6, <1>7, <1>8 DEF WithinLimits

\* And what was said to be good may run, within the limits, when the guard has finished.
LEMMA AccountedMayRun ==
  ASSUME GateInv, HistoryInv, emitted = << >>, gateFinished,
         NEW known, NEW dirty, NEW ends, ends \subseteq { "complete" },
         Accounted(FALSE, known, dirty, ends),
         NEW k \in known \ dirty, k \in SourceKeys, WithinLimits(k),
         evidence.text[k] = "closed", evidence.ends[k] # << >>
  PROVE  Executable(k)
<1>1. ~Starved /\ Known(k) /\ ~Refused(k)
  BY DEF WithinLimits, Refused
<1>2. ~Dead /\ Heard(known, dirty, ends)
  BY <1>1 DEF Accounted
<1>3. isFinished
  BY DEF GateInv, FinishSettles
<1>4. finishedReason = "complete"
  BY <1>2, <1>3, HeardNow
<1>5. /\ Tidy(k) /\ ~Dirty(k) /\ calls[k].parser = "closed" /\ calls[k].ended
  BY <1>1, <1>2, HeardNow
<1>6. /\ calls[k].name = 1 /\ calls[k].schemaValid = "none" /\ callDiagnostics[k] = {}
  BY <1>1, <1>5 DEF Tidy
<1>7. calls[k].status = "complete" /\ calls[k].executable
  BY <1>1, <1>3, <1>4, <1>5, <1>6 DEF HistoryInv, CleanHistory
<1>8. streamEndReason = "complete"
  BY <1>1, <1>4 DEF GateInv, CapturedOrLimited, Starved
<1>9. streamDiagnostics \cap BlockingCodes = {}
  BY <1>2 DEF Dead
<1>10. /\ ~SdkExecutionEvidence(calls[k], streamDiagnostics)
       /\ ~ResourceLimitEvidence(calls[k], callDiagnostics[k], streamDiagnostics)
       /\ ContentFilteredCode \notin streamDiagnostics
       /\ ProjectionOnlyCode \notin callDiagnostics[k]
       /\ ~ProtocolViolationEvidence(callDiagnostics[k], streamDiagnostics)
  BY <1>5, <1>6, <1>7, <1>9
     DEF SdkExecutionEvidence, ResourceLimitEvidence, ProtocolViolationEvidence,
         BlockingCodes
<1>11. DecideByStatus(calls[k]) = ExecuteReason
  BY <1>6, <1>7 DEF DecideByStatus
<1> QED
  BY <1>1, <1>8, <1>10, <1>11 DEF Executable, Decision, Decide

\* finish() returns only once the gate has finished.
PhaseFinishes == phase = "finished" => gateFinished

\* Only the end of finish() is the end of the guard, as far as its own steps go.
LEMMA GuardPhaseFinishes ==
  ASSUME PhaseFinishes, GuardNext \/ UNCHANGED << vars, phase >>
  PROVE  PhaseFinishes'
<1>1. CASE Deliver \/ UNCHANGED << vars, phase >>
  BY <1>1 DEF Deliver, vars, gateVars, PhaseFinishes
<1>2. CASE FinishGate
  BY <1>2 DEF FinishGate, Finish, PhaseFinishes
<1> QED
  BY <1>1, <1>2 DEF GuardNext

\* The events that the gate has taken and those that wait.
Events == eventsProcessed + Len(emitted)

\* No limit of the coordinator is met as long as no more calls start than these.
HasRoom(keys) ==
  /\ \A event \in Waiting :
       /\ event.type = "tool_call_start" => event.key \in keys
       /\ event.type = "provider_diagnostic" => event.code # "E_COORDINATOR_LIMIT_EVENTS"
  /\ \A k \in SourceKeys : Known(k) => k \in keys
  /\ ~Starved

\* What a dispatched event adds to the codes of the stream and to the calls.
LEMMA DispatchAdds ==
  ASSUME TypeOK, NEW event \in NormalizedEvents, event.type # "provider_stream_end",
         Dispatch(event)
  PROVE  /\ eventsProcessed' = eventsProcessed + 1
         /\ "E_COORDINATOR_LIMIT_EVENTS" \in streamDiagnostics' =>
              \/ "E_COORDINATOR_LIMIT_EVENTS" \in streamDiagnostics
              \/ /\ event.type = "provider_diagnostic"
                 /\ event.code = "E_COORDINATOR_LIMIT_EVENTS"
         /\ \A k \in SourceKeys : Known(k)' =>
              Known(k) \/ (event.type = "tool_call_start" /\ event.key = k)
<1> DEFINE limit == "E_COORDINATOR_LIMIT_EVENTS"
           Goal == /\ eventsProcessed' = eventsProcessed + 1
                   /\ limit \in streamDiagnostics' =>
                        \/ limit \in streamDiagnostics
                        \/ event.type = "provider_diagnostic" /\ event.code = limit
                   /\ \A k \in SourceKeys : Known(k)' =>
                        Known(k) \/ (event.type = "tool_call_start" /\ event.key = k)
<1>1. ASSUME NEW k, NEW c, NEW codes, CallEvent(k, c, codes)  PROVE Goal
  BY <1>1 DEF CallEvent, Accepted, Known, TypeOK
<1>2. ASSUME NEW k, EventOfUnknownCall(k)  PROVE Goal
  BY <1>2 DEF EventOfUnknownCall, Accepted, Known, diagnosticVars
<1>3. ASSUME NEW k, DuplicateStart(k) \/ StartOverLimit(k)  PROVE Goal
  BY <1>3 DEF DuplicateStart, StartOverLimit, Accepted, Known
<1>4. ASSUME NEW id, NEW index, Start(event.key, id, index, 1),
             event.type = "tool_call_start"
      PROVE  Goal
  BY <1>4 DEF Start, Accepted, Known, TypeOK
<1>5. ASSUME NEW k, NEW code, SourceDiagnostic(k, code)  PROVE Goal
  BY <1>5 DEF SourceDiagnostic, Accepted, Known
<1>6. ASSUME event.type = "provider_diagnostic", StreamDiagnostic(event.code)  PROVE Goal
  BY <1>6 DEF StreamDiagnostic, Accepted, Known
<1> HIDE DEF Goal
<1>7. event.type \in { "tool_call_start", "tool_call_identity", "tool_call_name_delta",
                       "tool_call_arguments_delta", "tool_call_end",
                       "provider_diagnostic" }
  BY DEF NormalizedEvents
<1>8. ASSUME event.type = "tool_call_start"  PROVE Goal
  BY <1>3, <1>4, <1>8 DEF Dispatch
<1>9. ASSUME event.type = "tool_call_identity"  PROVE Goal
  BY <1>1, <1>2, <1>9 DEF Dispatch, Identity
<1>10. ASSUME event.type = "tool_call_name_delta"  PROVE Goal
  BY <1>1, <1>2, <1>10 DEF Dispatch, NameDelta
<1>11. ASSUME event.type = "tool_call_arguments_delta"  PROVE Goal
  BY <1>1, <1>2, <1>11 DEF Dispatch, ArgumentsDelta
<1>12. ASSUME event.type = "tool_call_end"  PROVE Goal
  BY <1>1, <1>2, <1>12 DEF Dispatch, CallEnd
<1>13. ASSUME event.type = "provider_diagnostic"  PROVE Goal
  BY <1>1, <1>5, <1>6, <1>13 DEF Dispatch, CallDiagnostic
<1>14. Goal
  BY <1>7, <1>8, <1>9, <1>10, <1>11, <1>12, <1>13
<1> QED
  BY <1>14 DEF Goal

\* Pushing an event into the gate leaves the room that is needed.
LEMMA DeliverHasRoom ==
  ASSUME EmittedOK, TypeOK, Deliver, NEW keys, HasRoom(keys), Events <= MaxNormalizedEvents
  PROVE  HasRoom(keys)' /\ Events' \in Nat /\ Events' <= Events
<1> DEFINE event == Head(emitted)
           limit == "E_COORDINATOR_LIMIT_EVENTS"
           Goal == /\ eventsProcessed' \in { eventsProcessed, eventsProcessed + 1 }
                   /\ limit \notin streamDiagnostics'
                   /\ \A k \in SourceKeys : Known(k)' => k \in keys
<1>1. emitted # << >> /\ emitted' = Tail(emitted)
  BY DEF Deliver
<1>2. /\ Len(emitted) \in Nat \ {0} /\ Len(emitted') = Len(emitted) - 1
      /\ Waiting = { event } \cup Waiting'
      /\ event \in NormalizedEvents
  BY <1>1, QueueMoves DEF EmittedOK
<1>3. /\ event.type = "tool_call_start" => event.key \in keys
      /\ event.type = "provider_diagnostic" => event.code # limit
      /\ limit \notin streamDiagnostics
      /\ \A k \in SourceKeys : Known(k) => k \in keys
  BY <1>2 DEF HasRoom, Starved
<1>4. eventsProcessed \in Nat
  BY CoordinatorAssumption DEF TypeOK
<1>5. ~PushOverLimit
  <2>1. eventsProcessed < MaxNormalizedEvents
    BY <1>2, <1>4, CoordinatorAssumption DEF Events
  <2> QED
    BY <1>4, <2>1, CoordinatorAssumption DEF PushOverLimit
<1>6. ASSUME NEW code, code # limit, RejectedPush(code)  PROVE Goal
  BY <1>3, <1>4, <1>6 DEF RejectedPush, Known
<1>7. ASSUME event.type # "provider_stream_end", Dispatch(event)  PROVE Goal
  BY <1>2, <1>3, <1>4, <1>7, DispatchAdds
<1>8. ASSUME NEW reason \in Reasons, PushStreamEnd(reason)  PROVE Goal
  <2>1. EndStream(reason) /\ eventsProcessed' = eventsProcessed + 1
    BY <1>8 DEF PushStreamEnd, Accepted
  <2>2. \A k \in SourceKeys : Known(k)' => Known(k)
    BY <2>1, EndStreamKnows
  <2>3. streamDiagnostics' = streamDiagnostics
    BY <2>1 DEF EndStream
  <2> HIDE DEF EndStream
  <2> QED
    BY <1>3, <1>4, <2>1, <2>2, <2>3
<1>9. ASSUME PushAfterStreamEnd  PROVE Goal
  BY <1>6, <1>9 DEF PushAfterStreamEnd
<1> HIDE DEF Goal
<1>10. ASSUME event.type # "provider_stream_end"  PROVE Goal
  <2>1. Dispatch(event) \/ PushRejected
    BY <1>10 DEF Deliver
  <2> QED
    BY <1>5, <1>7, <1>9, <1>10, <2>1 DEF PushRejected
<1>11. ASSUME event.type = "provider_stream_end"  PROVE Goal
  <2>1. PushEnd(event.reason) /\ event.reason \in Reasons
    BY <1>2, <1>11, NormalizedEvent DEF Deliver
  <2> QED
    BY <1>5, <1>6, <1>8, <1>9, <2>1 DEF PushEnd, PushConflictingEnd
<1>12. Goal
  BY <1>10, <1>11
<1>13. Events' \in Nat /\ Events' <= Events
  BY <1>2, <1>4, <1>12 DEF Goal, Events
<1>14. HasRoom(keys)'
  BY <1>2, <1>12 DEF Goal, HasRoom, Starved
<1> QED
  BY <1>13, <1>14

\* And so does the end of finish().
LEMMA FinishGateHasRoom ==
  ASSUME TypeOK, FinishGate, NEW keys, HasRoom(keys)
  PROVE  HasRoom(keys)' /\ Events' = Events
<1>1. emitted = << >> /\ emitted' = << >>
  BY DEF FinishGate
<1>2. PICK reason \in Reasons : FinishCoordinator(reason)
  BY DEF FinishGate, Finish
<1>3. /\ eventsProcessed' = eventsProcessed /\ streamDiagnostics' = streamDiagnostics
      /\ \A k \in SourceKeys : Known(k)' => Known(k)
  <2>1. CASE UNCHANGED coordinatorVars
    BY <2>1 DEF coordinatorVars, diagnosticVars, Known
  <2>2. CASE EndStream(reason) /\ UNCHANGED eventsProcessed
    BY <2>2, EndStreamKnows DEF EndStream
  <2> QED
    BY <1>2, <2>1, <2>2 DEF FinishCoordinator
<1>4. Waiting' = {}
  BY <1>1, NoneQueued
<1> QED
  BY <1>1, <1>3, <1>4 DEF HasRoom, Starved, Events

\* A step of the adapter, and one that changes nothing, add no more than waits after it.
LEMMA EventHasRoom ==
  ASSUME TypeOK, EmittedOK', UNCHANGED vars, NEW keys, HasRoom(keys),
         \A event \in Waiting' :
           /\ event.type = "tool_call_start" => event.key \in keys
           /\ event.type = "provider_diagnostic" =>
                event.code # "E_COORDINATOR_LIMIT_EVENTS"
  PROVE  /\ HasRoom(keys)' /\ Events' \in Nat
         /\ eventsProcessed \in Nat /\ Events' = eventsProcessed + Len(emitted')
<1>1. /\ Starved' = Starved /\ eventsProcessed' = eventsProcessed
      /\ \A k \in SourceKeys : Known(k)' = Known(k)
  BY SameCoordinator DEF vars, coordinatorVars
<1>2. eventsProcessed \in Nat /\ Len(emitted') \in Nat
  BY CoordinatorAssumption DEF TypeOK, EmittedOK
<1> QED
  BY <1>1, <1>2 DEF HasRoom, Events

\* Where there is room for all that may start, nothing is refused.
LEMMA RoomForAll ==
  ASSUME NEW keys, IsFiniteSet(keys), MaxToolCalls >= Cardinality(keys), HasRoom(keys),
         NEW k \in keys, ~Known(k)
  PROVE  ~Refused(k)
<1> DEFINE known == { j \in SourceKeys : Known(j) }
<1>1. known \subseteq keys \ { k }
  BY DEF HasRoom
<1>2. /\ IsFiniteSet(known) /\ Cardinality(known) <= Cardinality(keys)
      /\ Cardinality(keys) = Cardinality(known) => keys = known
  BY <1>1, FS_Subset
<1>3. Cardinality(known) \in Nat /\ Cardinality(keys) \in Nat
  BY <1>2, FS_CardinalityType
<1> HIDE DEF known
<1>4. Cardinality(known) < Cardinality(keys)
  BY <1>1, <1>2, <1>3
<1> QED
  BY <1>3, <1>4, CoordinatorAssumption DEF Refused, known
================================================================================
