------------------------- MODULE AnthropicAdapter_proofs -------------------------
(***************************************************************************)
(* Proofs about the guard of one Anthropic stream: it is an execution      *)
(* gate, and when it has finished, exactly the tool blocks of which the    *)
(* stream said nothing but good may run.                                   *)
(***************************************************************************)
EXTENDS AnthropicAdapter, ProviderGuard_proofs

------------------------------------------------------------------------------
(* Types.                                                                   *)

\* The words in which the ends of a block, of the content and of the message are told.
Words == { "stop" } \cup StopReasons

Trackers ==
  [ owners : [ ToolCallIds -> SourceKeys \cup { NoKey } ], conflicted : SUBSET SourceKeys ]

AnthropicFields ==
  [ provider : { "anthropic" }, finished : BOOLEAN, terminal : Reasons \cup { "none" },
    ids : Trackers, terminated : SUBSET SourceKeys ]

AnthropicTypeOK ==
  /\ EmittedOK
  /\ adapter \in AnthropicFields
  /\ phase \in { "streaming", "finishing", "finished" }
  /\ evidence \in EvidenceOf(Words)
  /\ phase # "streaming" => evidence.caller \in CallerReasons

------------------------------------------------------------------------------
(* What the stream said, as far as the coordinator is concerned.            *)

\* How the content ended, by the first stop_reason.
ContentEnd == MapStopReason(evidence.ends[Choice(0)][1])
Stopped == evidence.ends[Choice(0)] # << >>

\* Something was said after which no block may run.
Fatal ==
  \/ evidence.fault
  \/ Message \in evidence.spoiled
  \/ Len(evidence.ends[Choice(0)]) > 1

\* The blocks that may not run for what was said of them.
Disqualified ==
  { k \in Blocks : \/ k \in evidence.spoiled
                   \/ Len(evidence.ends[k]) > 1
                   \/ k \in adapter.ids.conflicted }

\* What the caller says to finish() when the message has not ended.
CallerSays ==
  IF evidence.caller # Absent THEN evidence.caller
  ELSE IF Stopped THEN ContentEnd ELSE "unknown"

\* The coordinator is told that the stream ends for this reason.
EndSaid(reason) ==
  \/ /\ evidence.ends[Message] # << >>
     /\ reason = IF Stopped THEN ContentEnd ELSE "unknown"
  \/ /\ evidence.ends[Message] = << >> /\ phase # "streaming"
     /\ reason = IF CallerSays = "complete" THEN "unknown" ELSE CallerSays

Said == { reason \in Reasons : EndSaid(reason) }

\* The tracker knows who was given an id first, and whose ids are not their own.
TrackerAgrees(tracker, ids) ==
  /\ tracker.conflicted \subseteq Blocks
  /\ \A id \in ToolCallIds :
       IF tracker.owners[id] = NoKey THEN \A k \in Blocks : id \notin ids[k]
       ELSE /\ tracker.owners[id] \in Blocks /\ id \in ids[tracker.owners[id]]
            /\ \A k \in Blocks : id \in ids[k] /\ k # tracker.owners[id] =>
                 { k, tracker.owners[id] } \subseteq tracker.conflicted
  /\ \A k \in tracker.conflicted :
       \E j \in Blocks \ { k } : ids[j] \cap ids[k] # {}

\* The fields of the adapter are what was said.
FieldsAgree ==
  /\ adapter.terminal = IF Stopped THEN ContentEnd ELSE "none"
  /\ adapter.finished <=> evidence.ends[Message] # << >> \/ phase # "streaming"
  /\ TrackerAgrees(adapter.ids, evidence.ids)
  /\ \A k \in Blocks : k \in adapter.terminated <=> evidence.ends[k] # << >>

\* What can be said at all.
SaidInOrder ==
  /\ evidence.started \subseteq Blocks
  /\ evidence.ends[Message] \in { << >>, << "stop" >> }
  /\ \A k \in Blocks :
       /\ evidence.ends[k] \in { << >>, << "stop" >>, << "stop", "stop" >> }
       /\ k \notin evidence.spoiled => \A id, other \in evidence.ids[k] : id = other
  /\ \A k \in SourceKeys \ evidence.started :
       evidence.text[k] = "empty" /\ evidence.ids[k] = {}

\* The inductive invariant: what was said, what is on its way to the gate, and what the
\* coordinator holds agree at every moment.
AnthropicInv ==
  /\ AnthropicTypeOK
  /\ ~Fatal => FieldsAgree /\ SaidInOrder
  /\ \E fatal \in BOOLEAN, known \in SUBSET SourceKeys, dirty \in SUBSET SourceKeys,
        ends \in SUBSET Reasons :
       /\ fatal <=> Fatal
       /\ known = evidence.started /\ dirty = Disqualified /\ ends = Said
       /\ Accounted(fatal, known, dirty, ends)

------------------------------------------------------------------------------
(* Every raw event leaves well-formed events and fields, whatever was said. *)

\* The blocks are source keys, but neither the content nor the message.
LEMMA AnthropicScopes ==
  /\ InputBlocks \subseteq Blocks /\ Blocks \subseteq SourceKeys /\ Blocks \subseteq Scopes
  /\ Message \in Scopes /\ Choice(0) \in Scopes /\ Choice(0) # Message
  /\ Message \notin SourceKeys /\ Message \notin Blocks /\ Choice(0) \notin Blocks
  /\ NoKey \notin SourceKeys
<1>1. Blocks \subseteq SourceKeys \cap (Nat \X Nat)
  BY DEF Blocks, KeysOf, Places
<1>2. Choice(0) \in Scopes
  BY AnthropicAssumption DEF Scopes
<1>3. Choice(0) # Message
  BY DEF Choice, Message
<1>4. \A k \in Nat \X Nat : k # Choice(0)
  BY DEF Choice
<1> QED
  BY <1>1, <1>2, <1>3, <1>4, KeyScopes, GuardAssumption, AnthropicAssumption
     DEF NoKey, Message

\* The codes of the adapter may be raised, and of these one kills nothing.
LEMMA AnthropicCodesNamed ==
  /\ AnthropicCodes \subseteq ProviderCodes
  /\ AnthropicCodes \ { "E_PROVIDER_EVENT_MALFORMED" } \subseteq
       AuthorityProtocolViolationCodes
  /\ "E_PROVIDER_EVENT_MALFORMED" \notin BlockingCodes
  /\ AuthorityProtocolViolationCodes \subseteq BlockingCodes \cap DisqualifyingCodes
  /\ \A code \in AnthropicCodes : code # "E_COORDINATOR_LIMIT_EVENTS"
BY AnthropicAssumption DEF AnthropicCodes, AuthorityProtocolViolationCodes, BlockingCodes,
   DisqualifyingCodes, SdkExecutionObservedCodes, ContentFilteredCode

\* How a stop_reason ends the content.
LEMMA StopReasonsMapped ==
  /\ \A reason \in Words : MapStopReason(reason) \in Reasons
  /\ \A reason \in Words : MapStopReason(reason) = "complete" <=>
                             reason \in { "end_turn", "tool_use" }
  /\ { "complete", "unknown", "provider_error" } \subseteq Reasons /\ "none" \notin Reasons
  /\ Absent \notin Reasons
<1>1. MapStopReason("stop") = "unknown"
  BY DEF MapStopReason
<1>2. \A reason \in StopReasons : MapStopReason(reason) \in Reasons
  BY AnthropicAssumption
<1>3. \A reason : MapStopReason(reason) = "complete" <=> reason \in { "end_turn", "tool_use" }
  BY DEF MapStopReason
<1> QED
  BY <1>1, <1>2, <1>3, GuardAssumption, AnthropicAssumption, ReasonsAssumption DEF Words

\* The events of this adapter are well formed.
LEMMA AnthropicEventsAreNormalized ==
  /\ \A code \in AnthropicCodes : StreamDiagnosticEvent(code) \in NormalizedEvents
  /\ \A k \in SourceKeys, code \in AnthropicCodes :
       DiagnosticEvent(k, code) \in NormalizedEvents
  /\ \A reason \in Reasons : StreamEndEvent(reason) \in NormalizedEvents
  /\ \A k \in SourceKeys, id \in ToolCallIds :
       StartEvent(k, id, Absent) \in NormalizedEvents
  /\ \A k \in SourceKeys : EndEvent(k) \in NormalizedEvents
  /\ \A k \in SourceKeys, piece \in ArgumentPieces :
       ArgumentsEvent(k, piece) \in NormalizedEvents
<1>1. AnthropicCodes \subseteq ProviderCodes
  BY AnthropicAssumption
<1> QED
  BY <1>1 DEF StreamDiagnosticEvent, DiagnosticEvent, StreamEndEvent, StartEvent,
     EndEvent, ArgumentsEvent, NormalizedEvents

\* Observing an id leaves a tracker, adds to the conflicts at most the call that has the
\* id and the one that had it, and gives the id an owner.
LEMMA ObservedMeans ==
  ASSUME NEW tracker \in Trackers, NEW id \in ToolCallIds, NEW k \in SourceKeys
  PROVE  /\ Observed(tracker, id, k) \in Trackers
         /\ Observed(tracker, id, k).owners =
              IF tracker.owners[id] = NoKey THEN [ tracker.owners EXCEPT ![id] = k ]
              ELSE tracker.owners
         /\ tracker.owners[id] \in { NoKey, k } =>
              Observed(tracker, id, k).conflicted = tracker.conflicted
         /\ ~(tracker.owners[id] \in { NoKey, k }) =>
              Observed(tracker, id, k).conflicted =
                tracker.conflicted \cup { tracker.owners[id], k }
         /\ tracker.conflicted \subseteq Observed(tracker, id, k).conflicted
         /\ k # NoKey
<1>1. id # Absent /\ k # NoKey
  BY CoordinatorAssumption, AnthropicScopes
<1>2. tracker.owners[id] \in SourceKeys \cup { NoKey }
  BY DEF Trackers
<1> QED
  BY <1>1, <1>2 DEF Observed, Trackers

\* The calls that an id turns out to be shared by are two at most.
LEMMA FewConflicts ==
  ASSUME NEW tracker \in Trackers, NEW id \in ToolCallIds, NEW k \in SourceKeys
  PROVE  LET keys == Observed(tracker, id, k).conflicted \ tracker.conflicted
         IN keys \in SUBSET SourceKeys /\ IsFiniteSet(keys) /\ Cardinality(keys) <= 2
<1> DEFINE keys == Observed(tracker, id, k).conflicted \ tracker.conflicted
<1>0. Observed(tracker, id, k).conflicted \subseteq
        tracker.conflicted \cup { tracker.owners[id], k }
  BY ObservedMeans
<1>1. keys \subseteq { tracker.owners[id], k }
  BY <1>0
<1>4. keys \subseteq SourceKeys
  BY ObservedMeans DEF Trackers
<1>2. /\ IsFiniteSet({ tracker.owners[id], k })
      /\ Cardinality({ tracker.owners[id], k }) <= 2
  <2>1. \A x, y : IsFiniteSet({ x, y }) /\ Cardinality({ x, y }) <= 2
    <3> TAKE x, y
    <3>1. IsFiniteSet({ x }) /\ Cardinality({ x }) = 1
      BY FS_Singleton
    <3>2. { x, y } = { x } \cup { y }
      OBVIOUS
    <3>3. /\ IsFiniteSet({ x } \cup { y })
          /\ Cardinality({ x } \cup { y }) = IF y \in { x } THEN Cardinality({ x })
                                             ELSE Cardinality({ x }) + 1
      BY <3>1, FS_AddElement
    <3> QED
      BY <3>1, <3>2, <3>3
  <2> QED
    BY <2>1
<1>3. /\ IsFiniteSet(keys) /\ Cardinality(keys) <= Cardinality({ tracker.owners[id], k })
      /\ Cardinality(keys) \in Nat /\ Cardinality({ tracker.owners[id], k }) \in Nat
  BY <1>1, <1>2, FS_Subset, FS_CardinalityType
<1> QED
  BY <1>1, <1>2, <1>3, <1>4

\* What this adapter emits.
AnthropicEvents ==
  { event \in NormalizedEvents :
      /\ event.type = "tool_call_start" => event.key \in Blocks
      /\ event.type = "provider_diagnostic" => event.code \in AnthropicCodes
      /\ event.type # "tool_call_identity" /\ event.type # "tool_call_name_delta" }

\* Each kind of event, with what it carries.
LEMMA EachEventEmitted ==
  /\ \A code \in AnthropicCodes : StreamDiagnosticEvent(code) \in AnthropicEvents
  /\ \A k \in SourceKeys, code \in AnthropicCodes :
       DiagnosticEvent(k, code) \in AnthropicEvents
  /\ \A reason \in Reasons : StreamEndEvent(reason) \in AnthropicEvents
  /\ \A k \in Blocks, id \in ToolCallIds : StartEvent(k, id, Absent) \in AnthropicEvents
  /\ \A k \in SourceKeys : EndEvent(k) \in AnthropicEvents
  /\ \A k \in SourceKeys, piece \in ArgumentPieces :
       ArgumentsEvent(k, piece) \in AnthropicEvents
<1>1. Blocks \subseteq SourceKeys
  BY AnthropicScopes
<1> QED
  BY <1>1, AnthropicEventsAreNormalized
     DEF AnthropicEvents, StreamDiagnosticEvent, DiagnosticEvent, StreamEndEvent,
         StartEvent, EndEvent, ArgumentsEvent

\* The events of one kind of raw event: the diagnostics about shared ids.
LEMMA IdDiagnosticsMean ==
  ASSUME NEW tracker \in Trackers, NEW id \in ToolCallIds, NEW k \in SourceKeys
  PROVE  LET keys == Observed(tracker, id, k).conflicted \ tracker.conflicted
             events == IdDiagnostics(tracker, id, k)
         IN /\ events = EachDiagnosed(keys, "E_DUPLICATE_TOOL_CALL_ID")
            /\ events \in Seq(AnthropicEvents) /\ Len(events) \in Nat /\ Len(events) <= 2
<1> DEFINE keys == Observed(tracker, id, k).conflicted \ tracker.conflicted
           code == "E_DUPLICATE_TOOL_CALL_ID"
           events == IdDiagnostics(tracker, id, k)
<1>1. events = EachDiagnosed(keys, code)
  BY DEF IdDiagnostics, EachDiagnosed
<1>2. keys \in SUBSET SourceKeys /\ IsFiniteSet(keys) /\ Cardinality(keys) <= 2
  BY FewConflicts
<1>3. /\ EachDiagnosed(keys, code) \in Seq({ DiagnosticEvent(j, code) : j \in keys })
      /\ Len(EachDiagnosed(keys, code)) = Cardinality(keys)
  <2> HIDE DEF keys
  <2> QED
    BY <1>2, DiagnosticForEach
<1>4. { DiagnosticEvent(j, code) : j \in keys } \subseteq AnthropicEvents
  BY <1>2, EachEventEmitted DEF AnthropicCodes
<1>5. Cardinality(keys) \in Nat
  BY <1>2, FS_CardinalityType
<1> HIDE DEF events, keys
<1>6. events \in Seq(AnthropicEvents) /\ Len(events) \in Nat /\ Len(events) <= 2
  BY <1>1, <1>2, <1>3, <1>4, <1>5
<1> QED
  BY <1>1, <1>6 DEF events, keys

\* What the adapter makes of a raw event, before the content after a stop_reason is
\* noticed.
LEMMA HandledMeans ==
  ASSUME NEW a \in AnthropicFields, NEW raw \in AnthropicRawEvents
  PROVE  LET handled == AnthropicHandled(a, raw)
         IN /\ handled.fields \in AnthropicFields
            /\ handled.events \in Seq(AnthropicEvents)
            /\ Len(handled.events) \in Nat /\ Len(handled.events) <= 3
            /\ raw.kind # "text_block_start" /\ (raw.kind = "stop_reason" => a.finished) =>
                 handled.events # << >>
<1> DEFINE handled == AnthropicHandled(a, raw)
           Goal == /\ handled.fields \in AnthropicFields
                   /\ handled.events \in Seq(AnthropicEvents)
                   /\ Len(handled.events) \in Nat /\ Len(handled.events) <= 3
                   /\ raw.kind # "text_block_start"
                      /\ (raw.kind = "stop_reason" => a.finished) => handled.events # << >>
<1>s. \A fields, events : /\ Step(fields, events).fields = fields
                          /\ Step(fields, events).events = events
  BY DEF Step
<1>1. ASSUME NEW fields \in AnthropicFields, NEW event \in AnthropicEvents,
             handled = Step(fields, << event >>)
      PROVE  Goal
  <2>1. /\ << event >> \in Seq(AnthropicEvents) /\ Len(<< event >>) = 1
        /\ << event >> # << >>
    OBVIOUS
  <2>2. handled.fields = fields /\ handled.events = << event >>
    BY <1>1, <1>s
  <2> HIDE DEF handled
  <2> QED
    BY <2>1, <2>2
<1>2. ASSUME NEW fields \in AnthropicFields, handled = Step(fields, << >>),
             \/ raw.kind = "text_block_start"
             \/ raw.kind = "stop_reason" /\ ~a.finished
      PROVE  Goal
  <2>1. << >> \in Seq(AnthropicEvents) /\ Len(<< >>) = 0
    OBVIOUS
  <2>2. handled.fields = fields /\ handled.events = << >>
    BY <1>2, <1>s
  <2>3. ~(raw.kind # "text_block_start" /\ (raw.kind = "stop_reason" => a.finished))
    BY <1>2
  <2> HIDE DEF handled
  <2> QED
    BY <2>1, <2>2, <2>3
<1>3. /\ \A reason \in Reasons : [ a EXCEPT !.terminal = reason ] \in AnthropicFields
      /\ [ a EXCEPT !.finished = TRUE ] \in AnthropicFields
      /\ \A k \in SourceKeys :
           [ a EXCEPT !.terminated = @ \cup { k } ] \in AnthropicFields
      /\ \A tracker \in Trackers : [ a EXCEPT !.ids = tracker ] \in AnthropicFields
      /\ a.ids \in Trackers /\ a.finished \in BOOLEAN
      /\ a.terminal \in Reasons \cup { "none" }
  BY DEF AnthropicFields
<1>k. Blocks \subseteq SourceKeys /\ InputBlocks \subseteq SourceKeys
  BY AnthropicScopes
<1> HIDE DEF Goal
<1> USE EachEventEmitted, StopReasonsMapped
<1>4. ASSUME raw.kind = "malformed"  PROVE Goal
  <2>1. handled = Step(a, << StreamDiagnosticEvent("E_PROVIDER_EVENT_MALFORMED") >>)
    BY <1>4 DEF AnthropicHandled
  <2> HIDE DEF handled
  <2> QED
    BY <1>1, <2>1 DEF AnthropicCodes
<1>5. ASSUME raw.kind = "text_block_start"  PROVE Goal
  <2>1. handled = Step(a, << >>)
    BY <1>5 DEF AnthropicHandled
  <2> HIDE DEF handled
  <2> QED
    BY <1>2, <1>5, <2>1
<1>6. ASSUME raw.kind = "tool_block_start"  PROVE Goal
  <2>1. raw.key \in Blocks /\ raw.id \in ToolCallIds
    BY <1>6 DEF AnthropicRawEvents
  <2> DEFINE start == StartEvent(raw.key, raw.id, Absent)
             rest == IdDiagnostics(a.ids, raw.id, raw.key)
             fields == [ a EXCEPT !.ids = Observed(a.ids, raw.id, raw.key) ]
  <2>2. handled = Step(fields, << start >> \o rest)
    BY <1>6 DEF AnthropicHandled, ToolBlockStart
  <2>3. fields \in AnthropicFields
    BY <1>3, <1>k, <2>1, ObservedMeans
  <2>4. start \in AnthropicEvents
    BY <2>1
  <2>5. rest \in Seq(AnthropicEvents) /\ Len(rest) \in Nat /\ Len(rest) <= 2
    BY <1>3, <1>k, <2>1, IdDiagnosticsMean
  <2> HIDE DEF start, rest, fields, handled
  <2>6. << start >> \in Seq(AnthropicEvents) /\ Len(<< start >>) = 1
    BY <2>4
  <2>7. /\ << start >> \o rest \in Seq(AnthropicEvents)
        /\ Len(<< start >> \o rest) = 1 + Len(rest)
    BY <2>5, <2>6, JoinedEvents
  <2>8. << start >> \o rest # << >>
    BY <2>5, <2>7
  <2>9. handled.fields = fields /\ handled.events = << start >> \o rest
    BY <1>s, <2>2
  <2> QED
    BY <2>3, <2>5, <2>7, <2>8, <2>9 DEF Goal
<1>7. ASSUME raw.kind = "block_delta"  PROVE Goal
  <2>1. raw.key \in InputBlocks /\ raw.piece \in ArgumentPieces
    BY <1>7 DEF AnthropicRawEvents
  <2> DEFINE event == IF raw.key \in a.terminated
                      THEN DiagnosticEvent(raw.key, "E_TOOL_ARGUMENTS_AFTER_END")
                      ELSE ArgumentsEvent(raw.key, raw.piece)
  <2>2. handled = Step(a, << event >>)
    BY <1>7 DEF AnthropicHandled, BlockDelta
  <2>3. event \in AnthropicEvents
    BY <1>k, <2>1 DEF AnthropicCodes
  <2> HIDE DEF handled, event
  <2> QED
    BY <1>1, <2>2, <2>3
<1>8. ASSUME raw.kind = "block_stop"  PROVE Goal
  <2>1. raw.key \in InputBlocks
    BY <1>8 DEF AnthropicRawEvents
  <2>2. handled = BlockStop(a, raw.key)
    BY <1>8 DEF AnthropicHandled
  <2> DEFINE event == DiagnosticEvent(raw.key, "E_DUPLICATE_TOOL_END")
             fields == [ a EXCEPT !.terminated = @ \cup { raw.key } ]
  <2>3. /\ event \in AnthropicEvents /\ EndEvent(raw.key) \in AnthropicEvents
        /\ fields \in AnthropicFields
    BY <1>3, <1>k, <2>1 DEF AnthropicCodes
  <2>4. \/ handled = Step(a, << event >>)
        \/ handled = Step(fields, << EndEvent(raw.key) >>)
    BY <2>2 DEF BlockStop
  <2> HIDE DEF handled, event, fields
  <2> QED
    BY <1>1, <2>3, <2>4
<1>9. ASSUME raw.kind = "stop_reason"  PROVE Goal
  <2>0. raw.reason \in StopReasons
    BY <1>9 DEF AnthropicRawEvents
  <2>1. MapStopReason(raw.reason) \in Reasons
    BY <2>0 DEF Words
  <2>2. handled = StopReason(a, raw.reason)
    BY <1>9 DEF AnthropicHandled
  <2> DEFINE said == StreamEndEvent(MapStopReason(raw.reason))
             again == StreamDiagnosticEvent("E_DUPLICATE_MESSAGE_TERMINAL")
             fields == [ a EXCEPT !.terminal = MapStopReason(raw.reason) ]
  <2>3. said \in AnthropicEvents /\ again \in AnthropicEvents /\ fields \in AnthropicFields
    BY <1>3, <2>1 DEF AnthropicCodes
  <2>4. \/ handled = Step(a, << said >>)
        \/ handled = Step(a, << again >>)
        \/ handled = Step(fields, << >>) /\ ~a.finished
    BY <2>2 DEF StopReason
  <2> HIDE DEF handled, said, again, fields
  <2> QED
    BY <1>1, <1>2, <1>9, <2>3, <2>4
<1>10. ASSUME raw.kind = "message_stop"  PROVE Goal
  <2> DEFINE event == StreamEndEvent(IF a.terminal = "none" THEN "unknown" ELSE a.terminal)
             fields == [ a EXCEPT !.finished = TRUE ]
  <2>1. handled = Step(fields, << event >>)
    BY <1>10 DEF AnthropicHandled, MessageStop
  <2>2. event \in AnthropicEvents /\ fields \in AnthropicFields
    BY <1>3
  <2> HIDE DEF handled, event, fields
  <2> QED
    BY <1>1, <2>1, <2>2
<1>11. ASSUME raw.kind = "error"  PROVE Goal
  <2> DEFINE event == StreamEndEvent("provider_error")
             fields == [ a EXCEPT !.finished = TRUE ]
  <2>1. handled = Step(fields, << event >>)
    BY <1>11 DEF AnthropicHandled
  <2>2. event \in AnthropicEvents /\ fields \in AnthropicFields
    BY <1>3
  <2> HIDE DEF handled, event, fields
  <2> QED
    BY <1>1, <2>1, <2>2
<1>12. raw.kind \in { "malformed", "text_block_start", "tool_block_start", "block_delta",
                      "block_stop", "stop_reason", "message_stop", "error" }
  BY DEF AnthropicRawEvents
<1>13. Goal
  BY <1>4, <1>5, <1>6, <1>7, <1>8, <1>9, <1>10, <1>11, <1>12
<1> QED
  BY <1>13 DEF Goal

------------------------------------------------------------------------------
(* What was said is only ever added to.                                     *)

\* f says what e says, and perhaps more.
SaysMore(e, f) ==
  /\ f \in EvidenceOf(Words) /\ f.count = e.count /\ f.caller = e.caller
  /\ e.fault => f.fault
  /\ e.spoiled \subseteq f.spoiled
  /\ Len(e.ends[Choice(0)]) > 1 => Len(f.ends[Choice(0)]) > 1

\* Every way to add to what was said.
LEMMA AddedSays ==
  ASSUME NEW e \in EvidenceOf(Words)
  PROVE  /\ SaysMore(e, e) /\ SaysMore(e, SawFault(e))
         /\ \A scopes \in SUBSET Scopes : SaysMore(e, Spoiled(e, scopes))
         /\ \A k \in SourceKeys : SaysMore(e, SawStart(e, k))
         /\ \A k \in SourceKeys, piece \in ArgumentPieces : SaysMore(e, SawText(e, k, piece))
         /\ \A k \in SourceKeys, id \in ToolCallIds : SaysMore(e, SawId(e, k, id))
         /\ \A s \in Scopes, said \in Words : SaysMore(e, SawEnd(e, s, said))
<1>0. SaysMore(e, e)
  BY DEF SaysMore
<1>1. SaysMore(e, SawFault(e))
  <2>1. /\ SawFault(e) \in EvidenceOf(Words) /\ SameBut(e, SawFault(e), { "fault" })
        /\ SawFault(e).fault = TRUE
    BY SawFaultMeans
  <2> QED
    BY <2>1, FieldsSame DEF SaysMore
<1>2. ASSUME NEW scopes \in SUBSET Scopes  PROVE SaysMore(e, Spoiled(e, scopes))
  <2>1. /\ Spoiled(e, scopes) \in EvidenceOf(Words)
        /\ SameBut(e, Spoiled(e, scopes), { "spoiled" })
        /\ Spoiled(e, scopes).spoiled = e.spoiled \cup scopes
    BY SpoiledMeans
  <2> QED
    BY <2>1, FieldsSame DEF SaysMore
<1>3. ASSUME NEW k \in SourceKeys  PROVE SaysMore(e, SawStart(e, k))
  <2>1. /\ SawStart(e, k) \in EvidenceOf(Words)
        /\ SameBut(e, SawStart(e, k), { "started" })
    BY SawStartMeans
  <2> QED
    BY <2>1, FieldsSame DEF SaysMore
<1>4. ASSUME NEW k \in SourceKeys, NEW piece \in ArgumentPieces
      PROVE  SaysMore(e, SawText(e, k, piece))
  <2>1. /\ SawText(e, k, piece) \in EvidenceOf(Words)
        /\ SameBut(e, SawText(e, k, piece), { "text" })
    BY SawTextMeans
  <2> QED
    BY <2>1, FieldsSame DEF SaysMore
<1>5. ASSUME NEW k \in SourceKeys, NEW id \in ToolCallIds
      PROVE  SaysMore(e, SawId(e, k, id))
  <2>1. SawId(e, k, id) \in EvidenceOf(Words) /\ SameBut(e, SawId(e, k, id), { "ids" })
    BY SawIdMeans
  <2> QED
    BY <2>1, FieldsSame DEF SaysMore
<1>6. ASSUME NEW s \in Scopes, NEW said \in Words  PROVE SaysMore(e, SawEnd(e, s, said))
  <2> DEFINE f == SawEnd(e, s, said)
  <2>1. /\ f \in EvidenceOf(Words) /\ SameBut(e, f, { "ends" })
        /\ f.ends = [ e.ends EXCEPT ![s] = IF Len(e.ends[s]) < 2 THEN Append(e.ends[s], said)
                                           ELSE e.ends[s] ]
    BY SawEndMeans
  <2>2. Choice(0) \in Scopes /\ e.ends \in [ Scopes -> Seq(Words) ]
    BY AnthropicScopes DEF EvidenceOf, Ends
  <2> HIDE DEF f
  <2>3. Len(e.ends[Choice(0)]) > 1 => Len(f.ends[Choice(0)]) > 1
    BY <2>1, <2>2
  <2>4. /\ f.count = e.count /\ f.caller = e.caller /\ f.fault = e.fault
        /\ f.spoiled = e.spoiled
    BY <2>1, FieldsSame
  <2> QED
    BY <2>1, <2>3, <2>4 DEF SaysMore, f
<1> QED
  BY <1>0, <1>1, <1>2, <1>3, <1>4, <1>5, <1>6

\* Two additions are one.
LEMMA SaysMoreTwice ==
  ASSUME NEW e, NEW f, NEW g, SaysMore(e, f), SaysMore(f, g)
  PROVE  SaysMore(e, g)
BY DEF SaysMore

\* The fields of a raw event.
LEMMA RawFields ==
  ASSUME NEW raw \in AnthropicRawEvents
  PROVE  /\ raw.kind \in { "malformed", "text_block_start", "tool_block_start",
                           "block_delta", "block_stop", "stop_reason", "message_stop",
                           "error" }
         /\ raw.kind = "tool_block_start" => raw.key \in Blocks /\ raw.id \in ToolCallIds
         /\ raw.kind = "block_delta" =>
              raw.key \in InputBlocks /\ raw.piece \in ArgumentPieces
         /\ raw.kind = "block_stop" => raw.key \in InputBlocks
         /\ raw.kind = "stop_reason" => raw.reason \in StopReasons
BY DEF AnthropicRawEvents

\* A raw event adds to what was said.
LEMMA SaysMeans ==
  ASSUME NEW e \in EvidenceOf(Words), NEW raw \in AnthropicRawEvents
  PROVE  SaysMore(e, AnthropicSays(e, raw))
<1> DEFINE says == AnthropicSays(e, raw)
<1>k. /\ Blocks \subseteq SourceKeys /\ InputBlocks \subseteq SourceKeys
      /\ SourceKeys \subseteq Scopes /\ Choice(0) \in Scopes /\ Message \in Scopes
      /\ "stop" \in Words /\ StopReasons \subseteq Words
  BY AnthropicScopes, KeyScopes DEF Words
<1>1. ASSUME raw.kind \in { "malformed", "text_block_start" }  PROVE SaysMore(e, says)
  <2>1. says = e
    BY <1>1 DEF AnthropicSays
  <2> QED
    BY <2>1, AddedSays
<1>2. ASSUME raw.kind = "tool_block_start"  PROVE SaysMore(e, says)
  <2>1. PICK k \in SourceKeys, id \in ToolCallIds : k = raw.key /\ id = raw.id
    BY <1>2, <1>k, RawFields
  <2> DEFINE f == IF k \in e.started THEN Spoiled(e, { k }) ELSE SawStart(e, k)
  <2>2. says = SawId(f, k, id)
    BY <1>2, <2>1 DEF AnthropicSays
  <2>3. SaysMore(e, f)
    <3>1. { k } \in SUBSET Scopes
      BY <1>k
    <3> QED
      BY <3>1, AddedSays
  <2> HIDE DEF f, says
  <2>4. SaysMore(f, SawId(f, k, id))
    <3>1. f \in EvidenceOf(Words)
      BY <2>3 DEF SaysMore
    <3> QED
      BY <3>1, AddedSays
  <2> QED
    BY <2>2, <2>3, <2>4, SaysMoreTwice
<1>3. ASSUME raw.kind = "block_delta"  PROVE SaysMore(e, says)
  <2>1. PICK k \in SourceKeys, piece \in ArgumentPieces : k = raw.key /\ piece = raw.piece
    BY <1>3, <1>k, RawFields
  <2>2. says \in { Spoiled(e, { k }), SawText(e, k, piece), e }
    BY <1>3, <2>1 DEF AnthropicSays
  <2>3. { k } \in SUBSET Scopes
    BY <1>k
  <2> HIDE DEF says
  <2> QED
    BY <2>2, <2>3, AddedSays
<1>4. ASSUME raw.kind = "block_stop"  PROVE SaysMore(e, says)
  <2>1. says = SawEnd(e, raw.key, "stop") /\ raw.key \in Scopes
    BY <1>4, <1>k, RawFields DEF AnthropicSays
  <2> HIDE DEF says
  <2> QED
    BY <1>k, <2>1, AddedSays
<1>5. ASSUME raw.kind = "stop_reason"  PROVE SaysMore(e, says)
  <2>1. says = SawEnd(e, Choice(0), raw.reason) /\ raw.reason \in Words
    BY <1>5, <1>k, RawFields DEF AnthropicSays
  <2> HIDE DEF says
  <2> QED
    BY <1>k, <2>1, AddedSays
<1>6. ASSUME raw.kind = "message_stop"  PROVE SaysMore(e, says)
  <2>1. says = SawEnd(e, Message, "stop")
    BY <1>6 DEF AnthropicSays
  <2> HIDE DEF says
  <2> QED
    BY <1>k, <2>1, AddedSays
<1>7. ASSUME raw.kind = "error"  PROVE SaysMore(e, says)
  <2>1. says = SawFault(e)
    BY <1>7 DEF AnthropicSays
  <2> HIDE DEF says
  <2> QED
    BY <2>1, AddedSays
<1> QED
  BY <1>1, <1>2, <1>3, <1>4, <1>5, <1>6, <1>7, RawFields

\* What a raw event shows is what it says, or a fault, or content that is out of place.
LEMMA ShownMeans ==
  ASSUME NEW e \in EvidenceOf(Words), NEW raw \in AnthropicRawEvents
  PROVE  /\ SaysMore(e, AnthropicShown(e, raw))
         /\ Over(e) /\ raw.kind # "text_block_start" => AnthropicShown(e, raw).fault
         /\ Over(e) /\ raw.kind = "text_block_start" => AnthropicShown(e, raw) = e
         /\ ~Over(e) /\ raw.kind \in ContentBlockKinds /\ e.ends[Choice(0)] # << >> =>
              Message \in AnthropicShown(e, raw).spoiled
         /\ ~Over(e) /\ ~(raw.kind \in ContentBlockKinds /\ e.ends[Choice(0)] # << >>) =>
              AnthropicShown(e, raw) = AnthropicSays(e, raw)
<1> DEFINE says == AnthropicSays(e, raw)
           late == raw.kind \in ContentBlockKinds /\ e.ends[Choice(0)] # << >>
<1>1. CASE Over(e) /\ raw.kind = "text_block_start"
  <2>1. AnthropicShown(e, raw) = e
    BY <1>1 DEF AnthropicShown
  <2> QED
    BY <1>1, <2>1, AddedSays
<1>2. CASE Over(e) /\ raw.kind # "text_block_start"
  <2>1. AnthropicShown(e, raw) = SawFault(e)
    BY <1>2 DEF AnthropicShown
  <2> QED
    BY <1>2, <2>1, AddedSays, SawFaultMeans
<1>3. SaysMore(e, says)
  BY SaysMeans
<1>4. CASE ~Over(e) /\ late
  <2>1. AnthropicShown(e, raw) = Spoiled(says, { Message })
    BY <1>4 DEF AnthropicShown
  <2> HIDE DEF says
  <2>2. says \in EvidenceOf(Words) /\ { Message } \in SUBSET Scopes
    BY <1>3, AnthropicScopes DEF SaysMore
  <2>3. SaysMore(e, Spoiled(says, { Message }))
    BY <1>3, <2>2, AddedSays, SaysMoreTwice
  <2>4. Message \in Spoiled(says, { Message }).spoiled
    BY <2>2, SpoiledMeans
  <2> QED
    BY <1>4, <2>1, <2>3, <2>4
<1>5. CASE ~Over(e) /\ ~late
  <2>1. AnthropicShown(e, raw) = says
    BY <1>5 DEF AnthropicShown
  <2> QED
    BY <1>3, <1>5, <2>1
<1> HIDE DEF says, late
<1>6. Over(e) \in BOOLEAN /\ late \in BOOLEAN
  BY DEF Over, late
<1> QED
  BY <1>1, <1>2, <1>4, <1>5, <1>6 DEF late, says

------------------------------------------------------------------------------
(* One raw event, and finish().                                             *)

\* What a raw event does.
LEMMA RawEventMeans ==
  ASSUME AnthropicEvent
  PROVE  \E raw \in AnthropicRawEvents :
           /\ adapter' = AnthropicHandled(adapter, raw).fields
           /\ emitted' = AnthropicContentAfterStop(adapter, raw)
                           \o AnthropicHandled(adapter, raw).events
           /\ Shows(AnthropicShown(evidence, raw))
           /\ emitted = << >> /\ phase # "finishing" /\ UNCHANGED << vars, phase >>
           /\ evidence.count < MaxRawEvents["anthropic"]
<1>1. PICK raw \in AnthropicRawEvents :
        RawEvent(AnthropicPush(adapter, raw), AnthropicShown(evidence, raw))
  BY DEF AnthropicEvent
<1>s. \A fields, events : /\ Step(fields, events).fields = fields
                          /\ Step(fields, events).events = events
  BY DEF Step
<1>2. AnthropicPush(adapter, raw) =
        Step(AnthropicHandled(adapter, raw).fields,
             AnthropicContentAfterStop(adapter, raw) \o AnthropicHandled(adapter, raw).events)
  BY DEF AnthropicPush
<1>3. adapter.provider = "anthropic"
  BY DEF AnthropicEvent
<1>4. /\ AnthropicPush(adapter, raw).fields = AnthropicHandled(adapter, raw).fields
      /\ AnthropicPush(adapter, raw).events =
           AnthropicContentAfterStop(adapter, raw) \o AnthropicHandled(adapter, raw).events
  BY <1>2, <1>s
<1>5. /\ adapter' = AnthropicPush(adapter, raw).fields
      /\ emitted' = AnthropicPush(adapter, raw).events
      /\ Shows(AnthropicShown(evidence, raw))
      /\ emitted = << >> /\ phase # "finishing" /\ UNCHANGED << vars, phase >>
      /\ evidence.count < MaxRawEvents[adapter.provider]
  BY <1>1 DEF RawEvent, Shows
<1> QED
  BY <1>3, <1>4, <1>5

\* The diagnostic of content after the stop_reason comes first, if it comes.
LEMMA ContentAfterStopMeans ==
  ASSUME NEW a \in AnthropicFields, NEW raw \in AnthropicRawEvents
  PROVE  LET late == AnthropicContentAfterStop(a, raw)
             events == late \o AnthropicHandled(a, raw).events
             isLate == /\ a.terminal # "none" /\ ~a.finished
                       /\ raw.kind \in ContentBlockKinds
         IN /\ events \in Seq(AnthropicEvents) /\ Len(events) \in Nat /\ Len(events) <= 4
            /\ AnthropicHandled(a, raw).events # << >> => events # << >>
            /\ ~isLate => events = AnthropicHandled(a, raw).events
            /\ isLate => /\ events # << >>
                         /\ Head(events) =
                              StreamDiagnosticEvent("E_MESSAGE_CONTENT_AFTER_STOP_REASON")
<1> DEFINE handled == AnthropicHandled(a, raw).events
           event == StreamDiagnosticEvent("E_MESSAGE_CONTENT_AFTER_STOP_REASON")
           late == AnthropicContentAfterStop(a, raw)
           events == late \o handled
           isLate == a.terminal # "none" /\ ~a.finished /\ raw.kind \in ContentBlockKinds
<1>1. handled \in Seq(AnthropicEvents) /\ Len(handled) \in Nat /\ Len(handled) <= 3
  BY HandledMeans
<1>2. event \in AnthropicEvents
  BY EachEventEmitted DEF AnthropicCodes
<1>3. late = IF isLate THEN << event >> ELSE << >>
  BY DEF AnthropicContentAfterStop, OnlyIf
<1> DEFINE Goal == /\ events \in Seq(AnthropicEvents) /\ Len(events) \in Nat
                   /\ Len(events) <= 4
                   /\ handled # << >> => events # << >>
                   /\ ~isLate => events = handled
                   /\ isLate => events # << >> /\ Head(events) = event
<1> HIDE DEF handled, event, late, isLate
<1>4. ASSUME isLate  PROVE Goal
  <2>1. << event >> \in Seq(AnthropicEvents) /\ Len(<< event >>) = 1 /\ << event >>[1] = event
        /\ 1 \in DOMAIN << event >>
    BY <1>2
  <2>2. /\ << event >> \o handled \in Seq(AnthropicEvents)
        /\ Len(<< event >> \o handled) = 1 + Len(handled)
        /\ (<< event >> \o handled)[1] = event
    BY <1>1, <2>1, JoinedEvents
  <2>3. /\ << event >> \o handled # << >>
        /\ Head(<< event >> \o handled) = (<< event >> \o handled)[1]
    BY <1>1, <2>2
  <2> QED
    BY <1>1, <1>3, <1>4, <2>2, <2>3
<1>5. ASSUME ~isLate  PROVE Goal
  <2>1. << >> \o handled = handled
    BY <1>1
  <2> QED
    BY <1>1, <1>3, <1>5, <2>1
<1>6. Goal
  BY <1>4, <1>5
<1> QED
  BY <1>6 DEF isLate, late, handled, event

\* Whatever the raw event, everything keeps its type, and what was fatal stays fatal.
LEMMA EventMeans ==
  ASSUME AnthropicTypeOK, AnthropicEvent
  PROVE  /\ adapter' \in AnthropicFields
         /\ emitted' \in Seq(AnthropicEvents) /\ Len(emitted') <= 4
         /\ evidence' \in EvidenceOf(Words)
         /\ evidence'.count = evidence.count + 1 /\ evidence'.caller = evidence.caller
         /\ Fatal => Fatal'
         /\ emitted = << >> /\ phase # "finishing" /\ UNCHANGED << vars, phase >>
         /\ evidence.count < MaxRawEvents["anthropic"]
<1>1. PICK raw \in AnthropicRawEvents :
        /\ adapter' = AnthropicHandled(adapter, raw).fields
        /\ emitted' = AnthropicContentAfterStop(adapter, raw)
                        \o AnthropicHandled(adapter, raw).events
        /\ Shows(AnthropicShown(evidence, raw))
        /\ emitted = << >> /\ phase # "finishing" /\ UNCHANGED << vars, phase >>
        /\ evidence.count < MaxRawEvents["anthropic"]
  BY RawEventMeans
<1>2. adapter \in AnthropicFields /\ evidence \in EvidenceOf(Words)
  BY DEF AnthropicTypeOK
<1>3. adapter' \in AnthropicFields
  BY <1>1, <1>2, HandledMeans
<1>4. emitted' \in Seq(AnthropicEvents) /\ Len(emitted') <= 4
  BY <1>1, <1>2, ContentAfterStopMeans
<1>5. PICK shown : shown = AnthropicShown(evidence, raw)
  OBVIOUS
<1>6. SaysMore(evidence, shown)
  BY <1>2, <1>5, ShownMeans
<1>7. shown \in EvidenceOf(Words)
  BY <1>6 DEF SaysMore
<1>8. /\ evidence' \in EvidenceOf(Words) /\ SameBut(shown, evidence', { "count" })
      /\ evidence'.count = shown.count + 1
  BY <1>1, <1>5, <1>7, ShowsCounted
<1>9. /\ evidence'.fault = shown.fault /\ evidence'.spoiled = shown.spoiled
      /\ evidence'.ends = shown.ends /\ evidence'.caller = shown.caller
  BY <1>8, FieldsSame
<1>10. Fatal => Fatal'
  BY <1>6, <1>9 DEF SaysMore, Fatal
<1> QED
  BY <1>1, <1>3, <1>4, <1>6, <1>8, <1>9, <1>10 DEF SaysMore

\* What finish({reason}) of the adapter leaves for the gate.
LEMMA AnthropicFinishMeans ==
  ASSUME AnthropicTypeOK, AnthropicGuardFinish
  PROVE  /\ emitted = << >> /\ phase = "streaming" /\ phase' = "finishing"
         /\ UNCHANGED vars
         /\ adapter' = [ adapter EXCEPT !.finished = TRUE ] /\ adapter' \in AnthropicFields
         /\ evidence' \in EvidenceOf(Words) /\ SameBut(evidence, evidence', { "caller" })
         /\ evidence'.caller \in CallerReasons
         /\ LET observed == IF evidence'.caller # Absent THEN evidence'.caller
                            ELSE IF adapter.terminal # "none" THEN adapter.terminal
                            ELSE "unknown"
            IN /\ observed \in Reasons
               /\ emitted' = IF adapter.finished THEN << >>
                             ELSE << StreamEndEvent(IF observed = "complete" THEN "unknown"
                                                    ELSE observed) >>
<1>1. PICK reason \in CallerReasons :
        FinishAdapter(AnthropicFinish(adapter, reason), reason)
  BY DEF AnthropicGuardFinish
<1>2. /\ emitted = << >> /\ phase = "streaming" /\ phase' = "finishing"
      /\ UNCHANGED vars
      /\ adapter' = AnthropicFinish(adapter, reason).fields
      /\ emitted' = AnthropicFinish(adapter, reason).events
      /\ evidence' = [ evidence EXCEPT !.caller = reason ]
  BY <1>1 DEF FinishAdapter
<1>0. adapter \in AnthropicFields /\ evidence \in EvidenceOf(Words)
  BY DEF AnthropicTypeOK
<1>3. /\ evidence' \in EvidenceOf(Words) /\ evidence'.caller = reason
      /\ SameBut(evidence, evidence', { "caller" })
  BY <1>0, <1>2 DEF EvidenceOf, SameBut, EvidenceFields
<1>4. /\ adapter.finished => adapter = [ adapter EXCEPT !.finished = TRUE ]
      /\ [ adapter EXCEPT !.finished = TRUE ] \in AnthropicFields
      /\ adapter.terminal \in Reasons \cup { "none" }
  BY <1>0 DEF AnthropicFields
<1> DEFINE observed == IF reason # Absent THEN reason
                       ELSE IF adapter.terminal # "none" THEN adapter.terminal
                       ELSE "unknown"
<1>5. observed \in Reasons
  BY <1>4, GuardAssumption
<1>s. \A fields, events : /\ Step(fields, events).fields = fields
                          /\ Step(fields, events).events = events
  BY DEF Step
<1>6. AnthropicFinish(adapter, reason) =
        IF adapter.finished THEN Step(adapter, << >>)
        ELSE Step([ adapter EXCEPT !.finished = TRUE ],
                  << StreamEndEvent(IF observed = "complete" THEN "unknown" ELSE observed) >>)
  BY DEF AnthropicFinish
<1>7. /\ adapter' = [ adapter EXCEPT !.finished = TRUE ]
      /\ emitted' = IF adapter.finished THEN << >>
                    ELSE << StreamEndEvent(IF observed = "complete" THEN "unknown"
                                           ELSE observed) >>
  <2> HIDE DEF observed
  <2>1. CASE adapter.finished
    <3>1. AnthropicFinish(adapter, reason) = Step(adapter, << >>)
      BY <1>6, <2>1
    <3>2. adapter' = adapter /\ emitted' = << >>
      BY <1>2, <1>s, <3>1
    <3> QED
      BY <1>4, <2>1, <3>2
  <2>2. CASE ~adapter.finished
    BY <1>2, <1>6, <1>s, <2>2
  <2> QED
    BY <2>1, <2>2
<1> QED
  BY <1>2, <1>3, <1>4, <1>5, <1>7

------------------------------------------------------------------------------
(* The guard of an Anthropic stream is an execution gate.                   *)

\* What the adapter emits is well formed.
LEMMA AnthropicEmits ==
  ASSUME emitted' \in Seq(AnthropicEvents)
  PROVE  EmittedOK'
<1>1. AnthropicEvents \subseteq NormalizedEvents
  BY DEF AnthropicEvents
<1>2. \A s \in Seq(AnthropicEvents) : s \in Seq(NormalizedEvents)
  BY <1>1
<1> QED
  BY <1>2 DEF EmittedOK

\* Every step of the guard is a step of the gate, or leaves the gate alone.
LEMMA AnthropicStepImplements ==
  ASSUME AnthropicTypeOK, GuardNext \/ AnthropicNext \/ UNCHANGED guardVars
  PROVE  [Next]_vars /\ AnthropicTypeOK'
<1>1. ASSUME GuardNext  PROVE [Next]_vars /\ AnthropicTypeOK'
  <2>1. EmittedOK
    BY DEF AnthropicTypeOK
  <2>2. Next /\ EmittedOK'
    BY <1>1, <2>1, GuardStepImplements
  <2>3. /\ UNCHANGED << adapter, evidence >>
        /\ phase' = phase \/ (phase = "finishing" /\ phase' = "finished")
    BY <1>1 DEF GuardNext, Deliver, FinishGate
  <2> QED
    BY <2>2, <2>3 DEF AnthropicTypeOK
<1>2. ASSUME AnthropicEvent  PROVE [Next]_vars /\ AnthropicTypeOK'
  <2>1. /\ adapter' \in AnthropicFields /\ emitted' \in Seq(AnthropicEvents)
        /\ evidence' \in EvidenceOf(Words) /\ evidence'.caller = evidence.caller
        /\ UNCHANGED << vars, phase >>
    BY <1>2, EventMeans
  <2> QED
    BY <2>1, AnthropicEmits DEF AnthropicTypeOK
<1>3. ASSUME AnthropicGuardFinish  PROVE [Next]_vars /\ AnthropicTypeOK'
  <2>1. /\ UNCHANGED vars /\ phase' = "finishing" /\ adapter' \in AnthropicFields
        /\ evidence' \in EvidenceOf(Words) /\ evidence'.caller \in CallerReasons
    BY <1>3, AnthropicFinishMeans
  <2>2. \/ emitted' = << >>
        \/ \E reason \in Reasons : emitted' = << StreamEndEvent(reason) >>
    BY <1>3, AnthropicFinishMeans, StopReasonsMapped
  <2>3. emitted' \in Seq(AnthropicEvents)
    <3>1. << >> \in Seq(AnthropicEvents)
      OBVIOUS
    <3>2. \A reason \in Reasons : << StreamEndEvent(reason) >> \in Seq(AnthropicEvents)
      <4>1. \A event \in AnthropicEvents : << event >> \in Seq(AnthropicEvents)
        OBVIOUS
      <4> QED
        BY <4>1, EachEventEmitted
    <3> QED
      BY <2>2, <3>1, <3>2
  <2> QED
    BY <2>1, <2>3, AnthropicEmits DEF AnthropicTypeOK
<1>4. ASSUME UNCHANGED guardVars  PROVE [Next]_vars /\ AnthropicTypeOK'
  BY <1>4 DEF guardVars, AnthropicTypeOK, EmittedOK
<1> QED
  BY <1>1, <1>2, <1>3, <1>4 DEF AnthropicNext

\* At first the gate is as it starts, and everything has its type.
LEMMA AnthropicInitially ==
  ASSUME GuardInit, adapter = NewAnthropic
  PROVE  Init /\ AnthropicTypeOK
<1>1. Init /\ emitted = << >> /\ phase = "streaming" /\ evidence = NoEvidence
  BY DEF GuardInit
<1>2. << >> \in Seq(NormalizedEvents)
  OBVIOUS
<1>3. NoTracker \in Trackers
  BY DEF NoTracker, Trackers
<1>4. adapter \in AnthropicFields
  BY <1>3 DEF NewAnthropic, AnthropicFields
<1>5. evidence \in EvidenceOf(Words)
  BY <1>1, NothingSaid
<1> QED
  BY <1>1, <1>2, <1>4, <1>5 DEF AnthropicTypeOK, EmittedOK

\* What the guard does to its gate is what any user of the gate could do: all that
\* is proved of the gate holds of the guard.
THEOREM AnthropicImplementsGate == AnthropicSpec => Spec
<1>1. GuardInit /\ adapter = NewAnthropic => Init /\ AnthropicTypeOK
  BY AnthropicInitially
<1>2. AnthropicTypeOK /\ [GuardNext \/ AnthropicNext]_guardVars =>
        [Next]_vars /\ AnthropicTypeOK'
  BY AnthropicStepImplements
<1> QED
  BY <1>1, <1>2, PTL DEF AnthropicSpec, Spec

------------------------------------------------------------------------------
(* The raw events, sorted by what follows from them.                        *)

\* Nothing is said; something may have been malformed while the message went on.
QuietPart ==
  /\ Shows(evidence) /\ adapter' = adapter
  /\ \/ emitted' = << >>
     \/ ~Over(evidence) /\ emitted' = << StreamDiagnosticEvent("E_PROVIDER_EVENT_MALFORMED") >>

\* Something fatal was said, and the first event that follows from it says so, or comes
\* after the end.
FatalPart ==
  /\ Fatal'
  /\ emitted' # << >> /\ (Over(evidence) \/ Kills(Head(emitted')))

StartPart(k, id) ==
  /\ ~Over(evidence)
  /\ Shows(SawId(IF k \in evidence.started THEN Spoiled(evidence, { k })
                 ELSE SawStart(evidence, k), k, id))
  /\ adapter' = [ adapter EXCEPT !.ids = Observed(adapter.ids, id, k) ]
  /\ emitted' = << StartEvent(k, id, Absent) >> \o IdDiagnostics(adapter.ids, id, k)

TextPart(k, piece) ==
  /\ ~Over(evidence)
  /\ Shows(IF evidence.ends[k] # << >> THEN Spoiled(evidence, { k })
           ELSE IF k \in evidence.started THEN SawText(evidence, k, piece) ELSE evidence)
  /\ adapter' = adapter
  /\ emitted' = << IF k \in adapter.terminated
                   THEN DiagnosticEvent(k, "E_TOOL_ARGUMENTS_AFTER_END")
                   ELSE ArgumentsEvent(k, piece) >>

StopPart(k) ==
  /\ ~Over(evidence)
  /\ Shows(SawEnd(evidence, k, "stop"))
  /\ adapter' = IF k \in adapter.terminated THEN adapter
                ELSE [ adapter EXCEPT !.terminated = adapter.terminated \cup { k } ]
  /\ emitted' = << IF k \in adapter.terminated THEN DiagnosticEvent(k, "E_DUPLICATE_TOOL_END")
                   ELSE EndEvent(k) >>

StopReasonPart(reason) ==
  /\ ~Over(evidence) /\ ~Stopped
  /\ Shows(SawEnd(evidence, Choice(0), reason))
  /\ adapter' = [ adapter EXCEPT !.terminal = MapStopReason(reason) ]
  /\ emitted' = << >>

MessageStopPart ==
  /\ ~Over(evidence)
  /\ Shows(SawEnd(evidence, Message, "stop"))
  /\ adapter' = [ adapter EXCEPT !.finished = TRUE ]
  /\ emitted' = << StreamEndEvent(IF Stopped THEN ContentEnd ELSE "unknown") >>

\* How the content and the message stand, by the fields of the adapter.
LEMMA FieldsMean ==
  ASSUME AnthropicTypeOK, FieldsAgree
  PROVE  /\ Stopped => ContentEnd \in Reasons /\ evidence.ends[Choice(0)][1] \in Words
         /\ adapter.terminal # "none" <=> Stopped
         /\ adapter.terminal = "none" => ~Stopped
         /\ Stopped => adapter.terminal = ContentEnd
         /\ phase # "finishing" => (adapter.finished <=> Over(evidence))
         /\ adapter.finished \in BOOLEAN /\ Over(evidence) \in BOOLEAN
<1>1. evidence.ends[Choice(0)] \in Seq(Words)
  BY AnthropicScopes DEF AnthropicTypeOK, EvidenceOf, Ends
<1>2. Stopped => evidence.ends[Choice(0)][1] \in Words
  <2>1. \A s \in Seq(Words) : s # << >> => s[1] \in Words
    OBVIOUS
  <2> QED
    BY <1>1, <2>1 DEF Stopped
<1>3. Stopped => ContentEnd \in Reasons
  BY <1>2, StopReasonsMapped DEF ContentEnd
<1>4. /\ Stopped => adapter.terminal = ContentEnd
      /\ ~Stopped => adapter.terminal = "none"
  BY DEF FieldsAgree
<1>5. "none" \notin Reasons
  BY StopReasonsMapped
<1>6. adapter.terminal # "none" <=> Stopped
  BY <1>3, <1>4, <1>5
<1>7. adapter.finished \in BOOLEAN
  BY DEF AnthropicTypeOK, AnthropicFields
<1>8. phase # "finishing" => (adapter.finished <=> Over(evidence))
  BY DEF FieldsAgree, Over, AnthropicTypeOK
<1> QED
  BY <1>2, <1>3, <1>4, <1>6, <1>7, <1>8 DEF Over

\* Every raw event is one of these parts.
LEMMA AnthropicEventIsPart ==
  ASSUME AnthropicTypeOK, FieldsAgree, AnthropicEvent
  PROVE  \/ QuietPart \/ FatalPart \/ MessageStopPart
         \/ \E k \in Blocks, id \in ToolCallIds : ~Stopped /\ StartPart(k, id)
         \/ \E k \in Blocks, piece \in ArgumentPieces : ~Stopped /\ TextPart(k, piece)
         \/ \E k \in Blocks : ~Stopped /\ StopPart(k)
         \/ \E reason \in StopReasons : StopReasonPart(reason)
<1> DEFINE Goal == \/ QuietPart \/ FatalPart \/ MessageStopPart
                   \/ \E k \in Blocks, id \in ToolCallIds : ~Stopped /\ StartPart(k, id)
                   \/ \E k \in Blocks, piece \in ArgumentPieces :
                        ~Stopped /\ TextPart(k, piece)
                   \/ \E k \in Blocks : ~Stopped /\ StopPart(k)
                   \/ \E reason \in StopReasons : StopReasonPart(reason)
<1>1. PICK raw \in AnthropicRawEvents :
        /\ adapter' = AnthropicHandled(adapter, raw).fields
        /\ emitted' = AnthropicContentAfterStop(adapter, raw)
                        \o AnthropicHandled(adapter, raw).events
        /\ Shows(AnthropicShown(evidence, raw))
        /\ emitted = << >> /\ phase # "finishing" /\ UNCHANGED << vars, phase >>
        /\ evidence.count < MaxRawEvents["anthropic"]
  BY RawEventMeans
<1>2. adapter \in AnthropicFields /\ evidence \in EvidenceOf(Words)
  BY DEF AnthropicTypeOK
<1>3. /\ adapter.terminal # "none" <=> Stopped
      /\ adapter.finished <=> Over(evidence)
      /\ Stopped => adapter.terminal = ContentEnd
      /\ Over(evidence) \in BOOLEAN /\ Stopped \in BOOLEAN
  BY <1>1, FieldsMean DEF Stopped
<1>s. \A fields, events : /\ Step(fields, events).fields = fields
                          /\ Step(fields, events).events = events
  BY DEF Step
<1>r. /\ raw.kind = "tool_block_start" => raw.key \in Blocks /\ raw.id \in ToolCallIds
      /\ raw.kind = "block_delta" => raw.key \in Blocks /\ raw.piece \in ArgumentPieces
      /\ raw.kind = "block_stop" => raw.key \in Blocks
      /\ raw.kind = "stop_reason" => raw.reason \in StopReasons
      /\ raw.kind \in { "malformed", "text_block_start", "tool_block_start", "block_delta",
                        "block_stop", "stop_reason", "message_stop", "error" }
  BY RawFields, AnthropicScopes
<1> DEFINE handled == AnthropicHandled(adapter, raw)
           isLate == /\ adapter.terminal # "none" /\ ~adapter.finished
                     /\ raw.kind \in ContentBlockKinds
<1>4. /\ ~isLate => emitted' = handled.events
      /\ handled.events # << >> => emitted' # << >>
      /\ isLate => /\ emitted' # << >>
                   /\ Head(emitted') =
                        StreamDiagnosticEvent("E_MESSAGE_CONTENT_AFTER_STOP_REASON")
  BY <1>1, <1>2, ContentAfterStopMeans
<1>5. PICK shown : shown = AnthropicShown(evidence, raw)
  OBVIOUS
<1>6. /\ shown \in EvidenceOf(Words)
      /\ Over(evidence) /\ raw.kind # "text_block_start" => shown.fault
      /\ Over(evidence) /\ raw.kind = "text_block_start" => shown = evidence
      /\ isLate => Message \in shown.spoiled
      /\ ~Over(evidence) /\ ~isLate => shown = AnthropicSays(evidence, raw)
  <2>1. /\ SaysMore(evidence, shown)
        /\ Over(evidence) /\ raw.kind # "text_block_start" => shown.fault
        /\ Over(evidence) /\ raw.kind = "text_block_start" => shown = evidence
        /\ ~Over(evidence) /\ raw.kind \in ContentBlockKinds /\ Stopped =>
             Message \in shown.spoiled
        /\ ~Over(evidence) /\ ~(raw.kind \in ContentBlockKinds /\ Stopped) =>
             shown = AnthropicSays(evidence, raw)
    BY <1>2, <1>5, ShownMeans DEF Stopped
  <2> QED
    BY <1>3, <2>1 DEF SaysMore
<1>7. /\ Shows(shown) /\ evidence'.fault = shown.fault /\ evidence'.spoiled = shown.spoiled
      /\ evidence'.ends = shown.ends
  <2>1. Shows(shown) /\ SameBut(shown, evidence', { "count" })
    BY <1>1, <1>5, <1>6, ShowsCounted
  <2> QED
    BY <2>1, FieldsSame
<1>f. /\ evidence'.fault => Fatal'
      /\ Message \in evidence'.spoiled => Fatal'
      /\ Len(evidence'.ends[Choice(0)]) > 1 => Fatal'
  BY DEF Fatal
<1>8. ASSUME Over(evidence), raw.kind # "text_block_start"  PROVE Goal
  <2>1. handled.events # << >>
    BY <1>2, <1>3, <1>8, HandledMeans
  <2> HIDE DEF handled
  <2> QED
    BY <1>4, <1>6, <1>7, <1>8, <1>f, <2>1 DEF FatalPart
<1>9. ASSUME raw.kind = "text_block_start", ~isLate  PROVE Goal
  <2>1. handled = Step(adapter, << >>) /\ AnthropicSays(evidence, raw) = evidence
    BY <1>9 DEF AnthropicHandled, AnthropicSays
  <2>2. shown = evidence
    BY <1>3, <1>6, <1>9, <2>1
  <2>3. adapter' = adapter /\ emitted' = << >>
    BY <1>1, <1>4, <1>9, <1>s, <2>1
  <2> QED
    BY <1>7, <2>2, <2>3 DEF QuietPart
<1>10. ASSUME isLate  PROVE Goal
  <2>1. Kills(Head(emitted'))
    <3>1. /\ "E_MESSAGE_CONTENT_AFTER_STOP_REASON" \in AnthropicCodes
          /\ "E_MESSAGE_CONTENT_AFTER_STOP_REASON" # "E_PROVIDER_EVENT_MALFORMED"
      BY DEF AnthropicCodes
    <3>2. "E_MESSAGE_CONTENT_AFTER_STOP_REASON" \in BlockingCodes
      BY <3>1, AnthropicCodesNamed
    <3> QED
      BY <1>4, <1>10, <3>2 DEF Kills, StreamDiagnosticEvent, DiagnosticEvent
  <2> HIDE DEF isLate
  <2> QED
    BY <1>4, <1>6, <1>7, <1>10, <1>f, <2>1 DEF FatalPart
<1>11. ASSUME ~Over(evidence), ~isLate
       PROVE  /\ Shows(AnthropicSays(evidence, raw))
              /\ evidence'.ends = AnthropicSays(evidence, raw).ends
              /\ evidence'.fault = AnthropicSays(evidence, raw).fault
              /\ adapter' = handled.fields /\ emitted' = handled.events
  BY <1>1, <1>4, <1>6, <1>7, <1>11
<1>12. ASSUME ~isLate, ~Over(evidence), raw.kind \in ContentBlockKinds  PROVE ~Stopped
  BY <1>3, <1>12
<1> HIDE DEF Goal, isLate
<1>13. ASSUME ~Over(evidence), ~isLate, raw.kind = "malformed"  PROVE Goal
  <2>1. /\ handled = Step(adapter, << StreamDiagnosticEvent("E_PROVIDER_EVENT_MALFORMED") >>)
        /\ AnthropicSays(evidence, raw) = evidence
    BY <1>13 DEF AnthropicHandled, AnthropicSays
  <2> HIDE DEF handled
  <2> QED
    BY <1>11, <1>13, <1>s, <2>1 DEF QuietPart, Goal
<1>14. ASSUME ~Over(evidence), ~isLate, raw.kind = "tool_block_start"  PROVE Goal
  <2>1. PICK k \in Blocks, id \in ToolCallIds : k = raw.key /\ id = raw.id
    BY <1>14, <1>r
  <2>2. handled = ToolBlockStart(adapter, k, id)
    BY <1>14, <2>1 DEF AnthropicHandled
  <2>3. AnthropicSays(evidence, raw) =
          SawId(IF k \in evidence.started THEN Spoiled(evidence, { k })
                ELSE SawStart(evidence, k), k, id)
    BY <1>14, <2>1 DEF AnthropicSays
  <2>4. /\ handled.fields = [ adapter EXCEPT !.ids = Observed(adapter.ids, id, k) ]
        /\ handled.events = << StartEvent(k, id, Absent) >> \o IdDiagnostics(adapter.ids, id, k)
    BY <1>s, <2>2 DEF ToolBlockStart
  <2> HIDE DEF handled
  <2>5. StartPart(k, id)
    BY <1>11, <1>14, <2>3, <2>4 DEF StartPart
  <2>6. ~Stopped
    BY <1>12, <1>14 DEF ContentBlockKinds
  <2> QED
    BY <2>5, <2>6 DEF Goal
<1>15. ASSUME ~Over(evidence), ~isLate, raw.kind = "block_delta"  PROVE Goal
  <2>1. PICK k \in Blocks, piece \in ArgumentPieces : k = raw.key /\ piece = raw.piece
    BY <1>15, <1>r
  <2>2. handled = BlockDelta(adapter, k, piece)
    BY <1>15, <2>1 DEF AnthropicHandled
  <2>3. AnthropicSays(evidence, raw) =
          IF evidence.ends[k] # << >> THEN Spoiled(evidence, { k })
          ELSE IF k \in evidence.started THEN SawText(evidence, k, piece) ELSE evidence
    BY <1>15, <2>1 DEF AnthropicSays
  <2>4. /\ handled.fields = adapter
        /\ handled.events = << IF k \in adapter.terminated
                               THEN DiagnosticEvent(k, "E_TOOL_ARGUMENTS_AFTER_END")
                               ELSE ArgumentsEvent(k, piece) >>
    BY <1>s, <2>2 DEF BlockDelta
  <2> HIDE DEF handled
  <2>5. TextPart(k, piece)
    BY <1>11, <1>15, <2>3, <2>4 DEF TextPart
  <2>6. ~Stopped
    BY <1>12, <1>15 DEF ContentBlockKinds
  <2> QED
    BY <2>5, <2>6 DEF Goal
<1>16. ASSUME ~Over(evidence), ~isLate, raw.kind = "block_stop"  PROVE Goal
  <2>1. PICK k \in Blocks : k = raw.key
    BY <1>16, <1>r
  <2>2. handled = BlockStop(adapter, k)
    BY <1>16, <2>1 DEF AnthropicHandled
  <2>3. AnthropicSays(evidence, raw) = SawEnd(evidence, k, "stop")
    BY <1>16, <2>1 DEF AnthropicSays
  <2>4. /\ handled.fields = IF k \in adapter.terminated THEN adapter
                            ELSE [ adapter EXCEPT !.terminated =
                                                    adapter.terminated \cup { k } ]
        /\ handled.events = << IF k \in adapter.terminated
                               THEN DiagnosticEvent(k, "E_DUPLICATE_TOOL_END")
                               ELSE EndEvent(k) >>
    <3>1. CASE k \in adapter.terminated
      <4>1. handled = Step(adapter, << DiagnosticEvent(k, "E_DUPLICATE_TOOL_END") >>)
        BY <2>2, <3>1 DEF BlockStop
      <4> HIDE DEF handled
      <4> QED
        BY <1>s, <3>1, <4>1
    <3>2. CASE k \notin adapter.terminated
      <4>1. handled = Step([ adapter EXCEPT !.terminated = adapter.terminated \cup { k } ],
                           << EndEvent(k) >>)
        BY <2>2, <3>2 DEF BlockStop
      <4> HIDE DEF handled
      <4> QED
        BY <1>s, <3>2, <4>1
    <3> QED
      BY <3>1, <3>2
  <2> HIDE DEF handled
  <2>5. StopPart(k)
    BY <1>11, <1>16, <2>3, <2>4 DEF StopPart
  <2>6. ~Stopped
    BY <1>12, <1>16 DEF ContentBlockKinds
  <2> QED
    BY <2>5, <2>6 DEF Goal
<1>17. ASSUME ~Over(evidence), ~isLate, raw.kind = "stop_reason"  PROVE Goal
  <2>1. PICK reason \in StopReasons : reason = raw.reason
    BY <1>17, <1>r
  <2>2. handled = StopReason(adapter, reason) /\ ~adapter.finished
    BY <1>3, <1>17, <2>1 DEF AnthropicHandled
  <2>3. AnthropicSays(evidence, raw) = SawEnd(evidence, Choice(0), reason)
    BY <1>17, <2>1 DEF AnthropicSays
  <2>4. CASE Stopped
    <3>1. handled = Step(adapter, << StreamDiagnosticEvent("E_DUPLICATE_MESSAGE_TERMINAL") >>)
      BY <1>3, <2>2, <2>4 DEF StopReason
    <3> HIDE DEF handled
    <3>2. emitted' = << StreamDiagnosticEvent("E_DUPLICATE_MESSAGE_TERMINAL") >>
      BY <1>11, <1>17, <1>s, <3>1
    <3>3. Kills(StreamDiagnosticEvent("E_DUPLICATE_MESSAGE_TERMINAL"))
      <4>1. "E_DUPLICATE_MESSAGE_TERMINAL" \in BlockingCodes
        BY DEF BlockingCodes, AuthorityProtocolViolationCodes
      <4> QED
        BY <4>1 DEF Kills, StreamDiagnosticEvent, DiagnosticEvent
    <3>4. Len(evidence'.ends[Choice(0)]) > 1
      <4> DEFINE said == evidence.ends[Choice(0)]
      <4>1. said \in Seq(Words) /\ said # << >> /\ reason \in Words
        BY <1>2, <2>4, AnthropicScopes DEF Stopped, EvidenceOf, Ends, Words
      <4>2. SawEnd(evidence, Choice(0), reason).ends =
              [ evidence.ends EXCEPT ![Choice(0)] =
                  IF Len(said) < 2 THEN Append(said, reason) ELSE said ]
        BY <1>2, <4>1, AnthropicScopes, SawEndMeans
      <4>3. evidence.ends \in [ Scopes -> Seq(Words) ] /\ Choice(0) \in Scopes
        BY <1>2, AnthropicScopes DEF EvidenceOf, Ends
      <4>4. evidence'.ends[Choice(0)] =
              IF Len(said) < 2 THEN Append(said, reason) ELSE said
        BY <1>11, <1>17, <2>3, <4>2, <4>3
      <4>5. Len(said) \in Nat /\ Len(said) > 0 /\ Len(Append(said, reason)) = Len(said) + 1
        BY <4>1
      <4> HIDE DEF said
      <4> QED
        BY <4>4, <4>5
    <3> QED
      BY <1>f, <3>2, <3>3, <3>4 DEF FatalPart, Goal
  <2>5. CASE ~Stopped
    <3>1. handled = Step([ adapter EXCEPT !.terminal = MapStopReason(reason) ], << >>)
      BY <1>3, <2>2, <2>5 DEF StopReason
    <3> HIDE DEF handled
    <3>2. StopReasonPart(reason)
      BY <1>11, <1>17, <1>s, <2>3, <2>5, <3>1 DEF StopReasonPart
    <3> QED
      BY <3>2 DEF Goal
  <2> QED
    BY <2>4, <2>5
<1>18. ASSUME ~Over(evidence), ~isLate, raw.kind = "message_stop"  PROVE Goal
  <2>1. AnthropicSays(evidence, raw) = SawEnd(evidence, Message, "stop")
    BY <1>18 DEF AnthropicSays
  <2>2. handled = MessageStop(adapter)
    BY <1>18 DEF AnthropicHandled
  <2>3. (IF adapter.terminal = "none" THEN "unknown" ELSE adapter.terminal)
        = IF Stopped THEN ContentEnd ELSE "unknown"
    BY <1>3
  <2>4. handled = Step([ adapter EXCEPT !.finished = TRUE ],
                       << StreamEndEvent(IF Stopped THEN ContentEnd ELSE "unknown") >>)
    BY <2>2, <2>3 DEF MessageStop
  <2> HIDE DEF handled
  <2> QED
    BY <1>11, <1>18, <1>s, <2>1, <2>4 DEF MessageStopPart, Goal
<1>19. ASSUME ~Over(evidence), ~isLate, raw.kind = "error"  PROVE Goal
  <2>1. AnthropicSays(evidence, raw) = SawFault(evidence)
    BY <1>19 DEF AnthropicSays
  <2>2. handled = Step([ adapter EXCEPT !.finished = TRUE ],
                       << StreamEndEvent("provider_error") >>)
    BY <1>19 DEF AnthropicHandled
  <2> HIDE DEF handled
  <2>3. emitted' = << StreamEndEvent("provider_error") >>
    BY <1>11, <1>19, <1>s, <2>2
  <2>4. Kills(StreamEndEvent("provider_error"))
    BY DEF Kills, StreamEndEvent
  <2>5. SawFault(evidence).fault = TRUE
    BY <1>2, SawFaultMeans
  <2> QED
    BY <1>11, <1>19, <1>f, <2>1, <2>3, <2>4, <2>5 DEF FatalPart, Goal
<1>20. raw.kind = "text_block_start" \/ isLate \/ Over(evidence) \/ ~Over(evidence)
  BY <1>3
<1> HIDE DEF handled
<1>21. Goal
  BY <1>8, <1>9, <1>10, <1>13, <1>14, <1>15, <1>16, <1>17, <1>18, <1>19, <1>20, <1>r
<1> QED
  BY <1>21 DEF Goal

------------------------------------------------------------------------------
(* What was said of the ids, and of the end.                                *)

\* The tracker agrees with the ids once it has observed one more.
LEMMA ObservedAgrees ==
  ASSUME NEW tracker \in Trackers, NEW ids \in Ids, NEW id \in ToolCallIds, NEW k \in Blocks,
         TrackerAgrees(tracker, ids)
  PROVE  TrackerAgrees(Observed(tracker, id, k), [ ids EXCEPT ![k] = ids[k] \cup { id } ])
<1> DEFINE next == Observed(tracker, id, k)
           more == [ ids EXCEPT ![k] = ids[k] \cup { id } ]
           first == tracker.owners[id]
<1>1. /\ k \in SourceKeys /\ k # NoKey /\ Blocks \subseteq SourceKeys
  BY AnthropicScopes
<1>2. /\ next.owners = IF first = NoKey THEN [ tracker.owners EXCEPT ![id] = k ]
                       ELSE tracker.owners
      /\ first \in { NoKey, k } => next.conflicted = tracker.conflicted
      /\ ~(first \in { NoKey, k }) => next.conflicted = tracker.conflicted \cup { first, k }
  BY <1>1, ObservedMeans
<1>3. \A j \in Blocks : more[j] = IF j = k THEN ids[k] \cup { id } ELSE ids[j]
  BY <1>1 DEF Ids
<1>4. /\ tracker.owners \in [ ToolCallIds -> SourceKeys \cup { NoKey } ]
      /\ first \in SourceKeys \cup { NoKey }
  BY DEF Trackers
<1>5. /\ tracker.conflicted \subseteq Blocks
      /\ first # NoKey => first \in Blocks /\ id \in ids[first]
      /\ first = NoKey => \A j \in Blocks : id \notin ids[j]
  BY DEF TrackerAgrees
<1>6. \A i \in ToolCallIds : next.owners[i] = IF i = id /\ first = NoKey THEN k
                                              ELSE tracker.owners[i]
  <2> HIDE DEF next
  <2> QED
    BY <1>2, <1>4
<1>7. tracker.conflicted \subseteq next.conflicted /\ next.conflicted \subseteq Blocks
  <2> HIDE DEF next, first
  <2> QED
    BY <1>2, <1>4, <1>5
<1>8. ASSUME NEW i \in ToolCallIds
      PROVE  IF next.owners[i] = NoKey THEN \A j \in Blocks : i \notin more[j]
             ELSE /\ next.owners[i] \in Blocks /\ i \in more[next.owners[i]]
                  /\ \A j \in Blocks : i \in more[j] /\ j # next.owners[i] =>
                       { j, next.owners[i] } \subseteq next.conflicted
  <2>1. IF tracker.owners[i] = NoKey THEN \A j \in Blocks : i \notin ids[j]
        ELSE /\ tracker.owners[i] \in Blocks /\ i \in ids[tracker.owners[i]]
             /\ \A j \in Blocks : i \in ids[j] /\ j # tracker.owners[i] =>
                  { j, tracker.owners[i] } \subseteq tracker.conflicted
    BY DEF TrackerAgrees
  <2> HIDE DEF next, more
  <2>2. CASE i # id
    <3>1. next.owners[i] = tracker.owners[i] /\ \A j \in Blocks : i \in more[j] <=> i \in ids[j]
      BY <1>3, <1>6, <2>2
    <3> QED
      BY <1>7, <2>1, <3>1
  <2>3. CASE i = id /\ first = NoKey
    <3>1. next.owners[i] = k /\ \A j \in Blocks : i \in more[j] <=> j = k
      BY <1>3, <1>5, <1>6, <2>3
    <3> QED
      BY <1>1, <3>1
  <2>4. CASE i = id /\ first # NoKey
    <3>1. next.owners[i] = first /\ \A j \in Blocks : i \in more[j] => j = k \/ i \in ids[j]
      BY <1>3, <1>6, <2>4
    <3>2. i \in more[first]
      BY <1>3, <1>5, <2>4
    <3>3. \A j \in Blocks : i \in more[j] /\ j # first => { j, first } \subseteq next.conflicted
      <4> SUFFICES ASSUME NEW j \in Blocks, i \in more[j], j # first
                   PROVE  { j, first } \subseteq next.conflicted
        OBVIOUS
      <4>1. CASE j = k
        BY <1>2, <2>4, <4>1
      <4>2. CASE i \in ids[j]
        BY <1>7, <2>1, <2>4, <4>2
      <4> QED
        BY <3>1, <4>1, <4>2
    <3> QED
      BY <1>5, <2>4, <3>1, <3>2, <3>3
  <2> QED
    BY <2>2, <2>3, <2>4
<1>9. \A j \in next.conflicted : \E i \in Blocks \ { j } : more[i] \cap more[j] # {}
  <2> SUFFICES ASSUME NEW j \in next.conflicted
               PROVE  \E i \in Blocks \ { j } : more[i] \cap more[j] # {}
    OBVIOUS
  <2>1. \A i \in Blocks : ids[i] \subseteq more[i]
    BY <1>3
  <2>2. CASE j \in tracker.conflicted
    <3>1. PICK i \in Blocks \ { j } : ids[i] \cap ids[j] # {}
      BY <2>2 DEF TrackerAgrees
    <3> QED
      BY <1>5, <2>1, <2>2, <3>1
  <2>3. CASE first \notin { NoKey, k } /\ j \in { first, k }
    <3>1. first \in Blocks /\ id \in more[first] /\ id \in more[k] /\ first # k
      BY <1>3, <1>5, <2>1, <2>3
    <3> HIDE DEF more
    <3> QED
      BY <2>3, <3>1
  <2> HIDE DEF next
  <2> QED
    BY <1>2, <2>2, <2>3
<1> HIDE DEF next, more
<1>10. TrackerAgrees(next, more)
  BY <1>7, <1>8, <1>9 DEF TrackerAgrees
<1> QED
  BY <1>10 DEF next, more

\* How the stream ends, as the coordinator is told.
LEMMA SaidMeans ==
  ASSUME AnthropicTypeOK
  PROVE  /\ evidence.ends[Message] = << >> /\ phase = "streaming" => Said = {}
         /\ evidence.ends[Message] # << >> =>
              Said = { IF Stopped THEN ContentEnd ELSE "unknown" }
         /\ evidence.ends[Message] = << >> /\ phase # "streaming" =>
              /\ Said = { IF CallerSays = "complete" THEN "unknown" ELSE CallerSays }
              /\ Said # { "complete" }
         /\ Said \in SUBSET Reasons
         /\ Stopped => ContentEnd \in Reasons /\ evidence.ends[Choice(0)][1] \in Words
<1>1. evidence.ends[Choice(0)] \in Seq(Words)
  BY AnthropicScopes DEF AnthropicTypeOK, EvidenceOf, Ends
<1>2. Stopped => evidence.ends[Choice(0)][1] \in Words
  <2>1. \A s \in Seq(Words) : s # << >> => s[1] \in Words
    OBVIOUS
  <2> QED
    BY <1>1, <2>1 DEF Stopped
<1>3. Stopped => ContentEnd \in Reasons
  BY <1>2, StopReasonsMapped DEF ContentEnd
<1>4. phase # "streaming" => CallerSays \in Reasons
  <2>1. phase # "streaming" => evidence.caller \in CallerReasons
    BY DEF AnthropicTypeOK
  <2> QED
    BY <1>3, <2>1, GuardAssumption DEF CallerSays
<1>5. "unknown" \in Reasons
  BY GuardAssumption
<1> HIDE DEF Stopped
<1>6. CASE evidence.ends[Message] # << >>
  <2>1. \A reason : EndSaid(reason) <=> reason = IF Stopped THEN ContentEnd ELSE "unknown"
    BY <1>6 DEF EndSaid
  <2> QED
    BY <1>2, <1>3, <1>5, <1>6, <2>1 DEF Said
<1>7. CASE evidence.ends[Message] = << >> /\ phase # "streaming"
  <2> DEFINE told == IF CallerSays = "complete" THEN "unknown" ELSE CallerSays
  <2>1. \A reason : EndSaid(reason) <=> reason = told
    BY <1>7 DEF EndSaid
  <2>2. told \in Reasons /\ told # "complete"
    BY <1>4, <1>5, <1>7
  <2> QED
    BY <1>2, <1>3, <1>7, <2>1, <2>2 DEF Said
<1>8. CASE evidence.ends[Message] = << >> /\ phase = "streaming"
  <2>1. \A reason : ~EndSaid(reason)
    BY <1>8 DEF EndSaid
  <2> QED
    BY <1>2, <1>3, <1>8, <2>1 DEF Said
<1> QED
  BY <1>6, <1>7, <1>8

\* While nothing is said, the account is as it was.
LEMMA NothingSaidKeeps ==
  ASSUME adapter' = adapter, phase' # "streaming" <=> phase # "streaming",
         SameBut(evidence, evidence', { "count" })
  PROVE  /\ Fatal' <=> Fatal
         /\ FieldsAgree => FieldsAgree'
         /\ SaidInOrder => SaidInOrder'
         /\ Disqualified' = Disqualified /\ Said' = Said
         /\ evidence'.started = evidence.started
         /\ \A k \in SourceKeys : SaidKept(k)
<1>1. /\ evidence'.started = evidence.started /\ evidence'.text = evidence.text
      /\ evidence'.ids = evidence.ids /\ evidence'.ends = evidence.ends
      /\ evidence'.spoiled = evidence.spoiled /\ evidence'.fault = evidence.fault
      /\ evidence'.caller = evidence.caller
  BY FieldsSame
<1>2. Fatal' <=> Fatal
  BY <1>1 DEF Fatal
<1>3. Stopped' = Stopped /\ ContentEnd' = ContentEnd /\ CallerSays' = CallerSays
  BY <1>1 DEF Stopped, ContentEnd, CallerSays
<1>4. FieldsAgree => FieldsAgree'
  BY <1>1, <1>3 DEF FieldsAgree, TrackerAgrees
<1>5. SaidInOrder => SaidInOrder'
  BY <1>1 DEF SaidInOrder
<1>6. Disqualified' = Disqualified
  BY <1>1 DEF Disqualified
<1>7. Said' = Said
  BY <1>1, <1>3 DEF Said, EndSaid
<1> QED
  BY <1>1, <1>2, <1>4, <1>5, <1>6, <1>7 DEF SaidKept

------------------------------------------------------------------------------
(* While the message goes on, what is said is told to the coordinator.      *)

\* The message goes on, and the gate stands still.
Live ==
  /\ AnthropicTypeOK /\ FieldsAgree /\ SaidInOrder /\ ~Fatal
  /\ ~Over(evidence) /\ phase # "finishing" /\ emitted = << >> /\ UNCHANGED << vars, phase >>

\* What is said is told, and the fields say so.
Told ==
  /\ FieldsAgree' /\ SaidInOrder' /\ ~Fatal' /\ evidence'.ends[Message] = << >>
  /\ \A known, dirty, known2, dirty2 :
       /\ known = evidence.started /\ dirty = Disqualified /\ Heard(known, dirty, {})
       /\ known2 = evidence'.started /\ dirty2 = Disqualified'
       => Heard(known2, dirty2, {})'

\* The evidence and the adapter, by their parts.
LEMMA LiveMeans ==
  ASSUME Live
  PROVE  /\ evidence \in EvidenceOf(Words) /\ adapter \in AnthropicFields
         /\ evidence.text \in Texts /\ evidence.ids \in Ids /\ evidence.ends \in Ends(Words)
         /\ evidence.started \subseteq Blocks /\ evidence.spoiled \subseteq Scopes
         /\ adapter.ids \in Trackers /\ adapter.terminated \subseteq SourceKeys
         /\ evidence.ends[Message] = << >> /\ phase = "streaming" /\ phase' = "streaming"
         /\ emitted = << >> /\ UNCHANGED vars
         /\ \A k \in Blocks : evidence.ends[k] \in { << >>, << "stop" >>, << "stop", "stop" >> }
         /\ \A k \in SourceKeys \ evidence.started : evidence.text[k] = "empty"
BY DEF Live, AnthropicTypeOK, EvidenceOf, AnthropicFields, Over, SaidInOrder

\* Told from news of every key.
LEMMA NewsTold ==
  ASSUME Live, FieldsAgree', SaidInOrder', ~Fatal', evidence'.ends[Message] = << >>,
         ~isFinished' =>
           /\ InOrder'
           /\ \A event \in Waiting' : event.type # "provider_stream_end" /\ ~Kills(event)
           /\ \A known, dirty, known2, dirty2 :
                /\ known = evidence.started /\ dirty = Disqualified
                /\ known2 = evidence'.started /\ dirty2 = Disqualified'
                => \A k \in SourceKeys : News(k, known, dirty, known2, dirty2)
  PROVE  Told
<1> SUFFICES ASSUME NEW known, NEW dirty, NEW known2, NEW dirty2,
                    known = evidence.started, dirty = Disqualified,
                    Heard(known, dirty, {}),
                    known2 = evidence'.started, dirty2 = Disqualified'
             PROVE  Heard(known2, dirty2, {})'
  BY DEF Told
<1>1. emitted = << >> /\ UNCHANGED vars
  BY LiveMeans
<1>2. ~isFinished
  BY <1>1, HeardNow
<1>3. isFinished' = isFinished
  BY <1>1 DEF vars, gateVars, observerVars, coordinatorVars, diagnosticVars, finishVars
<1>4. /\ InOrder'
      /\ \A event \in Waiting' : event.type # "provider_stream_end" /\ ~Kills(event)
      /\ \A k \in SourceKeys : News(k, known, dirty, known2, dirty2)
  BY <1>2, <1>3
<1> QED
  BY <1>1, <1>2, <1>3, <1>4, NewsHeard

\* The start of a tool block.
LEMMA StartTold ==
  ASSUME Live, NEW k \in Blocks, NEW id \in ToolCallIds, StartPart(k, id)
  PROVE  Told
<1> DEFINE first == IF k \in evidence.started THEN Spoiled(evidence, { k })
                    ELSE SawStart(evidence, k)
           tracker == adapter.ids
           next == Observed(tracker, id, k)
           shared == next.conflicted \ tracker.conflicted
           code == "E_DUPLICATE_TOOL_CALL_ID"
<1>k. k \in SourceKeys /\ Blocks \subseteq SourceKeys /\ { k } \in SUBSET Scopes
      /\ k # Message /\ k # Choice(0) /\ k # NoKey /\ NoKey \notin SourceKeys
  BY AnthropicScopes, KeyScopes
<1>l. /\ evidence \in EvidenceOf(Words) /\ adapter \in AnthropicFields
      /\ evidence.ids \in Ids /\ evidence.started \subseteq Blocks
      /\ tracker \in Trackers /\ emitted = << >> /\ UNCHANGED vars
      /\ phase = "streaming" /\ phase' = "streaming"
      /\ \A j \in SourceKeys \ evidence.started : evidence.text[j] = "empty"
  BY LiveMeans
<1>1. /\ first \in EvidenceOf(Words) /\ first.ids = evidence.ids
      /\ first.text = evidence.text /\ first.ends = evidence.ends
      /\ first.fault = evidence.fault
      /\ first.started = evidence.started \cup { k }
      /\ first.spoiled = IF k \in evidence.started THEN evidence.spoiled \cup { k }
                         ELSE evidence.spoiled
  <2>1. CASE k \in evidence.started
    <3>1. /\ Spoiled(evidence, { k }) \in EvidenceOf(Words)
          /\ SameBut(evidence, Spoiled(evidence, { k }), { "spoiled" })
          /\ Spoiled(evidence, { k }).spoiled = evidence.spoiled \cup { k }
      BY <1>k, <1>l, SpoiledMeans
    <3> QED
      BY <2>1, <3>1, FieldsSame
  <2>2. CASE k \notin evidence.started
    <3>1. /\ SawStart(evidence, k) \in EvidenceOf(Words)
          /\ SameBut(evidence, SawStart(evidence, k), { "started" })
          /\ SawStart(evidence, k).started = evidence.started \cup { k }
      BY <1>k, <1>l, SawStartMeans
    <3> QED
      BY <2>2, <3>1, FieldsSame
  <2> QED
    BY <2>1, <2>2
<1> HIDE DEF first
<1>2. /\ evidence'.started = evidence.started \cup { k }
      /\ evidence'.text = evidence.text /\ evidence'.ends = evidence.ends
      /\ evidence'.fault = evidence.fault
      /\ evidence'.spoiled = IF k \in evidence.started THEN evidence.spoiled \cup { k }
                             ELSE evidence.spoiled
      /\ evidence'.ids = [ evidence.ids EXCEPT ![k] = evidence.ids[k] \cup { id } ]
  <2>1. Shows(SawId(first, k, id))
    BY DEF StartPart, first
  <2>2. /\ SawId(first, k, id) \in EvidenceOf(Words)
        /\ SameBut(first, SawId(first, k, id), { "ids" })
        /\ SawId(first, k, id).ids = [ first.ids EXCEPT ![k] = first.ids[k] \cup { id } ]
    BY <1>1, <1>k, SawIdMeans
  <2>3. SameBut(SawId(first, k, id), evidence', { "count" })
    BY <2>1, <2>2, ShowsCounted
  <2> QED
    BY <1>1, <2>2, <2>3, FieldsSame
<1>3. /\ adapter' = [ adapter EXCEPT !.ids = next ]
      /\ emitted' = << StartEvent(k, id, Absent) >> \o IdDiagnostics(tracker, id, k)
  BY DEF StartPart
<1>4. /\ adapter'.ids = next /\ adapter'.terminal = adapter.terminal
      /\ adapter'.finished = adapter.finished /\ adapter'.terminated = adapter.terminated
  BY <1>3, <1>l DEF AnthropicFields
<1>5. FieldsAgree'
  <2>1. TrackerAgrees(next, [ evidence.ids EXCEPT ![k] = evidence.ids[k] \cup { id } ])
    <3>1. TrackerAgrees(tracker, evidence.ids)
      BY DEF Live, FieldsAgree
    <3> QED
      BY <1>l, <3>1, ObservedAgrees
  <2>3. TrackerAgrees(adapter.ids, evidence.ids)'
    BY <1>2, <1>4, <2>1 DEF TrackerAgrees
  <2> QED
    BY <1>2, <1>4, <1>l, <2>3 DEF Live, FieldsAgree, Stopped, ContentEnd
<1>6. SaidInOrder'
  <2>1. SaidInOrder
    BY DEF Live
  <2>2. \A j \in Blocks :
          evidence'.ids[j] = IF j = k THEN evidence.ids[k] \cup { id } ELSE evidence.ids[j]
    BY <1>2, <1>k, <1>l DEF Ids
  <2>3. \A j \in SourceKeys \ evidence'.started :
          evidence'.text[j] = "empty" /\ evidence'.ids[j] = {}
    BY <1>2, <1>k, <1>l, <2>1 DEF SaidInOrder, Ids
  <2>4. ASSUME NEW j \in Blocks, j \notin evidence'.spoiled
        PROVE  \A own, other \in evidence'.ids[j] : own = other
    <3>1. CASE j = k
      <4>1. k \notin evidence.started
        BY <1>2, <2>4, <3>1
      <4>2. evidence.ids[k] = {}
        BY <1>k, <2>1, <4>1 DEF SaidInOrder
      <4> QED
        BY <2>2, <3>1, <4>2
    <3>2. CASE j # k
      BY <1>2, <2>1, <2>2, <2>4, <3>2 DEF SaidInOrder
    <3> QED
      BY <3>1, <3>2
  <2> QED
    BY <1>2, <2>1, <2>3, <2>4 DEF SaidInOrder
<1>f. ~Fatal' /\ evidence'.ends[Message] = << >>
  BY <1>2, <1>k, LiveMeans DEF Live, Fatal
<1>7. IdDiagnostics(tracker, id, k) = EachDiagnosed(shared, code) /\ shared \in SUBSET SourceKeys
  <2>1. IdDiagnostics(tracker, id, k) = EachDiagnosed(shared, code)
    BY <1>k, <1>l, IdDiagnosticsMean
  <2>2. shared \in SUBSET SourceKeys
    BY <1>k, <1>l, FewConflicts
  <2> QED
    BY <2>1, <2>2
<1>8. code \in AuthorityProtocolViolationCodes /\ code \in ProviderCodes
  BY AnthropicCodesNamed DEF AnthropicCodes, AuthorityProtocolViolationCodes
<1>9. /\ StartEvent(k, id, Absent) \in NormalizedEvents /\ MayWait(StartEvent(k, id, Absent))
      /\ StartEvent(k, id, Absent).type = "tool_call_start"
      /\ StartEvent(k, id, Absent).key = k
  BY <1>k, AnthropicEventsAreNormalized DEF MayWait, StartEvent
<1>c. tracker.conflicted \subseteq next.conflicted
  BY <1>k, <1>l, ObservedMeans
<1> HIDE DEF next, shared, code
<1>10. ~isFinished' =>
         /\ InOrder'
         /\ Waiting' = { StartEvent(k, id, Absent) } \cup { DiagnosticEvent(j, code) : j \in shared }
  BY <1>3, <1>7, <1>8, <1>9, DiagnosticsQueued
<1>11. ASSUME ~isFinished'
       PROVE  /\ InOrder'
              /\ \A event \in Waiting' : event.type # "provider_stream_end" /\ ~Kills(event)
              /\ \A known, dirty, known2, dirty2 :
                   /\ known = evidence.started /\ dirty = Disqualified
                   /\ known2 = evidence'.started /\ dirty2 = Disqualified'
                   => \A j \in SourceKeys : News(j, known, dirty, known2, dirty2)
  <2>2. /\ InOrder'
        /\ Waiting' = { StartEvent(k, id, Absent) } \cup { DiagnosticEvent(j, code) : j \in shared }
    BY <1>10, <1>11
  <2>3. \A event \in Waiting' :
          \/ event = StartEvent(k, id, Absent)
          \/ \E j \in shared : event = DiagnosticEvent(j, code)
    BY <2>2
  <2>4. \A event \in Waiting' : event.type # "provider_stream_end" /\ ~Kills(event)
    BY <1>7, <1>9, <1>k, <2>3 DEF Kills, DiagnosticEvent
  <2>5. ASSUME NEW known, NEW dirty, NEW known2, NEW dirty2,
               known = evidence.started, dirty = Disqualified,
               known2 = evidence'.started, dirty2 = Disqualified',
               NEW j \in SourceKeys
        PROVE  News(j, known, dirty, known2, dirty2)
    <3>1. /\ Pending(j, "tool_call_start")' <=> j = k
          /\ ~Pending(j, "tool_call_arguments_delta")' /\ ~Pending(j, "tool_call_end")'
      BY <1>9, <2>2, <2>3 DEF Pending, DiagnosticEvent
    <3>2. (\E event \in Waiting' : Spoils(event, j)) <=> j \in shared
      <4>1. \A event : event = StartEvent(k, id, Absent) => ~Spoils(event, j)
        BY <1>9 DEF Spoils
      <4>2. \A i, event : event = DiagnosticEvent(i, code) =>
                            (Spoils(event, j) <=> i = j)
        BY <1>8 DEF Spoils, DiagnosticEvent
      <4> QED
        BY <2>2, <2>3, <4>1, <4>2
    <3>3. j \in known2 <=> j \in known \/ j = k
      BY <1>2, <2>5
    <3>4. j \in dirty2 <=> \/ j \in dirty
                           \/ j \in known /\ j = k
                           \/ j \in shared
      <4>1. j \in dirty <=> /\ j \in Blocks
                            /\ \/ j \in evidence.spoiled \/ Len(evidence.ends[j]) > 1
                               \/ j \in tracker.conflicted
        BY <2>5 DEF Disqualified
      <4>2. j \in dirty2 <=> /\ j \in Blocks
                             /\ \/ j \in evidence'.spoiled \/ Len(evidence'.ends[j]) > 1
                                \/ j \in next.conflicted
        BY <1>4, <2>5 DEF Disqualified
      <4>3. /\ next.conflicted = tracker.conflicted \cup shared
            /\ next.conflicted \subseteq Blocks
        <5>1. tracker.conflicted \subseteq next.conflicted
          BY <1>c
        <5>2. next.conflicted \subseteq Blocks
          BY <1>4, <1>5 DEF FieldsAgree, TrackerAgrees
        <5> QED
          BY <5>1, <5>2 DEF shared
      <4> HIDE DEF tracker
      <4> QED
        BY <1>2, <2>5, <4>1, <4>2, <4>3
    <3>5. evidence'.text[j] = IF j \in known THEN evidence.text[j] ELSE "empty"
      BY <1>2, <2>5, <1>l
    <3> QED
      BY <1>2, <2>5, <3>1, <3>2, <3>3, <3>4, <3>5 DEF News
  <2> QED
    BY <2>2, <2>4, <2>5
<1> QED
  BY <1>5, <1>6, <1>f, <1>11, NewsTold

\* While no id is given and nothing ends, the fields agree as before.
LEMMA FieldsKept ==
  ASSUME Live, adapter' = adapter,
         evidence'.ids = evidence.ids, evidence'.ends = evidence.ends
  PROVE  FieldsAgree'
<1>1. phase' = phase /\ FieldsAgree
  BY DEF Live
<1> QED
  BY <1>1 DEF FieldsAgree, TrackerAgrees, Stopped, ContentEnd

\* One event waits, and it ends nothing and kills nothing.
LEMMA OneWaits ==
  ASSUME NEW event \in AnthropicEvents, event.type # "provider_stream_end",
         event.type = "provider_diagnostic" =>
           \/ event.key \in SourceKeys /\ event.code # "E_PROVIDER_EVENT_MALFORMED"
           \/ event = StreamDiagnosticEvent("E_PROVIDER_EVENT_MALFORMED"),
         emitted' = << event >>, ~isFinished'
  PROVE  /\ InOrder' /\ Waiting' = { event }
         /\ \A e \in Waiting' : e.type # "provider_stream_end" /\ ~Kills(e)
<1>1. /\ event \in NormalizedEvents
      /\ event.type = "provider_diagnostic" => event.code \in AnthropicCodes
      /\ event.type # "tool_call_identity" /\ event.type # "tool_call_name_delta"
  BY DEF AnthropicEvents
<1>2. /\ NoKey \notin SourceKeys
      /\ AnthropicCodes \ { "E_PROVIDER_EVENT_MALFORMED" } \subseteq DisqualifyingCodes
      /\ "E_PROVIDER_EVENT_MALFORMED" \notin BlockingCodes
  BY AnthropicScopes, AnthropicCodesNamed
<1>3. event = StreamDiagnosticEvent("E_PROVIDER_EVENT_MALFORMED") =>
        event.key = NoKey /\ event.code = "E_PROVIDER_EVENT_MALFORMED"
  BY DEF StreamDiagnosticEvent, DiagnosticEvent
<1>4. MayWait(event)
  BY <1>1, <1>2, <1>3 DEF MayWait
<1>5. InOrder' /\ Waiting' = { event }
  BY <1>1, <1>4, OneQueued
<1>6. ~Kills(event)
  BY <1>2, <1>3 DEF Kills
<1> QED
  BY <1>5, <1>6

\* A fragment of the input of a block.
LEMMA TextTold ==
  ASSUME Live, NEW k \in Blocks, NEW piece \in ArgumentPieces, TextPart(k, piece)
  PROVE  Told
<1> DEFINE late == DiagnosticEvent(k, "E_TOOL_ARGUMENTS_AFTER_END")
           text == ArgumentsEvent(k, piece)
<1>k. k \in SourceKeys /\ Blocks \subseteq SourceKeys /\ { k } \in SUBSET Scopes
      /\ k # NoKey
  BY AnthropicScopes, KeyScopes
<1>l. /\ evidence \in EvidenceOf(Words) /\ evidence.text \in Texts
      /\ evidence.started \subseteq Blocks
      /\ \A j \in SourceKeys \ evidence.started : evidence.text[j] = "empty"
      /\ SaidInOrder
  BY LiveMeans DEF Live
<1>t. k \in adapter.terminated <=> evidence.ends[k] # << >>
  BY DEF Live, FieldsAgree
<1>1. /\ adapter' = adapter
      /\ emitted' = << IF evidence.ends[k] # << >> THEN late ELSE text >>
  BY <1>t DEF TextPart
<1>2. /\ evidence'.started = evidence.started /\ evidence'.ids = evidence.ids
      /\ evidence'.ends = evidence.ends /\ evidence'.fault = evidence.fault
      /\ evidence'.spoiled = IF evidence.ends[k] # << >> THEN evidence.spoiled \cup { k }
                             ELSE evidence.spoiled
      /\ evidence'.text = IF evidence.ends[k] = << >> /\ k \in evidence.started
                          THEN [ evidence.text EXCEPT ![k] = Fed(evidence.text[k], piece) ]
                          ELSE evidence.text
  <2>1. CASE evidence.ends[k] # << >>
    <3>1. /\ Spoiled(evidence, { k }) \in EvidenceOf(Words)
          /\ SameBut(evidence, Spoiled(evidence, { k }), { "spoiled" })
          /\ Spoiled(evidence, { k }).spoiled = evidence.spoiled \cup { k }
      BY <1>k, <1>l, SpoiledMeans
    <3>2. SameBut(Spoiled(evidence, { k }), evidence', { "count" })
      BY <2>1, <3>1, ShowsCounted DEF TextPart
    <3>3. \A e : SameBut(evidence, e, { "spoiled" }) /\ SameBut(e, evidence', { "count" }) =>
            /\ evidence'.started = evidence.started /\ evidence'.ids = evidence.ids
            /\ evidence'.ends = evidence.ends /\ evidence'.text = evidence.text
            /\ evidence'.spoiled = e.spoiled /\ evidence'.fault = evidence.fault
      BY FieldsSame
    <3> QED
      BY <2>1, <3>1, <3>2, <3>3
  <2>2. CASE evidence.ends[k] = << >> /\ k \in evidence.started
    <3>1. /\ SawText(evidence, k, piece) \in EvidenceOf(Words)
          /\ SameBut(evidence, SawText(evidence, k, piece), { "text" })
          /\ SawText(evidence, k, piece).text =
               [ evidence.text EXCEPT ![k] = Fed(evidence.text[k], piece) ]
      BY <1>k, <1>l, SawTextMeans
    <3>2. SameBut(SawText(evidence, k, piece), evidence', { "count" })
      BY <2>2, <3>1, ShowsCounted DEF TextPart
    <3> QED
      BY <2>2, <3>1, <3>2, FieldsSame
  <2>3. CASE evidence.ends[k] = << >> /\ k \notin evidence.started
    <3>1. SameBut(evidence, evidence', { "count" })
      BY <1>l, <2>3, ShowsCounted DEF TextPart
    <3> QED
      BY <2>3, <3>1, FieldsSame
  <2> QED
    BY <2>1, <2>2, <2>3
<1>3. FieldsAgree'
  BY <1>1, <1>2, FieldsKept
<1>4. SaidInOrder'
  <2>1. \A j \in SourceKeys \ evidence.started : evidence'.text[j] = evidence.text[j]
    BY <1>2, <1>k, <1>l DEF Texts
  <2>2. evidence.spoiled \subseteq evidence'.spoiled
    BY <1>2
  <2> QED
    BY <1>2, <1>l, <2>1, <2>2 DEF SaidInOrder
<1>f. ~Fatal' /\ evidence'.ends[Message] = << >>
  BY <1>2, <1>k, AnthropicScopes, LiveMeans DEF Live, Fatal
<1>5. /\ late \in AnthropicEvents /\ text \in AnthropicEvents
      /\ late.type = "provider_diagnostic" /\ late.key = k
      /\ late.code = "E_TOOL_ARGUMENTS_AFTER_END"
      /\ text.type = "tool_call_arguments_delta" /\ text.key = k /\ text.piece = piece
  BY <1>k, EachEventEmitted DEF AnthropicCodes, DiagnosticEvent, ArgumentsEvent
<1>6. "E_TOOL_ARGUMENTS_AFTER_END" \in AuthorityProtocolViolationCodes
  BY DEF AuthorityProtocolViolationCodes
<1> HIDE DEF late, text
<1>7. ASSUME ~isFinished'
      PROVE  /\ InOrder'
             /\ \A event \in Waiting' : event.type # "provider_stream_end" /\ ~Kills(event)
             /\ \A known, dirty, known2, dirty2 :
                  /\ known = evidence.started /\ dirty = Disqualified
                  /\ known2 = evidence'.started /\ dirty2 = Disqualified'
                  => \A j \in SourceKeys : News(j, known, dirty, known2, dirty2)
  <2> DEFINE event == IF evidence.ends[k] # << >> THEN late ELSE text
  <2>1. /\ event \in AnthropicEvents /\ event.type # "provider_stream_end"
        /\ event.type = "provider_diagnostic" =>
             event.key \in SourceKeys /\ event.code # "E_PROVIDER_EVENT_MALFORMED"
        /\ emitted' = << event >>
    BY <1>1, <1>5, <1>k
  <2> HIDE DEF event
  <2>2. /\ InOrder' /\ Waiting' = { event }
        /\ \A e \in Waiting' : e.type # "provider_stream_end" /\ ~Kills(e)
    BY <1>7, <2>1, OneWaits
  <2>3. ASSUME NEW known, NEW dirty, NEW known2, NEW dirty2,
               known = evidence.started, dirty = Disqualified,
               known2 = evidence'.started, dirty2 = Disqualified',
               NEW j \in SourceKeys
        PROVE  News(j, known, dirty, known2, dirty2)
    <3>1. /\ ~Pending(j, "tool_call_start")' /\ ~Pending(j, "tool_call_end")'
          /\ Pending(j, "tool_call_arguments_delta")' <=> (j = k /\ evidence.ends[k] = << >>)
      BY <1>5, <2>2 DEF Pending, event
    <3>2. (\E e \in Waiting' : Spoils(e, j)) <=> (j = k /\ evidence.ends[k] # << >>)
      <4>1. Spoils(late, j) <=> j = k
        BY <1>5, <1>6 DEF Spoils
      <4>2. ~Spoils(text, j)
        BY <1>5 DEF Spoils
      <4> QED
        BY <2>2, <4>1, <4>2 DEF event
    <3>3. known2 = known
      BY <1>2, <2>3
    <3>4. j \in dirty2 <=> \/ j \in dirty
                           \/ j = k /\ evidence.ends[k] # << >>
      <4>1. j \in dirty <=> /\ j \in Blocks
                            /\ \/ j \in evidence.spoiled \/ Len(evidence.ends[j]) > 1
                               \/ j \in adapter.ids.conflicted
        BY <2>3 DEF Disqualified
      <4>2. j \in dirty2 <=> /\ j \in Blocks
                             /\ \/ j \in evidence'.spoiled \/ Len(evidence'.ends[j]) > 1
                                \/ j \in adapter'.ids.conflicted
        BY <2>3 DEF Disqualified
      <4> QED
        BY <1>1, <1>2, <4>1, <4>2
    <3>5. CASE j = k /\ k \in evidence.started /\ evidence.ends[k] = << >>
      <4>1. evidence'.text[j] = Fed(evidence.text[j], piece) /\ evidence'.ends[j] = << >>
        BY <1>2, <1>k, <1>l, <3>5 DEF Texts
      <4>2. text \in Waiting'
        BY <2>2, <3>5 DEF event
      <4> QED
        BY <1>5, <2>3, <3>1, <3>2, <3>3, <3>4, <3>5, <4>1, <4>2 DEF News
    <3>6. CASE ~(j = k /\ k \in evidence.started /\ evidence.ends[k] = << >>)
      <4>1. evidence'.text[j] = evidence.text[j] /\ evidence'.ends[j] = evidence.ends[j]
        BY <1>2, <1>k, <1>l, <3>6 DEF Texts
      <4>2. j \notin known => evidence.text[j] = "empty"
        BY <1>l, <2>3
      <4>3. j \in known2 \ dirty2 => j # k
        BY <2>3, <3>3, <3>4, <3>6
      <4> QED
        BY <2>3, <3>1, <3>2, <3>3, <3>4, <4>1, <4>2, <4>3 DEF News
    <3> QED
      BY <3>5, <3>6
  <2> QED
    BY <2>2, <2>3
<1> QED
  BY <1>3, <1>4, <1>f, <1>7, NewsTold

\* A block stops for the first time, or again.
LEMMA StopsCounted ==
  ASSUME NEW stops, stops \in { << >>, << "stop" >>, << "stop", "stop" >> },
         NEW more, more = IF Len(stops) < 2 THEN Append(stops, "stop") ELSE stops
  PROVE  /\ more = IF stops = << >> THEN << "stop" >> ELSE << "stop", "stop" >>
         /\ more # << >>
         /\ Len(more) > 1 <=> stops # << >>
         /\ Len(stops) > 1 => stops # << >>
<1>1. /\ Len(<< >>) = 0 /\ Len(<< "stop" >>) = 1 /\ Len(<< "stop", "stop" >>) = 2
      /\ << "stop" >> # << >> /\ << "stop", "stop" >> # << >>
  OBVIOUS
<1>2. \A s : Append(<< >>, s) = << s >> /\ Append(<< s >>, s) = << s, s >>
  BY Appended
<1>3. CASE stops = << >>
  BY <1>1, <1>2, <1>3
<1>4. CASE stops = << "stop" >>
  BY <1>1, <1>2, <1>4
<1>5. CASE stops = << "stop", "stop" >>
  BY <1>1, <1>5
<1> QED
  BY <1>3, <1>4, <1>5

\* The stop of a block.
LEMMA StopTold ==
  ASSUME Live, NEW k \in Blocks, StopPart(k)
  PROVE  Told
<1> DEFINE again == DiagnosticEvent(k, "E_DUPLICATE_TOOL_END")
           stop == EndEvent(k)
<1>k. k \in SourceKeys /\ Blocks \subseteq SourceKeys /\ k \in Scopes
      /\ k # NoKey /\ k # Message /\ k # Choice(0) /\ "stop" \in Words
  BY AnthropicScopes, KeyScopes DEF Words
<1>l. /\ evidence \in EvidenceOf(Words) /\ adapter \in AnthropicFields
      /\ evidence.ends \in Ends(Words) /\ evidence.started \subseteq Blocks
      /\ \A j \in SourceKeys \ evidence.started : evidence.text[j] = "empty"
      /\ evidence.ends[k] \in { << >>, << "stop" >>, << "stop", "stop" >> }
  BY LiveMeans
<1>t. /\ k \in adapter.terminated <=> evidence.ends[k] # << >>
      /\ FieldsAgree /\ SaidInOrder
  BY DEF Live, FieldsAgree
<1>1. /\ adapter' = IF evidence.ends[k] # << >> THEN adapter
                    ELSE [ adapter EXCEPT !.terminated = adapter.terminated \cup { k } ]
      /\ emitted' = << IF evidence.ends[k] # << >> THEN again ELSE stop >>
  BY <1>t DEF StopPart
<1>2. /\ evidence'.started = evidence.started /\ evidence'.ids = evidence.ids
      /\ evidence'.text = evidence.text /\ evidence'.spoiled = evidence.spoiled
      /\ evidence'.fault = evidence.fault
      /\ evidence'.ends = [ evidence.ends EXCEPT ![k] =
                              IF Len(evidence.ends[k]) < 2
                              THEN Append(evidence.ends[k], "stop") ELSE evidence.ends[k] ]
  <2>1. /\ SawEnd(evidence, k, "stop") \in EvidenceOf(Words)
        /\ SameBut(evidence, SawEnd(evidence, k, "stop"), { "ends" })
        /\ SawEnd(evidence, k, "stop").ends =
             [ evidence.ends EXCEPT ![k] = IF Len(evidence.ends[k]) < 2
                                           THEN Append(evidence.ends[k], "stop")
                                           ELSE evidence.ends[k] ]
    BY <1>k, <1>l, SawEndMeans
  <2>2. SameBut(SawEnd(evidence, k, "stop"), evidence', { "count" })
    BY <2>1, ShowsCounted DEF StopPart
  <2> QED
    BY <2>1, <2>2, FieldsSame
<1>3. /\ evidence'.ends[k] = IF evidence.ends[k] = << >> THEN << "stop" >>
                             ELSE << "stop", "stop" >>
      /\ evidence'.ends[k] # << >>
      /\ Len(evidence'.ends[k]) > 1 <=> evidence.ends[k] # << >>
      /\ Len(evidence.ends[k]) > 1 => evidence.ends[k] # << >>
      /\ \A s \in Scopes \ { k } : evidence'.ends[s] = evidence.ends[s]
  <2>1. evidence'.ends[k] = IF Len(evidence.ends[k]) < 2
                            THEN Append(evidence.ends[k], "stop") ELSE evidence.ends[k]
    BY <1>2, <1>k, <1>l DEF Ends
  <2>2. \A s \in Scopes \ { k } : evidence'.ends[s] = evidence.ends[s]
    BY <1>2, <1>k, <1>l DEF Ends
  <2> QED
    BY <1>l, <2>1, <2>2, StopsCounted
<1>f. ~Fatal' /\ evidence'.ends[Message] = << >>
  <2>1. /\ evidence'.ends[Choice(0)] = evidence.ends[Choice(0)]
        /\ evidence'.ends[Message] = << >>
    BY <1>3, <1>k, AnthropicScopes, LiveMeans, KeyScopes
  <2> QED
    BY <1>2, <2>1 DEF Live, Fatal
<1>4. /\ adapter'.ids = adapter.ids /\ adapter'.terminal = adapter.terminal
      /\ adapter'.finished = adapter.finished
      /\ adapter'.terminated = adapter.terminated \cup { k }
  BY <1>1, <1>t, <1>l DEF AnthropicFields
<1>5. FieldsAgree'
  <2>1. /\ Choice(0) \in Scopes /\ Message \in Scopes /\ Blocks \subseteq Scopes
        /\ phase' = phase
    BY AnthropicScopes, KeyScopes DEF Live
  <2>2. /\ evidence'.ends[Choice(0)] = evidence.ends[Choice(0)]
        /\ evidence'.ends[Message] = evidence.ends[Message]
    BY <1>3, <1>k, <2>1
  <2>3. \A j \in Blocks : j \in adapter'.terminated <=> evidence'.ends[j] # << >>
    <3> SUFFICES ASSUME NEW j \in Blocks
                 PROVE  j \in adapter'.terminated <=> evidence'.ends[j] # << >>
      OBVIOUS
    <3>1. j \in adapter.terminated <=> evidence.ends[j] # << >>
      BY <1>t DEF FieldsAgree
    <3> QED
      BY <1>3, <1>4, <2>1, <3>1
  <2>4. TrackerAgrees(adapter.ids, evidence.ids)'
    BY <1>2, <1>4, <1>t DEF FieldsAgree, TrackerAgrees
  <2> QED
    BY <1>4, <1>t, <2>1, <2>2, <2>3, <2>4 DEF FieldsAgree, Stopped, ContentEnd
<1>6. SaidInOrder'
  <2>1. Message \in Scopes /\ Blocks \subseteq Scopes
    BY AnthropicScopes, KeyScopes
  <2> QED
    BY <1>2, <1>3, <1>k, <1>t, <2>1 DEF SaidInOrder
<1>7. /\ again \in AnthropicEvents /\ stop \in AnthropicEvents
      /\ again.type = "provider_diagnostic" /\ again.key = k
      /\ again.code = "E_DUPLICATE_TOOL_END"
      /\ stop.type = "tool_call_end" /\ stop.key = k
  BY <1>k, EachEventEmitted DEF AnthropicCodes, DiagnosticEvent, EndEvent
<1>8. "E_DUPLICATE_TOOL_END" \in AuthorityProtocolViolationCodes
  BY DEF AuthorityProtocolViolationCodes
<1> HIDE DEF again, stop
<1>9. ASSUME ~isFinished'
      PROVE  /\ InOrder'
             /\ \A event \in Waiting' : event.type # "provider_stream_end" /\ ~Kills(event)
             /\ \A known, dirty, known2, dirty2 :
                  /\ known = evidence.started /\ dirty = Disqualified
                  /\ known2 = evidence'.started /\ dirty2 = Disqualified'
                  => \A j \in SourceKeys : News(j, known, dirty, known2, dirty2)
  <2> DEFINE event == IF evidence.ends[k] # << >> THEN again ELSE stop
  <2>1. /\ event \in AnthropicEvents /\ event.type # "provider_stream_end"
        /\ event.type = "provider_diagnostic" =>
             event.key \in SourceKeys /\ event.code # "E_PROVIDER_EVENT_MALFORMED"
        /\ emitted' = << event >>
    BY <1>1, <1>7, <1>k
  <2> HIDE DEF event
  <2>2. /\ InOrder' /\ Waiting' = { event }
        /\ \A e \in Waiting' : e.type # "provider_stream_end" /\ ~Kills(e)
    BY <1>9, <2>1, OneWaits
  <2>3. ASSUME NEW known, NEW dirty, NEW known2, NEW dirty2,
               known = evidence.started, dirty = Disqualified,
               known2 = evidence'.started, dirty2 = Disqualified',
               NEW j \in SourceKeys
        PROVE  News(j, known, dirty, known2, dirty2)
    <3>1. /\ ~Pending(j, "tool_call_start")' /\ ~Pending(j, "tool_call_arguments_delta")'
          /\ Pending(j, "tool_call_end")' <=> (j = k /\ evidence.ends[k] = << >>)
      BY <1>7, <2>2 DEF Pending, event
    <3>2. (\E e \in Waiting' : Spoils(e, j)) <=> (j = k /\ evidence.ends[k] # << >>)
      <4>1. Spoils(again, j) <=> j = k
        BY <1>7, <1>8 DEF Spoils
      <4>2. ~Spoils(stop, j)
        BY <1>7 DEF Spoils
      <4> QED
        BY <2>2, <4>1, <4>2 DEF event
    <3>3. known2 = known
      BY <1>2, <2>3
    <3>s. j \in Scopes /\ (j # k => evidence'.ends[j] = evidence.ends[j])
      BY <1>3, KeyScopes
    <3>4. j \in dirty2 <=> \/ j \in dirty
                           \/ j = k /\ evidence.ends[k] # << >>
      <4>1. j \in dirty <=> /\ j \in Blocks
                            /\ \/ j \in evidence.spoiled \/ Len(evidence.ends[j]) > 1
                               \/ j \in adapter.ids.conflicted
        BY <2>3 DEF Disqualified
      <4>2. j \in dirty2 <=> /\ j \in Blocks
                             /\ \/ j \in evidence'.spoiled \/ Len(evidence'.ends[j]) > 1
                                \/ j \in adapter'.ids.conflicted
        BY <2>3 DEF Disqualified
      <4> QED
        BY <1>2, <1>3, <1>4, <3>s, <4>1, <4>2
    <3>5. evidence'.text[j] = evidence.text[j]
          /\ (j \notin known => evidence.text[j] = "empty")
      BY <1>2, <1>l, <2>3
    <3> QED
      BY <1>3, <2>3, <3>1, <3>2, <3>3, <3>s, <3>4, <3>5 DEF News
  <2> QED
    BY <2>2, <2>3
<1> QED
  BY <1>5, <1>6, <1>f, <1>9, NewsTold

\* The first stop_reason, of which the coordinator is told nothing yet.
LEMMA StopReasonTold ==
  ASSUME Live, NEW reason \in StopReasons, StopReasonPart(reason)
  PROVE  Told
<1>k. /\ Choice(0) \in Scopes /\ Choice(0) # Message /\ Message \in Scopes
      /\ Blocks \subseteq Scopes \ { Choice(0) } /\ reason \in Words
      /\ Blocks \subseteq SourceKeys /\ SourceKeys \subseteq Scopes
  BY AnthropicScopes, KeyScopes DEF Words
<1>l. /\ evidence \in EvidenceOf(Words) /\ adapter \in AnthropicFields
      /\ evidence.ends \in Ends(Words) /\ evidence.started \subseteq Blocks
      /\ \A j \in SourceKeys \ evidence.started : evidence.text[j] = "empty"
      /\ FieldsAgree /\ SaidInOrder /\ phase' = phase
  BY LiveMeans DEF Live
<1>1. /\ evidence'.started = evidence.started /\ evidence'.ids = evidence.ids
      /\ evidence'.text = evidence.text /\ evidence'.spoiled = evidence.spoiled
      /\ evidence'.fault = evidence.fault
      /\ evidence'.ends = [ evidence.ends EXCEPT ![Choice(0)] =
                              IF Len(evidence.ends[Choice(0)]) < 2
                              THEN Append(evidence.ends[Choice(0)], reason)
                              ELSE evidence.ends[Choice(0)] ]
  <2>1. /\ SawEnd(evidence, Choice(0), reason) \in EvidenceOf(Words)
        /\ SameBut(evidence, SawEnd(evidence, Choice(0), reason), { "ends" })
        /\ SawEnd(evidence, Choice(0), reason).ends =
             [ evidence.ends EXCEPT ![Choice(0)] =
                 IF Len(evidence.ends[Choice(0)]) < 2
                 THEN Append(evidence.ends[Choice(0)], reason)
                 ELSE evidence.ends[Choice(0)] ]
    BY <1>k, <1>l, SawEndMeans
  <2>2. SameBut(SawEnd(evidence, Choice(0), reason), evidence', { "count" })
    BY <2>1, ShowsCounted DEF StopReasonPart
  <2> QED
    BY <2>1, <2>2, FieldsSame
<1>2. /\ evidence'.ends[Choice(0)] = << reason >>
      /\ \A s \in Scopes \ { Choice(0) } : evidence'.ends[s] = evidence.ends[s]
  <2>1. evidence.ends[Choice(0)] = << >>
    BY DEF StopReasonPart, Stopped
  <2>2. Len(<< >>) = 0 /\ Append(<< >>, reason) = << reason >>
    BY Appended
  <2> QED
    BY <1>1, <1>k, <1>l, <2>1, <2>2 DEF Ends
<1>f. ~Fatal' /\ evidence'.ends[Message] = << >>
  <2>1. Len(<< reason >>) = 1
    OBVIOUS
  <2> QED
    BY <1>1, <1>2, <1>k, <2>1, LiveMeans DEF Live, Fatal
<1>3. /\ adapter'.ids = adapter.ids /\ adapter'.terminal = MapStopReason(reason)
      /\ adapter'.finished = adapter.finished /\ adapter'.terminated = adapter.terminated
      /\ emitted' = << >>
  BY <1>l DEF AnthropicFields, StopReasonPart
<1>4. FieldsAgree'
  <2>1. << reason >> # << >> /\ << reason >>[1] = reason
    OBVIOUS
  <2>2. Stopped' /\ ContentEnd' = MapStopReason(reason)
    BY <1>2, <2>1 DEF Stopped, ContentEnd
  <2>3. TrackerAgrees(adapter.ids, evidence.ids)'
    BY <1>1, <1>3, <1>l DEF FieldsAgree, TrackerAgrees
  <2>4. /\ evidence'.ends[Message] = evidence.ends[Message]
        /\ \A k \in Blocks : evidence'.ends[k] = evidence.ends[k]
    BY <1>2, <1>k
  <2> QED
    BY <1>3, <1>l, <2>2, <2>3, <2>4 DEF FieldsAgree
<1>5. SaidInOrder'
  <2>1. /\ evidence'.ends[Message] = evidence.ends[Message]
        /\ \A k \in Blocks : evidence'.ends[k] = evidence.ends[k]
    BY <1>2, <1>k
  <2>2. /\ SaidInOrder
        /\ evidence'.started = evidence.started /\ evidence'.ids = evidence.ids
        /\ evidence'.text = evidence.text /\ evidence'.spoiled = evidence.spoiled
    BY <1>1, <1>l
  <2> QED
    BY <2>1, <2>2 DEF SaidInOrder
<1>6. ASSUME ~isFinished'
      PROVE  /\ InOrder'
             /\ \A event \in Waiting' : event.type # "provider_stream_end" /\ ~Kills(event)
             /\ \A known, dirty, known2, dirty2 :
                  /\ known = evidence.started /\ dirty = Disqualified
                  /\ known2 = evidence'.started /\ dirty2 = Disqualified'
                  => \A j \in SourceKeys : News(j, known, dirty, known2, dirty2)
  <2>1. InOrder' /\ Waiting' = {}
    BY <1>3, NoneQueued
  <2>2. \A j, type : ~Pending(j, type)'
    BY <2>1 DEF Pending
  <2>3. ASSUME NEW known, NEW dirty, NEW known2, NEW dirty2,
               known = evidence.started, dirty = Disqualified,
               known2 = evidence'.started, dirty2 = Disqualified',
               NEW j \in SourceKeys
        PROVE  News(j, known, dirty, known2, dirty2)
    <3>1. \A k \in Blocks : evidence'.ends[k] = evidence.ends[k]
      BY <1>2, <1>k
    <3>2. known2 = known /\ dirty2 = dirty
      BY <1>1, <1>3, <2>3, <3>1 DEF Disqualified
    <3>3. /\ ~Pending(j, "tool_call_start")' /\ ~Pending(j, "tool_call_end")'
          /\ ~Pending(j, "tool_call_arguments_delta")'
      BY <2>2
    <3>4. CASE j \in known
      <4>1. evidence'.ends[j] = evidence.ends[j] /\ evidence'.text[j] = evidence.text[j]
        BY <1>1, <1>l, <2>3, <3>1, <3>4
      <4> QED
        BY <2>1, <3>2, <3>3, <3>4, <4>1 DEF News
    <3>5. CASE j \notin known
      BY <2>1, <3>2, <3>3, <3>5 DEF News
    <3> QED
      BY <3>4, <3>5
  <2> QED
    BY <2>1, <2>3
<1> QED
  BY <1>4, <1>5, <1>f, <1>6, NewsTold

\* Nothing is said: the coordinator hears nothing, or of something malformed.
LEMMA QuietTold ==
  ASSUME Live, QuietPart
  PROVE  Told
<1>l. /\ evidence \in EvidenceOf(Words) /\ FieldsAgree /\ SaidInOrder /\ ~Fatal
      /\ evidence.started \subseteq Blocks /\ phase' = phase
      /\ \A j \in SourceKeys \ evidence.started : evidence.text[j] = "empty"
  BY LiveMeans DEF Live
<1>1. SameBut(evidence, evidence', { "count" })
  BY <1>l, ShowsCounted DEF QuietPart
<1>e. evidence'.ends[Message] = << >>
  BY <1>1, FieldsSame, LiveMeans
<1>2. /\ FieldsAgree' /\ SaidInOrder' /\ ~Fatal' /\ Disqualified' = Disqualified
      /\ evidence'.started = evidence.started
      /\ \A k \in SourceKeys : SaidKept(k)
  BY <1>1, <1>l, NothingSaidKeeps DEF QuietPart
<1>3. ASSUME ~isFinished'
      PROVE  /\ InOrder'
             /\ \A event \in Waiting' : event.type # "provider_stream_end" /\ ~Kills(event)
             /\ \A event \in Waiting' : event = StreamDiagnosticEvent("E_PROVIDER_EVENT_MALFORMED")
  <2>1. CASE emitted' = << >>
    BY <2>1, NoneQueued
  <2>2. CASE emitted' = << StreamDiagnosticEvent("E_PROVIDER_EVENT_MALFORMED") >>
    <3>1. /\ StreamDiagnosticEvent("E_PROVIDER_EVENT_MALFORMED") \in AnthropicEvents
          /\ StreamDiagnosticEvent("E_PROVIDER_EVENT_MALFORMED").type = "provider_diagnostic"
      BY EachEventEmitted DEF AnthropicCodes, StreamDiagnosticEvent, DiagnosticEvent
    <3> QED
      BY <1>3, <2>2, <3>1, OneWaits
  <2> QED
    BY <2>1, <2>2 DEF QuietPart
<1>4. ASSUME NEW known, NEW dirty, NEW known2, NEW dirty2, ~isFinished',
             known = evidence.started, dirty = Disqualified,
             known2 = evidence'.started, dirty2 = Disqualified',
             NEW j \in SourceKeys
      PROVE  News(j, known, dirty, known2, dirty2)
  <2>1. \A event \in Waiting' : event.key # j
    <3>1. StreamDiagnosticEvent("E_PROVIDER_EVENT_MALFORMED").key = NoKey /\ NoKey # j
      BY AnthropicScopes DEF StreamDiagnosticEvent, DiagnosticEvent
    <3> QED
      BY <1>3, <1>4, <3>1
  <2> QED
    BY <1>2, <1>4, <1>l, <2>1, NoNews
<1> QED
  BY <1>2, <1>3, <1>4, <1>e, NewsTold

\* While the message goes on after what was said, the account goes on.
LEMMA EventTold ==
  ASSUME Live, AnthropicEvent
  PROVE  Told \/ FatalPart \/ MessageStopPart
<1>1. AnthropicTypeOK /\ FieldsAgree
  BY DEF Live
<1> QED
  BY <1>1, AnthropicEventIsPart, QuietTold, StartTold, TextTold, StopTold, StopReasonTold

\* message_stop ends the stream, for the reason that the stop_reason gave.
LEMMA MessageStopTold ==
  ASSUME Live, MessageStopPart
  PROVE  /\ FieldsAgree' /\ SaidInOrder' /\ ~Fatal'
         /\ evidence'.started = evidence.started /\ Disqualified' = Disqualified
         /\ \A k \in SourceKeys : SaidKept(k)
         /\ \E reason \in Reasons : /\ Said' = { reason }
                                    /\ emitted' = << StreamEndEvent(reason) >>
<1>k. /\ Message \in Scopes /\ Message # Choice(0) /\ Choice(0) \in Scopes /\ Message \notin SourceKeys
      /\ Blocks \subseteq SourceKeys /\ SourceKeys \subseteq Scopes /\ "stop" \in Words
  BY AnthropicScopes, KeyScopes DEF Words
<1>l. /\ evidence \in EvidenceOf(Words) /\ adapter \in AnthropicFields
      /\ evidence.ends \in Ends(Words) /\ evidence.ends[Message] = << >>
      /\ FieldsAgree /\ SaidInOrder /\ phase' = phase /\ ~Fatal
  BY LiveMeans DEF Live
<1>1. /\ evidence'.started = evidence.started /\ evidence'.ids = evidence.ids
      /\ evidence'.text = evidence.text /\ evidence'.spoiled = evidence.spoiled
      /\ evidence'.fault = evidence.fault
      /\ evidence'.ends = [ evidence.ends EXCEPT ![Message] =
                              IF Len(evidence.ends[Message]) < 2
                              THEN Append(evidence.ends[Message], "stop")
                              ELSE evidence.ends[Message] ]
  <2>0. \A s \in Scopes, said \in Words :
          /\ SawEnd(evidence, s, said) \in EvidenceOf(Words)
          /\ SameBut(evidence, SawEnd(evidence, s, said), { "ends" })
          /\ SawEnd(evidence, s, said).ends =
               [ evidence.ends EXCEPT ![s] = IF Len(evidence.ends[s]) < 2
                                             THEN Append(evidence.ends[s], said)
                                             ELSE evidence.ends[s] ]
    BY <1>l, SawEndMeans
  <2>1. /\ SawEnd(evidence, Message, "stop") \in EvidenceOf(Words)
        /\ SameBut(evidence, SawEnd(evidence, Message, "stop"), { "ends" })
        /\ SawEnd(evidence, Message, "stop").ends =
             [ evidence.ends EXCEPT ![Message] =
                 IF Len(evidence.ends[Message]) < 2
                 THEN Append(evidence.ends[Message], "stop") ELSE evidence.ends[Message] ]
    BY <1>k, <2>0
  <2>2. SameBut(SawEnd(evidence, Message, "stop"), evidence', { "count" })
    BY <2>1, ShowsCounted DEF MessageStopPart
  <2> QED
    BY <2>1, <2>2, FieldsSame
<1>2. /\ evidence'.ends[Message] = << "stop" >> /\ evidence'.ends[Message] # << >>
      /\ \A s \in Scopes \ { Message } : evidence'.ends[s] = evidence.ends[s]
  <2>1. /\ Len(<< >>) = 0 /\ Append(<< >>, "stop") = << "stop" >>
        /\ << "stop" >> # << >>
    BY Appended
  <2> QED
    BY <1>1, <1>k, <1>l, <2>1 DEF Ends
<1>3. /\ evidence'.ends[Choice(0)] = evidence.ends[Choice(0)]
      /\ \A k \in SourceKeys : evidence'.ends[k] = evidence.ends[k]
  BY <1>2, <1>k
<1>4. /\ adapter'.ids = adapter.ids /\ adapter'.terminal = adapter.terminal
      /\ adapter'.finished /\ adapter'.terminated = adapter.terminated
  BY <1>l DEF AnthropicFields, MessageStopPart
<1>5. Stopped' = Stopped /\ ContentEnd' = ContentEnd
  BY <1>3 DEF Stopped, ContentEnd
<1>6. FieldsAgree'
  <2>1. TrackerAgrees(adapter.ids, evidence.ids)'
    BY <1>1, <1>4, <1>l DEF FieldsAgree, TrackerAgrees
  <2> QED
    BY <1>2, <1>3, <1>4, <1>5, <1>k, <1>l, <2>1 DEF FieldsAgree
<1>7. SaidInOrder'
  BY <1>1, <1>2, <1>3, <1>k, <1>l DEF SaidInOrder
<1>8. ~Fatal'
  BY <1>1, <1>3, <1>l DEF Fatal
<1>9. Disqualified' = Disqualified
  BY <1>1, <1>3, <1>4, <1>k DEF Disqualified
<1>10. PICK reason : reason = IF Stopped THEN ContentEnd ELSE "unknown"
  OBVIOUS
<1>11. reason \in Reasons /\ emitted' = << StreamEndEvent(reason) >>
  <2>1. Stopped => ContentEnd \in Reasons
    BY SaidMeans DEF Live
  <2> QED
    BY <1>10, <2>1, GuardAssumption DEF MessageStopPart
<1>12. Said' = { reason }
  <2>1. \A r : EndSaid(r)' <=> r = reason
    BY <1>2, <1>5, <1>10 DEF EndSaid
  <2> QED
    BY <1>11, <2>1 DEF Said
<1> QED
  BY <1>1, <1>3, <1>6, <1>7, <1>8, <1>9, <1>11, <1>12 DEF SaidKept

\* A raw event keeps the account of what was said.
LEMMA EventKeepsAccount ==
  ASSUME AnthropicInv, AnthropicEvent, AnthropicTypeOK'
  PROVE  AnthropicInv'
<1>1. PICK fatal \in BOOLEAN, known \in SUBSET SourceKeys, dirty \in SUBSET SourceKeys,
           ends \in SUBSET Reasons :
        /\ fatal <=> Fatal
        /\ known = evidence.started /\ dirty = Disqualified /\ ends = Said
        /\ Accounted(fatal, known, dirty, ends)
  BY DEF AnthropicInv
<1>2. AnthropicTypeOK /\ (~Fatal => FieldsAgree /\ SaidInOrder)
  BY DEF AnthropicInv
<1>3. /\ Fatal => Fatal'
      /\ emitted = << >> /\ phase # "finishing" /\ UNCHANGED << vars, phase >>
  BY <1>2, EventMeans
<1>4. PICK fatal2 \in BOOLEAN, known2 \in SUBSET SourceKeys, dirty2 \in SUBSET SourceKeys,
           ends2 \in SUBSET Reasons :
        /\ fatal2 <=> Fatal'
        /\ known2 = evidence'.started /\ dirty2 = Disqualified' /\ ends2 = Said'
  <2>1. \E fatal2 \in BOOLEAN : fatal2 <=> Fatal'
    <3>1. Fatal' => (TRUE <=> Fatal')
      OBVIOUS
    <3>2. ~Fatal' => (FALSE <=> Fatal')
      OBVIOUS
    <3> QED
      BY <3>1, <3>2
  <2>2. evidence'.started \in SUBSET SourceKeys
    BY DEF AnthropicTypeOK, EvidenceOf
  <2>3. Disqualified' \in SUBSET SourceKeys
    BY AnthropicScopes DEF Disqualified
  <2>4. Said' \in SUBSET Reasons
    BY DEF Said
  <2> QED
    BY <2>1, <2>2, <2>3, <2>4
<1> DEFINE Goal ==
             /\ ~Fatal' => FieldsAgree' /\ SaidInOrder'
             /\ ~fatal2 /\ ends \ { "complete" } # {} => ends2 \ { "complete" } # {}
             /\ ~fatal /\ fatal2 /\ Heard(known, dirty, ends) =>
                  emitted' # << >> /\ (isFinished \/ Kills(Head(emitted')))
             /\ ~fatal2 /\ Heard(known, dirty, ends) => Heard(known2, dirty2, ends2)'
<1>5. ASSUME Fatal  PROVE Goal
  BY <1>1, <1>3, <1>4, <1>5
<1>6. ASSUME ~Fatal, ~Over(evidence)  PROVE Goal
  <2>1. Live
    BY <1>2, <1>3, <1>6 DEF Live
  <2>2. /\ evidence.ends[Message] = << >> /\ phase = "streaming" /\ phase' = "streaming"
        /\ UNCHANGED vars
    BY <2>1, LiveMeans
  <2>3. ends = {}
    BY <1>1, <1>2, <2>2, SaidMeans
  <2>4. CASE FatalPart
    BY <1>1, <1>4, <1>6, <2>3, <2>4 DEF FatalPart
  <2>5. CASE MessageStopPart
    <3>1. /\ FieldsAgree' /\ SaidInOrder' /\ ~Fatal'
          /\ evidence'.started = evidence.started /\ Disqualified' = Disqualified
          /\ \A k \in SourceKeys : SaidKept(k)
      BY <2>1, <2>5, MessageStopTold
    <3>2. PICK reason \in Reasons : /\ Said' = { reason }
                                    /\ emitted' = << StreamEndEvent(reason) >>
      BY <2>1, <2>5, MessageStopTold
    <3>3. known2 = known /\ dirty2 = dirty /\ ends2 = { reason } /\ ~fatal2
      BY <1>1, <1>4, <3>1, <3>2
    <3>4. Heard(known, dirty, {}) => Heard(known, dirty, { reason })'
      BY <1>3, <3>1, <3>2, EndHeard
    <3> QED
      BY <2>3, <3>1, <3>3, <3>4
  <2>6. CASE Told
    <3>1. /\ FieldsAgree' /\ SaidInOrder' /\ ~Fatal'
          /\ Heard(known, dirty, {}) => Heard(known2, dirty2, {})'
      BY <1>1, <1>4, <2>6 DEF Told
    <3>2. ends2 = {} /\ ~fatal2
      <4>1. evidence'.ends[Message] = << >>
        BY <2>6 DEF Told
      <4>2. Said' = {}
        BY <2>2, <4>1 DEF Said, EndSaid
      <4> QED
        BY <1>4, <3>1, <4>2
    <3> QED
      BY <2>3, <3>1, <3>2
  <2> QED
    BY <2>1, <2>4, <2>5, <2>6, EventTold
<1>7. ASSUME ~Fatal, Over(evidence)  PROVE Goal
  <2>1. QuietPart \/ FatalPart
    BY <1>2, <1>7, AnthropicEventIsPart
         DEF StartPart, TextPart, StopPart, StopReasonPart, MessageStopPart
  <2>2. ends # {}
    <3>1. evidence.ends[Message] # << >> \/ phase # "streaming"
      BY <1>7 DEF Over
    <3> QED
      BY <1>1, <1>2, <3>1, SaidMeans
  <2>3. CASE FatalPart
    <3>1. Fatal' /\ emitted' # << >>
      BY <2>3 DEF FatalPart
    <3>2. Heard(known, dirty, ends) => isFinished
      BY <1>3, <2>2, HeardNow
    <3> QED
      BY <1>4, <3>1, <3>2
  <2>4. CASE QuietPart
    <3>1. SameBut(evidence, evidence', { "count" }) /\ adapter' = adapter
      BY <1>2, <2>4, ShowsCounted DEF QuietPart, AnthropicTypeOK
    <3>2. /\ Fatal' <=> Fatal
          /\ FieldsAgree' /\ SaidInOrder'
          /\ Disqualified' = Disqualified /\ Said' = Said
          /\ evidence'.started = evidence.started
          /\ \A k \in SourceKeys : SaidKept(k)
      BY <1>2, <1>3, <1>7, <3>1, NothingSaidKeeps
    <3>3. emitted' = emitted
      BY <1>3, <1>7, <2>4 DEF QuietPart
    <3>4. known2 = known /\ dirty2 = dirty /\ ends2 = ends /\ ~fatal2
      BY <1>1, <1>4, <1>7, <3>2
    <3>5. UNCHANGED << coordinatorVars, emitted >>
      BY <1>3, <3>3 DEF vars
    <3>6. Heard(known, dirty, ends) => Heard(known, dirty, ends)'
      BY <3>2, <3>5, HeardKept
    <3> QED
      BY <3>2, <3>4, <3>6
  <2> QED
    BY <2>1, <2>3, <2>4
<1>8. Goal
  BY <1>5, <1>6, <1>7
<1>9. Accounted(fatal2, known2, dirty2, ends2)'
  BY <1>1, <1>3, <1>4, <1>8, EventAccounts
<1> QED
  BY <1>4, <1>8, <1>9 DEF AnthropicInv

\* finish({reason}) of the adapter ends a message that has not ended, but never well.
LEMMA FinishKeepsAccount ==
  ASSUME AnthropicInv, AnthropicGuardFinish, AnthropicTypeOK'
  PROVE  AnthropicInv'
<1>1. PICK fatal \in BOOLEAN, known \in SUBSET SourceKeys, dirty \in SUBSET SourceKeys,
           ends \in SUBSET Reasons :
        /\ fatal <=> Fatal
        /\ known = evidence.started /\ dirty = Disqualified /\ ends = Said
        /\ Accounted(fatal, known, dirty, ends)
  BY DEF AnthropicInv
<1>2. AnthropicTypeOK /\ (~Fatal => FieldsAgree /\ SaidInOrder)
  BY DEF AnthropicInv
<1>3. /\ emitted = << >> /\ phase = "streaming" /\ phase' = "finishing" /\ UNCHANGED vars
      /\ adapter' = [ adapter EXCEPT !.finished = TRUE ]
      /\ SameBut(evidence, evidence', { "caller" })
  BY <1>2, AnthropicFinishMeans
<1>4. /\ evidence'.started = evidence.started /\ evidence'.text = evidence.text
      /\ evidence'.ids = evidence.ids /\ evidence'.ends = evidence.ends
      /\ evidence'.spoiled = evidence.spoiled /\ evidence'.fault = evidence.fault
  BY <1>3, FieldsSame
<1>5. /\ adapter'.ids = adapter.ids /\ adapter'.terminal = adapter.terminal
      /\ adapter'.finished /\ adapter'.terminated = adapter.terminated
  BY <1>2, <1>3 DEF AnthropicTypeOK, AnthropicFields
<1>6. /\ Fatal' <=> Fatal
      /\ Stopped' = Stopped /\ ContentEnd' = ContentEnd /\ Disqualified' = Disqualified
      /\ \A k \in SourceKeys : SaidKept(k)
  BY <1>4, <1>5 DEF Fatal, Stopped, ContentEnd, Disqualified, SaidKept
<1>7. FieldsAgree => FieldsAgree'
  <2>1. phase' # "streaming"
    BY <1>3
  <2>2. FieldsAgree => TrackerAgrees(adapter.ids, evidence.ids)'
    BY <1>4, <1>5 DEF FieldsAgree, TrackerAgrees
  <2> QED
    BY <1>4, <1>5, <1>6, <2>1, <2>2 DEF FieldsAgree
<1>8. SaidInOrder => SaidInOrder'
  BY <1>4 DEF SaidInOrder
<1>9. PICK ends2 : ends2 = Said'
  OBVIOUS
<1>10. ends2 \in SUBSET Reasons
  BY <1>9 DEF Said
<1>11. ASSUME ~Fatal
       PROVE  /\ ends \ { "complete" } # {} => ends2 \ { "complete" } # {}
              /\ Heard(known, dirty, ends) => Heard(known, dirty, ends2)'
  <2>1. CASE evidence.ends[Message] # << >>
    <3>1. ends2 = ends
      <4>1. \A reason : EndSaid(reason)' <=> EndSaid(reason)
        BY <1>4, <1>6, <2>1 DEF EndSaid
      <4> QED
        BY <1>1, <1>9, <4>1 DEF Said
    <3>2. adapter.finished
      BY <1>2, <1>11, <2>1 DEF FieldsAgree
    <3>3. emitted' = emitted
      BY <1>2, <1>3, <3>2, AnthropicFinishMeans
    <3>4. UNCHANGED << coordinatorVars, emitted >>
      BY <1>3, <3>3 DEF vars
    <3> QED
      BY <1>6, <3>1, <3>4, HeardKept
  <2>2. CASE evidence.ends[Message] = << >>
    <3>1. ends = {}
      BY <1>1, <1>2, <1>3, <2>2, SaidMeans
    <3>2. ~adapter.finished /\ adapter.terminal = IF Stopped THEN ContentEnd ELSE "none"
      BY <1>2, <1>3, <1>11, <2>2 DEF FieldsAgree
    <3>3. Stopped => ContentEnd # "none"
      <4>1. Stopped => ContentEnd \in Reasons
        BY <1>2, SaidMeans
      <4> QED
        BY <4>1, ReasonsAssumption
    <3>4. PICK observed : observed = IF evidence'.caller # Absent THEN evidence'.caller
                                     ELSE IF adapter.terminal # "none" THEN adapter.terminal
                                     ELSE "unknown"
      OBVIOUS
    <3>5. PICK told : told = IF observed = "complete" THEN "unknown" ELSE observed
      OBVIOUS
    <3>6. told \in Reasons /\ emitted' = << StreamEndEvent(told) >>
      BY <1>2, <3>2, <3>4, <3>5, AnthropicFinishMeans, GuardAssumption
    <3>o. observed = CallerSays'
      BY <1>6, <3>2, <3>3, <3>4 DEF CallerSays
    <3>7. ends2 = { told }
      <4>1. evidence'.ends[Message] = << >> /\ phase' # "streaming"
        BY <1>3, <1>4, <2>2
      <4>2. \A reason : EndSaid(reason)' <=> reason = told
        BY <3>5, <3>o, <4>1 DEF EndSaid
      <4> QED
        BY <1>9, <3>6, <4>2 DEF Said
    <3>8. Heard(known, dirty, {}) => Heard(known, dirty, { told })'
      BY <1>3, <1>6, <3>6, EndHeard
    <3> QED
      BY <3>1, <3>7, <3>8
  <2> QED
    BY <2>1, <2>2
<1>12. Accounted(fatal, known, dirty, ends2)'
  BY <1>1, <1>3, <1>11, EventAccounts
<1> QED
  BY <1>1, <1>2, <1>4, <1>6, <1>7, <1>8, <1>9, <1>10, <1>12 DEF AnthropicInv

\* The gate's own steps, while nothing is said, keep it too.
LEMMA GuardKeepsAccount ==
  ASSUME AnthropicInv, GuardNext \/ UNCHANGED guardVars, TypeOK, AnthropicTypeOK'
  PROVE  AnthropicInv'
<1>1. PICK fatal \in BOOLEAN, known \in SUBSET SourceKeys, dirty \in SUBSET SourceKeys,
           ends \in SUBSET Reasons :
        /\ fatal <=> Fatal
        /\ known = evidence.started /\ dirty = Disqualified /\ ends = Said
        /\ Accounted(fatal, known, dirty, ends)
  BY DEF AnthropicInv
<1>2. AnthropicTypeOK /\ EmittedOK /\ (~Fatal => FieldsAgree /\ SaidInOrder)
  BY DEF AnthropicInv, AnthropicTypeOK
<1>3. UNCHANGED << adapter, evidence >>
  BY DEF GuardNext, Deliver, FinishGate, guardVars
<1>4. phase' # "streaming" <=> phase # "streaming"
  BY DEF GuardNext, Deliver, FinishGate, guardVars
<1>5. SameBut(evidence, evidence', { "count" })
  BY <1>3 DEF SameBut
<1>6. /\ Fatal' <=> Fatal
      /\ FieldsAgree => FieldsAgree'
      /\ SaidInOrder => SaidInOrder'
      /\ Disqualified' = Disqualified /\ Said' = Said
      /\ evidence'.started = evidence.started
  BY <1>3, <1>4, <1>5, NothingSaidKeeps
<1>7. Accounted(fatal, known, dirty, ends)'
  <2>1. CASE Deliver
    BY <1>1, <1>2, <2>1, DeliverAccounts
  <2>2. CASE FinishGate
    <3>1. phase # "streaming"
      BY <2>2 DEF FinishGate
    <3>2. ends # {}
      BY <1>1, <1>2, <3>1, SaidMeans
    <3> QED
      BY <1>1, <2>2, <3>2, FinishGateAccounts
  <2>3. CASE UNCHANGED guardVars
    BY <1>1, <2>3, StutteringAccounts DEF guardVars
  <2> QED
    BY <2>1, <2>2, <2>3 DEF GuardNext
<1> QED
  BY <1>1, <1>2, <1>6, <1>7 DEF AnthropicInv

\* At first nothing was said and nothing is held.
LEMMA AnthropicInvInitially ==
  ASSUME GuardInit, adapter = NewAnthropic
  PROVE  AnthropicInv
<1>1. AnthropicTypeOK /\ Init
  BY AnthropicInitially
<1>2. /\ emitted = << >> /\ phase = "streaming" /\ evidence = NoEvidence
      /\ adapter.terminal = "none" /\ adapter.finished = FALSE
      /\ adapter.ids = NoTracker /\ adapter.terminated = {}
  BY DEF GuardInit, NewAnthropic
<1>3. /\ evidence.started = {} /\ evidence.spoiled = {} /\ evidence.fault = FALSE
      /\ \A k \in SourceKeys : evidence.text[k] = "empty" /\ evidence.ids[k] = {}
      /\ \A s \in Scopes : evidence.ends[s] = << >>
  BY <1>2, NothingSaid
<1>4. /\ evidence.ends[Message] = << >> /\ evidence.ends[Choice(0)] = << >>
      /\ Len(evidence.ends[Choice(0)]) = 0
      /\ \A k \in Blocks : evidence.ends[k] = << >> /\ Len(evidence.ends[k]) = 0
  <2>1. Len(<< >>) = 0
    OBVIOUS
  <2> QED
    BY <1>3, <2>1, AnthropicScopes
<1>5. /\ NoTracker.conflicted = {} /\ \A id \in ToolCallIds : NoTracker.owners[id] = NoKey
  BY DEF NoTracker
<1>6. ~Fatal /\ Disqualified = {} /\ Said = {}
  <2>1. Disqualified = {}
    BY <1>2, <1>3, <1>4, <1>5 DEF Disqualified
  <2>2. Said = {}
    BY <1>1, <1>2, <1>4, SaidMeans
  <2> QED
    BY <1>3, <1>4, <2>1, <2>2 DEF Fatal
<1>7. FieldsAgree
  <2>1. TrackerAgrees(adapter.ids, evidence.ids)
    BY <1>2, <1>3, <1>5, AnthropicScopes DEF TrackerAgrees
  <2> QED
    BY <1>2, <1>4, <2>1 DEF FieldsAgree, Stopped
<1>8. SaidInOrder
  <2>1. \A k \in Blocks : evidence.ids[k] = {}
    BY <1>3, AnthropicScopes
  <2> QED
    BY <1>3, <1>4, <2>1 DEF SaidInOrder
<1>9. /\ ~isFinished /\ streamDiagnostics = {}
      /\ \A k \in SourceKeys :
           /\ calls[k] = NoCall /\ callDiagnostics[k] = {}
           /\ pendingProtocolDiagnostics[k] = {}
  BY <1>1 DEF Init, CoordinatorInit
<1>10. NoCall.status = "absent" /\ NoCall.parser = "empty" /\ NoCall.ended = FALSE
       /\ NoCall.toolCallId = Absent
  BY DEF NoCall, NewCall
<1>11. ~Dead
  BY <1>9 DEF Dead
<1>12. \A k \in SourceKeys : ~Known(k) /\ ~Dirty(k) /\ Tidy(k)
  BY <1>9, <1>10 DEF Known, Dirty, Tidy
<1>13. Waiting = {}
  BY <1>2 DEF Waiting
<1>14. \A k \in SourceKeys : Agrees(k, {}, {})
  BY <1>12, <1>13 DEF Agrees, KnownSoon, DirtySoon, Pending
<1>15. Heard({}, {}, {})
  BY <1>2, <1>9, <1>12, <1>13, <1>14 DEF Heard, InOrder, GoesOn
<1>16. Accounted(FALSE, {}, {}, {})
  BY <1>11, <1>15 DEF Accounted
<1> QED
  BY <1>1, <1>3, <1>6, <1>7, <1>8, <1>16 DEF AnthropicInv

\* The invariant holds of the guard.
THEOREM AnthropicInvariant == AnthropicSpec => [](AnthropicInv /\ GateInv /\ HistoryInv)
<1>1. GuardInit /\ adapter = NewAnthropic => AnthropicInv
  BY AnthropicInvInitially
<1>2. ASSUME AnthropicInv, GateInv, [GuardNext \/ AnthropicNext]_guardVars
      PROVE  AnthropicInv'
  <2>1. TypeOK
    BY <1>2 DEF GateInv, CoordinatorInv
  <2>2. AnthropicTypeOK'
    BY <1>2, AnthropicStepImplements DEF AnthropicInv
  <2> QED
    BY <1>2, <2>1, <2>2, EventKeepsAccount, FinishKeepsAccount, GuardKeepsAccount
       DEF AnthropicNext
<1> QED
  BY <1>1, <1>2, AnthropicImplementsGate, GateInvariant, HistoryInvariant, PTL
     DEF AnthropicSpec

------------------------------------------------------------------------------
(* What may run.                                                            *)

\* A message of which nothing fatal was said ends well exactly if one successful
\* stop_reason came before its message_stop.
LEMMA EndsWellMeans ==
  ASSUME AnthropicTypeOK, SaidInOrder
  PROVE  /\ Len(evidence.ends[Choice(0)]) <= 1 =>
              ("complete" \in Said <=>
                 /\ evidence.ends[Choice(0)] \in { << "end_turn" >>, << "tool_use" >> }
                 /\ evidence.ends[Message] = << "stop" >>)
         /\ "complete" \in Said => Said = { "complete" }
<1>1. evidence.ends[Choice(0)] \in Seq(Words)
  BY AnthropicScopes DEF AnthropicTypeOK, EvidenceOf, Ends
<1>2. evidence.ends[Message] \in { << >>, << "stop" >> } /\ << "stop" >> # << >>
  BY DEF SaidInOrder
<1> DEFINE reason == evidence.ends[Choice(0)][1]
<1>3. \A s \in Seq(Words) : s # << >> => s[1] \in Words
  OBVIOUS
<1>4. ASSUME NEW s \in Seq(Words), Len(s) <= 1, s # << >>
      PROVE  s = << s[1] >>
  <2>1. Len(s) = 1 /\ s[1] \in Words
    BY <1>4
  <2>2. << s[1] >> \in Seq(Words) /\ Len(<< s[1] >>) = 1 /\ << s[1] >>[1] = s[1]
    BY <2>1
  <2> QED
    BY <1>4, <2>1, <2>2
<1>5. Stopped => /\ reason \in Words
                 /\ ContentEnd = "complete" <=> reason \in { "end_turn", "tool_use" }
  BY <1>1, <1>3, StopReasonsMapped DEF Stopped, ContentEnd
<1>6. "complete" \in Said <=> evidence.ends[Message] # << >> /\ Stopped /\ ContentEnd = "complete"
  BY SaidMeans, StopReasonsMapped
<1>7. "complete" \in Said => Said = { "complete" }
  BY <1>6, SaidMeans
<1>8. Len(evidence.ends[Choice(0)]) <= 1 =>
        (Stopped /\ reason \in { "end_turn", "tool_use" } <=>
           evidence.ends[Choice(0)] \in { << "end_turn" >>, << "tool_use" >> })
  <2>1. /\ << "end_turn" >>[1] = "end_turn" /\ << "tool_use" >>[1] = "tool_use"
        /\ << "end_turn" >> # << >> /\ << "tool_use" >> # << >>
    OBVIOUS
  <2>2. ASSUME evidence.ends[Choice(0)] \in { << "end_turn" >>, << "tool_use" >> }
        PROVE  Stopped /\ reason \in { "end_turn", "tool_use" }
    BY <2>1, <2>2 DEF Stopped
  <2>3. ASSUME Len(evidence.ends[Choice(0)]) <= 1, Stopped,
               reason \in { "end_turn", "tool_use" }
        PROVE  evidence.ends[Choice(0)] \in { << "end_turn" >>, << "tool_use" >> }
    <3>1. evidence.ends[Choice(0)] = << reason >>
      BY <1>1, <1>4, <2>3 DEF Stopped
    <3> QED
      BY <2>3, <3>1
  <2> QED
    BY <2>2, <2>3
<1> QED
  BY <1>2, <1>5, <1>6, <1>7, <1>8

\* A block has an id of its own exactly if it was given one at most and the tracker
\* knows of no other that was given it.
LEMMA OwnIdMeans ==
  ASSUME AnthropicTypeOK, FieldsAgree, SaidInOrder, NEW k \in Blocks, k \notin evidence.spoiled
  PROVE  OwnId(k, Blocks) <=> k \notin adapter.ids.conflicted
<1>1. evidence.ids \in Ids /\ k \in SourceKeys /\ Blocks \subseteq SourceKeys
  BY AnthropicScopes DEF AnthropicTypeOK, EvidenceOf
<1>2. /\ TrackerAgrees(adapter.ids, evidence.ids)
      /\ \A id, other \in evidence.ids[k] : id = other
  BY DEF FieldsAgree, SaidInOrder
<1>3. Cardinality(evidence.ids[k]) <= 1
  <2>1. CASE evidence.ids[k] = {}
    BY <2>1, FS_EmptySet
  <2>2. CASE evidence.ids[k] # {}
    <3>1. PICK id : evidence.ids[k] = { id }
      BY <1>2, <2>2
    <3>2. Cardinality({ id }) = 1
      BY FS_Singleton
    <3> QED
      BY <3>1, <3>2
  <2> QED
    BY <2>1, <2>2
<1>4. ASSUME k \in adapter.ids.conflicted  PROVE ~OwnId(k, Blocks)
  BY <1>2, <1>4 DEF TrackerAgrees, OwnId
<1>5. ASSUME k \notin adapter.ids.conflicted  PROVE OwnId(k, Blocks)
  <2>1. ASSUME NEW j \in Blocks \ { k }, NEW id, id \in evidence.ids[j], id \in evidence.ids[k]
        PROVE  FALSE
    <3>1. id \in ToolCallIds
      BY <1>1, <2>1 DEF Ids
    <3>2. /\ adapter.ids.owners[id] # NoKey
          /\ \A i \in Blocks : id \in evidence.ids[i] /\ i # adapter.ids.owners[id] =>
               { i, adapter.ids.owners[id] } \subseteq adapter.ids.conflicted
      BY <1>2, <2>1, <3>1 DEF TrackerAgrees
    <3> QED
      BY <1>5, <2>1, <3>2
  <2> QED
    BY <1>3, <2>1 DEF OwnId
<1> QED
  BY <1>4, <1>5

\* A clean block is one of which nothing bad was said, in a message that ends well.
LEMMA CleanMeans ==
  ASSUME AnthropicTypeOK, ~Fatal => FieldsAgree /\ SaidInOrder, NEW k \in SourceKeys
  PROVE  AnthropicClean(k) <=>
           /\ ~Fatal /\ "complete" \in Said
           /\ k \in evidence.started /\ k \notin Disqualified
           /\ evidence.text[k] = "closed" /\ evidence.ends[k] # << >>
<1>1. /\ Len(<< "stop" >>) = 1 /\ Len(<< "stop", "stop" >>) = 2 /\ << "stop" >> # << >>
      /\ Len(<< "end_turn" >>) = 1 /\ Len(<< "tool_use" >>) = 1
  OBVIOUS
<1>2. evidence.ends[Choice(0)] \in Seq(Words) /\ Len(evidence.ends[Choice(0)]) \in Nat
  BY AnthropicScopes DEF AnthropicTypeOK, EvidenceOf, Ends
<1>3. ASSUME AnthropicClean(k)
      PROVE  /\ ~Fatal /\ "complete" \in Said
             /\ k \in evidence.started /\ k \notin Disqualified
             /\ evidence.text[k] = "closed" /\ evidence.ends[k] # << >>
  <2>0. Len(evidence.ends[Choice(0)]) = 1 /\ Len(evidence.ends[k]) = 1
    BY <1>1, <1>3 DEF AnthropicClean
  <2>1. ~Fatal
    BY <1>3, <2>0 DEF AnthropicClean, Fatal
  <2>2. k \in Blocks /\ k \notin evidence.spoiled
    BY <1>3, <2>1 DEF AnthropicClean, SaidInOrder
  <2>3. k \notin adapter.ids.conflicted
    BY <1>3, <2>1, <2>2, OwnIdMeans DEF AnthropicClean
  <2>4. "complete" \in Said
    BY <1>3, <2>0, <2>1, EndsWellMeans DEF AnthropicClean
  <2>5. k \notin Disqualified
    <3>1. ~(Len(evidence.ends[k]) > 1)
      BY <2>0
    <3> QED
      BY <2>2, <2>3, <3>1 DEF Disqualified
  <2>6. evidence.text[k] = "closed" /\ k \in evidence.started /\ evidence.ends[k] # << >>
    BY <1>1, <1>3 DEF AnthropicClean
  <2> QED
    BY <2>1, <2>4, <2>5, <2>6
<1>4. ASSUME ~Fatal, "complete" \in Said,
             k \in evidence.started, k \notin Disqualified,
             evidence.text[k] = "closed", evidence.ends[k] # << >>
      PROVE  AnthropicClean(k)
  <2>1. k \in Blocks
    BY <1>4 DEF SaidInOrder
  <2>2. /\ k \notin evidence.spoiled /\ ~(Len(evidence.ends[k]) > 1)
        /\ k \notin adapter.ids.conflicted
    BY <1>4, <2>1 DEF Disqualified
  <2>3. evidence.ends[k] = << "stop" >>
    BY <1>1, <1>4, <2>1, <2>2 DEF SaidInOrder
  <2>4. OwnId(k, Blocks)
    BY <1>4, <2>1, <2>2, OwnIdMeans
  <2>5. ~evidence.fault /\ Message \notin evidence.spoiled
        /\ Len(evidence.ends[Choice(0)]) <= 1
    BY <1>2, <1>4 DEF Fatal
  <2>6. /\ evidence.ends[Choice(0)] \in { << "end_turn" >>, << "tool_use" >> }
        /\ evidence.ends[Message] = << "stop" >>
    BY <1>4, <2>5, EndsWellMeans
  <2> QED
    BY <1>4, <2>2, <2>3, <2>4, <2>5, <2>6 DEF AnthropicClean
<1> QED
  BY <1>3, <1>4

\* Between two calls of the guard, what may run is clean and within the limits.
LEMMA ExecutableBlockIsClean ==
  ASSUME AnthropicInv, GateInv, emitted = << >>, NEW k \in SourceKeys, Executable(k)
  PROVE  AnthropicClean(k) /\ WithinLimits(k)
<1>1. PICK fatal \in BOOLEAN, known \in SUBSET SourceKeys, dirty \in SUBSET SourceKeys,
           ends \in SUBSET Reasons :
        /\ fatal <=> Fatal
        /\ known = evidence.started /\ dirty = Disqualified /\ ends = Said
        /\ Accounted(fatal, known, dirty, ends)
  BY DEF AnthropicInv
<1>2. AnthropicTypeOK /\ evidence.text \in Texts /\ (~Fatal => FieldsAgree /\ SaidInOrder)
  BY DEF AnthropicInv, AnthropicTypeOK, EvidenceOf
<1>3. /\ ~fatal /\ "complete" \in ends /\ k \in known \ dirty
      /\ evidence.text[k] = "closed" /\ evidence.ends[k] # << >>
      /\ WithinLimits(k)
  BY <1>1, <1>2, AccountedRuns
<1> QED
  BY <1>1, <1>2, <1>3, CleanMeans

\* When the guard has finished, a clean block within the limits may run.
LEMMA CleanBlockIsExecutable ==
  ASSUME AnthropicInv, GateInv, HistoryInv, emitted = << >>, gateFinished,
         NEW k \in SourceKeys, AnthropicClean(k), WithinLimits(k)
  PROVE  Executable(k)
<1>1. PICK fatal \in BOOLEAN, known \in SUBSET SourceKeys, dirty \in SUBSET SourceKeys,
           ends \in SUBSET Reasons :
        /\ fatal <=> Fatal
        /\ known = evidence.started /\ dirty = Disqualified /\ ends = Said
        /\ Accounted(fatal, known, dirty, ends)
  BY DEF AnthropicInv
<1>2. AnthropicTypeOK /\ (~Fatal => FieldsAgree /\ SaidInOrder)
  BY DEF AnthropicInv
<1>3. /\ ~Fatal /\ "complete" \in Said
      /\ k \in evidence.started /\ k \notin Disqualified
      /\ evidence.text[k] = "closed" /\ evidence.ends[k] # << >>
  BY <1>2, CleanMeans
<1>4. fatal = FALSE /\ k \in known \ dirty /\ ends \subseteq { "complete" }
  BY <1>1, <1>2, <1>3, EndsWellMeans
<1>5. Accounted(FALSE, known, dirty, ends)
  BY <1>1, <1>4
<1> QED
  BY <1>3, <1>4, <1>5, AccountedMayRun

\* At any time at which no call of the guard is under way, what may run is clean: also
\* before finish(), and after what came too late.
RunsOnlyClean ==
  emitted = << >> => \A k \in SourceKeys : Executable(k) => AnthropicClean(k)

\* When the guard has finished, exactly the clean blocks may run, but for those that the
\* limits of the coordinator refused, and for all of them if the limit of events was met.
RunsExactlyClean ==
  Settled => \A k \in SourceKeys : Executable(k) <=> AnthropicClean(k) /\ WithinLimits(k)

\* Once the guard has no event left to push, a block that may run is clean: nothing that
\* was said against it, against the content or against the message was lost on the way
\* to the gate, and the caller's word did not stand for message_stop.
THEOREM AnthropicRunsOnlyClean == AnthropicSpec => []RunsOnlyClean
<1>1. AnthropicInv /\ GateInv => RunsOnlyClean
  BY ExecutableBlockIsClean DEF RunsOnlyClean
<1> QED
  BY <1>1, AnthropicInvariant, PTL

\* finish() of the guard finishes its gate before it returns.
THEOREM AnthropicPhaseFinishes == AnthropicSpec => [](AnthropicTypeOK /\ PhaseFinishes)
<1>1. GuardInit /\ adapter = NewAnthropic => AnthropicTypeOK /\ PhaseFinishes
  <2>1. GuardInit => PhaseFinishes
    BY DEF GuardInit, PhaseFinishes
  <2> QED
    BY <2>1, AnthropicInitially
<1>2. ASSUME AnthropicTypeOK, PhaseFinishes, [GuardNext \/ AnthropicNext]_guardVars
      PROVE  AnthropicTypeOK' /\ PhaseFinishes'
  <2>1. AnthropicTypeOK'
    BY <1>2, AnthropicStepImplements
  <2>2. CASE AnthropicEvent
    <3>1. UNCHANGED << vars, phase >>
      BY <1>2, <2>2, EventMeans
    <3> QED
      BY <1>2, <2>1, <3>1, GuardPhaseFinishes
  <2>3. CASE AnthropicGuardFinish
    <3>1. phase' = "finishing"
      BY <1>2, <2>3, AnthropicFinishMeans
    <3> QED
      BY <2>1, <3>1 DEF PhaseFinishes
  <2>4. CASE GuardNext \/ UNCHANGED guardVars
    BY <1>2, <2>1, <2>4, GuardPhaseFinishes DEF guardVars
  <2> QED
    BY <1>2, <2>2, <2>3, <2>4 DEF AnthropicNext
<1> QED
  BY <1>1, <1>2, PTL DEF AnthropicSpec

\* finish() lets a block run exactly if it is clean and within the coordinator's limits.
THEOREM AnthropicRunsExactlyClean == AnthropicSpec => []RunsExactlyClean
<1>1. AnthropicInv /\ GateInv /\ HistoryInv /\ PhaseFinishes => RunsExactlyClean
  BY ExecutableBlockIsClean, CleanBlockIsExecutable
     DEF RunsExactlyClean, PhaseFinishes, Settled
<1> QED
  BY <1>1, AnthropicInvariant, AnthropicPhaseFinishes, PTL

------------------------------------------------------------------------------
(* Where there is room, no limit is met.                                    *)

\* The limits of the coordinator leave room for the blocks and the events of the
\* message: each raw event becomes four normalized ones at most, and finish() one.
AnthropicRoom ==
  /\ MaxRawEvents["anthropic"] \in Nat
  /\ MaxToolCalls >= Cardinality(Blocks)
  /\ MaxNormalizedEvents >= 4 * MaxRawEvents["anthropic"] + 1

FinishEvents == IF phase = "streaming" THEN 0 ELSE 1

RoomInv ==
  /\ evidence.count <= MaxRawEvents["anthropic"]
  /\ Events <= 4 * evidence.count + FinishEvents
  /\ HasRoom(Blocks)

\* What this adapter leaves for the gate starts only blocks, and reports no limit.
LEMMA AnthropicWaiting ==
  ASSUME emitted' \in Seq(AnthropicEvents)
  PROVE  /\ EmittedOK'
         /\ \A event \in Waiting' :
              /\ event.type = "tool_call_start" => event.key \in Blocks
              /\ event.type = "provider_diagnostic" =>
                   event.code # "E_COORDINATOR_LIMIT_EVENTS"
<1>1. EmittedOK'
  BY AnthropicEmits
<1>2. \A s \in Seq(AnthropicEvents) : \A i \in 1 .. Len(s) : s[i] \in AnthropicEvents
  OBVIOUS
<1>3. Waiting' \subseteq AnthropicEvents
  BY <1>2 DEF Waiting
<1> QED
  BY <1>1, <1>3, AnthropicCodesNamed DEF AnthropicEvents

\* No step of the guard uses up the room.
LEMMA AnthropicRoomKept ==
  ASSUME AnthropicRoom, AnthropicTypeOK, TypeOK, RoomInv,
         GuardNext \/ AnthropicNext \/ UNCHANGED guardVars
  PROVE  RoomInv'
<1>0. /\ evidence.count \in Nat /\ MaxRawEvents["anthropic"] \in Nat /\ EmittedOK
      /\ FinishEvents \in 0 .. 1 /\ Events <= 4 * evidence.count + FinishEvents
      /\ HasRoom(Blocks) /\ evidence.count <= MaxRawEvents["anthropic"]
      /\ eventsProcessed \in Nat /\ MaxNormalizedEvents \in Nat
  BY CoordinatorAssumption
     DEF AnthropicTypeOK, EvidenceOf, AnthropicRoom, FinishEvents, RoomInv, TypeOK
<1>1. CASE Deliver
  <2>1. evidence' = evidence /\ phase' = phase
    BY <1>1 DEF Deliver
  <2>2. Events <= MaxNormalizedEvents
    <3>1. \A e, c, f, m, n \in Nat :
            e <= 4 * c + f /\ f <= 1 /\ c <= m /\ n >= 4 * m + 1 => e <= n
      OBVIOUS
    <3>2. Events \in Nat /\ FinishEvents \in Nat /\ FinishEvents <= 1
      <4>1. Len(emitted) \in Nat
        BY <1>0 DEF EmittedOK
      <4> QED
        BY <1>0, <4>1 DEF Events
    <3> QED
      BY <1>0, <3>1, <3>2 DEF AnthropicRoom
  <2>3. HasRoom(Blocks)' /\ Events' \in Nat /\ Events' <= Events
    BY <1>0, <1>1, <2>2, DeliverHasRoom
  <2>4. FinishEvents' = FinishEvents /\ evidence'.count = evidence.count
    BY <2>1 DEF FinishEvents
  <2>5. Events' <= 4 * evidence'.count + FinishEvents'
    <3>1. Events \in Int
      <4>1. Len(emitted) \in Nat
        BY <1>0 DEF EmittedOK
      <4> QED
        BY <1>0, <4>1 DEF Events
    <3> QED
      BY <1>0, <2>3, <2>4, <3>1
  <2> QED
    BY <1>0, <2>3, <2>4, <2>5 DEF RoomInv
<1>2. CASE FinishGate
  <2>1. evidence' = evidence /\ phase = "finishing" /\ phase' = "finished"
    BY <1>2 DEF FinishGate
  <2>2. HasRoom(Blocks)' /\ Events' = Events
    BY <1>0, <1>2, FinishGateHasRoom
  <2>3. FinishEvents' = FinishEvents
    BY <2>1 DEF FinishEvents
  <2> QED
    BY <1>0, <2>1, <2>2, <2>3 DEF RoomInv
<1>3. CASE AnthropicEvent
  <2>1. /\ emitted' \in Seq(AnthropicEvents) /\ Len(emitted') <= 4
        /\ evidence'.count = evidence.count + 1 /\ emitted = << >>
        /\ UNCHANGED << vars, phase >> /\ evidence.count < MaxRawEvents["anthropic"]
    BY <1>3, EventMeans
  <2>2. /\ EmittedOK'
        /\ \A event \in Waiting' :
             /\ event.type = "tool_call_start" => event.key \in Blocks
             /\ event.type = "provider_diagnostic" =>
                  event.code # "E_COORDINATOR_LIMIT_EVENTS"
    BY <2>1, AnthropicWaiting
  <2>3. HasRoom(Blocks)' /\ Events' = eventsProcessed + Len(emitted')
    BY <1>0, <2>1, <2>2, EventHasRoom
  <2>4. Events = eventsProcessed /\ FinishEvents' = FinishEvents
    <3>1. Len(<< >>) = 0
      OBVIOUS
    <3> QED
      BY <1>0, <2>1, <3>1 DEF Events, FinishEvents
  <2>5. Len(emitted') \in Nat
    BY <2>1
  <2>6. Events' <= 4 * evidence'.count + FinishEvents'
    <3>1. \A e, c, f, n \in Nat : e <= 4 * c + f /\ n <= 4 => e + n <= 4 * (c + 1) + f
      OBVIOUS
    <3>2. FinishEvents \in Nat
      BY <1>0
    <3> QED
      BY <1>0, <2>1, <2>3, <2>4, <2>5, <3>1, <3>2
  <2> QED
    BY <1>0, <2>1, <2>3, <2>6 DEF RoomInv
<1>4. CASE AnthropicGuardFinish
  <2>1. /\ emitted = << >> /\ phase = "streaming" /\ phase' = "finishing"
        /\ UNCHANGED vars
        /\ SameBut(evidence, evidence', { "caller" })
        /\ \/ emitted' = << >>
           \/ \E reason \in Reasons : emitted' = << StreamEndEvent(reason) >>
    BY <1>4, AnthropicFinishMeans, GuardAssumption
  <2>2. evidence'.count = evidence.count
    BY <2>1, FieldsSame
  <2>3. emitted' \in Seq(AnthropicEvents) /\ Len(emitted') \in 0 .. 1
    <3>1. << >> \in Seq(AnthropicEvents) /\ Len(<< >>) = 0
      OBVIOUS
    <3>2. \A event \in AnthropicEvents :
            << event >> \in Seq(AnthropicEvents) /\ Len(<< event >>) = 1
      OBVIOUS
    <3>3. \A reason \in Reasons : StreamEndEvent(reason) \in AnthropicEvents
      BY EachEventEmitted
    <3>4. CASE emitted' = << >>
      BY <3>1, <3>4
    <3>5. ASSUME NEW reason \in Reasons, emitted' = << StreamEndEvent(reason) >>
          PROVE  emitted' \in Seq(AnthropicEvents) /\ Len(emitted') \in 0 .. 1
      BY <3>2, <3>3, <3>5
    <3> QED
      BY <2>1, <3>4, <3>5
  <2>4. /\ EmittedOK'
        /\ \A event \in Waiting' :
             /\ event.type = "tool_call_start" => event.key \in Blocks
             /\ event.type = "provider_diagnostic" =>
                  event.code # "E_COORDINATOR_LIMIT_EVENTS"
    BY <2>3, AnthropicWaiting
  <2>5. HasRoom(Blocks)' /\ Events' = eventsProcessed + Len(emitted')
    BY <1>0, <2>1, <2>4, EventHasRoom
  <2>6. Events = eventsProcessed /\ FinishEvents = 0 /\ FinishEvents' = 1
    <3>1. Len(<< >>) = 0
      OBVIOUS
    <3> QED
      BY <1>0, <2>1, <3>1 DEF Events, FinishEvents
  <2>7. Events' <= 4 * evidence'.count + FinishEvents'
    <3>1. \A e, c \in Nat, n \in 0 .. 1 : e <= 4 * c + 0 => e + n <= 4 * c + 1
      OBVIOUS
    <3> QED
      BY <1>0, <2>2, <2>3, <2>5, <2>6, <3>1
  <2> QED
    BY <1>0, <2>2, <2>5, <2>7 DEF RoomInv
<1>5. CASE UNCHANGED guardVars
  <2>1. /\ UNCHANGED vars /\ evidence' = evidence /\ emitted' = emitted /\ phase' = phase
    BY <1>5 DEF guardVars
  <2>2. EmittedOK' /\ Waiting' = Waiting
    BY <1>0, <2>1 DEF EmittedOK, Waiting
  <2>3. HasRoom(Blocks)' /\ Events' = eventsProcessed + Len(emitted')
    <3>1. \A event \in Waiting' :
            /\ event.type = "tool_call_start" => event.key \in Blocks
            /\ event.type = "provider_diagnostic" =>
                 event.code # "E_COORDINATOR_LIMIT_EVENTS"
      BY <1>0, <2>2 DEF HasRoom
    <3> QED
      BY <1>0, <2>1, <2>2, <3>1, EventHasRoom
  <2>4. Events' = Events /\ FinishEvents' = FinishEvents
    BY <2>1, <2>3 DEF Events, FinishEvents
  <2> QED
    BY <1>0, <2>1, <2>3, <2>4 DEF RoomInv
<1> QED
  BY <1>1, <1>2, <1>3, <1>4, <1>5 DEF GuardNext, AnthropicNext

\* At first there is room.
LEMMA AnthropicRoomInitially ==
  ASSUME AnthropicRoom, GuardInit, adapter = NewAnthropic
  PROVE  RoomInv
<1>1. /\ emitted = << >> /\ phase = "streaming" /\ evidence.count = 0
      /\ eventsProcessed = 0 /\ streamDiagnostics = {}
  BY DEF GuardInit, NoEvidence, Init, CoordinatorInit
<1>2. Len(<< >>) = 0 /\ \A i \in 1 .. Len(<< >>) : FALSE
  OBVIOUS
<1>3. \A k \in SourceKeys : ~Known(k)
  BY DEF GuardInit, Init, CoordinatorInit, Known, NoCall, NewCall
<1>4. Waiting = {}
  BY <1>1, <1>2 DEF Waiting
<1> QED
  BY <1>1, <1>2, <1>3, <1>4
     DEF RoomInv, HasRoom, Events, Starved, FinishEvents, AnthropicRoom

\* Where there is room, a clean block is within the limits.
LEMMA CleanBlockHasRoom ==
  ASSUME AnthropicRoom, AnthropicInv, GateInv, RoomInv, emitted = << >>,
         NEW k \in SourceKeys, AnthropicClean(k)
  PROVE  WithinLimits(k)
<1>1. PICK fatal \in BOOLEAN, known \in SUBSET SourceKeys, dirty \in SUBSET SourceKeys,
           ends \in SUBSET Reasons :
        /\ fatal <=> Fatal
        /\ known = evidence.started /\ dirty = Disqualified /\ ends = Said
        /\ Accounted(fatal, known, dirty, ends)
  BY DEF AnthropicInv
<1>2. AnthropicTypeOK /\ (~Fatal => FieldsAgree /\ SaidInOrder)
  BY DEF AnthropicInv
<1>3. ~Fatal /\ "complete" \in Said /\ k \in evidence.started /\ k \in Blocks
  BY <1>2, CleanMeans DEF SaidInOrder
<1>4. ends = { "complete" } /\ ~Starved /\ HasRoom(Blocks)
  BY <1>1, <1>2, <1>3, EndsWellMeans DEF RoomInv, HasRoom
<1>5. Heard(known, dirty, ends)
  BY <1>1, <1>3, <1>4 DEF Accounted
<1>6. Refused(k) \/ (Known(k) <=> k \in known)
  BY <1>5, HeardNow
<1>7. ~Known(k) => ~Refused(k)
  <2>1. Blocks \in SUBSET SourceKeys /\ IsFiniteSet(SourceKeys)
    BY AnthropicScopes, GuardAssumption
  <2>2. IsFiniteSet(Blocks)
    BY <2>1, FS_Subset
  <2> QED
    BY <1>3, <1>4, <2>2, RoomForAll DEF AnthropicRoom
<1> QED
  BY <1>1, <1>3, <1>4, <1>6, <1>7 DEF WithinLimits

\* Where there is room for the message, exactly the clean blocks may run.
THEOREM AnthropicExecutesCleanAlways ==
  ASSUME AnthropicRoom  PROVE AnthropicSpec => []AnthropicExecutesClean
<1>1. GuardInit /\ adapter = NewAnthropic => RoomInv
  BY AnthropicRoomInitially
<1>2. AnthropicInv /\ GateInv /\ RoomInv /\ [GuardNext \/ AnthropicNext]_guardVars => RoomInv'
  BY AnthropicRoomKept DEF AnthropicInv, GateInv, CoordinatorInv
<1>3. AnthropicInv /\ GateInv /\ HistoryInv /\ RoomInv /\ PhaseFinishes =>
        AnthropicExecutesClean
  <2> SUFFICES ASSUME AnthropicInv, GateInv, HistoryInv, RoomInv, PhaseFinishes, Settled,
                      NEW k \in SourceKeys
               PROVE  Executable(k) <=> AnthropicClean(k)
    BY DEF AnthropicExecutesClean
  <2>1. Executable(k) => AnthropicClean(k)
    BY ExecutableBlockIsClean DEF Settled
  <2>2. AnthropicClean(k) => Executable(k)
    BY CleanBlockHasRoom, CleanBlockIsExecutable DEF PhaseFinishes, Settled
  <2> QED
    BY <2>1, <2>2
<1> QED
  BY <1>1, <1>2, <1>3, AnthropicInvariant, AnthropicPhaseFinishes, PTL DEF AnthropicSpec
================================================================================
