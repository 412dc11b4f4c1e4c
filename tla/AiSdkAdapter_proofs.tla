-------------------------- MODULE AiSdkAdapter_proofs --------------------------
(***************************************************************************)
(* Proofs about the guard of an AI SDK stream: it is an execution gate,    *)
(* and when it has finished, exactly the calls of which the stream said    *)
(* nothing but good may run.                                               *)
(***************************************************************************)
EXTENDS AiSdkAdapter, ProviderGuard_proofs

------------------------------------------------------------------------------
(* Types.                                                                   *)

SdkFields ==
  [ provider : { "ai-sdk" }, finished : BOOLEAN,
    started : SUBSET SourceKeys, ended : SUBSET SourceKeys ]

SdkEnds == Ends({ "end" } \cup SdkFinishReasons)

Evidence == EvidenceOf({ "end" } \cup SdkFinishReasons)

SdkTypeOK ==
  /\ EmittedOK
  /\ adapter \in SdkFields
  /\ phase \in { "streaming", "finishing", "finished" }
  /\ evidence \in Evidence

\* The keys of the calls are source keys, and none of them is the whole message.
LEMMA SdkKeys ==
  /\ SdkInputs \subseteq Inputs /\ Inputs \subseteq SourceKeys
  /\ NoKey \notin SourceKeys /\ Message \notin SourceKeys
  /\ SourceKeys \subseteq Scopes /\ Message \in Scopes
BY SdkAssumption, GuardAssumption DEF Inputs, KeysOf, Places, NoKey, Message, Scopes

------------------------------------------------------------------------------
(* The parts of the stream, sorted by what follows from them.               *)

QuietPart == Shows(evidence) /\ adapter' = adapter /\ emitted' = << >>

MalformedPart ==
  /\ Shows(IF Over(evidence) THEN SawFault(evidence) ELSE evidence)
  /\ adapter' = adapter
  /\ emitted' = << StreamDiagnosticEvent("E_PROVIDER_EVENT_MALFORMED") >>

FinishPart(reason) ==
  /\ Shows(IF Over(evidence) THEN SawFault(evidence)
           ELSE SawEnd(evidence, Message, reason))
  /\ adapter' = [ adapter EXCEPT !.finished = TRUE ]
  /\ emitted' = IF reason = "content-filter"
                THEN << StreamDiagnosticEvent("E_CONTENT_FILTERED"),
                        StreamEndEvent(MapSdkFinishReason(reason)) >>
                ELSE << StreamEndEvent(MapSdkFinishReason(reason)) >>

\* Something fatal was said, and the first event that follows from it says so.
FatalPart ==
  /\ Shows(SawFault(evidence))
  /\ \/ adapter' = adapter
     \/ adapter' = [ adapter EXCEPT !.finished = TRUE ]
  /\ \E event \in NormalizedEvents :
       /\ \/ /\ event = StreamEndEvent(event.reason)
             /\ event.reason \in { "provider_error", "cancelled" }
          \/ /\ event = StreamDiagnosticEvent(event.code)
             /\ event.code \in SdkExecutionObservedCodes
                  \cup { "E_PROVIDER_EVENT_IDENTITY_AMBIGUOUS" }
       /\ \/ emitted' = << event >>
          \/ \E code \in SdkExecutionObservedCodes :
               emitted' = << event, StreamDiagnosticEvent(code) >>

\* A part about a call, with the fields and the event that follow from it.
CallPart(e, k, fields, event) ==
  /\ Shows(IF Over(evidence) THEN SawFault(evidence) ELSE e)
  /\ adapter' = fields
  /\ emitted' = << event >>

StartPart(k) ==
  CallPart(IF k \in evidence.started THEN Spoiled(evidence, { k })
           ELSE SawStart(evidence, k),
           k, [ adapter EXCEPT !.started = @ \cup { k } ],
           StartEvent(k, Absent, Absent))

TextPart(k, piece) ==
  CallPart(IF k \notin evidence.started \/ evidence.ends[k] # << >>
           THEN Spoiled(evidence, { k }) ELSE SawText(evidence, k, piece),
           k, adapter,
           IF k \notin adapter.started
           THEN DiagnosticEvent(k, "E_TOOL_ARGUMENTS_BEFORE_START")
           ELSE IF k \in adapter.ended
           THEN DiagnosticEvent(k, "E_TOOL_ARGUMENTS_AFTER_END")
           ELSE ArgumentsEvent(k, piece))

EndPart(k) ==
  CallPart(IF k \notin evidence.started THEN Spoiled(evidence, { k })
           ELSE SawEnd(evidence, k, "end"),
           k,
           IF k \in adapter.started \ adapter.ended
           THEN [ adapter EXCEPT !.ended = @ \cup { k } ] ELSE adapter,
           IF k \notin adapter.started
           THEN DiagnosticEvent(k, "E_TOOL_END_BEFORE_START")
           ELSE IF k \in adapter.ended
           THEN DiagnosticEvent(k, "E_DUPLICATE_TOOL_END")
           ELSE EndEvent(k))

RanPart(k, code) ==
  CallPart(IF k \in evidence.started THEN Spoiled(evidence, { k }) ELSE evidence,
           k, adapter, DiagnosticEvent(k, code))

SdkPart ==
  \/ QuietPart
  \/ MalformedPart
  \/ \E reason \in SdkFinishReasons : FinishPart(reason)
  \/ FatalPart
  \/ \E k \in SdkInputs :
       StartPart(k) \/ EndPart(k) \/ \E piece \in ArgumentPieces : TextPart(k, piece)
  \/ \E k \in Inputs, code \in SdkExecutionObservedCodes : RanPart(k, code)

\* The events of this adapter are well formed.
LEMMA SdkEventsAreNormalized ==
  /\ \A code \in SdkCodes : StreamDiagnosticEvent(code) \in NormalizedEvents
  /\ \A k \in SourceKeys, code \in SdkCodes : DiagnosticEvent(k, code) \in NormalizedEvents
  /\ \A reason \in Reasons : StreamEndEvent(reason) \in NormalizedEvents
  /\ \A k \in SourceKeys : /\ StartEvent(k, Absent, Absent) \in NormalizedEvents
                           /\ EndEvent(k) \in NormalizedEvents
  /\ \A k \in SourceKeys, piece \in ArgumentPieces :
       ArgumentsEvent(k, piece) \in NormalizedEvents
<1>1. SdkCodes \subseteq ProviderCodes
  BY SdkAssumption
<1> QED
  BY <1>1 DEF StreamDiagnosticEvent, DiagnosticEvent, StreamEndEvent, StartEvent,
     EndEvent, ArgumentsEvent, NormalizedEvents

\* The codes of SdkCodes, by where they are used.
LEMMA SdkCodesNamed ==
  /\ SdkExecutionObservedCodes \subseteq SdkCodes
  /\ { "E_TOOL_ARGUMENTS_BEFORE_START", "E_TOOL_ARGUMENTS_AFTER_END",
       "E_TOOL_END_BEFORE_START", "E_DUPLICATE_TOOL_END", "E_CONTENT_FILTERED",
       "E_PROVIDER_EVENT_IDENTITY_AMBIGUOUS", "E_PROVIDER_EVENT_MALFORMED" }
     \subseteq SdkCodes
BY DEF SdkCodes, SdkExecutionObservedCodes

\* Every raw event is one of these parts.
LEMMA SdkEventIsPart ==
  ASSUME SdkEvent
  PROVE  /\ SdkPart
         /\ emitted = << >> /\ phase # "finishing" /\ UNCHANGED << vars, phase >>
         /\ evidence.count < MaxRawEvents[adapter.provider]
<1>1. PICK raw \in SdkRawEvents :
        RawEvent(SdkPush(adapter, raw), SdkShown(evidence, raw))
  BY DEF SdkEvent
<1> DEFINE a == adapter
           step == SdkPush(adapter, raw)
<1>2. /\ adapter' = step.fields /\ emitted' = step.events
      /\ Shows(SdkShown(evidence, raw))
      /\ emitted = << >> /\ phase # "finishing" /\ UNCHANGED << vars, phase >>
      /\ evidence.count < MaxRawEvents[adapter.provider]
  BY <1>1 DEF RawEvent, Shows
<1>s. \A fields, events : /\ Step(fields, events).fields = fields
                          /\ Step(fields, events).events = events
  BY DEF Step
<1> HIDE DEF step
<1> USE SdkKeys, SdkAssumption, GuardAssumption
<1>3. SdkPart
  <2>1. CASE raw.kind = "malformed"
    <3>1. step = Step(a, << StreamDiagnosticEvent("E_PROVIDER_EVENT_MALFORMED") >>)
      BY <2>1 DEF SdkPush, step
    <3>2. SdkShown(evidence, raw) = IF Over(evidence) THEN SawFault(evidence) ELSE evidence
      BY <2>1 DEF SdkShown
    <3> QED
      BY <1>2, <1>s, <3>1, <3>2 DEF MalformedPart, SdkPart
  <2>2. CASE raw.kind = "tool_call"
    <3>1. step = Step(a, << >>) /\ SdkShown(evidence, raw) = evidence
      BY <2>2 DEF SdkPush, SdkShown, step
    <3> QED
      BY <1>2, <1>s, <3>1 DEF QuietPart, SdkPart
  <2>3. CASE raw.kind = "finish"
    <3>1. /\ step = SdkStreamEnd(a, raw.reason) /\ raw.reason \in SdkFinishReasons
          /\ SdkShown(evidence, raw) = IF Over(evidence) THEN SawFault(evidence)
                                       ELSE SawEnd(evidence, Message, raw.reason)
      BY <2>3 DEF SdkPush, SdkShown, SdkRawEvents, step
    <3>2. FinishPart(raw.reason)
      <4>1. CASE raw.reason = "content-filter"
        <5>1. OnlyIf(TRUE, StreamDiagnosticEvent("E_CONTENT_FILTERED"))
                \o << StreamEndEvent(MapSdkFinishReason(raw.reason)) >>
              = << StreamDiagnosticEvent("E_CONTENT_FILTERED"),
                   StreamEndEvent(MapSdkFinishReason(raw.reason)) >>
          BY Joined DEF OnlyIf
        <5> QED
          BY <1>2, <1>s, <3>1, <4>1, <5>1 DEF FinishPart, SdkStreamEnd, OnlyIf
      <4>2. CASE raw.reason # "content-filter"
        <5>1. << >> \o << StreamEndEvent(MapSdkFinishReason(raw.reason)) >>
              = << StreamEndEvent(MapSdkFinishReason(raw.reason)) >>
          OBVIOUS
        <5> QED
          BY <1>2, <1>s, <3>1, <4>2, <5>1 DEF FinishPart, SdkStreamEnd, OnlyIf
      <4> QED
        BY <4>1, <4>2
    <3> QED
      BY <3>1, <3>2 DEF SdkPart
  <2>4. CASE raw.kind \in { "error", "abort" }
    <3> DEFINE reason == IF raw.kind = "error" THEN "provider_error" ELSE "cancelled"
               event == StreamEndEvent(reason)
    <3>1. /\ step.fields = [ a EXCEPT !.finished = TRUE ]
          /\ step.events = << event >>
      <4>1. CASE raw.kind = "error"
        <5>1. << >> \o << event >> = << event >>
          OBVIOUS
        <5>2. step = Step([ a EXCEPT !.finished = TRUE ], << event >>)
          BY <4>1, <5>1 DEF SdkPush, SdkStreamEnd, OnlyIf, MapSdkFinishReason, step
        <5> QED
          BY <1>s, <5>2
      <4>2. CASE raw.kind = "abort"
        BY <1>s, <4>2 DEF SdkPush, step
      <4> QED
        BY <2>4, <4>1, <4>2
    <3>2. SdkShown(evidence, raw) = SawFault(evidence)
      BY <2>4 DEF SdkShown
    <3>3. event \in NormalizedEvents /\ event.reason = reason
      BY SdkEventsAreNormalized DEF StreamEndEvent
    <3>4. FatalPart
      BY <1>2, <3>1, <3>2, <3>3 DEF FatalPart
    <3> QED
      BY <3>4 DEF SdkPart
  <2> DEFINE CallKinds == { "input_start", "input_delta", "input_end", "tool_result",
                            "tool_error" }
             handled == SdkCallPart(a, raw)
  <2>5. ASSUME raw.kind \in CallKinds
        PROVE  /\ step = SdkIdentityPart(a, raw)
               /\ raw.call.name \in { "key", "missing", "conflicting" }
               /\ raw.call.name = "key" => raw.call.key \in Inputs
               /\ raw.call.name = "key" /\ raw.kind \notin { "tool_result", "tool_error" }
                  => raw.call.key \in SdkInputs
               /\ raw.kind = "input_delta" => raw.piece \in ArgumentPieces
    <3>1. /\ raw.call \in Identities(Inputs)
          /\ raw.kind \notin { "tool_result", "tool_error" } =>
               raw.call \in Identities(SdkInputs)
          /\ raw.kind = "input_delta" => raw.piece \in ArgumentPieces
      BY <2>5 DEF SdkRawEvents, Identities
    <3> QED
      BY <2>5, <3>1 DEF SdkPush, Identities, step
  <2>6. ASSUME raw.kind \in CallKinds, raw.call.name # "key"
        PROVE  /\ handled.fields = a
               /\ raw.kind \notin { "tool_result", "tool_error" } => handled.events = << >>
               /\ raw.kind \in { "tool_result", "tool_error" } =>
                    \E code \in SdkExecutionObservedCodes :
                      handled.events = << StreamDiagnosticEvent(code) >>
    BY <1>s, <2>6 DEF SdkCallPart, ToolRan, SdkExecutionObservedCodes
  <2>7. CASE raw.kind \in CallKinds /\ raw.call.name = "conflicting"
    <3> DEFINE event == StreamDiagnosticEvent("E_PROVIDER_EVENT_IDENTITY_AMBIGUOUS")
    <3>1. SdkShown(evidence, raw) = SawFault(evidence)
      BY <2>7 DEF SdkShown, SdkIdentityShown
    <3>2. step.fields = a /\ step.events = << event >> \o handled.events
      <4>1. step = Step(handled.fields, << event >> \o handled.events)
        BY <2>5, <2>7 DEF SdkIdentityPart, OnlyIf
      <4>2. handled.fields = a
        BY <2>6, <2>7
      <4> HIDE DEF handled, event
      <4> QED
        BY <1>s, <4>1, <4>2
    <3>3. /\ event \in NormalizedEvents
          /\ event.code = "E_PROVIDER_EVENT_IDENTITY_AMBIGUOUS"
          /\ event = StreamDiagnosticEvent(event.code)
      BY SdkEventsAreNormalized, SdkCodesNamed DEF StreamDiagnosticEvent, DiagnosticEvent
    <3> HIDE DEF event
    <3>4. \/ step.events = << event >>
          \/ \E code \in SdkExecutionObservedCodes :
               step.events = << event, StreamDiagnosticEvent(code) >>
      <4>1. CASE handled.events = << >>
        BY <3>2, <4>1
      <4>2. ASSUME NEW code \in SdkExecutionObservedCodes,
                   handled.events = << StreamDiagnosticEvent(code) >>
            PROVE  step.events = << event, StreamDiagnosticEvent(code) >>
        BY Joined, <3>2, <4>2
      <4> QED
        BY <2>6, <2>7, <4>1, <4>2
    <3> HIDE DEF handled
    <3>5. FatalPart
      BY <1>2, <3>1, <3>2, <3>3, <3>4 DEF FatalPart
    <3> QED
      BY <3>5 DEF SdkPart
  <2>8. ASSUME raw.kind \in CallKinds, raw.call.name # "conflicting"
        PROVE  step.fields = handled.fields /\ step.events = handled.events
    <3>1. << >> \o handled.events = handled.events
      BY <1>s DEF SdkCallPart, ToolRan, InputStart, InputDelta, InputEnd
    <3> QED
      BY <1>s, <2>5, <2>8, <3>1 DEF SdkIdentityPart, OnlyIf
  <2>9. CASE raw.kind \in CallKinds /\ raw.call.name = "missing"
    <3>1. CASE raw.kind \in { "tool_result", "tool_error" }
      <4>1. SdkShown(evidence, raw) = SawFault(evidence)
        BY <2>9, <3>1 DEF SdkShown, SdkIdentityShown
      <4>2. PICK code \in SdkExecutionObservedCodes :
              step.events = << StreamDiagnosticEvent(code) >>
        BY <2>6, <2>8, <2>9, <3>1
      <4> DEFINE event == StreamDiagnosticEvent(code)
      <4>3. /\ event \in NormalizedEvents /\ event.code = code
            /\ event = StreamDiagnosticEvent(event.code)
        BY SdkEventsAreNormalized, SdkCodesNamed DEF StreamDiagnosticEvent, DiagnosticEvent
      <4>4. FatalPart
        BY <1>2, <2>6, <2>8, <2>9, <4>1, <4>2, <4>3 DEF FatalPart
      <4> QED
        BY <4>4 DEF SdkPart
    <3>2. CASE raw.kind \notin { "tool_result", "tool_error" }
      <4>1. SdkShown(evidence, raw) = evidence
        BY <2>9, <3>2 DEF SdkShown, SdkIdentityShown
      <4> QED
        BY <1>2, <2>6, <2>8, <2>9, <3>2, <4>1 DEF QuietPart, SdkPart
    <3> QED
      BY <3>1, <3>2
  <2>10. CASE raw.kind \in CallKinds /\ raw.call.name = "key"
    <3> DEFINE k == raw.call.key
    <3>1. /\ SdkShown(evidence, raw) = IF Over(evidence) THEN SawFault(evidence)
                                       ELSE SdkCallSays(evidence, raw, k)
          /\ k \in Inputs
          /\ raw.kind \notin { "tool_result", "tool_error" } => k \in SdkInputs
          /\ raw.kind = "input_delta" => raw.piece \in ArgumentPieces
          /\ adapter' = handled.fields /\ emitted' = handled.events
      BY <1>2, <2>5, <2>8, <2>10 DEF SdkShown, SdkIdentityShown
    <3>2. CASE raw.kind = "input_start"
      <4>1. /\ handled = InputStart(a, k)
            /\ SdkCallSays(evidence, raw, k) =
                 IF k \in evidence.started THEN Spoiled(evidence, { k })
                 ELSE SawStart(evidence, k)
        BY <2>10, <3>2 DEF SdkCallPart, SdkCallSays
      <4> QED
        <5>1. StartPart(k)
          BY <1>2, <1>s, <3>1, <4>1 DEF InputStart, StartPart, CallPart
        <5> QED
          BY <3>1, <3>2, <5>1 DEF SdkPart
    <3>3. CASE raw.kind = "input_delta"
      <4>1. /\ handled = InputDelta(a, k, raw.piece)
            /\ SdkCallSays(evidence, raw, k) =
                 IF k \notin evidence.started \/ evidence.ends[k] # << >>
                 THEN Spoiled(evidence, { k }) ELSE SawText(evidence, k, raw.piece)
        BY <2>10, <3>3 DEF SdkCallPart, SdkCallSays
      <4>2. TextPart(k, raw.piece)
        <5> DEFINE event == CASE k \notin a.started ->
                                   DiagnosticEvent(k, "E_TOOL_ARGUMENTS_BEFORE_START")
                              [] k \in a.started \cap a.ended ->
                                   DiagnosticEvent(k, "E_TOOL_ARGUMENTS_AFTER_END")
                              [] OTHER -> ArgumentsEvent(k, raw.piece)
        <5>1. adapter' = a /\ emitted' = << event >>
          BY <1>s, <3>1, <4>1 DEF InputDelta
        <5>2. event = IF k \notin adapter.started
                      THEN DiagnosticEvent(k, "E_TOOL_ARGUMENTS_BEFORE_START")
                      ELSE IF k \in adapter.ended
                      THEN DiagnosticEvent(k, "E_TOOL_ARGUMENTS_AFTER_END")
                      ELSE ArgumentsEvent(k, raw.piece)
          BY <1>2
        <5> HIDE DEF event
        <5> QED
          BY <1>2, <1>s, <3>1, <4>1, <5>1, <5>2 DEF TextPart, CallPart
      <4> QED
        BY <3>1, <3>3, <4>2 DEF SdkPart
    <3>4. CASE raw.kind = "input_end"
      <4>1. /\ handled = InputEnd(a, k)
            /\ SdkCallSays(evidence, raw, k) =
                 IF k \notin evidence.started THEN Spoiled(evidence, { k })
                 ELSE SawEnd(evidence, k, "end")
        BY <2>10, <3>4 DEF SdkCallPart, SdkCallSays
      <4>2. EndPart(k)
        BY <1>2, <1>s, <3>1, <3>4, <4>1 DEF InputEnd, EndPart, CallPart
      <4> QED
        BY <3>1, <3>4, <4>2 DEF SdkPart
    <3>5. CASE raw.kind \in { "tool_result", "tool_error" }
      <4> DEFINE code == IF raw.kind = "tool_result" THEN "E_SDK_EXECUTION_OBSERVED"
                         ELSE "E_PROVIDER_TOOL_ERROR"
      <4>1. /\ handled = ToolRan(a, raw.call, code)
            /\ SdkCallSays(evidence, raw, k) =
                 IF k \in evidence.started THEN Spoiled(evidence, { k }) ELSE evidence
            /\ code \in SdkExecutionObservedCodes
        BY <2>10, <3>5 DEF SdkCallPart, SdkCallSays, SdkExecutionObservedCodes
      <4>2. RanPart(k, code)
        BY <1>2, <1>s, <2>10, <3>1, <3>5, <4>1 DEF ToolRan, RanPart, CallPart
      <4> QED
        BY <3>1, <4>1, <4>2 DEF SdkPart
    <3> QED
      BY <2>10, <3>2, <3>3, <3>4, <3>5
  <2>11. raw.kind \in { "malformed", "tool_call", "error", "abort", "finish" }
                       \cup CallKinds
    BY DEF SdkRawEvents
  <2> HIDE DEF CallKinds
  <2> QED
    BY <2>1, <2>2, <2>3, <2>4, <2>5, <2>7, <2>9, <2>10, <2>11
<1> QED
  BY <1>2, <1>3

------------------------------------------------------------------------------
(* What each kind of part leaves of the evidence, field by field.           *)

SdkEvidenceFields == { "started", "text", "ends", "spoiled", "fault", "caller" }

\* One raw event more, and every field but those that changed is kept.
ShownBut(changed) ==
  /\ evidence' \in Evidence /\ evidence'.count = evidence.count + 1
  /\ \A field \in SdkEvidenceFields \ changed : evidence'[field] = evidence[field]

\* The same of evidence that a part shows, before it is counted.
SeenBut(e, changed) ==
  /\ e \in Evidence /\ e.count = evidence.count
  /\ \A field \in SdkEvidenceFields \ changed : e[field] = evidence[field]

\* What a part shows is what it changes in the evidence, and one raw event more.
LEMMA ShowsSeen ==
  ASSUME NEW e, NEW changed, SeenBut(e, changed), Shows(e)
  PROVE  /\ ShownBut(changed)
         /\ \A field \in SdkEvidenceFields : evidence'[field] = e[field]
<1>1. e \in Evidence /\ evidence' = [ e EXCEPT !.count = e.count + 1 ]
  BY DEF SeenBut, Shows
<1>2. /\ evidence' \in Evidence /\ evidence'.count = e.count + 1
      /\ \A field \in SdkEvidenceFields : evidence'[field] = e[field]
  BY <1>1, ShowsCounted DEF Evidence, SameBut, EvidenceFields, SdkEvidenceFields
<1> QED
  BY <1>2 DEF SeenBut, ShownBut

\* A part that says nothing changes nothing but the count.
LEMMA ShowsNothing ==
  ASSUME evidence \in Evidence, Shows(evidence)
  PROVE  ShownBut({})
BY ShowsSeen DEF SeenBut

\* A fault is kept.
LEMMA ShowsFault ==
  ASSUME evidence \in Evidence, Shows(SawFault(evidence))
  PROVE  ShownBut({ "fault" }) /\ evidence'.fault = TRUE
<1>1. SeenBut(SawFault(evidence), { "fault" }) /\ SawFault(evidence).fault = TRUE
  BY DEF SeenBut, SawFault, Evidence, EvidenceOf, SdkEnds, Ends, SdkEvidenceFields
<1> QED
  BY <1>1, ShowsSeen DEF SdkEvidenceFields

\* A spoiled call is added to those that are.
LEMMA ShowsSpoiled ==
  ASSUME evidence \in Evidence, NEW k \in SourceKeys, Shows(Spoiled(evidence, { k }))
  PROVE  ShownBut({ "spoiled" }) /\ evidence'.spoiled = evidence.spoiled \cup { k }
<1>1. /\ SeenBut(Spoiled(evidence, { k }), { "spoiled" })
      /\ Spoiled(evidence, { k }).spoiled = evidence.spoiled \cup { k }
  <2>1. { k } \in SUBSET Scopes
    BY SdkKeys
  <2>2. Spoiled(evidence, { k }) \in Evidence
    BY <2>1, SpoiledMeans DEF Evidence
  <2> QED
    BY <2>2 DEF SeenBut, Spoiled, Evidence, EvidenceOf, SdkEvidenceFields
<1> QED
  BY <1>1, ShowsSeen DEF SdkEvidenceFields

\* An announced call is added to those that are.
LEMMA ShowsStart ==
  ASSUME evidence \in Evidence, NEW k \in SourceKeys, Shows(SawStart(evidence, k))
  PROVE  ShownBut({ "started" }) /\ evidence'.started = evidence.started \cup { k }
<1>1. /\ SeenBut(SawStart(evidence, k), { "started" })
      /\ SawStart(evidence, k).started = evidence.started \cup { k }
  BY DEF SeenBut, SawStart, Evidence, EvidenceOf, SdkEnds, Ends, SdkEvidenceFields
<1> QED
  BY <1>1, ShowsSeen DEF SdkEvidenceFields

\* A fragment feeds the text of its call, and of no other.
LEMMA ShowsText ==
  ASSUME evidence \in Evidence, NEW k \in SourceKeys, NEW piece \in ArgumentPieces,
         Shows(SawText(evidence, k, piece))
  PROVE  /\ ShownBut({ "text" })
         /\ evidence'.text =
              [ evidence.text EXCEPT ![k] = Fed(evidence.text[k], piece) ]
<1> DEFINE text == [ evidence.text EXCEPT ![k] = Fed(evidence.text[k], piece) ]
<1>1. text \in Texts
  BY FedStays DEF Evidence, EvidenceOf, SdkEnds, Ends, Texts
<1>2. SawText(evidence, k, piece) = [ evidence EXCEPT !.text = text ]
  BY FedStays DEF SawText, Evidence, EvidenceOf, SdkEnds, Ends, Texts
<1> HIDE DEF text
<1>3. SeenBut([ evidence EXCEPT !.text = text ], { "text" })
  BY <1>1 DEF SeenBut, Evidence, EvidenceOf, SdkEnds, Ends, SdkEvidenceFields
<1>4. [ evidence EXCEPT !.text = text ].text = text
  BY DEF Evidence, EvidenceOf, SdkEnds, Ends
<1>5. ShownBut({ "text" }) /\ evidence'.text = text
  BY <1>2, <1>3, <1>4, ShowsSeen DEF SdkEvidenceFields
<1> QED
  BY <1>5 DEF text

\* The first two ends of a scope are kept in their order.
LEMMA ShowsEnd ==
  ASSUME evidence \in Evidence, NEW s \in Scopes, Len(evidence.ends[s]) < 2,
         NEW said \in { "end" } \cup SdkFinishReasons, Shows(SawEnd(evidence, s, said))
  PROVE  /\ ShownBut({ "ends" })
         /\ evidence'.ends =
              [ evidence.ends EXCEPT ![s] = Append(evidence.ends[s], said) ]
<1> DEFINE more == Append(evidence.ends[s], said)
           ends == [ evidence.ends EXCEPT ![s] = more ]
<1>1. more \in Seq({ "end" } \cup SdkFinishReasons)
  BY DEF Evidence, EvidenceOf, SdkEnds, Ends
<1>2. SawEnd(evidence, s, said) = [ evidence EXCEPT !.ends = ends ]
  BY DEF SawEnd, Evidence, EvidenceOf, SdkEnds, Ends
<1> HIDE DEF more
<1>3. ends \in SdkEnds
  BY <1>1 DEF Evidence, EvidenceOf, SdkEnds, Ends
<1> HIDE DEF ends
<1>4. SeenBut([ evidence EXCEPT !.ends = ends ], { "ends" })
  BY <1>3 DEF SeenBut, Evidence, EvidenceOf, SdkEnds, Ends, SdkEvidenceFields
<1>5. [ evidence EXCEPT !.ends = ends ].ends = ends
  BY DEF Evidence, EvidenceOf, SdkEnds, Ends
<1>6. ShownBut({ "ends" }) /\ evidence'.ends = ends
  BY <1>2, <1>4, <1>5, ShowsSeen DEF SdkEvidenceFields
<1> QED
  BY <1>6 DEF ends, more

\* A third end of the same scope adds nothing.
LEMMA ShowsThirdEnd ==
  ASSUME evidence \in Evidence, NEW s \in Scopes, Len(evidence.ends[s]) > 1,
         NEW said, Shows(SawEnd(evidence, s, said))
  PROVE  ShownBut({})
<1>1. evidence.ends \in SdkEnds /\ Len(evidence.ends[s]) \in Nat
  BY DEF Evidence, EvidenceOf, SdkEnds, Ends
<1>2. SawEnd(evidence, s, said)
      = [ evidence EXCEPT !.ends = [ evidence.ends EXCEPT ![s] = evidence.ends[s] ] ]
  BY <1>1 DEF SawEnd, Evidence, EvidenceOf, SdkEnds, Ends
<1>3. [ evidence.ends EXCEPT ![s] = evidence.ends[s] ] = evidence.ends
  BY <1>1 DEF SdkEnds, Ends
<1>4. SawEnd(evidence, s, said) = evidence
  BY <1>2, <1>3 DEF Evidence, EvidenceOf, SdkEnds, Ends
<1> QED
  BY <1>4, ShowsNothing

\* Whatever the part, the evidence stays well typed and a fault stays one.
LEMMA SomethingShown ==
  ASSUME SdkTypeOK, SdkPart
  PROVE  /\ evidence' \in Evidence /\ evidence'.count = evidence.count + 1
         /\ evidence.fault => evidence'.fault
         /\ evidence'.caller = evidence.caller
<1> USE DEF SdkTypeOK, ShownBut, SdkEvidenceFields
<1> DEFINE Goal == /\ evidence' \in Evidence /\ evidence'.count = evidence.count + 1
                   /\ evidence.fault => evidence'.fault
                   /\ evidence'.caller = evidence.caller
<1>1. ASSUME Shows(evidence)  PROVE Goal
  BY <1>1, ShowsNothing
<1>2. ASSUME Shows(SawFault(evidence))  PROVE Goal
  BY <1>2, ShowsFault
<1>3. ASSUME NEW k \in SourceKeys, Shows(Spoiled(evidence, { k }))  PROVE Goal
  BY <1>3, ShowsSpoiled
<1>4. ASSUME NEW k \in SourceKeys, Shows(SawStart(evidence, k))  PROVE Goal
  BY <1>4, ShowsStart
<1>5. ASSUME NEW k \in SourceKeys, NEW piece \in ArgumentPieces,
             Shows(SawText(evidence, k, piece))
      PROVE  Goal
  BY <1>5, ShowsText
<1>6. ASSUME NEW s \in Scopes, NEW said \in { "end" } \cup SdkFinishReasons,
             Shows(SawEnd(evidence, s, said))
      PROVE  Goal
  <2>1. Len(evidence.ends[s]) \in Nat
    BY DEF Evidence, EvidenceOf, SdkEnds, Ends
  <2>2. CASE Len(evidence.ends[s]) < 2
    BY <1>6, <2>2, ShowsEnd
  <2>3. CASE Len(evidence.ends[s]) > 1
    BY <1>6, <2>3, ShowsThirdEnd
  <2> QED
    BY <2>1, <2>2, <2>3
<1> HIDE DEF Goal
<1> USE SdkKeys
<1>7. ASSUME QuietPart  PROVE Goal
  BY <1>1, <1>7 DEF QuietPart
<1>8. ASSUME MalformedPart  PROVE Goal
  BY <1>1, <1>2, <1>8 DEF MalformedPart
<1>9. ASSUME NEW reason \in SdkFinishReasons, FinishPart(reason)  PROVE Goal
  BY <1>2, <1>6, <1>9 DEF FinishPart
<1>10. ASSUME FatalPart  PROVE Goal
  BY <1>2, <1>10 DEF FatalPart
<1>11. ASSUME NEW k \in SdkInputs, StartPart(k)  PROVE Goal
  BY <1>2, <1>3, <1>4, <1>11 DEF StartPart, CallPart
<1>12. ASSUME NEW k \in SdkInputs, EndPart(k)  PROVE Goal
  BY <1>2, <1>3, <1>6, <1>12 DEF EndPart, CallPart
<1>13. ASSUME NEW k \in SdkInputs, NEW piece \in ArgumentPieces, TextPart(k, piece)
       PROVE  Goal
  BY <1>2, <1>3, <1>5, <1>13 DEF TextPart, CallPart
<1>14. ASSUME NEW k \in Inputs, NEW code \in SdkExecutionObservedCodes, RanPart(k, code)
       PROVE  Goal
  BY <1>1, <1>2, <1>3, <1>14 DEF RanPart, CallPart
<1>15. Goal
  BY <1>7, <1>8, <1>9, <1>10, <1>11, <1>12, <1>13, <1>14 DEF SdkPart
<1> QED
  BY <1>15 DEF Goal

------------------------------------------------------------------------------
(* The guard of an AI SDK stream is an execution gate.                      *)

\* A part leaves the adapter and the events to deliver well typed.
LEMMA PartEmits ==
  ASSUME SdkTypeOK, SdkPart
  PROVE  /\ adapter' \in SdkFields /\ EmittedOK'
         /\ Len(emitted') <= 2
<1> USE DEF SdkTypeOK
<1> DEFINE Goal == adapter' \in SdkFields /\ EmittedOK' /\ Len(emitted') <= 2
<1>1. ASSUME NEW event \in NormalizedEvents, NEW next \in NormalizedEvents
      PROVE  /\ << event >> \in Seq(NormalizedEvents) /\ Len(<< event >>) <= 2
             /\ << event, next >> \in Seq(NormalizedEvents) /\ Len(<< event, next >>) <= 2
  OBVIOUS
<1>2. << >> \in Seq(NormalizedEvents) /\ Len(<< >>) <= 2
  OBVIOUS
<1>3. /\ [ adapter EXCEPT !.finished = TRUE ] \in SdkFields
      /\ \A k \in SourceKeys : /\ [ adapter EXCEPT !.started = @ \cup { k } ] \in SdkFields
                               /\ [ adapter EXCEPT !.ended = @ \cup { k } ] \in SdkFields
  BY DEF SdkFields
<1>4. ASSUME NEW reason \in SdkFinishReasons
      PROVE  StreamEndEvent(MapSdkFinishReason(reason)) \in NormalizedEvents
  BY SdkAssumption, SdkEventsAreNormalized
<1> USE SdkKeys, SdkCodesNamed, SdkEventsAreNormalized
<1>5. CASE QuietPart
  BY <1>2, <1>5 DEF QuietPart, EmittedOK
<1>6. CASE MalformedPart
  BY <1>1, <1>6 DEF MalformedPart, EmittedOK
<1>7. ASSUME NEW reason \in SdkFinishReasons, FinishPart(reason)  PROVE Goal
  BY <1>1, <1>3, <1>4, <1>7 DEF FinishPart, EmittedOK
<1>8. CASE FatalPart
  <2>1. PICK event \in NormalizedEvents :
          \/ emitted' = << event >>
          \/ \E code \in SdkExecutionObservedCodes :
               emitted' = << event, StreamDiagnosticEvent(code) >>
    BY <1>8 DEF FatalPart
  <2>2. \A code \in SdkExecutionObservedCodes :
          StreamDiagnosticEvent(code) \in NormalizedEvents
    OBVIOUS
  <2>3. EmittedOK' /\ Len(emitted') <= 2
    BY <1>1, <2>1, <2>2 DEF EmittedOK
  <2>4. adapter' \in SdkFields
    BY <1>3, <1>8 DEF FatalPart
  <2> QED
    BY <2>3, <2>4
<1>9. ASSUME NEW k \in SdkInputs, StartPart(k)  PROVE Goal
  BY <1>1, <1>3, <1>9 DEF StartPart, CallPart, EmittedOK
<1>10. ASSUME NEW k \in SdkInputs, EndPart(k)  PROVE Goal
  BY <1>1, <1>3, <1>10 DEF EndPart, CallPart, EmittedOK
<1>11. ASSUME NEW k \in SdkInputs, NEW piece \in ArgumentPieces, TextPart(k, piece)
       PROVE  Goal
  BY <1>1, <1>3, <1>11 DEF TextPart, CallPart, EmittedOK
<1>12. ASSUME NEW k \in Inputs, NEW code \in SdkExecutionObservedCodes, RanPart(k, code)
       PROVE  Goal
  BY <1>1, <1>3, <1>12 DEF RanPart, CallPart, EmittedOK
<1> QED
  BY <1>5, <1>6, <1>7, <1>8, <1>9, <1>10, <1>11, <1>12 DEF SdkPart

\* What finish({reason}) of the adapter leaves for the gate.
LEMMA FinishMeans ==
  ASSUME SdkTypeOK, SdkGuardFinish
  PROVE  /\ emitted = << >> /\ phase = "streaming" /\ phase' = "finishing"
         /\ UNCHANGED vars
         /\ adapter' = [ adapter EXCEPT !.finished = TRUE ]
         /\ evidence' \in Evidence
         /\ \A field \in (SdkEvidenceFields \cup { "count" }) \ { "caller" } :
              evidence'[field] = evidence[field]
         /\ evidence'.caller \in CallerReasons
         /\ emitted' = IF adapter.finished THEN << >>
                       ELSE << StreamEndEvent(IF evidence'.caller = Absent THEN "unknown"
                                              ELSE evidence'.caller) >>
<1>1. PICK reason \in CallerReasons :
        FinishAdapter(SdkFinish(adapter, reason), reason)
  BY DEF SdkGuardFinish
<1>2. /\ emitted = << >> /\ phase = "streaming" /\ phase' = "finishing"
      /\ UNCHANGED vars
      /\ adapter' = SdkFinish(adapter, reason).fields
      /\ emitted' = SdkFinish(adapter, reason).events
      /\ evidence' = [ evidence EXCEPT !.caller = reason ]
  BY <1>1 DEF FinishAdapter
<1>3. /\ evidence' \in Evidence /\ evidence'.caller = reason
      /\ \A field \in (SdkEvidenceFields \cup { "count" }) \ { "caller" } :
           evidence'[field] = evidence[field]
  BY <1>2 DEF SdkTypeOK, Evidence, EvidenceOf, SdkEnds, Ends, SdkEvidenceFields
<1>4. adapter.finished => adapter = [ adapter EXCEPT !.finished = TRUE ]
  BY DEF SdkTypeOK, SdkFields
<1>5. /\ adapter' = [ adapter EXCEPT !.finished = TRUE ]
      /\ emitted' = IF adapter.finished THEN << >>
                    ELSE << StreamEndEvent(IF reason = Absent THEN "unknown" ELSE reason) >>
  BY <1>2, <1>4 DEF SdkFinish, Step
<1> QED
  BY <1>2, <1>3, <1>5

\* Every step of the guard is a step of the gate, or leaves the gate alone.
LEMMA SdkStepImplements ==
  ASSUME SdkTypeOK, GuardNext \/ SdkNext \/ UNCHANGED guardVars
  PROVE  [Next]_vars /\ SdkTypeOK'
<1>1. CASE GuardNext
  BY <1>1, GuardStepImplements DEF SdkTypeOK, GuardNext, Deliver, FinishGate
<1>2. CASE SdkEvent
  <2>1. SdkPart /\ UNCHANGED << vars, phase >>
    BY <1>2, SdkEventIsPart
  <2> QED
    BY <2>1, PartEmits, SomethingShown DEF SdkTypeOK
<1>3. CASE SdkGuardFinish
  <2>1. /\ UNCHANGED vars /\ phase' = "finishing" /\ evidence' \in Evidence
        /\ adapter' = [ adapter EXCEPT !.finished = TRUE ]
    BY <1>3, FinishMeans
  <2>2. adapter' \in SdkFields
    BY <2>1 DEF SdkTypeOK, SdkFields
  <2> DEFINE reason == IF evidence'.caller = Absent THEN "unknown" ELSE evidence'.caller
  <2>3. reason \in Reasons /\ emitted' \in { << >>, << StreamEndEvent(reason) >> }
    BY <1>3, FinishMeans, GuardAssumption
  <2> HIDE DEF reason
  <2>4. EmittedOK'
    <3>1. StreamEndEvent(reason) \in NormalizedEvents
      BY <2>3, SdkEventsAreNormalized
    <3>2. << StreamEndEvent(reason) >> \in Seq(NormalizedEvents)
      BY <3>1
    <3>3. << >> \in Seq(NormalizedEvents)
      OBVIOUS
    <3> QED
      BY <2>3, <3>2, <3>3 DEF EmittedOK
  <2> QED
    BY <2>1, <2>2, <2>4 DEF SdkTypeOK
<1>4. CASE UNCHANGED guardVars
  BY <1>4 DEF guardVars, SdkTypeOK, EmittedOK
<1> QED
  BY <1>1, <1>2, <1>3, <1>4 DEF SdkNext

\* At first the gate is as it starts, and everything has its type.
LEMMA SdkInitially ==
  ASSUME GuardInit, adapter = NewAiSdk
  PROVE  Init /\ SdkTypeOK
<1>1. Init /\ emitted = << >> /\ phase = "streaming" /\ evidence = NoEvidence
  BY DEF GuardInit
<1>2. << >> \in Seq(NormalizedEvents) /\ << >> \in Seq({ "end" } \cup SdkFinishReasons)
  OBVIOUS
<1>3. adapter \in SdkFields
  BY DEF NewAiSdk, SdkFields
<1>4. evidence \in Evidence
  BY <1>1, <1>2 DEF NoEvidence, Evidence, EvidenceOf, SdkEnds, Ends, Texts, Ids, TextStates
<1> QED
  BY <1>1, <1>2, <1>3, <1>4 DEF SdkTypeOK, EmittedOK

\* What the guard does to its gate is what any user of the gate could do: all that
\* is proved of the gate holds of the guard.
THEOREM SdkImplementsGate == SdkSpec => Spec
<1>1. GuardInit /\ adapter = NewAiSdk => Init /\ SdkTypeOK
  BY SdkInitially
<1>2. SdkTypeOK /\ [GuardNext \/ SdkNext]_guardVars => [Next]_vars /\ SdkTypeOK'
  BY SdkStepImplements
<1> QED
  BY <1>1, <1>2, PTL DEF SdkSpec, Spec

------------------------------------------------------------------------------
(* The inductive invariant: what was said, what is on its way to the gate,  *)
(* and what the coordinator holds agree at every moment.                    *)

\* A fault kills the stream, or is about to.
FaultKills ==
  evidence.fault =>
    \/ Dead
    \/ emitted # << >> /\ (isFinished \/ Kills(Head(emitted)))

\* What was recorded against a key disqualifies its call.
SdkDirty(k) ==
  IF Known(k)
  THEN \/ calls[k].status = "sdk_execution_observed"
       \/ callDiagnostics[k] \cap AuthorityProtocolViolationCodes # {}
  ELSE pendingProtocolDiagnostics[k] \cap AuthorityProtocolViolationCodes # {}

\* A call that nothing disqualifies has a clean record; a key without a call has
\* none.
SdkTidy(k) ==
  /\ Known(k) => calls[k].name = 1 /\ calls[k].schemaValid = "none"
  /\ Known(k) /\ ~SdkDirty(k) /\ (isFinished => calls[k].ended) => callDiagnostics[k] = {}
  /\ Known(k) /\ ~SdkDirty(k) /\ ~isFinished => Collecting(calls[k])
  /\ ~Known(k) => /\ callDiagnostics[k] = {}
                  /\ calls[k].parser = "empty" /\ ~calls[k].ended
                  /\ pendingProtocolDiagnostics[k] \subseteq AuthorityProtocolViolationCodes

\* What the coordinator holds of a key and what the stream said of it agree.
SdkAgrees(k, known, dirty, parser, ended) ==
  /\ known <=> k \in evidence.started
  /\ dirty <=> k \in evidence.spoiled \/ Len(evidence.ends[k]) > 1
  /\ ~dirty => parser = evidence.text[k] /\ (ended <=> evidence.ends[k] # << >>)

AgreesNow(k) ==
  \/ Refused(k)
  \/ SdkAgrees(k, Known(k), SdkDirty(k), calls[k].parser, calls[k].ended)

\* The same, once an event about the key has been delivered.
AgreesAfter(k, event) ==
  \/ Refused(k)
  \/ /\ event.type = "tool_call_start"
     /\ SdkAgrees(k, TRUE, Known(k) \/ SdkDirty(k), "empty", FALSE)
  \/ /\ event.type = "tool_call_arguments_delta"
     /\ SdkAgrees(k, Known(k), SdkDirty(k), Fed(calls[k].parser, event.piece), calls[k].ended)
  \/ /\ event.type = "tool_call_end"
     /\ SdkAgrees(k, Known(k), SdkDirty(k), calls[k].parser, TRUE)
  \/ /\ event.type = "provider_diagnostic"
     /\ event.code \in AuthorityProtocolViolationCodes \cup SdkExecutionObservedCodes
     /\ SdkAgrees(k, Known(k),
               \/ SdkDirty(k) \/ Known(k)
               \/ event.code \in AuthorityProtocolViolationCodes,
               calls[k].parser, calls[k].ended)

\* The fields of the adapter are what the stream said, which is one of few things.
FieldsAgree ==
  /\ adapter.started = evidence.started
  /\ \A k \in SourceKeys :
       /\ k \in adapter.ended <=> evidence.ends[k] # << >>
       /\ evidence.ends[k] \in { << >>, << "end" >>, << "end", "end" >> }
       /\ k \notin evidence.started =>
            evidence.ends[k] = << >> /\ evidence.text[k] = "empty"

\* How the stream ended, as the coordinator is told.
EndSaid(reason) ==
  \/ \E said \in SdkFinishReasons :
       evidence.ends[Message] = << said >> /\ reason = MapSdkFinishReason(said)
  \/ /\ evidence.ends[Message] = << >> /\ phase # "streaming"
     /\ reason = IF evidence.caller = Absent THEN "unknown" ELSE evidence.caller

Live ==
  /\ phase = "streaming" /\ evidence.ends[Message] = << >>
  /\ ~isFinished /\ ~adapter.finished

\* Nothing waits, or something that is about no call.
LiveQuiet ==
  /\ Live
  /\ emitted \in { << >>, << StreamDiagnosticEvent("E_PROVIDER_EVENT_MALFORMED") >> }
  /\ \A k \in SourceKeys : AgreesNow(k)

\* One event about a call waits.
LivePending ==
  /\ Live
  /\ \E event \in NormalizedEvents :
       /\ emitted = << event >>
       /\ event.type # "provider_stream_end" /\ event.key \in SourceKeys
       /\ AgreesAfter(event.key, event)
       /\ \A k \in SourceKeys \ { event.key } : AgreesNow(k)

\* The end of the stream waits.
Ending ==
  /\ ~isFinished /\ adapter.finished
  /\ \E reason \in Reasons :
       /\ EndSaid(reason)
       /\ \/ emitted = << StreamEndEvent(reason) >>
          \/ /\ emitted = << StreamDiagnosticEvent("E_CONTENT_FILTERED"),
                             StreamEndEvent(reason) >>
             /\ reason # "complete"
  /\ \A k \in SourceKeys : AgreesNow(k)

\* The coordinator was told the end.
Ended ==
  /\ emitted = << >> /\ isFinished /\ adapter.finished
  /\ EndSaid(finishedReason)
  /\ \A k \in SourceKeys : AgreesNow(k)

Told ==
  /\ FieldsAgree
  /\ \A k \in SourceKeys : SdkTidy(k)
  /\ LiveQuiet \/ LivePending \/ Ending \/ Ended

\* A stream without a fault is told to the coordinator as it was said.
ToldAsSaid == ~evidence.fault /\ ~Dead => Told

\* A stream that died without a fault said so, or ran into the limit of events.
DiedAsSaid == Starved \/ \E reason \in Reasons \ { "complete" } : EndSaid(reason)

DeadAsSaid == ~evidence.fault /\ Dead => DiedAsSaid

SdkInv == SdkTypeOK /\ FaultKills /\ ToldAsSaid /\ DeadAsSaid

------------------------------------------------------------------------------
(* What one push into the gate does.                                        *)

\* Delivering an event to a finished coordinator, or an event that kills, kills.
LEMMA SdkDeliveryKills ==
  ASSUME SdkTypeOK, TypeOK, Deliver, isFinished \/ Kills(Head(emitted))
  PROVE  Dead'
<1> DEFINE event == Head(emitted)
<1>1. event \in NormalizedEvents
  BY DEF Deliver, SdkTypeOK, EmittedOK
<1>2. CASE event.type # "provider_stream_end"
  <2>1. Dispatch(event) \/ PushRejected
    BY <1>2 DEF Deliver
  <2>2. CASE PushRejected
    BY <2>2, RefusedPushKills
  <2>3. CASE Dispatch(event)
    <3>1. PushCallEvent
      BY <1>1, <1>2, <2>3, DispatchIsPush
    <3>2. CASE isFinished
      <4>1. ~isFinished
        BY <1>1, <1>2, <2>3, DispatchAccepts DEF Accepted
      <4> QED
        BY <3>2, <4>1
    <3>3. CASE Kills(event)
      <4>1. /\ event.type = "provider_diagnostic" /\ event.key = NoKey
            /\ event.code \in BlockingCodes
        BY <1>2, <3>3 DEF Kills
      <4>2. StreamDiagnostic(event.code)
        BY <2>3, <4>1 DEF Dispatch
      <4> QED
        BY <4>1, <4>2 DEF StreamDiagnostic, Dead
    <3> QED
      BY <3>2, <3>3
  <2> QED
    BY <2>1, <2>2, <2>3
<1>3. CASE event.type = "provider_stream_end"
  <2>1. PushEnd(event.reason) /\ event.reason \in Reasons
    BY <1>1, <1>3, NormalizedEvent DEF Deliver
  <2>2. CASE PushStreamEnd(event.reason)
    <3>1. ~isFinished /\ isFinished' = TRUE /\ finishedReason' = event.reason
      BY <2>2 DEF PushStreamEnd, Accepted, EndStream
    <3>2. event.reason # "complete"
      BY <1>3, <3>1 DEF Kills
    <3> QED
      BY <3>1, <3>2 DEF Dead
  <2> QED
    BY <2>1, <2>2, PushEndMeans
<1> QED
  BY <1>2, <1>3

------------------------------------------------------------------------------
(* Delivering an event about a call.                                        *)

\* Nothing about a key has changed in the coordinator.
SdkKeyKept(j) ==
  /\ calls'[j] = calls[j] /\ callDiagnostics'[j] = callDiagnostics[j]
  /\ pendingProtocolDiagnostics'[j] = pendingProtocolDiagnostics[j]

\* A key whose record is kept is known, dirty and tidy as before.
LEMMA SdkKeptKeyIsTidy ==
  ASSUME NEW j \in SourceKeys, SdkKeyKept(j), isFinished' = isFinished
  PROVE  /\ Known(j)' = Known(j) /\ SdkDirty(j)' = SdkDirty(j)
         /\ SdkTidy(j) => SdkTidy(j)'
BY DEF SdkKeyKept, Known, SdkDirty, SdkTidy, Collecting

\* A key whose record is kept agrees with the evidence as before.
LEMMA KeptKeyAgrees ==
  ASSUME NEW j \in SourceKeys, SdkKeyKept(j), isFinished' = isFinished,
         evidence' = evidence, AgreesNow(j), Refused(j) => Refused(j)'
  PROVE  AgreesNow(j)'
<1>1. Known(j)' = Known(j) /\ SdkDirty(j)' = SdkDirty(j) /\ calls'[j] = calls[j]
  BY SdkKeptKeyIsTidy DEF SdkKeyKept
<1>2. CASE Refused(j)
  BY <1>2 DEF AgreesNow
<1>3. CASE SdkAgrees(j, Known(j), SdkDirty(j), calls[j].parser, calls[j].ended)
  BY <1>1, <1>3 DEF AgreesNow, SdkAgrees
<1> QED
  BY <1>2, <1>3 DEF AgreesNow

\* Refusals depend only on which calls are known.
LEMMA SdkSameKnown ==
  ASSUME \A j \in SourceKeys : Known(j)' = Known(j)
  PROVE  \A k \in SourceKeys : Refused(k)' = Refused(k)
<1>1. { j \in SourceKeys : Known(j) }' = { j \in SourceKeys : Known(j) }
  OBVIOUS
<1> QED
  BY <1>1 DEF Refused

\* Delivering an event about the key k brings the coordinator up to what was said.
Delivered(k) ==
  /\ UNCHANGED finishVars
  /\ \A j \in SourceKeys \ { k } : SdkKeyKept(j)
  /\ streamDiagnostics' \subseteq streamDiagnostics \cup { "E_COORDINATOR_LIMIT_CALLS" }
  /\ \A j \in SourceKeys : Refused(j) => Refused(j)'
  /\ SdkTidy(k)' /\ AgreesNow(k)'

\* An event about a known call, in general.
LEMMA CallEventDelivers ==
  ASSUME TypeOK, evidence' = evidence, NEW k \in SourceKeys, NEW c, NEW codes,
         CallEvent(k, c, codes), c.status # "absent",
         NEW dirty \in BOOLEAN,
         dirty <=> \/ c.status = "sdk_execution_observed"
                   \/ (callDiagnostics[k] \cup codes)
                         \cap AuthorityProtocolViolationCodes # {},
         c.name = 1, c.schemaValid = "none",
         ~dirty => callDiagnostics[k] \cup codes = {} /\ Collecting(c),
         SdkAgrees(k, TRUE, dirty, c.parser, c.ended)
  PROVE  Delivered(k)
<1>1. /\ ~isFinished /\ Known(k)
      /\ calls' = [ calls EXCEPT ![k] = c ]
      /\ callDiagnostics' = [ callDiagnostics EXCEPT ![k] = @ \cup codes ]
      /\ UNCHANGED << streamDiagnostics, pendingProtocolDiagnostics, finishVars >>
  BY DEF CallEvent, Accepted
<1>2. /\ calls'[k] = c /\ callDiagnostics'[k] = callDiagnostics[k] \cup codes
      /\ \A j \in SourceKeys \ { k } : SdkKeyKept(j)
  BY <1>1 DEF TypeOK, SdkKeyKept
<1>3. Known(k)' /\ (SdkDirty(k)' <=> dirty)
  BY <1>2 DEF Known, SdkDirty
<1>4. \A j \in SourceKeys : Known(j)' = Known(j)
  BY <1>1, <1>2, <1>3 DEF SdkKeyKept, Known
<1>5. SdkTidy(k)'
  BY <1>1, <1>2, <1>3 DEF SdkTidy, finishVars, Collecting
<1>6. AgreesNow(k)'
  BY <1>2, <1>3 DEF AgreesNow, SdkAgrees
<1> QED
  BY <1>1, <1>2, <1>4, <1>5, <1>6, SdkSameKnown DEF Delivered

\* What is known of a call that an event finds collecting, or finds disqualified.
LEMMA SdkKnownCall ==
  ASSUME TypeOK, ~isFinished, NEW k \in SourceKeys, Known(k), SdkTidy(k)
  PROVE  /\ calls[k] \in Call /\ calls[k].status # "absent"
         /\ calls[k].name = 1 /\ calls[k].schemaValid = "none"
         /\ callDiagnostics[k] \in SUBSET Codes
         /\ SdkDirty(k) <=> \/ calls[k].status = "sdk_execution_observed"
                         \/ callDiagnostics[k] \cap AuthorityProtocolViolationCodes # {}
         /\ ~SdkDirty(k) => Collecting(calls[k]) /\ callDiagnostics[k] = {}
         /\ SdkDirty(k) \in BOOLEAN
BY DEF TypeOK, Known, SdkTidy, SdkDirty

\* Nothing but the count of events changes.
LEMMA UnknownCallDelivers ==
  ASSUME TypeOK, evidence' = evidence, NEW k \in SourceKeys, EventOfUnknownCall(k),
         SdkTidy(k), AgreesNow(k)
  PROVE  Delivered(k)
<1>1. /\ \A j \in SourceKeys : SdkKeyKept(j)
      /\ UNCHANGED << streamDiagnostics, finishVars >>
  BY DEF EventOfUnknownCall, diagnosticVars, SdkKeyKept
<1>2. \A j \in SourceKeys : Known(j)' = Known(j) /\ (SdkTidy(j) => SdkTidy(j)')
  BY <1>1, SdkKeptKeyIsTidy DEF finishVars
<1>3. \A j \in SourceKeys : Refused(j)' = Refused(j)
  BY <1>2, SdkSameKnown
<1>4. AgreesNow(k)'
  BY <1>1, <1>3, KeptKeyAgrees DEF finishVars
<1> QED
  BY <1>1, <1>2, <1>3, <1>4 DEF Delivered

\* Delivering the start of a call makes its record agree with what was said.
LEMMA StartDelivers ==
  ASSUME TypeOK, evidence' = evidence, NEW k \in SourceKeys, NEW event,
         NEW id, NEW index, event.type = "tool_call_start", AgreesAfter(k, event), SdkTidy(k),
         \/ Start(k, id, index, 1) \/ DuplicateStart(k) \/ StartOverLimit(k)
  PROVE  Delivered(k)
<1>1. Refused(k) \/ SdkAgrees(k, TRUE, Known(k) \/ SdkDirty(k), "empty", FALSE)
  BY DEF AgreesAfter
<1>2. CASE Start(k, id, index, 1)
  <2> DEFINE c == NewCall(id, index, 1)
  <2>1. /\ ~isFinished /\ ~Known(k)
        /\ Cardinality({ j \in SourceKeys : Known(j) }) < MaxToolCalls
        /\ calls' = [ calls EXCEPT ![k] = c ]
        /\ callDiagnostics' =
             [ callDiagnostics EXCEPT ![k] = @ \cup pendingProtocolDiagnostics[k] ]
        /\ pendingProtocolDiagnostics' = [ pendingProtocolDiagnostics EXCEPT ![k] = {} ]
        /\ UNCHANGED << streamDiagnostics, finishVars >>
    BY <1>2 DEF Start, Accepted
  <2>2. /\ c.status = "collecting" /\ c.name = 1 /\ c.schemaValid = "none"
        /\ c.parser = "empty" /\ ~c.ended
    BY DEF NewCall
  <2> HIDE DEF c
  <2>3. /\ calls'[k] = c /\ callDiagnostics'[k] = pendingProtocolDiagnostics[k]
        /\ \A j \in SourceKeys \ { k } : SdkKeyKept(j)
    BY <2>1 DEF TypeOK, SdkKeyKept, SdkTidy
  <2>4. /\ pendingProtocolDiagnostics[k] \subseteq AuthorityProtocolViolationCodes
        /\ SdkDirty(k) <=> pendingProtocolDiagnostics[k] # {}
    BY <2>1 DEF SdkTidy, SdkDirty
  <2>5. Known(k)' /\ (SdkDirty(k)' <=> SdkDirty(k))
    BY <2>2, <2>3, <2>4 DEF Known, SdkDirty
  <2>6. \A j \in SourceKeys : ~Refused(j)
    <3>1. Cardinality({ j \in SourceKeys : Known(j) }) \in Nat
      BY GuardAssumption, FS_Subset, FS_CardinalityType
    <3>2. ASSUME NEW j \in SourceKeys, Refused(j)  PROVE FALSE
      BY <2>1, <3>1, <3>2, CoordinatorAssumption DEF Refused
    <3> QED  BY <3>2
  <2>7. SdkTidy(k)'
    BY <2>2, <2>3, <2>4, <2>5 DEF SdkTidy, Collecting
  <2>8. AgreesNow(k)'
    BY <1>1, <2>1, <2>2, <2>3, <2>5, <2>6 DEF AgreesNow, SdkAgrees
  <2> QED
    BY <2>1, <2>3, <2>6, <2>7, <2>8 DEF Delivered
<1>3. CASE DuplicateStart(k)
  <2>1. /\ ~isFinished /\ Known(k)
        /\ CallEvent(k, calls[k], { "E_DUPLICATE_TOOL_CALL_START" })
    <3>1. calls' = [ calls EXCEPT ![k] = calls[k] ]
      BY <1>3 DEF DuplicateStart, TypeOK
    <3> QED
      BY <1>3, <3>1 DEF DuplicateStart, CallEvent, Accepted
  <2>2. SdkAgrees(k, TRUE, TRUE, calls[k].parser, calls[k].ended)
    BY <1>1, <2>1 DEF Refused, SdkAgrees
  <2>3. "E_DUPLICATE_TOOL_CALL_START" \in AuthorityProtocolViolationCodes
    BY DEF AuthorityProtocolViolationCodes
  <2> QED
    BY <2>1, <2>2, <2>3, SdkKnownCall, CallEventDelivers
<1>4. CASE StartOverLimit(k)
  <2>1. /\ \A j \in SourceKeys : SdkKeyKept(j)
        /\ streamDiagnostics' = streamDiagnostics \cup { "E_COORDINATOR_LIMIT_CALLS" }
        /\ UNCHANGED finishVars /\ Refused(k)
    BY <1>4 DEF StartOverLimit, SdkKeyKept, Refused
  <2>2. \A j \in SourceKeys : Known(j)' = Known(j) /\ (SdkTidy(j) => SdkTidy(j)')
    BY <2>1, SdkKeptKeyIsTidy DEF finishVars
  <2>3. \A j \in SourceKeys : Refused(j)' = Refused(j)
    BY <2>2, SdkSameKnown
  <2> QED
    BY <2>1, <2>2, <2>3 DEF Delivered, AgreesNow
<1> QED
  BY <1>2, <1>3, <1>4

\* Delivering a fragment of a call makes its record agree with what was said.
LEMMA TextDelivers ==
  ASSUME TypeOK, evidence' = evidence, FieldsAgree, NEW k \in SourceKeys,
         NEW event \in NormalizedEvents, event.key = k,
         event.type = "tool_call_arguments_delta", AgreesAfter(k, event), SdkTidy(k),
         Dispatch(event)
  PROVE  Delivered(k)
<1> DEFINE fed == Fed(calls[k].parser, event.piece)
<1>1. Refused(k) \/ SdkAgrees(k, Known(k), SdkDirty(k), fed, calls[k].ended)
  BY DEF AgreesAfter
<1>2. \/ /\ Known(k) /\ ArgumentsDelta(k)
         /\ Collecting(calls[k]) => calls'[k].parser = fed
      \/ EventOfUnknownCall(k)
  BY DEF Dispatch
<1>3. event.piece \in { "whole", "head", "tail" }
  BY NormalizedEvent, GuardAssumption
<1>4. CASE EventOfUnknownCall(k)
  <2>1. ~Known(k)
    BY <1>4 DEF EventOfUnknownCall
  <2>2. AgreesNow(k)
    <3>1. CASE Refused(k)
      BY <3>1 DEF AgreesNow
    <3>2. CASE SdkAgrees(k, Known(k), SdkDirty(k), fed, calls[k].ended)
      <4>1. k \notin evidence.started
        BY <2>1, <3>2 DEF SdkAgrees
      <4>2. fed # "empty"
        BY <1>3, <2>1 DEF Fed, SdkTidy
      <4>3. evidence.text[k] = "empty"
        BY <4>1 DEF FieldsAgree
      <4>4. SdkDirty(k)
        BY <3>2, <4>2, <4>3 DEF SdkAgrees
      <4> QED
        BY <3>2, <4>4 DEF SdkAgrees, AgreesNow
    <3> QED
      BY <1>1, <3>1, <3>2
  <2> QED
    BY <1>4, <2>2, UnknownCallDelivers
<1>5. CASE /\ Known(k) /\ ArgumentsDelta(k)
           /\ Collecting(calls[k]) => calls'[k].parser = fed
  <2>1. ~isFinished /\ SdkAgrees(k, TRUE, SdkDirty(k), fed, calls[k].ended)
    BY <1>1, <1>5 DEF Refused, ArgumentsDelta, CallEvent, Accepted
  <2>2. CASE ~Collecting(calls[k])
    <3>1. CallEvent(k, calls[k], { "E_ARGUMENT_DELTA_AFTER_END" })
      BY <1>5, <2>2 DEF ArgumentsDelta
    <3>2. SdkDirty(k) /\ SdkAgrees(k, TRUE, TRUE, calls[k].parser, calls[k].ended)
      BY <1>5, <2>1, <2>2, SdkKnownCall DEF SdkAgrees
    <3>3. \/ calls[k].status = "sdk_execution_observed"
          \/ (callDiagnostics[k] \cup { "E_ARGUMENT_DELTA_AFTER_END" })
                \cap AuthorityProtocolViolationCodes # {}
      BY <1>5, <2>1, <3>2, SdkKnownCall
    <3> QED
      BY <1>5, <2>1, <3>1, <3>2, <3>3, SdkKnownCall, CallEventDelivers
  <2>3. CASE Collecting(calls[k])
    <3>1. PICK p : CallEvent(k, [ calls[k] EXCEPT !.parser = p ], {})
      BY <1>5, <2>3 DEF ArgumentsDelta
    <3> DEFINE c == [ calls[k] EXCEPT !.parser = p ]
    <3>2. /\ c.status = calls[k].status /\ c.name = calls[k].name
          /\ c.schemaValid = calls[k].schemaValid /\ c.ended = calls[k].ended
          /\ c.parser = p
      BY <1>5, <2>1, SdkKnownCall DEF Call
    <3> HIDE DEF c
    <3>3. calls'[k] = c
      BY <3>1 DEF CallEvent, TypeOK, c
    <3>4. c.parser = fed
      BY <1>5, <2>3, <3>3
    <3>5. /\ CallEvent(k, c, {}) /\ callDiagnostics[k] \cup {} = callDiagnostics[k]
          /\ SdkAgrees(k, TRUE, SdkDirty(k), c.parser, c.ended)
      BY <2>1, <3>1, <3>2, <3>4 DEF c
    <3>6. ~SdkDirty(k) => Collecting(c)
      BY <2>3, <3>2 DEF Collecting
    <3>8. /\ c.status # "absent" /\ c.name = 1 /\ c.schemaValid = "none"
          /\ SdkDirty(k) \in BOOLEAN
          /\ SdkDirty(k) <=> \/ c.status = "sdk_execution_observed"
                          \/ (callDiagnostics[k] \cup {})
                                \cap AuthorityProtocolViolationCodes # {}
      BY <1>5, <2>1, <3>2, <3>5, SdkKnownCall
    <3>9. ~SdkDirty(k) => callDiagnostics[k] \cup {} = {} /\ Collecting(c)
      BY <1>5, <2>1, <3>5, <3>6, SdkKnownCall
    <3> QED
      BY <3>5, <3>8, <3>9, CallEventDelivers
  <2> QED
    BY <2>2, <2>3
<1> QED
  BY <1>2, <1>4, <1>5

\* Delivering the end of a call makes its record agree with what was said.
LEMMA EndDelivers ==
  ASSUME TypeOK, evidence' = evidence, FieldsAgree, NEW k \in SourceKeys, NEW event,
         event.type = "tool_call_end", AgreesAfter(k, event), SdkTidy(k),
         (Known(k) /\ CallEnd(k)) \/ EventOfUnknownCall(k)
  PROVE  Delivered(k)
<1>1. Refused(k) \/ SdkAgrees(k, Known(k), SdkDirty(k), calls[k].parser, TRUE)
  BY DEF AgreesAfter
<1>2. CASE EventOfUnknownCall(k)
  <2>1. ~Known(k)
    BY <1>2 DEF EventOfUnknownCall
  <2>2. AgreesNow(k)
    <3>1. CASE Refused(k)
      BY <3>1 DEF AgreesNow
    <3>2. CASE SdkAgrees(k, Known(k), SdkDirty(k), calls[k].parser, TRUE)
      <4>1. k \notin evidence.started
        BY <2>1, <3>2 DEF SdkAgrees
      <4>2. SdkDirty(k)
        BY <3>2, <4>1 DEF SdkAgrees, FieldsAgree
      <4> QED
        BY <3>2, <4>2 DEF SdkAgrees, AgreesNow
    <3> QED
      BY <1>1, <3>1, <3>2
  <2> QED
    BY <1>2, <2>2, UnknownCallDelivers
<1>3. CASE Known(k) /\ CallEnd(k)
  <2>1. ~isFinished /\ SdkAgrees(k, TRUE, SdkDirty(k), calls[k].parser, TRUE)
    BY <1>1, <1>3 DEF Refused, CallEnd, CallEvent, Accepted
  <2>2. CASE ~Collecting(calls[k])
    <3>1. CallEvent(k, calls[k], {}) /\ callDiagnostics[k] \cup {} = callDiagnostics[k]
      BY <1>3, <2>2 DEF CallEnd
    <3>2. SdkDirty(k) /\ SdkAgrees(k, TRUE, TRUE, calls[k].parser, calls[k].ended)
      BY <1>3, <2>1, <2>2, SdkKnownCall DEF SdkAgrees
    <3> QED
      BY <1>3, <2>1, <3>1, <3>2, SdkKnownCall, CallEventDelivers
  <2>3. CASE Collecting(calls[k])
    <3> DEFINE c == [ calls[k] EXCEPT !.ended = TRUE ]
    <3>1. CallEvent(k, c, {}) /\ callDiagnostics[k] \cup {} = callDiagnostics[k]
      BY <1>3, <2>1, <2>3, SdkKnownCall DEF CallEnd, NoName
    <3>2. /\ c.status = calls[k].status /\ c.name = calls[k].name
          /\ c.schemaValid = calls[k].schemaValid /\ c.ended = TRUE
          /\ c.parser = calls[k].parser
      BY <1>3, <2>1, SdkKnownCall DEF Call
    <3> HIDE DEF c
    <3>3. SdkAgrees(k, TRUE, SdkDirty(k), c.parser, c.ended)
      BY <2>1, <3>2
    <3>4. ~SdkDirty(k) => Collecting(c)
      BY <2>3, <3>2 DEF Collecting
    <3>8. /\ c.status # "absent" /\ c.name = 1 /\ c.schemaValid = "none"
          /\ SdkDirty(k) \in BOOLEAN
          /\ SdkDirty(k) <=> \/ c.status = "sdk_execution_observed"
                          \/ (callDiagnostics[k] \cup {})
                                \cap AuthorityProtocolViolationCodes # {}
      BY <1>3, <2>1, <3>2, <3>1, SdkKnownCall
    <3>9. ~SdkDirty(k) => callDiagnostics[k] \cup {} = {} /\ Collecting(c)
      BY <1>3, <2>1, <3>1, <3>4, SdkKnownCall
    <3> QED
      BY <3>1, <3>3, <3>8, <3>9, CallEventDelivers
  <2> QED
    BY <2>2, <2>3
<1> QED
  BY <1>2, <1>3

\* Delivering a diagnostic of a call makes its record agree with what was said.
LEMMA DiagnosticDelivers ==
  ASSUME TypeOK, evidence' = evidence, NEW k \in SourceKeys, NEW event,
         event.type = "provider_diagnostic", AgreesAfter(k, event), SdkTidy(k),
         (Known(k) /\ CallDiagnostic(k, event.code)) \/ SourceDiagnostic(k, event.code)
  PROVE  Delivered(k)
<1> DEFINE code == event.code
           violates == code \in AuthorityProtocolViolationCodes
<1>1. \/ Refused(k)
      \/ /\ code \in AuthorityProtocolViolationCodes \cup SdkExecutionObservedCodes
         /\ SdkAgrees(k, Known(k), SdkDirty(k) \/ Known(k) \/ violates, calls[k].parser,
                   calls[k].ended)
  BY DEF AgreesAfter
<1>2. CASE Known(k) /\ CallDiagnostic(k, code)
  <2>1. /\ code \in AuthorityProtocolViolationCodes \cup SdkExecutionObservedCodes
        /\ SdkAgrees(k, TRUE, TRUE, calls[k].parser, calls[k].ended)
    BY <1>1, <1>2 DEF Refused, SdkAgrees
  <2> DEFINE status == IF code \in SdkExecutionObservedCodes /\ Collecting(calls[k])
                       THEN "sdk_execution_observed" ELSE calls[k].status
             c == [ calls[k] EXCEPT !.status = status ]
  <2>2. ~isFinished /\ CallEvent(k, c, { code })
    BY <1>2 DEF CallDiagnostic, CallEvent, Accepted
  <2>3. /\ c.status = status /\ c.name = calls[k].name
        /\ c.schemaValid = calls[k].schemaValid /\ c.ended = calls[k].ended
        /\ c.parser = calls[k].parser
    BY <1>2, <2>2, SdkKnownCall DEF Call
  <2>4. /\ status # "absent"
        /\ \/ status = "sdk_execution_observed"
           \/ (callDiagnostics[k] \cup { code }) \cap AuthorityProtocolViolationCodes # {}
    BY <1>2, <2>1, <2>2, SdkKnownCall DEF Collecting
  <2> HIDE DEF c, status
  <2>5. SdkAgrees(k, TRUE, TRUE, c.parser, c.ended)
    BY <2>1, <2>3
  <2> QED
    BY <1>2, <2>2, <2>3, <2>4, <2>5, SdkKnownCall, CallEventDelivers
<1>3. CASE SourceDiagnostic(k, code)
  <2>1. /\ ~isFinished /\ ~Known(k)
        /\ pendingProtocolDiagnostics' =
             [ pendingProtocolDiagnostics EXCEPT
                 ![k] = @ \cup ({ code } \cap AuthorityProtocolViolationCodes) ]
        /\ UNCHANGED << calls, callDiagnostics, streamDiagnostics, finishVars >>
    BY <1>3 DEF SourceDiagnostic, Accepted
  <2>2. /\ pendingProtocolDiagnostics'[k] = pendingProtocolDiagnostics[k]
             \cup ({ code } \cap AuthorityProtocolViolationCodes)
        /\ \A j \in SourceKeys \ { k } : SdkKeyKept(j)
    BY <2>1 DEF TypeOK, SdkKeyKept
  <2>3. /\ \A j \in SourceKeys : Known(j)' = Known(j)
        /\ SdkDirty(k)' <=> SdkDirty(k) \/ violates
    BY <2>1, <2>2 DEF Known, SdkDirty
  <2>4. \A j \in SourceKeys : Refused(j)' = Refused(j)
    BY <2>3, SdkSameKnown
  <2>5. SdkTidy(k)'
    BY <2>1, <2>2, <2>3 DEF SdkTidy
  <2>6. AgreesNow(k)'
    <3>1. CASE Refused(k)
      BY <2>4, <3>1 DEF AgreesNow
    <3>2. CASE ~Refused(k)
      <4>1. SdkAgrees(k, FALSE, SdkDirty(k) \/ violates, calls[k].parser, calls[k].ended)
        BY <1>1, <2>1, <3>2 DEF SdkAgrees
      <4> QED
        BY <2>1, <2>3, <4>1 DEF AgreesNow, SdkAgrees
    <3> QED
      BY <3>1, <3>2
  <2> QED
    BY <2>1, <2>2, <2>4, <2>5, <2>6 DEF Delivered
<1> QED
  BY <1>2, <1>3

------------------------------------------------------------------------------
(* Delivering anything else, and the end of the stream.                     *)

\* A settled call keeps its name, its text and its end, and no settlement says
\* that the SDK ran it.
LEMMA SdkSettlementKeeps ==
  ASSUME TypeOK, NEW reason \in Reasons, NEW k \in SourceKeys, Collecting(calls[k]),
         NEW c \in Settlements(k, reason)
  PROVE  /\ c.name = calls[k].name /\ c.ended = calls[k].ended
         /\ c.parser = calls[k].parser
         /\ c.status \notin { "absent", "collecting", "sdk_execution_observed" }
<1>1. /\ c.name = calls[k].name /\ c.ended = calls[k].ended
      /\ c.parser = calls[k].parser
  BY SettlementHistory
<1>2. PICK r \in FinishParser(calls[k].parser, reason), verdict \in ValidatorAnswers :
        c = FinishCall(calls[k], r, reason, verdict, HasError(NoticedAtEnd(k)))
  BY DEF Settlements
<1>3. calls[k] \in Call
  BY DEF TypeOK
<1>4. r.outcome \in { "valid", "truncated", "salvaged", "invalid" }
  BY <1>3, FinishParserResult DEF Call, ParserOutcomes
<1>5. c.status \in { "truncated", "salvaged", "invalid", "complete", "cancelled" }
  BY <1>2, <1>3, <1>4 DEF FinishCall, Call
<1> QED
  BY <1>1, <1>5

\* Without a schema, the end of the stream leaves the history of every call alone.
LEMMA SdkEndKeepsHistory ==
  ASSUME TypeOK, ~isFinished, NEW reason \in Reasons, EndStream(reason),
         \A k \in SourceKeys : calls'[k].schemaValid = "none",
         NEW k \in SourceKeys, SdkTidy(k)
  PROVE  /\ Known(k)' = Known(k) /\ SdkDirty(k)' = SdkDirty(k) /\ SdkTidy(k)'
         /\ calls'[k].parser = calls[k].parser /\ calls'[k].ended = calls[k].ended
<1>1. /\ calls'[k] \in Settlements(k, reason) /\ calls'[k].schemaValid = "none"
      /\ callDiagnostics'[k] = callDiagnostics[k] \cup
           { code \in { "E_STREAM_ENDED_WITH_OPEN_CALL" } :
               Collecting(calls[k]) /\ ~calls[k].ended }
      /\ isFinished' /\ pendingProtocolDiagnostics'[k] = pendingProtocolDiagnostics[k]
  BY EndStreamMeans DEF NoticedAtEnd
<1>2. "E_STREAM_ENDED_WITH_OPEN_CALL" \notin AuthorityProtocolViolationCodes
  BY DEF AuthorityProtocolViolationCodes
<1>3. CASE Collecting(calls[k])
  <2>1. /\ calls'[k].name = calls[k].name /\ calls'[k].ended = calls[k].ended
        /\ calls'[k].parser = calls[k].parser
        /\ calls'[k].status \notin { "absent", "collecting", "sdk_execution_observed" }
    BY <1>1, <1>3, SdkSettlementKeeps
  <2>2. Known(k) /\ Known(k)'
    BY <1>3, <2>1 DEF Known, Collecting
  <2>3. SdkDirty(k)' <=> SdkDirty(k)
    BY <1>1, <1>2, <1>3, <2>1, <2>2 DEF SdkDirty, Collecting
  <2>4. calls[k].ended => callDiagnostics'[k] = callDiagnostics[k]
    BY <1>1
  <2>5. SdkTidy(k)'
    BY <1>1, <2>1, <2>2, <2>3, <2>4 DEF SdkTidy
  <2> QED
    BY <2>1, <2>2, <2>3, <2>5 DEF Known, SdkDirty
<1>4. CASE ~Collecting(calls[k])
  <2>1. calls'[k] = calls[k] /\ callDiagnostics'[k] = callDiagnostics[k]
    BY <1>1, <1>4 DEF Settlements
  <2>2. Known(k)' = Known(k) /\ SdkDirty(k)' = SdkDirty(k)
    BY <1>1, <2>1 DEF Known, SdkDirty
  <2>3. SdkTidy(k)'
    BY <1>1, <2>1, <2>2 DEF SdkTidy, Collecting
  <2> QED
    BY <2>1, <2>2, <2>3
<1> QED
  BY <1>3, <1>4

\* What an accepted or refused event about the stream leaves.
LEMMA StreamDiagnosticDelivers ==
  ASSUME TypeOK, evidence' = evidence, NEW code, StreamDiagnostic(code),
         \A k \in SourceKeys : SdkTidy(k) /\ AgreesNow(k)
  PROVE  /\ \A k \in SourceKeys : SdkTidy(k)' /\ AgreesNow(k)'
         /\ streamDiagnostics' = streamDiagnostics \cup { code }
         /\ UNCHANGED finishVars
<1>1. /\ \A j \in SourceKeys : SdkKeyKept(j)
      /\ streamDiagnostics' = streamDiagnostics \cup { code } /\ UNCHANGED finishVars
  BY DEF StreamDiagnostic, SdkKeyKept
<1>2. \A j \in SourceKeys : Known(j)' = Known(j) /\ (SdkTidy(j) => SdkTidy(j)')
  BY <1>1, SdkKeptKeyIsTidy DEF finishVars
<1>3. \A j \in SourceKeys : Refused(j)' = Refused(j)
  BY <1>2, SdkSameKnown
<1>4. \A j \in SourceKeys : AgreesNow(j)'
  BY <1>1, <1>3, KeptKeyAgrees DEF finishVars
<1> QED
  BY <1>1, <1>2, <1>4

\* Each delivery brings the coordinator up to what was said, or kills the stream
\* as it was said, or runs into the limit of events.
LEMMA DeliverTells ==
  ASSUME SdkTypeOK, TypeOK, ~Dead, Told, Deliver
  PROVE  /\ ~Dead' => Told'
         /\ Dead' => DiedAsSaid'
<1> DEFINE Goal == (~Dead' => Told') /\ (Dead' => DiedAsSaid')
<1>1. /\ emitted # << >> /\ emitted' = Tail(emitted)
      /\ evidence' = evidence /\ adapter' = adapter /\ phase' = phase
  BY DEF Deliver
<1>2. /\ FieldsAgree /\ \A k \in SourceKeys : SdkTidy(k)
      /\ LiveQuiet \/ LivePending \/ Ending
  BY <1>1 DEF Told, Ended
<1>3. FieldsAgree' /\ \A reason : EndSaid(reason) => EndSaid(reason)'
  BY <1>1, <1>2 DEF FieldsAgree, EndSaid
<1>4. ~isFinished /\ streamDiagnostics \cap BlockingCodes = {}
  BY <1>2 DEF Dead, LiveQuiet, LivePending, Live, Ending
<1>5. ASSUME Starved'  PROVE Goal
  <2>1. Dead'
    BY <1>5 DEF Starved, Dead, BlockingCodes
  <2> QED
    BY <1>5, <2>1 DEF DiedAsSaid
<1>6. ASSUME PushRejected  PROVE Goal
  BY <1>4, <1>5, <1>6, RefusedPushKills
<1>7. ASSUME NEW event, emitted = << event >>, event.type # "provider_stream_end"
      PROVE  emitted' = << >> /\ (Dispatch(event) \/ PushRejected)
  BY <1>1, <1>7 DEF Deliver
<1>8. CASE LiveQuiet
  <2> DEFINE event == StreamDiagnosticEvent("E_PROVIDER_EVENT_MALFORMED")
  <2>1. /\ emitted = << event >> /\ Live
        /\ event.type = "provider_diagnostic" /\ event.key = NoKey
        /\ event.code = "E_PROVIDER_EVENT_MALFORMED"
    BY <1>1, <1>8 DEF LiveQuiet, StreamDiagnosticEvent, DiagnosticEvent
  <2> HIDE DEF event
  <2>2. emitted' = << >> /\ (Dispatch(event) \/ PushRejected)
    BY <1>7, <2>1
  <2>3. CASE Dispatch(event)
    <3>1. StreamDiagnostic("E_PROVIDER_EVENT_MALFORMED")
      BY <2>1, <2>3 DEF Dispatch
    <3>2. /\ \A k \in SourceKeys : SdkTidy(k)' /\ AgreesNow(k)'
          /\ streamDiagnostics' = streamDiagnostics \cup { "E_PROVIDER_EVENT_MALFORMED" }
          /\ UNCHANGED finishVars
      BY <1>1, <1>2, <1>8, <3>1, StreamDiagnosticDelivers DEF LiveQuiet
    <3>3. "E_PROVIDER_EVENT_MALFORMED" \notin BlockingCodes
      BY DEF BlockingCodes, AuthorityProtocolViolationCodes, SdkExecutionObservedCodes,
             ContentFilteredCode
    <3>4. ~Dead' /\ Live'
      BY <1>1, <1>4, <2>1, <3>2, <3>3 DEF Dead, Live, finishVars
    <3> QED
      BY <1>3, <2>2, <3>2, <3>4 DEF Told, LiveQuiet
  <2> QED
    BY <1>6, <2>2, <2>3
<1>9. CASE LivePending
  <2>1. PICK event \in NormalizedEvents :
          /\ emitted = << event >>
          /\ event.type # "provider_stream_end" /\ event.key \in SourceKeys
          /\ AgreesAfter(event.key, event)
          /\ \A k \in SourceKeys \ { event.key } : AgreesNow(k)
    BY <1>9 DEF LivePending
  <2> DEFINE k == event.key
  <2>2. emitted' = << >> /\ (Dispatch(event) \/ PushRejected)
    BY <1>7, <2>1
  <2>3. CASE Dispatch(event)
    <3>0. SdkTidy(k) /\ k # NoKey
      BY <1>2, <2>1, SdkKeys
    <3>1. ASSUME event.type = "tool_call_start"  PROVE Delivered(k)
      <4>1. \/ Start(k, event.id, event.index, 1) \/ DuplicateStart(k)
            \/ StartOverLimit(k)
        BY <2>3, <3>1 DEF Dispatch
      <4> QED
        BY <1>1, <2>1, <3>0, <3>1, <4>1, StartDelivers
    <3>2. ASSUME event.type = "tool_call_arguments_delta"  PROVE Delivered(k)
      BY <1>1, <1>2, <2>1, <2>3, <3>0, <3>2, TextDelivers
    <3>3. ASSUME event.type = "tool_call_end"  PROVE Delivered(k)
      <4>1. (Known(k) /\ CallEnd(k)) \/ EventOfUnknownCall(k)
        BY <2>3, <3>3 DEF Dispatch
      <4> QED
        BY <1>1, <1>2, <2>1, <3>0, <3>3, <4>1, EndDelivers
    <3>4. ASSUME event.type = "provider_diagnostic"  PROVE Delivered(k)
      <4>1. (Known(k) /\ CallDiagnostic(k, event.code)) \/ SourceDiagnostic(k, event.code)
        BY <2>3, <3>0, <3>4 DEF Dispatch
      <4> QED
        BY <1>1, <2>1, <3>0, <3>4, <4>1, DiagnosticDelivers
    <3>5. ASSUME event.type \in { "tool_call_identity", "tool_call_name_delta" }
          PROVE  Delivered(k)
      <4>1. Refused(k)
        BY <2>1, <3>5 DEF AgreesAfter
      <4>2. EventOfUnknownCall(k)
        BY <2>3, <3>5, <4>1 DEF Dispatch, Refused
      <4> QED
        BY <1>1, <2>1, <3>0, <4>1, <4>2, UnknownCallDelivers DEF AgreesNow
    <3>6. Delivered(k)
      <4>1. event.type \in { "tool_call_start", "tool_call_identity",
                             "tool_call_name_delta", "tool_call_arguments_delta",
                             "tool_call_end", "provider_diagnostic" }
        BY <2>1 DEF NormalizedEvents
      <4> QED
        BY <3>1, <3>2, <3>3, <3>4, <3>5, <4>1
    <3>7. "E_COORDINATOR_LIMIT_CALLS" \notin BlockingCodes
      BY DEF BlockingCodes, AuthorityProtocolViolationCodes, SdkExecutionObservedCodes,
             ContentFilteredCode
    <3>8. ~Dead' /\ Live'
      BY <1>1, <1>4, <1>9, <3>6, <3>7 DEF Dead, LivePending, Live, Delivered, finishVars
    <3>9. ASSUME NEW j \in SourceKeys  PROVE SdkTidy(j)' /\ AgreesNow(j)'
      <4>1. CASE j = k
        BY <3>6, <4>1 DEF Delivered
      <4>2. CASE j # k
        <5>1. /\ SdkKeyKept(j) /\ isFinished' = isFinished
              /\ Refused(j) => Refused(j)'
          BY <3>6, <4>2 DEF Delivered, finishVars
        <5> QED
          BY <1>1, <1>2, <2>1, <4>2, <5>1, SdkKeptKeyIsTidy, KeptKeyAgrees
      <4> QED
        BY <4>1, <4>2
    <3> QED
      BY <1>3, <2>2, <3>8, <3>9 DEF Told, LiveQuiet
  <2> QED
    BY <1>6, <2>2, <2>3
<1>10. ASSUME NEW reason \in Reasons, EndSaid(reason), Dead', reason # "complete"
       PROVE  Goal
  BY <1>3, <1>10 DEF DiedAsSaid
<1>11. CASE Ending
  <2>1. PICK reason \in Reasons :
          /\ EndSaid(reason)
          /\ \/ emitted = << StreamEndEvent(reason) >>
             \/ /\ emitted = << StreamDiagnosticEvent("E_CONTENT_FILTERED"),
                                StreamEndEvent(reason) >>
                /\ reason # "complete"
    BY <1>11 DEF Ending
  <2>2. CASE /\ reason # "complete"
             /\ emitted = << StreamDiagnosticEvent("E_CONTENT_FILTERED"),
                             StreamEndEvent(reason) >>
    <3>1. Kills(Head(emitted))
      BY <2>2 DEF Kills, StreamDiagnosticEvent, DiagnosticEvent, BlockingCodes,
                  ContentFilteredCode
    <3>2. Dead'
      BY <3>1, SdkDeliveryKills
    <3> QED
      BY <1>10, <2>1, <2>2, <3>2
  <2>3. CASE emitted = << StreamEndEvent(reason) >>
    <3>1. /\ emitted' = << >> /\ PushEnd(reason)
          /\ \A k \in SourceKeys : calls'[k].schemaValid = "none"
      BY <1>1, <2>3 DEF Deliver, StreamEndEvent
    <3>2. CASE ~PushStreamEnd(reason)
      BY <1>4, <1>5, <3>1, <3>2, PushEndMeans
    <3>3. CASE PushStreamEnd(reason)
      <4>1. ~isFinished /\ EndStream(reason)
        BY <3>3 DEF PushStreamEnd, Accepted
      <4>2. isFinished' = TRUE /\ finishedReason' = reason
            /\ streamDiagnostics' = streamDiagnostics
        BY <4>1, EndStreamMeans
      <4>3. CASE reason # "complete"
        BY <1>10, <2>1, <4>2, <4>3 DEF Dead
      <4>4. CASE reason = "complete"
        <5>1. \A k \in SourceKeys :
                /\ Known(k)' = Known(k) /\ SdkDirty(k)' = SdkDirty(k) /\ SdkTidy(k)'
                /\ calls'[k].parser = calls[k].parser /\ calls'[k].ended = calls[k].ended
          BY <1>2, <3>1, <4>1, SdkEndKeepsHistory
        <5>2. \A k \in SourceKeys : Refused(k)' = Refused(k)
          BY <5>1, SdkSameKnown
        <5>3. \A k \in SourceKeys : AgreesNow(k)'
          BY <1>1, <1>11, <5>1, <5>2 DEF Ending, AgreesNow, SdkAgrees
        <5>4. ~Dead'
          BY <1>4, <4>2, <4>4 DEF Dead
        <5>5. Ended'
          BY <1>1, <1>3, <1>11, <2>1, <3>1, <4>2, <5>3 DEF Ending, Ended
        <5> QED
          BY <1>3, <5>1, <5>4, <5>5 DEF Told
      <4> QED
        BY <4>3, <4>4
    <3> QED
      BY <3>2, <3>3
  <2> QED
    BY <2>1, <2>2, <2>3
<1> QED
  BY <1>2, <1>8, <1>9, <1>11

------------------------------------------------------------------------------
(* What the next part of the stream leaves to be told.                      *)

\* The fields of the evidence that a part has not changed, one by one.
LEMMA FieldsKept ==
  ASSUME NEW changed, ShownBut(changed)
  PROVE  /\ "started" \notin changed => evidence'.started = evidence.started
         /\ "text" \notin changed => evidence'.text = evidence.text
         /\ "ends" \notin changed => evidence'.ends = evidence.ends
         /\ "spoiled" \notin changed => evidence'.spoiled = evidence.spoiled
         /\ "fault" \notin changed => evidence'.fault = evidence.fault
         /\ "caller" \notin changed => evidence'.caller = evidence.caller
BY DEF ShownBut, SdkEvidenceFields

\* While the coordinator stands still, so does all that is said of its state.
LEMMA SdkSameCoordinator ==
  ASSUME UNCHANGED vars
  PROVE  /\ Dead' = Dead /\ Starved' = Starved
         /\ isFinished' = isFinished /\ finishedReason' = finishedReason
         /\ calls' = calls
         /\ \A k \in SourceKeys :
              /\ Known(k)' = Known(k) /\ SdkDirty(k)' = SdkDirty(k)
              /\ SdkTidy(k)' = SdkTidy(k) /\ Refused(k)' = Refused(k)
<1>1. /\ streamDiagnostics' = streamDiagnostics /\ isFinished' = isFinished
      /\ finishedReason' = finishedReason /\ calls' = calls
      /\ callDiagnostics' = callDiagnostics
      /\ pendingProtocolDiagnostics' = pendingProtocolDiagnostics
  BY DEF vars, coordinatorVars, diagnosticVars, finishVars
<1> QED
  BY <1>1 DEF Dead, Starved, Known, SdkDirty, SdkTidy, Refused, Collecting

\* Once the stream is over, only a part that says nothing is no fault.
LEMMA OverMeansQuiet ==
  ASSUME SdkTypeOK, SdkPart, Over(evidence), ~evidence'.fault
  PROVE  QuietPart
<1> USE DEF SdkTypeOK
<1>1. ~Shows(SawFault(evidence))
  BY ShowsFault
<1> QED
  BY <1>1 DEF SdkPart, MalformedPart, FinishPart, FatalPart, StartPart, EndPart,
     TextPart, RanPart, CallPart

\* Before that, a fault is what a fatal part says.
LEMMA FaultMeansFatal ==
  ASSUME SdkTypeOK, SdkPart, ~Over(evidence), ~evidence.fault, evidence'.fault
  PROVE  FatalPart
<1> USE DEF SdkTypeOK
<1> DEFINE NoFault == evidence'.fault = evidence.fault
<1>1. ASSUME NEW changed \in { {}, { "spoiled" }, { "started" }, { "text" }, { "ends" } },
             ShownBut(changed)
      PROVE  NoFault
  BY <1>1, FieldsKept
<1>2. ASSUME NEW k \in SourceKeys, Shows(Spoiled(evidence, { k }))  PROVE NoFault
  BY <1>1, <1>2, ShowsSpoiled
<1>3. ASSUME NEW k \in SourceKeys, Shows(SawStart(evidence, k))  PROVE NoFault
  BY <1>1, <1>3, ShowsStart
<1>4. ASSUME NEW k \in SourceKeys, NEW piece \in ArgumentPieces,
             Shows(SawText(evidence, k, piece))
      PROVE  NoFault
  BY <1>1, <1>4, ShowsText
<1>5. ASSUME NEW s \in Scopes, NEW said \in { "end" } \cup SdkFinishReasons,
             Shows(SawEnd(evidence, s, said))
      PROVE  NoFault
  <2>1. Len(evidence.ends[s]) < 2 \/ Len(evidence.ends[s]) > 1
    <3>1. Len(evidence.ends[s]) \in Nat
      BY DEF Evidence, EvidenceOf, SdkEnds, Ends
    <3> QED
      BY <3>1
  <2>2. CASE Len(evidence.ends[s]) < 2
    BY <1>1, <1>5, <2>2, ShowsEnd
  <2>3. CASE Len(evidence.ends[s]) > 1
    BY <1>1, <1>5, <2>3, ShowsThirdEnd
  <2> QED
    BY <2>1, <2>2, <2>3
<1>6. ASSUME Shows(evidence)  PROVE NoFault
  BY <1>1, <1>6, ShowsNothing
<1> HIDE DEF NoFault
<1> USE SdkKeys
<1>7. ASSUME QuietPart \/ MalformedPart  PROVE NoFault
  BY <1>6, <1>7 DEF QuietPart, MalformedPart
<1>8. ASSUME NEW reason \in SdkFinishReasons, FinishPart(reason)  PROVE NoFault
  BY <1>5, <1>8 DEF FinishPart
<1>9. ASSUME NEW k \in SdkInputs, StartPart(k)  PROVE NoFault
  BY <1>2, <1>3, <1>9 DEF StartPart, CallPart
<1>10. ASSUME NEW k \in SdkInputs, EndPart(k)  PROVE NoFault
  BY <1>2, <1>5, <1>10 DEF EndPart, CallPart
<1>11. ASSUME NEW k \in SdkInputs, NEW piece \in ArgumentPieces, TextPart(k, piece)
       PROVE  NoFault
  BY <1>2, <1>4, <1>11 DEF TextPart, CallPart
<1>12. ASSUME NEW k \in Inputs, NEW code \in SdkExecutionObservedCodes, RanPart(k, code)
       PROVE  NoFault
  BY <1>2, <1>6, <1>12 DEF RanPart, CallPart
<1>13. ~NoFault
  BY DEF NoFault
<1> QED
  BY <1>7, <1>8, <1>9, <1>10, <1>11, <1>12, <1>13 DEF SdkPart

\* A fatal part emits something that kills.
LEMMA FatalPartKills ==
  ASSUME FatalPart
  PROVE  emitted' # << >> /\ Kills(Head(emitted'))
<1>1. PICK event \in NormalizedEvents :
        /\ \/ /\ event = StreamEndEvent(event.reason)
              /\ event.reason \in { "provider_error", "cancelled" }
           \/ /\ event = StreamDiagnosticEvent(event.code)
              /\ event.code \in SdkExecutionObservedCodes
                   \cup { "E_PROVIDER_EVENT_IDENTITY_AMBIGUOUS" }
        /\ \/ emitted' = << event >>
           \/ \E code \in SdkExecutionObservedCodes :
                emitted' = << event, StreamDiagnosticEvent(code) >>
  BY DEF FatalPart
<1>2. CASE /\ event = StreamEndEvent(event.reason)
           /\ event.reason \in { "provider_error", "cancelled" }
  <2>1. event.type = "provider_stream_end" /\ event.reason # "complete"
    BY <1>2 DEF StreamEndEvent
  <2> QED
    BY <1>1, <2>1 DEF Kills
<1>3. CASE /\ event = StreamDiagnosticEvent(event.code)
           /\ event.code \in SdkExecutionObservedCodes
                \cup { "E_PROVIDER_EVENT_IDENTITY_AMBIGUOUS" }
  <2>1. event.type = "provider_diagnostic" /\ event.key = NoKey
    BY <1>3 DEF StreamDiagnosticEvent, DiagnosticEvent
  <2>2. event.code \in BlockingCodes
    BY <1>3 DEF BlockingCodes, AuthorityProtocolViolationCodes
  <2> QED
    BY <1>1, <2>1, <2>2 DEF Kills
<1> QED
  BY <1>1, <1>2, <1>3

\* What the stream said of the key j is what it had said before.
SdkSaidKept(j) ==
  /\ j \in evidence'.started <=> j \in evidence.started
  /\ j \in evidence'.spoiled <=> j \in evidence.spoiled
  /\ evidence'.ends[j] = evidence.ends[j] /\ evidence'.text[j] = evidence.text[j]

\* A call of which a part says nothing agrees with its record as before.
LEMMA KeptSayingAgrees ==
  ASSUME UNCHANGED vars, NEW j \in SourceKeys, SdkSaidKept(j), AgreesNow(j)
  PROVE  AgreesNow(j)'
BY SdkSameCoordinator DEF SdkSaidKept, AgreesNow, SdkAgrees

\* Between two parts of a live stream, with what there is to agree on.
Listening ==
  /\ SdkTypeOK /\ TypeOK /\ UNCHANGED vars /\ phase' = phase
  /\ FieldsAgree /\ \A k \in SourceKeys : SdkTidy(k)
  /\ LiveQuiet /\ emitted = << >>

\* A part about the call of k leaves one event about it to be delivered.
LEMMA CallPartTells ==
  ASSUME Listening, NEW k \in SourceKeys, NEW event \in NormalizedEvents,
         event.type # "provider_stream_end", event.key = k, emitted' = << event >>,
         \A j \in SourceKeys \ { k } :
           SdkSaidKept(j) /\ (j \in adapter'.ended <=> j \in adapter.ended),
         adapter'.started = evidence'.started, adapter'.finished = adapter.finished,
         evidence'.ends[Message] = evidence.ends[Message],
         k \in adapter'.ended <=> evidence'.ends[k] # << >>,
         evidence'.ends[k] \in { << >>, << "end" >>, << "end", "end" >> },
         k \notin evidence'.started =>
           evidence'.ends[k] = << >> /\ evidence'.text[k] = "empty",
         AgreesAfter(k, event)'
  PROVE  Told'
<1>1. Live'
  BY SdkSameCoordinator DEF Listening, LiveQuiet, Live
<1>2. \A j \in SourceKeys \ { k } : AgreesNow(j)'
  BY KeptSayingAgrees DEF Listening, LiveQuiet
<1>3. LivePending'
  BY <1>1, <1>2 DEF LivePending
<1>4. FieldsAgree'
  BY DEF Listening, FieldsAgree, SdkSaidKept
<1> QED
  BY <1>3, <1>4, SdkSameCoordinator DEF Listening, Told

\* What each of these parts leaves to be delivered is what it said.
LEMMA StartTells ==
  ASSUME Listening, NEW k \in SdkInputs, StartPart(k), ~Over(evidence)
  PROVE  Told'
<1> DEFINE event == StartEvent(k, Absent, Absent)
<1> USE SdkKeys
<1>1. /\ Shows(IF k \in evidence.started THEN Spoiled(evidence, { k })
                ELSE SawStart(evidence, k))
      /\ adapter' = [ adapter EXCEPT !.started = @ \cup { k } ]
      /\ emitted' = << event >>
  BY DEF StartPart, CallPart
<1>2. /\ event \in NormalizedEvents /\ event.type = "tool_call_start" /\ event.key = k
  BY SdkEventsAreNormalized DEF StartEvent
<1> HIDE DEF event
<1>3. /\ evidence'.started = evidence.started \cup { k }
      /\ evidence'.spoiled = IF k \in evidence.started THEN evidence.spoiled \cup { k }
                             ELSE evidence.spoiled
      /\ evidence'.ends = evidence.ends /\ evidence'.text = evidence.text
  <2>1. CASE k \in evidence.started
    <3>1. ShownBut({ "spoiled" }) /\ evidence'.spoiled = evidence.spoiled \cup { k }
      BY <1>1, <2>1, ShowsSpoiled DEF Listening, SdkTypeOK
    <3> QED
      BY <2>1, <3>1, FieldsKept
  <2>2. CASE k \notin evidence.started
    <3>1. ShownBut({ "started" }) /\ evidence'.started = evidence.started \cup { k }
      BY <1>1, <2>2, ShowsStart DEF Listening, SdkTypeOK
    <3> QED
      BY <2>2, <3>1, FieldsKept
  <2> QED
    BY <2>1, <2>2
<1>4. /\ adapter'.started = adapter.started \cup { k }
      /\ adapter'.ended = adapter.ended /\ adapter'.finished = adapter.finished
  BY <1>1 DEF Listening, SdkTypeOK, SdkFields
<1>5. FieldsAgree /\ AgreesNow(k)
  BY DEF Listening, LiveQuiet
<1>6. AgreesAfter(k, event)'
  <2>1. CASE Refused(k)
    BY <2>1, SdkSameCoordinator DEF Listening, AgreesAfter
  <2>2. CASE SdkAgrees(k, Known(k), SdkDirty(k), calls[k].parser, calls[k].ended)
    <3>1. SdkAgrees(k, TRUE, Known(k) \/ SdkDirty(k), "empty", FALSE)'
      BY <1>3, <1>5, <2>2, SdkSameCoordinator DEF Listening, SdkAgrees, FieldsAgree
    <3> QED
      BY <1>2, <3>1 DEF AgreesAfter
  <2> QED
    BY <1>5, <2>1, <2>2 DEF AgreesNow
<1>7. \A j \in SourceKeys \ { k } :
        SdkSaidKept(j) /\ (j \in adapter'.ended <=> j \in adapter.ended)
  BY <1>3, <1>4 DEF SdkSaidKept
<1>8. /\ adapter'.started = evidence'.started
      /\ k \in adapter'.ended <=> evidence'.ends[k] # << >>
      /\ evidence'.ends[k] \in { << >>, << "end" >>, << "end", "end" >> }
  BY <1>3, <1>4, <1>5 DEF FieldsAgree
<1>9. evidence'.ends[Message] = evidence.ends[Message] /\ k \in evidence'.started
  BY <1>3
<1> QED
  BY <1>1, <1>2, <1>4, <1>6, <1>7, <1>8, <1>9, CallPartTells

\* The facts with which each of these parts starts.
LEMMA ListeningMeans ==
  ASSUME Listening, NEW k \in SourceKeys
  PROVE  /\ evidence \in Evidence /\ adapter \in SdkFields
         /\ FieldsAgree /\ AgreesNow(k)
         /\ calls' = calls /\ Known(k)' = Known(k) /\ SdkDirty(k)' = SdkDirty(k)
         /\ Refused(k) => \A event : AgreesAfter(k, event)'
BY SdkSameCoordinator DEF Listening, LiveQuiet, SdkTypeOK, AgreesAfter

\* A part with a fragment of input leaves the event that tells of it.
LEMMA TextTells ==
  ASSUME Listening, NEW k \in SdkInputs, NEW piece \in ArgumentPieces,
         TextPart(k, piece), ~Over(evidence)
  PROVE  Told'
<1> USE SdkKeys
<1> DEFINE late == k \notin evidence.started \/ evidence.ends[k] # << >>
           told == IF k \notin adapter.started
                   THEN DiagnosticEvent(k, "E_TOOL_ARGUMENTS_BEFORE_START")
                   ELSE IF k \in adapter.ended
                   THEN DiagnosticEvent(k, "E_TOOL_ARGUMENTS_AFTER_END")
                   ELSE ArgumentsEvent(k, piece)
<1>1. /\ Shows(IF late THEN Spoiled(evidence, { k }) ELSE SawText(evidence, k, piece))
      /\ adapter' = adapter /\ emitted' = << told >>
  BY DEF TextPart, CallPart
<1>2. /\ evidence \in Evidence /\ FieldsAgree /\ AgreesNow(k)
      /\ calls' = calls /\ Known(k)' = Known(k) /\ SdkDirty(k)' = SdkDirty(k)
      /\ Refused(k) => \A event : AgreesAfter(k, event)'
  BY ListeningMeans
<1>3. late <=> k \notin adapter.started \/ k \in adapter.ended
  BY <1>2 DEF FieldsAgree
<1>4. PICK event \in NormalizedEvents :
      /\ emitted' = << event >> /\ event.key = k
      /\ late => /\ event.type = "provider_diagnostic"
                 /\ event.code \in AuthorityProtocolViolationCodes
      /\ ~late => event.type = "tool_call_arguments_delta" /\ event.piece = piece
  BY <1>1, <1>3, SdkEventsAreNormalized, SdkCodesNamed
     DEF DiagnosticEvent, ArgumentsEvent, AuthorityProtocolViolationCodes
<1>5. /\ evidence'.started = evidence.started /\ evidence'.ends = evidence.ends
      /\ evidence'.spoiled = IF late THEN evidence.spoiled \cup { k }
                             ELSE evidence.spoiled
      /\ evidence'.text = IF late THEN evidence.text
                          ELSE [ evidence.text EXCEPT
                                   ![k] = Fed(evidence.text[k], piece) ]
  <2>1. CASE late
    <3>1. ShownBut({ "spoiled" }) /\ evidence'.spoiled = evidence.spoiled \cup { k }
      BY <1>1, <1>2, <2>1, ShowsSpoiled
    <3> QED
      BY <2>1, <3>1, FieldsKept
  <2>2. CASE ~late
    <3>1. /\ ShownBut({ "text" })
          /\ evidence'.text = [ evidence.text EXCEPT ![k] = Fed(evidence.text[k], piece) ]
      BY <1>1, <1>2, <2>2, ShowsText
    <3> QED
      BY <2>2, <3>1, FieldsKept
  <2> QED
    BY <2>1, <2>2
<1>6. evidence.text \in Texts
  BY <1>2 DEF Evidence, EvidenceOf, SdkEnds, Ends
<1>7. AgreesAfter(k, event)'
  <2>1. CASE SdkAgrees(k, Known(k), SdkDirty(k), calls[k].parser, calls[k].ended)
    <3>1. CASE late
      <4>1. SdkAgrees(k, Known(k), TRUE, calls[k].parser, calls[k].ended)'
        BY <1>2, <1>5, <2>1, <3>1 DEF SdkAgrees
      <4> QED
        BY <1>4, <3>1, <4>1 DEF AgreesAfter
    <3>2. CASE ~late
      <4>1. evidence'.text[k] = Fed(evidence.text[k], piece)
        BY <1>5, <1>6, <3>2 DEF Texts
      <4>2. SdkAgrees(k, Known(k), SdkDirty(k), Fed(calls[k].parser, piece), calls[k].ended)'
        BY <1>2, <1>5, <2>1, <3>2, <4>1 DEF SdkAgrees
      <4> QED
        BY <1>4, <3>2, <4>2 DEF AgreesAfter
    <3> QED
      BY <3>1, <3>2
  <2> QED
    BY <1>2, <2>1 DEF AgreesNow
<1>8. \A j \in SourceKeys \ { k } :
        SdkSaidKept(j) /\ (j \in adapter'.ended <=> j \in adapter.ended)
  BY <1>1, <1>5, <1>6 DEF SdkSaidKept, Texts
<1>9. /\ adapter'.started = evidence'.started /\ adapter'.finished = adapter.finished
      /\ k \in adapter'.ended <=> evidence'.ends[k] # << >>
      /\ evidence'.ends[k] \in { << >>, << "end" >>, << "end", "end" >> }
      /\ evidence'.ends[Message] = evidence.ends[Message]
  BY <1>1, <1>2, <1>5 DEF FieldsAgree
<1>10. k \notin evidence'.started => evidence'.ends[k] = << >> /\ evidence'.text[k] = "empty"
  BY <1>2, <1>5 DEF FieldsAgree
<1>11. event.type # "provider_stream_end"
  BY <1>4
<1> HIDE DEF late
<1> QED
  BY <1>1, <1>4, <1>7, <1>8, <1>9, <1>10, <1>11, CallPartTells

\* A part that ends an input leaves the event that tells of it.
LEMMA EndTells ==
  ASSUME Listening, NEW k \in SdkInputs, EndPart(k), ~Over(evidence)
  PROVE  Told'
<1> USE SdkKeys
<1> DEFINE first == k \in adapter.started \ adapter.ended
           told == IF k \notin adapter.started
                   THEN DiagnosticEvent(k, "E_TOOL_END_BEFORE_START")
                   ELSE IF k \in adapter.ended
                   THEN DiagnosticEvent(k, "E_DUPLICATE_TOOL_END")
                   ELSE EndEvent(k)
<1>1. /\ Shows(IF k \notin evidence.started THEN Spoiled(evidence, { k })
               ELSE SawEnd(evidence, k, "end"))
      /\ adapter' = IF first THEN [ adapter EXCEPT !.ended = @ \cup { k } ] ELSE adapter
      /\ emitted' = << told >>
  BY DEF EndPart, CallPart
<1>2. /\ evidence \in Evidence /\ adapter \in SdkFields /\ FieldsAgree /\ AgreesNow(k)
      /\ calls' = calls /\ Known(k)' = Known(k) /\ SdkDirty(k)' = SdkDirty(k)
      /\ Refused(k) => \A event : AgreesAfter(k, event)'
  BY ListeningMeans
<1>3. PICK event \in NormalizedEvents :
      /\ emitted' = << event >> /\ event.key = k
      /\ ~first => /\ event.type = "provider_diagnostic"
                   /\ event.code \in AuthorityProtocolViolationCodes
      /\ first => event.type = "tool_call_end"
  BY <1>1, SdkEventsAreNormalized, SdkCodesNamed
     DEF DiagnosticEvent, EndEvent, AuthorityProtocolViolationCodes
<1>4. /\ adapter'.started = adapter.started /\ adapter'.finished = adapter.finished
      /\ adapter'.ended = IF first THEN adapter.ended \cup { k } ELSE adapter.ended
  BY <1>1, <1>2 DEF SdkFields
<1>5. /\ evidence.started = adapter.started
      /\ k \in adapter.ended <=> evidence.ends[k] # << >>
      /\ evidence.ends[k] \in { << >>, << "end" >>, << "end", "end" >> }
      /\ k \notin evidence.started => evidence.ends[k] = << >> /\ evidence.text[k] = "empty"
      /\ evidence.ends \in SdkEnds /\ k \in Scopes /\ Message # k
  BY <1>2 DEF FieldsAgree, Evidence, EvidenceOf, SdkEnds, Ends
<1>6. /\ evidence'.started = evidence.started /\ evidence'.text = evidence.text
      /\ evidence'.spoiled = IF k \in evidence.started THEN evidence.spoiled
                             ELSE evidence.spoiled \cup { k }
      /\ \A s \in Scopes \ { k } : evidence'.ends[s] = evidence.ends[s]
      /\ first => evidence'.ends[k] = << "end" >>
      /\ k \in evidence.started /\ ~first => evidence'.ends[k] = << "end", "end" >>
      /\ k \notin evidence.started => evidence'.ends[k] = evidence.ends[k]
  <2>1. CASE k \notin evidence.started
    <3>1. ShownBut({ "spoiled" }) /\ evidence'.spoiled = evidence.spoiled \cup { k }
      BY <1>1, <1>2, <2>1, ShowsSpoiled
    <3> QED
      BY <1>5, <2>1, <3>1, FieldsKept
  <2>2. CASE k \in evidence.started /\ evidence.ends[k] = << "end", "end" >>
    <3>1. Len(<< "end", "end" >>) > 1
      OBVIOUS
    <3>2. ShownBut({})
      BY <1>1, <1>2, <1>5, <2>2, <3>1, ShowsThirdEnd
    <3> QED
      BY <1>5, <2>2, <3>2, FieldsKept
  <2>3. CASE k \in evidence.started /\ evidence.ends[k] # << "end", "end" >>
    <3>1. Len(<< >>) < 2 /\ Len(<< "end" >>) < 2
      OBVIOUS
    <3>2. /\ ShownBut({ "ends" })
          /\ evidence'.ends =
               [ evidence.ends EXCEPT ![k] = Append(evidence.ends[k], "end") ]
      BY <1>1, <1>2, <1>5, <2>3, <3>1, ShowsEnd
    <3>3. /\ Append(<< >>, "end") = << "end" >>
          /\ Append(<< "end" >>, "end") = << "end", "end" >>
      BY Appended
    <3>4. /\ \A s \in Scopes \ { k } : evidence'.ends[s] = evidence.ends[s]
          /\ evidence'.ends[k] = Append(evidence.ends[k], "end")
      BY <1>5, <3>2 DEF SdkEnds, Ends
    <3>5. /\ first => evidence'.ends[k] = << "end" >>
          /\ ~first => evidence'.ends[k] = << "end", "end" >>
      <4>1. first <=> evidence.ends[k] = << >>
        BY <1>5, <2>3
      <4> HIDE DEF first
      <4> QED
        BY <1>5, <2>3, <3>3, <3>4, <4>1
    <3>6. /\ evidence'.started = evidence.started /\ evidence'.text = evidence.text
          /\ evidence'.spoiled = evidence.spoiled
      BY <3>2, FieldsKept
    <3> HIDE DEF first
    <3> QED
      BY <2>3, <3>4, <3>5, <3>6
  <2> QED
    BY <2>1, <2>2, <2>3
<1>7. /\ Len(<< >>) = 0 /\ Len(<< "end" >>) = 1 /\ Len(<< "end", "end" >>) = 2
      /\ << "end" >> # << >> /\ << "end", "end" >> # << >>
  OBVIOUS
<1>8. AgreesAfter(k, event)'
  <2>1. CASE SdkAgrees(k, Known(k), SdkDirty(k), calls[k].parser, calls[k].ended)
    <3>1. CASE ~first
      <4>1. SdkAgrees(k, Known(k), TRUE, calls[k].parser, calls[k].ended)'
        BY <1>2, <1>6, <1>7, <2>1, <3>1 DEF SdkAgrees
      <4> QED
        BY <1>3, <3>1, <4>1 DEF AgreesAfter
    <3>2. CASE first
      <4>1. evidence.ends[k] = << >>
        BY <1>5, <3>2
      <4>2. k \in evidence.started
        BY <1>5, <3>2
      <4> HIDE DEF first
      <4>3. /\ evidence'.ends[k] = << "end" >> /\ evidence'.spoiled = evidence.spoiled
            /\ evidence'.started = evidence.started /\ evidence'.text = evidence.text
        BY <1>6, <3>2, <4>2
      <4>4. SdkDirty(k) <=> k \in evidence.spoiled
        BY <1>7, <2>1, <4>1 DEF SdkAgrees
      <4>5. SdkAgrees(k, Known(k), SdkDirty(k), calls[k].parser, TRUE)'
        BY <1>2, <1>7, <2>1, <4>3, <4>4 DEF SdkAgrees
      <4> QED
        BY <1>3, <3>2, <4>5 DEF AgreesAfter
    <3> QED
      BY <3>1, <3>2
  <2> QED
    BY <1>2, <2>1 DEF AgreesNow
<1>9. \A j \in SourceKeys \ { k } :
        SdkSaidKept(j) /\ (j \in adapter'.ended <=> j \in adapter.ended)
  BY <1>4, <1>6 DEF SdkSaidKept
<1>10. /\ adapter'.started = evidence'.started /\ adapter'.finished = adapter.finished
       /\ k \in adapter'.ended <=> evidence'.ends[k] # << >>
       /\ evidence'.ends[k] \in { << >>, << "end" >>, << "end", "end" >> }
       /\ evidence'.ends[Message] = evidence.ends[Message]
       /\ k \notin evidence'.started =>
            evidence'.ends[k] = << >> /\ evidence'.text[k] = "empty"
  BY <1>4, <1>5, <1>6, <1>7
<1>11. event.type # "provider_stream_end"
  BY <1>3
<1> HIDE DEF first
<1> QED
  BY <1>1, <1>3, <1>8, <1>9, <1>10, <1>11, CallPartTells

\* A part that says a tool ran leaves the event that tells of it.
LEMMA RanTells ==
  ASSUME Listening, NEW k \in Inputs, NEW code \in SdkExecutionObservedCodes,
         RanPart(k, code), ~Over(evidence)
  PROVE  Told'
<1> USE SdkKeys
<1> DEFINE event == DiagnosticEvent(k, code)
<1>1. /\ Shows(IF k \in evidence.started THEN Spoiled(evidence, { k }) ELSE evidence)
      /\ adapter' = adapter /\ emitted' = << event >>
  BY DEF RanPart, CallPart
<1>2. /\ evidence \in Evidence /\ FieldsAgree /\ AgreesNow(k)
      /\ calls' = calls /\ Known(k)' = Known(k) /\ SdkDirty(k)' = SdkDirty(k)
      /\ Refused(k) => AgreesAfter(k, event)'
  BY ListeningMeans
<1>3. /\ event \in NormalizedEvents /\ event.key = k
      /\ event.type = "provider_diagnostic" /\ event.code = code
      /\ code \notin AuthorityProtocolViolationCodes
  BY SdkEventsAreNormalized, SdkCodesNamed
     DEF DiagnosticEvent, AuthorityProtocolViolationCodes, SdkExecutionObservedCodes
<1> HIDE DEF event
<1>4. /\ evidence'.started = evidence.started /\ evidence'.text = evidence.text
      /\ evidence'.ends = evidence.ends
      /\ evidence'.spoiled = IF k \in evidence.started THEN evidence.spoiled \cup { k }
                             ELSE evidence.spoiled
  <2>1. CASE k \in evidence.started
    <3>1. ShownBut({ "spoiled" }) /\ evidence'.spoiled = evidence.spoiled \cup { k }
      BY <1>1, <1>2, <2>1, ShowsSpoiled
    <3> QED
      BY <2>1, <3>1, FieldsKept
  <2>2. CASE k \notin evidence.started
    BY <1>1, <1>2, <2>2, ShowsNothing, FieldsKept
  <2> QED
    BY <2>1, <2>2
<1>5. AgreesAfter(k, event)'
  <2>1. CASE SdkAgrees(k, Known(k), SdkDirty(k), calls[k].parser, calls[k].ended)
    <3>1. SdkAgrees(k, Known(k), SdkDirty(k) \/ Known(k) \/ FALSE, calls[k].parser,
                 calls[k].ended)'
      BY <1>2, <1>4, <2>1 DEF SdkAgrees
    <3> QED
      BY <1>3, <3>1 DEF AgreesAfter
  <2> QED
    BY <1>2, <2>1 DEF AgreesNow
<1>6. \A j \in SourceKeys \ { k } :
        SdkSaidKept(j) /\ (j \in adapter'.ended <=> j \in adapter.ended)
  BY <1>1, <1>4 DEF SdkSaidKept
<1>7. /\ adapter'.started = evidence'.started /\ adapter'.finished = adapter.finished
      /\ k \in adapter'.ended <=> evidence'.ends[k] # << >>
      /\ evidence'.ends[k] \in { << >>, << "end" >>, << "end", "end" >> }
      /\ evidence'.ends[Message] = evidence.ends[Message]
      /\ k \notin evidence'.started =>
           evidence'.ends[k] = << >> /\ evidence'.text[k] = "empty"
  BY <1>1, <1>2, <1>4 DEF FieldsAgree
<1> QED
  BY <1>1, <1>3, <1>5, <1>6, <1>7, CallPartTells

LEMMA QuietTells ==
  ASSUME Listening, QuietPart
  PROVE  Told'
<1>1. ShownBut({}) /\ adapter' = adapter /\ emitted' = << >>
  BY ShowsNothing DEF Listening, SdkTypeOK, QuietPart
<1>2. /\ evidence'.started = evidence.started /\ evidence'.text = evidence.text
      /\ evidence'.ends = evidence.ends /\ evidence'.spoiled = evidence.spoiled
  BY <1>1, FieldsKept
<1>3. \A j \in SourceKeys : AgreesNow(j)'
  BY <1>2, KeptSayingAgrees DEF Listening, LiveQuiet, SdkSaidKept
<1>4. Live' /\ FieldsAgree'
  BY <1>1, <1>2, SdkSameCoordinator DEF Listening, LiveQuiet, Live, FieldsAgree
<1> QED
  BY <1>1, <1>3, <1>4, SdkSameCoordinator DEF Listening, Told, LiveQuiet

\* A malformed part is told to the whole stream, and to no call.
LEMMA MalformedTells ==
  ASSUME Listening, MalformedPart, ~Over(evidence)
  PROVE  Told'
<1>1. /\ ShownBut({}) /\ adapter' = adapter
      /\ emitted' = << StreamDiagnosticEvent("E_PROVIDER_EVENT_MALFORMED") >>
  BY ShowsNothing DEF Listening, SdkTypeOK, MalformedPart
<1>2. /\ evidence'.started = evidence.started /\ evidence'.text = evidence.text
      /\ evidence'.ends = evidence.ends /\ evidence'.spoiled = evidence.spoiled
  BY <1>1, FieldsKept
<1>3. \A j \in SourceKeys : AgreesNow(j)'
  BY <1>2, KeptSayingAgrees DEF Listening, LiveQuiet, SdkSaidKept
<1>4. Live' /\ FieldsAgree'
  BY <1>1, <1>2, SdkSameCoordinator DEF Listening, LiveQuiet, Live, FieldsAgree
<1> QED
  BY <1>1, <1>3, <1>4, SdkSameCoordinator DEF Listening, Told, LiveQuiet

\* The part that finishes the stream leaves the end that tells of its reason.
LEMMA FinishTells ==
  ASSUME Listening, NEW reason \in SdkFinishReasons, FinishPart(reason), ~Over(evidence)
  PROVE  Told'
<1> USE SdkKeys
<1> DEFINE mapped == MapSdkFinishReason(reason)
<1>1. /\ Shows(SawEnd(evidence, Message, reason))
      /\ adapter' = [ adapter EXCEPT !.finished = TRUE ]
      /\ emitted' = IF reason = "content-filter"
                    THEN << StreamDiagnosticEvent("E_CONTENT_FILTERED"),
                            StreamEndEvent(mapped) >>
                    ELSE << StreamEndEvent(mapped) >>
  BY DEF FinishPart
<1>2. /\ mapped \in Reasons
      /\ reason = "content-filter" => mapped # "complete"
  BY SdkAssumption DEF MapSdkFinishReason
<1> HIDE DEF mapped
<1>3. /\ evidence \in Evidence /\ adapter \in SdkFields /\ FieldsAgree /\ Live
      /\ evidence.ends[Message] = << >> /\ evidence.ends \in SdkEnds
      /\ \A j \in SourceKeys : AgreesNow(j)
  BY DEF Listening, LiveQuiet, Live, SdkTypeOK, Evidence, EvidenceOf, SdkEnds, Ends
<1>4. /\ evidence'.started = evidence.started /\ evidence'.text = evidence.text
      /\ evidence'.spoiled = evidence.spoiled
      /\ evidence'.ends = [ evidence.ends EXCEPT ![Message] = << reason >> ]
  <2>1. Len(<< >>) < 2 /\ Append(<< >>, reason) = << reason >>
    BY Appended
  <2>2. /\ ShownBut({ "ends" })
        /\ evidence'.ends = [ evidence.ends EXCEPT
                                ![Message] = Append(evidence.ends[Message], reason) ]
    BY <1>1, <1>3, <2>1, ShowsEnd
  <2> QED
    BY <1>3, <2>1, <2>2, FieldsKept
<1>5. /\ evidence'.ends[Message] = << reason >>
      /\ \A j \in SourceKeys : evidence'.ends[j] = evidence.ends[j]
  BY <1>3, <1>4 DEF SdkEnds, Ends
<1>6. \A j \in SourceKeys : AgreesNow(j)'
  BY <1>3, <1>4, <1>5, KeptSayingAgrees DEF Listening, SdkSaidKept
<1>7. /\ adapter'.started = adapter.started /\ adapter'.ended = adapter.ended
      /\ adapter'.finished
  BY <1>1, <1>3 DEF SdkFields
<1>8. FieldsAgree'
  BY <1>3, <1>4, <1>5, <1>7 DEF FieldsAgree
<1>9. EndSaid(mapped)'
  BY <1>5 DEF EndSaid, mapped
<1>10. ~isFinished'
  BY <1>3, SdkSameCoordinator DEF Live, Listening
<1>11. Ending'
  BY <1>1, <1>2, <1>6, <1>7, <1>9, <1>10 DEF Ending
<1> QED
  BY <1>8, <1>11, SdkSameCoordinator DEF Listening, Told

------------------------------------------------------------------------------
(* The invariant is kept.                                                   *)

\* An end that was said is still the end after a part that says nothing.
LEMMA QuietKeeps ==
  ASSUME SdkTypeOK, QuietPart, UNCHANGED << vars, phase >>, emitted = << >>
  PROVE  /\ \A reason : EndSaid(reason) => EndSaid(reason)'
         /\ evidence'.fault = evidence.fault
         /\ Told /\ Ended => Told'
<1>1. ShownBut({}) /\ adapter' = adapter /\ emitted' = << >>
  BY ShowsNothing DEF SdkTypeOK, QuietPart
<1>2. /\ evidence'.started = evidence.started /\ evidence'.text = evidence.text
      /\ evidence'.ends = evidence.ends /\ evidence'.spoiled = evidence.spoiled
      /\ evidence'.fault = evidence.fault /\ evidence'.caller = evidence.caller
  BY <1>1, FieldsKept
<1>3. \A reason : EndSaid(reason) => EndSaid(reason)'
  BY <1>2 DEF EndSaid
<1>4. ASSUME Told, Ended  PROVE Told'
  <2>1. \A j \in SourceKeys : AgreesNow(j)'
    BY <1>2, <1>4, KeptSayingAgrees DEF Ended, SdkSaidKept
  <2>2. FieldsAgree'
    BY <1>1, <1>2, <1>4 DEF Told, FieldsAgree
  <2>3. Ended'
    BY <1>1, <1>3, <1>4, <2>1, SdkSameCoordinator DEF Ended
  <2> QED
    BY <1>4, <2>2, <2>3, SdkSameCoordinator DEF Told
<1> QED
  BY <1>2, <1>3, <1>4

\* Any part of the stream keeps the invariant.
LEMMA PartKeeps ==
  ASSUME SdkInv, TypeOK, SdkEvent
  PROVE  FaultKills' /\ ToldAsSaid' /\ DeadAsSaid'
<1>1. /\ SdkPart /\ emitted = << >> /\ phase # "finishing"
      /\ UNCHANGED vars /\ phase' = phase
  BY SdkEventIsPart
<1>2. SdkTypeOK /\ FaultKills /\ ToldAsSaid /\ DeadAsSaid
  BY DEF SdkInv
<1>3. /\ Dead' = Dead /\ Starved' = Starved /\ isFinished' = isFinished
  BY <1>1, SdkSameCoordinator
<1>4. evidence.fault => Dead /\ evidence'.fault
  BY <1>1, <1>2, SomethingShown DEF FaultKills
<1>5. \/ evidence.ends[Message] # << >> \/ phase = "finished" <=> Over(evidence)
  BY DEF Over
<1>6. ASSUME NEW reason, EndSaid(reason)  PROVE Over(evidence)
  <2>1. ASSUME NEW said, evidence.ends[Message] = << said >>  PROVE Over(evidence)
    <3>1. << said >> # << >>
      OBVIOUS
    <3> QED
      BY <2>1, <3>1 DEF Over
  <2>2. phase \in { "streaming", "finishing", "finished" }
    BY <1>2 DEF SdkTypeOK
  <2> QED
    BY <1>1, <1>6, <2>1, <2>2 DEF EndSaid, Over
<1>7. ASSUME ~evidence.fault, ~Dead  PROVE Told /\ (LiveQuiet \/ Ended)
  <2>1. Told
    BY <1>2, <1>7 DEF ToldAsSaid
  <2>2. ~LivePending /\ ~Ending
    <3>1. \A x, y : << x >> # << >> /\ << x, y >> # << >>
      OBVIOUS
    <3> QED
      BY <1>1, <3>1 DEF LivePending, Ending
  <2> QED
    BY <2>1, <2>2 DEF Told
<1>8. LiveQuiet => ~Over(evidence)
  BY DEF LiveQuiet, Live, Over
<1>9. Ended => Over(evidence)
  BY <1>6 DEF Ended
<1>10. FaultKills'
  <2> SUFFICES ASSUME evidence'.fault, ~Dead
               PROVE  emitted' # << >> /\ (isFinished \/ Kills(Head(emitted')))
    BY <1>3 DEF FaultKills, Kills
  <2>1. ~evidence.fault
    BY <1>4
  <2>2. CASE LiveQuiet
    <3>1. FatalPart
      BY <1>1, <1>2, <1>8, <2>1, <2>2, FaultMeansFatal
    <3> QED
      BY <3>1, FatalPartKills
  <2>3. CASE Ended
    <3>1. ~QuietPart
      BY <1>1, <1>2, <2>1, QuietKeeps
    <3>2. emitted' # << >>
      <4>1. \A x, y : << x >> # << >> /\ << x, y >> # << >>
        OBVIOUS
      <4> QED
        BY <1>1, <3>1, <4>1 DEF SdkPart, MalformedPart, FinishPart, FatalPart, StartPart,
           EndPart, TextPart, RanPart, CallPart
    <3> QED
      BY <2>3, <3>2 DEF Ended
  <2> QED
    BY <1>7, <2>1, <2>2, <2>3
<1>11. ToldAsSaid'
  <2> SUFFICES ASSUME ~evidence'.fault, ~Dead  PROVE Told'
    BY <1>3 DEF ToldAsSaid
  <2>1. ~evidence.fault /\ Told
    BY <1>4, <1>7
  <2>2. CASE Ended
    <3>1. QuietPart
      BY <1>1, <1>2, <1>9, <2>2, OverMeansQuiet
    <3> QED
      BY <1>1, <1>2, <2>1, <2>2, <3>1, QuietKeeps
  <2>3. CASE LiveQuiet
    <3>1. Listening /\ ~Over(evidence)
      BY <1>1, <1>2, <1>8, <2>1, <2>3 DEF Listening, Told
    <3>2. ~FatalPart
      BY <1>2, ShowsFault DEF FatalPart, SdkTypeOK
    <3> QED
      BY <1>1, <3>1, <3>2, QuietTells, MalformedTells, FinishTells, StartTells, TextTells,
         EndTells, RanTells DEF SdkPart
  <2> QED
    BY <1>7, <2>1, <2>2, <2>3
<1>12. DeadAsSaid'
  <2> SUFFICES ASSUME ~evidence'.fault, Dead  PROVE DiedAsSaid'
    BY <1>3 DEF DeadAsSaid
  <2>1. DiedAsSaid
    BY <1>2, <1>4 DEF DeadAsSaid
  <2>2. CASE Starved
    BY <1>3, <2>2 DEF DiedAsSaid
  <2>3. ASSUME NEW reason \in Reasons \ { "complete" }, EndSaid(reason)
        PROVE  DiedAsSaid'
    <3>1. QuietPart
      BY <1>1, <1>2, <1>6, <2>3, OverMeansQuiet
    <3> QED
      BY <1>1, <1>2, <2>3, <3>1, QuietKeeps DEF DiedAsSaid
  <2> QED
    BY <2>1, <2>2, <2>3 DEF DiedAsSaid
<1> QED
  BY <1>10, <1>11, <1>12

\* So does a delivery.
LEMMA DeliverKeeps ==
  ASSUME SdkInv, TypeOK, Deliver
  PROVE  FaultKills' /\ ToldAsSaid' /\ DeadAsSaid'
<1>1. /\ evidence' = evidence /\ phase' = phase /\ emitted # << >>
  BY DEF Deliver
<1>2. SdkTypeOK /\ FaultKills /\ ToldAsSaid /\ DeadAsSaid
  BY DEF SdkInv
<1>3. Push
  BY <1>2, DeliverIsPush DEF SdkTypeOK
<1>4. Dead => Dead'
  BY <1>3, DeadStays
<1>5. FaultKills'
  BY <1>1, <1>2, <1>4, SdkDeliveryKills DEF FaultKills
<1>6. ToldAsSaid'
  BY <1>1, <1>2, <1>4, DeliverTells DEF ToldAsSaid
<1>7. ASSUME DiedAsSaid  PROVE DiedAsSaid'
  <2>1. Starved => Starved'
    BY <1>3, PushGrows DEF Starved
  <2>2. \A reason : EndSaid(reason) => EndSaid(reason)'
    BY <1>1 DEF EndSaid
  <2> QED
    BY <1>7, <2>1, <2>2 DEF DiedAsSaid
<1>8. DeadAsSaid'
  BY <1>1, <1>2, <1>7, DeliverTells DEF DeadAsSaid, ToldAsSaid
<1> QED
  BY <1>5, <1>6, <1>8

\* And the caller's finish().
LEMMA CallerFinishKeeps ==
  ASSUME SdkInv, TypeOK, SdkGuardFinish
  PROVE  FaultKills' /\ ToldAsSaid' /\ DeadAsSaid'
<1>0. PICK reason \in Reasons :
        reason = IF evidence'.caller = Absent THEN "unknown" ELSE evidence'.caller
  BY FinishMeans, GuardAssumption DEF SdkInv
<1>1. /\ emitted = << >> /\ phase = "streaming" /\ phase' = "finishing"
      /\ UNCHANGED vars
      /\ adapter' = [ adapter EXCEPT !.finished = TRUE ]
      /\ evidence'.caller \in CallerReasons
      /\ \A field \in (SdkEvidenceFields \cup { "count" }) \ { "caller" } :
           evidence'[field] = evidence[field]
      /\ emitted' = IF adapter.finished THEN << >> ELSE << StreamEndEvent(reason) >>
  BY <1>0, FinishMeans DEF SdkInv
<1>2. /\ evidence'.started = evidence.started /\ evidence'.text = evidence.text
      /\ evidence'.ends = evidence.ends /\ evidence'.spoiled = evidence.spoiled
      /\ evidence'.fault = evidence.fault
  BY <1>1 DEF SdkEvidenceFields
<1>3. /\ adapter'.started = adapter.started /\ adapter'.ended = adapter.ended
      /\ adapter'.finished = TRUE
  BY <1>1 DEF SdkInv, SdkTypeOK, SdkFields
<1>4. SdkTypeOK /\ FaultKills /\ ToldAsSaid /\ DeadAsSaid
  BY DEF SdkInv
<1>5. Dead' = Dead /\ Starved' = Starved /\ isFinished' = isFinished
  BY <1>1, SdkSameCoordinator
<1>6. \A said : EndSaid(said) => EndSaid(said)'
  BY <1>1, <1>2 DEF EndSaid
<1>7. FaultKills'
  BY <1>1, <1>2, <1>4, <1>5 DEF FaultKills
<1>8. DeadAsSaid'
  BY <1>2, <1>4, <1>5, <1>6 DEF DeadAsSaid, DiedAsSaid
<1>9. ASSUME Told  PROVE Told'
  <2>1. LiveQuiet \/ Ended
    <3>1. \A x, y : << x >> # << >> /\ << x, y >> # << >>
      OBVIOUS
    <3> QED
      BY <1>1, <1>9, <3>1 DEF Told, LivePending, Ending
  <2>2. \A j \in SourceKeys : AgreesNow(j)'
    <3>1. \A j \in SourceKeys : AgreesNow(j)
      BY <2>1 DEF LiveQuiet, Ended
    <3> QED
      BY <1>1, <1>2, <3>1, KeptSayingAgrees DEF SdkSaidKept
  <2>3. FieldsAgree'
    BY <1>2, <1>3, <1>9 DEF Told, FieldsAgree
  <2>4. CASE LiveQuiet
    <3>1. EndSaid(reason)'
      BY <1>0, <1>1, <1>2, <2>4 DEF EndSaid, LiveQuiet, Live
    <3>2. /\ emitted' = << StreamEndEvent(reason) >> /\ ~isFinished'
      BY <1>1, <1>5, <2>4 DEF LiveQuiet, Live
    <3>3. Ending'
      BY <1>3, <2>2, <3>1, <3>2 DEF Ending
    <3> QED
      BY <1>1, <1>9, <2>3, <3>3, SdkSameCoordinator DEF Told
  <2>5. CASE Ended
    <3>1. Ended'
      BY <1>1, <1>3, <1>6, <2>2, <2>5, SdkSameCoordinator DEF Ended
    <3> QED
      BY <1>1, <1>9, <2>3, <3>1, SdkSameCoordinator DEF Told
  <2> QED
    BY <2>1, <2>4, <2>5
<1>10. ToldAsSaid'
  BY <1>2, <1>4, <1>5, <1>9 DEF ToldAsSaid
<1> QED
  BY <1>7, <1>8, <1>10

\* And the end of finish(), which finds nothing left to tell.
LEMMA FinishGateKeeps ==
  ASSUME SdkInv, TypeOK, FinishGate
  PROVE  FaultKills' /\ ToldAsSaid' /\ DeadAsSaid'
<1>1. /\ emitted = << >> /\ emitted' = << >> /\ phase = "finishing" /\ phase' = "finished"
      /\ adapter' = adapter /\ evidence' = evidence /\ Finish
  BY DEF FinishGate
<1>2. SdkTypeOK /\ FaultKills /\ ToldAsSaid /\ DeadAsSaid
  BY DEF SdkInv
<1>3. Dead => Dead'
  BY <1>1, DeadStays
<1>4. PICK given \in Reasons : FinishCoordinator(given)
  BY <1>1 DEF Finish
<1>5. \A reason : EndSaid(reason) => EndSaid(reason)'
  BY <1>1 DEF EndSaid
<1>6. Starved => Starved'
  BY <1>4, FinishCoordinatorEffect DEF Starved
<1>7. FaultKills'
  BY <1>1, <1>2, <1>3 DEF FaultKills
<1>8. ASSUME Told, ~Dead  PROVE ~Dead' /\ Told'
  <2>1. Ended
    <3>1. \A x, y : << x >> # << >> /\ << x, y >> # << >>
      OBVIOUS
    <3> QED
      BY <1>1, <1>8, <3>1 DEF Told, LiveQuiet, LivePending, Live, Ending
  <2>2. UNCHANGED coordinatorVars
    BY <1>4, <2>1 DEF FinishCoordinator, Ended
  <2>3. /\ streamDiagnostics' = streamDiagnostics /\ isFinished' = isFinished
        /\ finishedReason' = finishedReason /\ calls' = calls
        /\ callDiagnostics' = callDiagnostics
        /\ pendingProtocolDiagnostics' = pendingProtocolDiagnostics
    BY <2>2 DEF coordinatorVars, diagnosticVars, finishVars
  <2>4. \A j \in SourceKeys : SdkKeyKept(j)
    BY <2>3 DEF SdkKeyKept
  <2>5. \A j \in SourceKeys : Known(j)' = Known(j) /\ (SdkTidy(j) => SdkTidy(j)')
    BY <2>3, <2>4, SdkKeptKeyIsTidy
  <2>6. \A j \in SourceKeys : AgreesNow(j)'
    <3>1. \A j \in SourceKeys : Refused(j)' = Refused(j)
      BY <2>5, SdkSameKnown
    <3> QED
      BY <1>1, <2>1, <2>3, <2>4, <3>1, KeptKeyAgrees DEF Ended
  <2>7. Ended'
    BY <1>1, <1>5, <2>1, <2>3, <2>6 DEF Ended
  <2>8. FieldsAgree'
    BY <1>1, <1>8 DEF Told, FieldsAgree
  <2> QED
    BY <1>8, <2>3, <2>5, <2>7, <2>8 DEF Told, Dead
<1>9. ToldAsSaid'
  BY <1>1, <1>2, <1>3, <1>8 DEF ToldAsSaid
<1>10. DeadAsSaid'
  BY <1>1, <1>2, <1>5, <1>6, <1>8 DEF DeadAsSaid, ToldAsSaid, DiedAsSaid
<1> QED
  BY <1>7, <1>9, <1>10

\* Nothing happened.
LEMMA StutteringKeeps ==
  ASSUME SdkInv, UNCHANGED guardVars
  PROVE  FaultKills' /\ ToldAsSaid' /\ DeadAsSaid'
<1>1. /\ UNCHANGED vars /\ phase' = phase /\ emitted' = emitted
      /\ adapter' = adapter /\ evidence' = evidence
  BY DEF guardVars
<1>2. /\ Dead' = Dead /\ Starved' = Starved
      /\ isFinished' = isFinished /\ finishedReason' = finishedReason
      /\ calls' = calls
      /\ \A k \in SourceKeys : /\ Known(k)' = Known(k) /\ SdkDirty(k)' = SdkDirty(k)
                               /\ SdkTidy(k)' = SdkTidy(k) /\ Refused(k)' = Refused(k)
  BY <1>1, SdkSameCoordinator
<1>3. FaultKills'
  BY <1>1, <1>2 DEF SdkInv, FaultKills, Kills
<1>4. \A reason : EndSaid(reason)' = EndSaid(reason)
  BY <1>1 DEF EndSaid
<1>5. DeadAsSaid'
  BY <1>1, <1>2, <1>4 DEF SdkInv, DeadAsSaid, DiedAsSaid
<1>6. ASSUME Told  PROVE Told'
  <2>1. FieldsAgree'
    BY <1>1, <1>6 DEF Told, FieldsAgree
  <2>2. \A j \in SourceKeys : AgreesNow(j) => AgreesNow(j)'
    BY <1>1, KeptSayingAgrees DEF SdkSaidKept
  <2>3. Live => Live'
    BY <1>1, <1>2 DEF Live
  <2>4. LiveQuiet => LiveQuiet'
    BY <1>1, <2>2, <2>3 DEF LiveQuiet
  <2>5. LivePending => LivePending'
    <3>1. ASSUME NEW event, NEW k \in SourceKeys, AgreesAfter(k, event)
          PROVE  AgreesAfter(k, event)'
      BY <1>1, <1>2, <3>1 DEF AgreesAfter, SdkAgrees
    <3> QED
      BY <1>1, <2>2, <2>3, <3>1 DEF LivePending
  <2>6. Ending => Ending'
    BY <1>1, <1>2, <1>4, <2>2 DEF Ending
  <2>7. Ended => Ended'
    BY <1>1, <1>2, <1>4, <2>2 DEF Ended
  <2> QED
    BY <1>2, <1>6, <2>1, <2>4, <2>5, <2>6, <2>7 DEF Told
<1>7. ToldAsSaid'
  BY <1>1, <1>2, <1>6 DEF SdkInv, ToldAsSaid
<1> QED
  BY <1>3, <1>5, <1>7

\* At the start nothing was said and nothing is held.
LEMMA SdkInvInitially ==
  ASSUME GuardInit, adapter = NewAiSdk
  PROVE  SdkInv
<1>1. SdkTypeOK /\ Init
  BY SdkInitially
<1>2. /\ emitted = << >> /\ phase = "streaming" /\ evidence = NoEvidence
      /\ adapter.started = {} /\ adapter.ended = {} /\ adapter.finished = FALSE
  BY DEF GuardInit, NewAiSdk
<1>3. /\ evidence.started = {} /\ evidence.spoiled = {} /\ evidence.fault = FALSE
      /\ \A k \in SourceKeys : evidence.text[k] = "empty" /\ evidence.ends[k] = << >>
      /\ evidence.ends[Message] = << >>
  BY <1>2, SdkKeys DEF NoEvidence
<1>4. /\ ~isFinished /\ streamDiagnostics = {}
      /\ \A k \in SourceKeys :
           /\ calls[k] = NoCall /\ callDiagnostics[k] = {}
           /\ pendingProtocolDiagnostics[k] = {}
  BY <1>1 DEF Init, CoordinatorInit
<1>5. NoCall.status = "absent" /\ NoCall.parser = "empty" /\ NoCall.ended = FALSE
  BY DEF NoCall, NewCall
<1>6. ~Dead
  BY <1>4 DEF Dead
<1>7. \A k \in SourceKeys : ~Known(k) /\ ~SdkDirty(k) /\ SdkTidy(k)
  BY <1>4, <1>5 DEF Known, SdkDirty, SdkTidy
<1>8. \A k \in SourceKeys : AgreesNow(k)
  <2>1. Len(<< >>) = 0
    OBVIOUS
  <2> QED
    BY <1>3, <1>4, <1>5, <1>7, <2>1 DEF AgreesNow, SdkAgrees
<1>9. FieldsAgree /\ LiveQuiet
  BY <1>2, <1>3, <1>4, <1>8 DEF FieldsAgree, LiveQuiet, Live
<1> QED
  BY <1>1, <1>3, <1>6, <1>7, <1>9
     DEF SdkInv, FaultKills, ToldAsSaid, DeadAsSaid, Told

\* The invariant holds of the guard.
THEOREM SdkInvariant == SdkSpec => [](SdkInv /\ GateInv /\ HistoryInv)
<1>1. GuardInit /\ adapter = NewAiSdk => SdkInv
  BY SdkInvInitially
<1>2. ASSUME SdkInv, GateInv, [GuardNext \/ SdkNext]_guardVars
      PROVE  SdkInv'
  <2>1. TypeOK
    BY <1>2 DEF GateInv, CoordinatorInv
  <2>2. SdkTypeOK'
    BY <1>2, SdkStepImplements DEF SdkInv
  <2>3. FaultKills' /\ ToldAsSaid' /\ DeadAsSaid'
    BY <1>2, <2>1, PartKeeps, DeliverKeeps, CallerFinishKeeps, FinishGateKeeps,
       StutteringKeeps DEF GuardNext, SdkNext
  <2> QED
    BY <2>2, <2>3 DEF SdkInv
<1> QED
  BY <1>1, <1>2, SdkImplementsGate, GateInvariant, HistoryInvariant, PTL DEF SdkSpec

------------------------------------------------------------------------------
(* What may run.                                                            *)

\* Between two calls of the guard, a finished coordinator that nothing killed was told
\* all that the stream said.
LEMMA QuietAndFinished ==
  ASSUME SdkInv, emitted = << >>, isFinished, ~Dead
  PROVE  ~evidence.fault /\ Told /\ Ended
<1>1. ~evidence.fault /\ Told
  BY DEF SdkInv, FaultKills, ToldAsSaid
<1>2. \A x, y : << x >> # << >> /\ << x, y >> # << >>
  OBVIOUS
<1> QED
  BY <1>1, <1>2 DEF Told, LiveQuiet, LivePending, Live, Ending

\* An end that maps to "complete" is one of these, and no other end is.
LEMMA EndSaidMeans ==
  ASSUME NEW reason, EndSaid(reason)
  PROVE  reason = "complete" <=>
           \/ evidence.ends[Message] \in { << "stop" >>, << "tool-calls" >> }
           \/ evidence.ends[Message] = << >> /\ evidence.caller = "complete"
<1>1. ASSUME NEW said, evidence.ends[Message] = << said >>,
             reason = MapSdkFinishReason(said)
      PROVE  reason = "complete" <=>
               \/ evidence.ends[Message] \in { << "stop" >>, << "tool-calls" >> }
               \/ evidence.ends[Message] = << >> /\ evidence.caller = "complete"
  <2>1. /\ << said >> # << >>
        /\ << said >> \in { << "stop" >>, << "tool-calls" >> } <=>
             said \in { "stop", "tool-calls" }
    OBVIOUS
  <2>2. reason = "complete" <=> said \in { "stop", "tool-calls" }
    BY <1>1 DEF MapSdkFinishReason
  <2> QED
    BY <1>1, <2>1, <2>2
<1>2. ASSUME evidence.ends[Message] = << >>, phase # "streaming",
             reason = IF evidence.caller = Absent THEN "unknown" ELSE evidence.caller
      PROVE  reason = "complete" <=>
               \/ evidence.ends[Message] \in { << "stop" >>, << "tool-calls" >> }
               \/ evidence.ends[Message] = << >> /\ evidence.caller = "complete"
  <2>1. << "stop" >> # << >> /\ << "tool-calls" >> # << >>
    OBVIOUS
  <2> QED
    BY <1>2, <2>1, GuardAssumption
<1> QED
  BY <1>1, <1>2 DEF EndSaid

\* What runs is clean, at any time at which no call of the guard is under way.
LEMMA ExecutableIsClean ==
  ASSUME SdkInv, GateInv, emitted = << >>, NEW k \in SourceKeys, Executable(k)
  PROVE  SdkClean(k) /\ WithinLimits(k)
<1>1. ~Dead /\ ~Starved /\ Known(k) /\ isFinished
  BY DeadRunsNothing
<1>2. ~evidence.fault /\ Told /\ Ended
  BY <1>1, QuietAndFinished
<1>3. /\ calls[k].status = "complete" /\ calls[k].executable /\ finishedReason = "complete"
      /\ calls[k].ended /\ calls[k].parser \in { "closed", "scalar" }
      /\ callDiagnostics[k] \cap AuthorityProtocolViolationCodes = {}
  BY ExecutableMeans DEF GateInv, CoordinatorInv, CompleteIsEarned, Earned
<1>4. ~SdkDirty(k)
  BY <1>1, <1>3 DEF SdkDirty
<1>5. SdkAgrees(k, Known(k), SdkDirty(k), calls[k].parser, calls[k].ended)
  BY <1>1, <1>2 DEF Ended, AgreesNow, Refused
<1>6. /\ k \in evidence.started /\ k \notin evidence.spoiled
      /\ ~(Len(evidence.ends[k]) > 1) /\ evidence.ends[k] # << >>
      /\ evidence.text[k] = calls[k].parser
  BY <1>1, <1>3, <1>4, <1>5 DEF SdkAgrees
<1>7. evidence.ends[k] = << "end" >>
  <2>1. evidence.ends[k] \in { << >>, << "end" >>, << "end", "end" >> }
    BY <1>2 DEF Told, FieldsAgree
  <2>2. Len(<< "end", "end" >>) > 1
    OBVIOUS
  <2> QED
    BY <1>6, <2>1, <2>2
<1>8. evidence.text[k] = "closed"
  <2>1. evidence.text[k] \in TextStates
    BY DEF SdkInv, SdkTypeOK, Evidence, EvidenceOf, SdkEnds, Ends, Texts
  <2> QED
    BY <1>3, <1>6, <2>1 DEF TextStates
<1>9. EndSaid("complete")
  BY <1>2, <1>3 DEF Ended
<1>10. \/ evidence.ends[Message] \in { << "stop" >>, << "tool-calls" >> }
       \/ evidence.ends[Message] = << >> /\ evidence.caller = "complete"
  BY <1>9, EndSaidMeans
<1> QED
  BY <1>1, <1>2, <1>6, <1>7, <1>8, <1>10 DEF SdkClean, WithinLimits

\* And what is clean runs, within the limits, when the guard has finished.
LEMMA CleanIsExecutable ==
  ASSUME SdkInv, GateInv, HistoryInv, Settled, gateFinished,
         NEW k \in SourceKeys, SdkClean(k), WithinLimits(k)
  PROVE  Executable(k)
<1>1. /\ k \in evidence.started /\ ~evidence.fault /\ k \notin evidence.spoiled
      /\ evidence.text[k] = "closed" /\ evidence.ends[k] = << "end" >>
      /\ \/ evidence.ends[Message] \in { << "stop" >>, << "tool-calls" >> }
         \/ evidence.ends[Message] = << >> /\ evidence.caller = "complete"
  BY DEF SdkClean
<1>2. ~Dead
  BY <1>1, EndSaidMeans DEF SdkInv, DeadAsSaid, DiedAsSaid, WithinLimits
<1>3. isFinished /\ emitted = << >>
  BY DEF GateInv, FinishSettles, Settled
<1>4. Told /\ Ended
  BY <1>2, <1>3, QuietAndFinished
<1>5. finishedReason = "complete"
  BY <1>1, <1>4, EndSaidMeans DEF Ended
<1>6. SdkAgrees(k, Known(k), SdkDirty(k), calls[k].parser, calls[k].ended) /\ SdkTidy(k)
  BY <1>4 DEF Told, Ended, AgreesNow, Refused, WithinLimits
<1>7. ~SdkDirty(k) /\ calls[k].parser = "closed" /\ calls[k].ended
  <2>1. Len(<< "end" >>) = 1 /\ << "end" >> # << >>
    OBVIOUS
  <2> QED
    BY <1>1, <1>6, <2>1 DEF SdkAgrees
<1>8. /\ calls[k].name = 1 /\ calls[k].schemaValid = "none" /\ callDiagnostics[k] = {}
  BY <1>6, <1>7 DEF SdkTidy, WithinLimits
<1>9. calls[k].status = "complete" /\ calls[k].executable
  BY <1>3, <1>5, <1>7, <1>8 DEF HistoryInv, CleanHistory
<1>10. streamEndReason = "complete"
  BY <1>5 DEF GateInv, CapturedOrLimited, WithinLimits, Starved
<1>11. streamDiagnostics \cap BlockingCodes = {}
  BY <1>2 DEF Dead
<1>12. /\ ~SdkExecutionEvidence(calls[k], streamDiagnostics)
       /\ ~ResourceLimitEvidence(calls[k], callDiagnostics[k], streamDiagnostics)
       /\ ContentFilteredCode \notin streamDiagnostics
       /\ ProjectionOnlyCode \notin callDiagnostics[k]
       /\ ~ProtocolViolationEvidence(callDiagnostics[k], streamDiagnostics)
  BY <1>7, <1>8, <1>9, <1>11
     DEF SdkExecutionEvidence, ResourceLimitEvidence, ProtocolViolationEvidence,
         BlockingCodes
<1>13. DecideByStatus(calls[k]) = ExecuteReason
  BY <1>8, <1>9 DEF DecideByStatus
<1> QED
  BY <1>10, <1>12, <1>13 DEF Executable, Decision, Decide, WithinLimits

\* At any time at which no call of the guard is under way, what may run is clean:
\* also before finish(), and after late parts.
RunsOnlyClean ==
  emitted = << >> => \A k \in SourceKeys : Executable(k) => SdkClean(k)

\* When the guard has finished, exactly the clean calls may run, but for those that
\* the limits of the coordinator refused, and for all of them if the limit of
\* events was met.
RunsExactlyClean ==
  Settled => \A k \in SourceKeys : Executable(k) <=> SdkClean(k) /\ WithinLimits(k)

\* Once the guard has no event left to push, a call that may run is clean: no start,
\* fragment, end, result, fault or end of the stream was lost on the way to the gate.
THEOREM SdkRunsOnlyClean == SdkSpec => []RunsOnlyClean
<1>1. SdkInv /\ GateInv => RunsOnlyClean
  BY ExecutableIsClean DEF RunsOnlyClean
<1> QED
  BY <1>1, SdkInvariant, PTL

\* finish() of the guard finishes its gate before it returns.
THEOREM SdkPhaseFinishes == SdkSpec => []PhaseFinishes
<1>1. GuardInit => PhaseFinishes
  BY DEF GuardInit, PhaseFinishes
<1>2. ASSUME PhaseFinishes, [GuardNext \/ SdkNext]_guardVars
      PROVE  PhaseFinishes'
  <2>1. CASE Deliver \/ SdkEvent \/ UNCHANGED guardVars
    <3>1. UNCHANGED << phase, gateFinished >>
      <4>1. CASE SdkEvent
        BY <4>1, SdkEventIsPart DEF vars, gateVars
      <4>2. CASE Deliver \/ UNCHANGED guardVars
        BY <4>2 DEF Deliver, guardVars, vars, gateVars
      <4> QED
        BY <2>1, <4>1, <4>2
    <3> QED
      BY <1>2, <3>1 DEF PhaseFinishes
  <2>2. CASE FinishGate
    BY <2>2 DEF FinishGate, Finish, PhaseFinishes
  <2>3. CASE SdkGuardFinish
    <3>1. phase' # "finished"
      BY <2>3 DEF SdkGuardFinish, FinishAdapter
    <3> QED
      BY <3>1 DEF PhaseFinishes
  <2> QED
    BY <1>2, <2>1, <2>2, <2>3 DEF GuardNext, SdkNext
<1> QED
  BY <1>1, <1>2, PTL DEF SdkSpec

\* finish() lets a call run exactly if it is clean and within the coordinator's limits.
THEOREM SdkRunsExactlyClean == SdkSpec => []RunsExactlyClean
<1>1. SdkInv /\ GateInv /\ HistoryInv /\ PhaseFinishes => RunsExactlyClean
  BY ExecutableIsClean, CleanIsExecutable DEF RunsExactlyClean, PhaseFinishes, Settled
<1> QED
  BY <1>1, SdkInvariant, SdkPhaseFinishes, PTL

------------------------------------------------------------------------------
(* Where there is room, no limit is met.                                    *)

\* The limits of the coordinator leave room for the calls and the events of the
\* stream: each raw event becomes two normalized ones at most, and finish() one.
SdkRoom ==
  /\ MaxRawEvents["ai-sdk"] \in Nat
  /\ MaxToolCalls >= Cardinality(SdkInputs)
  /\ MaxNormalizedEvents >= 2 * MaxRawEvents["ai-sdk"] + 1

\* The events of this adapter start only calls that may have input, and report only
\* its own codes.
OwnEvent(event) ==
  /\ event.type = "tool_call_start" => event.key \in SdkInputs
  /\ event.type = "provider_diagnostic" => event.code \in SdkCodes

FinishEvents == IF phase = "streaming" THEN 0 ELSE 1

RoomInv ==
  /\ evidence.count <= MaxRawEvents["ai-sdk"]
  /\ eventsProcessed + Len(emitted) <= 2 * evidence.count + FinishEvents
  /\ \A i \in 1 .. Len(emitted) : OwnEvent(emitted[i])
  /\ evidence.started \subseteq SdkInputs
  /\ \A k \in SourceKeys : Known(k) => k \in SdkInputs
  /\ ~Starved

\* A part emits only such events, and announces only such calls.
LEMMA PartHasRoom ==
  ASSUME SdkTypeOK, SdkPart, evidence.started \subseteq SdkInputs
  PROVE  /\ \A i \in 1 .. Len(emitted') : OwnEvent(emitted'[i])
         /\ evidence'.started \subseteq SdkInputs
<1> USE DEF SdkTypeOK
<1> DEFINE Goal == \A i \in 1 .. Len(emitted') : OwnEvent(emitted'[i])
<1>1. ASSUME NEW event, NEW next, OwnEvent(event), OwnEvent(next),
             emitted' = << event >> \/ emitted' = << event, next >>
      PROVE  Goal
  <2>1. /\ Len(<< event >>) = 1 /\ << event >>[1] = event
        /\ Len(<< event, next >>) = 2
        /\ << event, next >>[1] = event /\ << event, next >>[2] = next
    OBVIOUS
  <2>2. CASE emitted' = << event >>
    BY <1>1, <2>1, <2>2
  <2>3. CASE emitted' = << event, next >>
    <3>1. \A i \in 1 .. 2 : i = 1 \/ i = 2
      OBVIOUS
    <3> QED
      BY <1>1, <2>1, <2>3, <3>1
  <2> QED
    BY <1>1, <2>2, <2>3
<1>2. ASSUME NEW event, OwnEvent(event), emitted' = << event >>  PROVE Goal
  BY <1>1, <1>2
<1>3. /\ \A k \in SdkInputs : OwnEvent(StartEvent(k, Absent, Absent))
      /\ \A k : OwnEvent(EndEvent(k))
      /\ \A k, piece : OwnEvent(ArgumentsEvent(k, piece))
      /\ \A k \in SourceKeys, code \in SdkCodes : OwnEvent(DiagnosticEvent(k, code))
      /\ \A code \in SdkCodes : OwnEvent(StreamDiagnosticEvent(code))
      /\ \A reason : OwnEvent(StreamEndEvent(reason))
  BY DEF OwnEvent, StartEvent, EndEvent, ArgumentsEvent, DiagnosticEvent,
         StreamDiagnosticEvent, StreamEndEvent
<1> HIDE DEF Goal
<1> USE SdkKeys, SdkCodesNamed
<1>4. Goal
  <2>1. CASE QuietPart
    <3>1. \A i \in 1 .. Len(<< >>) : FALSE
      OBVIOUS
    <3> QED
      BY <2>1, <3>1 DEF QuietPart, Goal
  <2>2. ASSUME MalformedPart  PROVE Goal
    BY <1>1, <1>3, <2>2 DEF MalformedPart
  <2>3. ASSUME NEW reason \in SdkFinishReasons, FinishPart(reason)  PROVE Goal
    BY <1>1, <1>3, <2>3 DEF FinishPart
  <2>4. ASSUME FatalPart  PROVE Goal
    BY <1>1, <1>3, <2>4 DEF FatalPart
  <2>5. ASSUME NEW k \in SdkInputs, StartPart(k)  PROVE Goal
    BY <1>2, <1>3, <2>5 DEF StartPart, CallPart
  <2>6. ASSUME NEW k \in SdkInputs, EndPart(k)  PROVE Goal
    <3> DEFINE event == IF k \notin adapter.started
                        THEN DiagnosticEvent(k, "E_TOOL_END_BEFORE_START")
                        ELSE IF k \in adapter.ended
                        THEN DiagnosticEvent(k, "E_DUPLICATE_TOOL_END")
                        ELSE EndEvent(k)
    <3>1. /\ OwnEvent(DiagnosticEvent(k, "E_TOOL_END_BEFORE_START"))
          /\ OwnEvent(DiagnosticEvent(k, "E_DUPLICATE_TOOL_END"))
          /\ OwnEvent(EndEvent(k))
      BY <1>3
    <3>2. OwnEvent(event)
      BY <3>1
    <3>3. emitted' = << event >>
      BY <2>6 DEF EndPart, CallPart
    <3> HIDE DEF event
    <3> QED
      BY <1>2, <3>2, <3>3
  <2>7. ASSUME NEW k \in SdkInputs, NEW piece \in ArgumentPieces, TextPart(k, piece)
        PROVE  Goal
    <3> DEFINE event == IF k \notin adapter.started
                        THEN DiagnosticEvent(k, "E_TOOL_ARGUMENTS_BEFORE_START")
                        ELSE IF k \in adapter.ended
                        THEN DiagnosticEvent(k, "E_TOOL_ARGUMENTS_AFTER_END")
                        ELSE ArgumentsEvent(k, piece)
    <3>1. /\ OwnEvent(DiagnosticEvent(k, "E_TOOL_ARGUMENTS_BEFORE_START"))
          /\ OwnEvent(DiagnosticEvent(k, "E_TOOL_ARGUMENTS_AFTER_END"))
          /\ OwnEvent(ArgumentsEvent(k, piece))
      BY <1>3
    <3>2. OwnEvent(event)
      BY <3>1
    <3>3. emitted' = << event >>
      BY <2>7 DEF TextPart, CallPart
    <3> HIDE DEF event
    <3> QED
      BY <1>2, <3>2, <3>3
  <2>8. ASSUME NEW k \in Inputs, NEW code \in SdkExecutionObservedCodes, RanPart(k, code)
        PROVE  Goal
    BY <1>2, <1>3, <2>8 DEF RanPart, CallPart
  <2> QED
    BY <2>1, <2>2, <2>3, <2>4, <2>5, <2>6, <2>7, <2>8 DEF SdkPart
<1>5. evidence'.started \subseteq SdkInputs
  <2> DEFINE Few == evidence'.started \subseteq SdkInputs
  <2>1. ASSUME NEW changed, ShownBut(changed), "started" \notin changed  PROVE Few
    BY <2>1, FieldsKept
  <2>2. ASSUME Shows(evidence)  PROVE Few
    BY <2>1, <2>2, ShowsNothing
  <2>3. ASSUME Shows(SawFault(evidence))  PROVE Few
    BY <2>1, <2>3, ShowsFault
  <2>4. ASSUME NEW k \in SourceKeys, Shows(Spoiled(evidence, { k }))  PROVE Few
    BY <2>1, <2>4, ShowsSpoiled
  <2>5. ASSUME NEW k \in SdkInputs, Shows(SawStart(evidence, k))  PROVE Few
    BY <2>5, ShowsStart
  <2>6. ASSUME NEW k \in SourceKeys, NEW piece \in ArgumentPieces,
               Shows(SawText(evidence, k, piece))
        PROVE  Few
    BY <2>1, <2>6, ShowsText
  <2>7. ASSUME NEW s \in Scopes, NEW said \in { "end" } \cup SdkFinishReasons,
               Shows(SawEnd(evidence, s, said))
        PROVE  Few
    <3>1. Len(evidence.ends[s]) < 2 \/ Len(evidence.ends[s]) > 1
      <4>1. Len(evidence.ends[s]) \in Nat
        BY DEF Evidence, EvidenceOf, SdkEnds, Ends
      <4> QED
        BY <4>1
    <3>2. CASE Len(evidence.ends[s]) < 2
      BY <2>1, <2>7, <3>2, ShowsEnd
    <3>3. CASE Len(evidence.ends[s]) > 1
      BY <2>1, <2>7, <3>3, ShowsThirdEnd
    <3> QED
      BY <3>1, <3>2, <3>3
  <2> HIDE DEF Few
  <2>8. ASSUME QuietPart \/ MalformedPart  PROVE Few
    BY <2>2, <2>3, <2>8 DEF QuietPart, MalformedPart
  <2>9. ASSUME NEW reason \in SdkFinishReasons, FinishPart(reason)  PROVE Few
    BY <2>3, <2>7, <2>9 DEF FinishPart
  <2>10. ASSUME FatalPart  PROVE Few
    BY <2>3, <2>10 DEF FatalPart
  <2>11. ASSUME NEW k \in SdkInputs, StartPart(k)  PROVE Few
    BY <2>3, <2>4, <2>5, <2>11 DEF StartPart, CallPart
  <2>12. ASSUME NEW k \in SdkInputs, EndPart(k)  PROVE Few
    BY <2>3, <2>4, <2>7, <2>12 DEF EndPart, CallPart
  <2>13. ASSUME NEW k \in SdkInputs, NEW piece \in ArgumentPieces, TextPart(k, piece)
         PROVE  Few
    BY <2>3, <2>4, <2>6, <2>13 DEF TextPart, CallPart
  <2>14. ASSUME NEW k \in Inputs, NEW code \in SdkExecutionObservedCodes, RanPart(k, code)
         PROVE  Few
    BY <2>2, <2>3, <2>4, <2>14 DEF RanPart, CallPart
  <2>15. Few
    BY <2>8, <2>9, <2>10, <2>11, <2>12, <2>13, <2>14 DEF SdkPart
  <2> QED
    BY <2>15 DEF Few
<1> QED
  BY <1>4, <1>5 DEF Goal

\* Pushing an event into the gate leaves the room that is needed.
LEMMA SdkDeliverHasRoom ==
  ASSUME SdkRoom, SdkTypeOK, TypeOK, RoomInv, Deliver
  PROVE  RoomInv'
<1> DEFINE event == Head(emitted)
           limit == "E_COORDINATOR_LIMIT_EVENTS"
           Goal == /\ eventsProcessed' \in { eventsProcessed, eventsProcessed + 1 }
                   /\ limit \notin streamDiagnostics'
                   /\ \A k \in SourceKeys : Known(k)' => k \in SdkInputs
<1>1. /\ emitted # << >> /\ emitted' = Tail(emitted)
      /\ evidence' = evidence /\ phase' = phase
  BY DEF Deliver
<1>2. /\ Len(emitted) \in Nat \ {0} /\ Len(emitted') = Len(emitted) - 1
      /\ \A i \in 1 .. Len(emitted') : emitted'[i] = emitted[i + 1]
      /\ event = emitted[1] /\ event \in NormalizedEvents
  BY <1>1 DEF SdkTypeOK, EmittedOK
<1>3. /\ OwnEvent(event) /\ limit \notin streamDiagnostics
      /\ \A k \in SourceKeys : Known(k) => k \in SdkInputs
  BY <1>2 DEF RoomInv, Starved
<1>4. eventsProcessed \in Nat /\ evidence.count \in Nat /\ FinishEvents \in 0 .. 1
  BY CoordinatorAssumption DEF TypeOK, SdkTypeOK, Evidence, EvidenceOf, SdkEnds, Ends, FinishEvents
<1>5. ~PushOverLimit
  <2>1. /\ eventsProcessed + Len(emitted) <= 2 * evidence.count + FinishEvents
        /\ evidence.count <= MaxRawEvents["ai-sdk"]
        /\ MaxNormalizedEvents >= 2 * MaxRawEvents["ai-sdk"] + 1
        /\ MaxRawEvents["ai-sdk"] \in Nat
    BY DEF RoomInv, SdkRoom
  <2>2. eventsProcessed < MaxNormalizedEvents
    BY <1>2, <1>4, <2>1, CoordinatorAssumption
  <2> QED
    BY <1>4, <2>2, CoordinatorAssumption DEF PushOverLimit
<1>6. ASSUME NEW code, code # limit, RejectedPush(code)  PROVE Goal
  BY <1>3, <1>4, <1>6 DEF RejectedPush, Known
<1>7. ASSUME event.type # "provider_stream_end", Dispatch(event)  PROVE Goal
  <2>1. limit \notin SdkCodes
    BY DEF SdkCodes
  <2> QED
    BY <1>2, <1>3, <1>4, <1>7, <2>1, DispatchAdds DEF OwnEvent
<1>8. ASSUME NEW reason \in Reasons, PushStreamEnd(reason)  PROVE Goal
  <2>1. EndStream(reason) /\ eventsProcessed' = eventsProcessed + 1
    BY <1>8 DEF PushStreamEnd, Accepted
  <2>2. \A k \in SourceKeys : Known(k)' => Known(k)
    BY <2>1, EndStreamKnows
  <2>3. streamDiagnostics' = streamDiagnostics
    BY <2>1 DEF EndStream
  <2> HIDE DEF EndStream
  <2> QED
    BY <1>3, <1>4, <2>1, <2>2, <2>3
<1>9. ASSUME PushAfterStreamEnd  PROVE Goal
  BY <1>6, <1>9 DEF PushAfterStreamEnd
<1> HIDE DEF Goal
<1>10. ASSUME event.type # "provider_stream_end"  PROVE Goal
  <2>1. Dispatch(event) \/ PushRejected
    BY <1>10 DEF Deliver
  <2> QED
    BY <1>5, <1>7, <1>9, <1>10, <2>1 DEF PushRejected
<1>11. ASSUME event.type = "provider_stream_end"  PROVE Goal
  <2>1. PushEnd(event.reason) /\ event.reason \in Reasons
    BY <1>2, <1>11, NormalizedEvent DEF Deliver
  <2> QED
    BY <1>5, <1>6, <1>8, <1>9, <2>1 DEF PushEnd, PushConflictingEnd
<1>12. Goal
  BY <1>10, <1>11
<1>13. FinishEvents' = FinishEvents
  BY <1>1 DEF FinishEvents
<1>14. eventsProcessed' + Len(emitted') <= 2 * evidence'.count + FinishEvents'
  <2>1. /\ eventsProcessed' \in { eventsProcessed, eventsProcessed + 1 }
        /\ evidence'.count = evidence.count
        /\ eventsProcessed + Len(emitted) <= 2 * evidence.count + FinishEvents
    BY <1>1, <1>12 DEF Goal, RoomInv
  <2> QED
    BY <1>2, <1>4, <1>13, <2>1
<1>15. \A i \in 1 .. Len(emitted') : OwnEvent(emitted'[i])
  <2> SUFFICES ASSUME NEW i \in 1 .. Len(emitted')  PROVE OwnEvent(emitted'[i])
    OBVIOUS
  <2>1. i + 1 \in 1 .. Len(emitted) /\ emitted'[i] = emitted[i + 1]
    BY <1>2
  <2> QED
    BY <2>1 DEF RoomInv
<1> QED
  BY <1>1, <1>12, <1>14, <1>15 DEF Goal, RoomInv, Starved

\* No step of the guard uses up the room.
LEMMA RoomKept ==
  ASSUME SdkRoom, SdkTypeOK, TypeOK, RoomInv, GuardNext \/ SdkNext \/ UNCHANGED guardVars
  PROVE  RoomInv'
<1>1. CASE Deliver
  BY <1>1, SdkDeliverHasRoom
<1>2. CASE FinishGate
  <2>1. /\ emitted = << >> /\ emitted' = << >> /\ phase = "finishing"
        /\ phase' = "finished" /\ evidence' = evidence
    BY <1>2 DEF FinishGate
  <2>2. PICK reason \in Reasons : FinishCoordinator(reason)
    BY <1>2 DEF FinishGate, Finish
  <2>3. /\ eventsProcessed' = eventsProcessed /\ streamDiagnostics' = streamDiagnostics
        /\ \A k \in SourceKeys : Known(k)' => Known(k)
    <3>1. CASE UNCHANGED coordinatorVars
      BY <3>1 DEF coordinatorVars, diagnosticVars, Known
    <3>2. CASE EndStream(reason) /\ UNCHANGED eventsProcessed
      BY <3>2, EndStreamKnows DEF EndStream
    <3> QED
      BY <2>2, <3>1, <3>2 DEF FinishCoordinator
  <2>4. FinishEvents' = FinishEvents
    BY <2>1 DEF FinishEvents
  <2> QED
    BY <2>1, <2>3, <2>4 DEF RoomInv, Starved
<1>3. CASE SdkEvent
  <2>1. /\ SdkPart /\ emitted = << >> /\ UNCHANGED vars /\ phase' = phase
        /\ evidence.count < MaxRawEvents["ai-sdk"]
    BY <1>3, SdkEventIsPart DEF SdkTypeOK, SdkFields
  <2>2. /\ evidence'.count = evidence.count + 1 /\ Len(emitted') <= 2
        /\ Len(emitted) = 0 /\ Len(emitted') \in Nat
    <3>1. Len(<< >>) = 0
      OBVIOUS
    <3> QED
      BY <2>1, <3>1, SomethingShown, PartEmits DEF EmittedOK
  <2>3. /\ \A i \in 1 .. Len(emitted') : OwnEvent(emitted'[i])
        /\ evidence'.started \subseteq SdkInputs
    BY <2>1, PartHasRoom DEF RoomInv
  <2>4. /\ eventsProcessed' = eventsProcessed /\ FinishEvents' = FinishEvents
        /\ Starved' = Starved /\ \A k \in SourceKeys : Known(k)' = Known(k)
    BY <2>1, SdkSameCoordinator DEF vars, coordinatorVars, FinishEvents
  <2>5. /\ eventsProcessed \in Nat /\ evidence.count \in Nat /\ FinishEvents \in 0 .. 1
        /\ MaxRawEvents["ai-sdk"] \in Nat
    BY CoordinatorAssumption DEF TypeOK, SdkTypeOK, Evidence, EvidenceOf, SdkEnds, Ends, FinishEvents, SdkRoom
  <2>6. evidence'.count <= MaxRawEvents["ai-sdk"]
    BY <2>1, <2>2, <2>5
  <2>7. eventsProcessed' + Len(emitted') <= 2 * evidence'.count + FinishEvents'
    <3>1. eventsProcessed + Len(emitted) <= 2 * evidence.count + FinishEvents
      BY DEF RoomInv
    <3> QED
      BY <2>2, <2>4, <2>5, <3>1
  <2> QED
    BY <2>3, <2>4, <2>6, <2>7 DEF RoomInv
<1>4. CASE SdkGuardFinish
  <2> DEFINE reason == IF evidence'.caller = Absent THEN "unknown" ELSE evidence'.caller
  <2>1. /\ emitted = << >> /\ phase = "streaming" /\ phase' = "finishing"
        /\ UNCHANGED vars
        /\ evidence'.count = evidence.count /\ evidence'.started = evidence.started
        /\ emitted' \in { << >>, << StreamEndEvent(reason) >> }
    BY <1>4, FinishMeans DEF SdkEvidenceFields
  <2> HIDE DEF reason
  <2>2. /\ Len(<< >>) = 0 /\ Len(<< StreamEndEvent(reason) >>) = 1
        /\ << StreamEndEvent(reason) >>[1] = StreamEndEvent(reason)
    OBVIOUS
  <2>3. OwnEvent(StreamEndEvent(reason))
    BY DEF OwnEvent, StreamEndEvent
  <2>4. Len(emitted) = 0 /\ Len(emitted') \in 0 .. 1
    BY <2>1, <2>2
  <2>5. \A i \in 1 .. Len(emitted') : OwnEvent(emitted'[i])
    <3>1. CASE emitted' = << >>
      BY <2>2, <3>1
    <3>2. CASE emitted' = << StreamEndEvent(reason) >>
      <4>1. \A i \in 1 .. 1 : i = 1
        OBVIOUS
      <4> QED
        BY <2>2, <2>3, <3>2, <4>1
    <3> QED
      BY <2>1, <3>1, <3>2
  <2>6. /\ eventsProcessed' = eventsProcessed /\ FinishEvents = 0 /\ FinishEvents' = 1
        /\ Starved' = Starved /\ \A k \in SourceKeys : Known(k)' = Known(k)
    BY <2>1, SdkSameCoordinator DEF vars, coordinatorVars, FinishEvents
  <2>7. eventsProcessed \in Nat /\ evidence.count \in Nat
    BY CoordinatorAssumption DEF TypeOK, SdkTypeOK, Evidence, EvidenceOf, SdkEnds, Ends
  <2>8. eventsProcessed' + Len(emitted') <= 2 * evidence'.count + FinishEvents'
    <3>1. eventsProcessed + Len(emitted) <= 2 * evidence.count + FinishEvents
      BY DEF RoomInv
    <3>2. FinishEvents = 0 /\ FinishEvents' = 1 /\ Len(emitted) = 0
      BY <2>4, <2>6
    <3>3. Len(emitted') \in 0 .. 1 /\ eventsProcessed' = eventsProcessed
      BY <2>4, <2>6
    <3>4. evidence'.count = evidence.count
      BY <2>1
    <3>5. \A e, c \in Nat, n \in 0 .. 1 : e + 0 <= 2 * c + 0 => e + n <= 2 * c + 1
      OBVIOUS
    <3>6. eventsProcessed + Len(emitted') <= 2 * evidence.count + 1
      BY <2>7, <3>1, <3>2, <3>3, <3>5
    <3> QED
      BY <3>2, <3>3, <3>4, <3>6
  <2> QED
    BY <2>1, <2>5, <2>6, <2>8 DEF RoomInv
<1>5. CASE UNCHANGED guardVars
  <2>1. /\ UNCHANGED vars /\ evidence' = evidence /\ emitted' = emitted
        /\ phase' = phase
    BY <1>5 DEF guardVars
  <2>2. /\ eventsProcessed' = eventsProcessed /\ FinishEvents' = FinishEvents
        /\ Starved' = Starved /\ \A k \in SourceKeys : Known(k)' = Known(k)
    BY <2>1, SdkSameCoordinator DEF vars, coordinatorVars, FinishEvents
  <2> QED
    BY <2>1, <2>2 DEF RoomInv
<1> QED
  BY <1>1, <1>2, <1>3, <1>4, <1>5 DEF GuardNext, SdkNext

\* At first there is room.
LEMMA RoomInitially ==
  ASSUME SdkRoom, GuardInit, adapter = NewAiSdk
  PROVE  RoomInv
<1>1. /\ emitted = << >> /\ phase = "streaming"
      /\ evidence.count = 0 /\ evidence.started = {}
      /\ eventsProcessed = 0 /\ streamDiagnostics = {}
  BY DEF GuardInit, NoEvidence, Init, CoordinatorInit
<1>2. Len(<< >>) = 0 /\ \A i \in 1 .. Len(<< >>) : FALSE
  OBVIOUS
<1>3. \A k \in SourceKeys : ~Known(k)
  BY DEF GuardInit, Init, CoordinatorInit, Known, NoCall, NewCall
<1> QED
  BY <1>1, <1>2, <1>3 DEF RoomInv, Starved, FinishEvents, SdkRoom

\* Where there is room, a clean call is within the limits.
LEMMA CleanHasRoom ==
  ASSUME SdkRoom, SdkInv, GateInv, RoomInv, Settled, PhaseFinishes,
         NEW k \in SourceKeys, SdkClean(k)
  PROVE  WithinLimits(k)
<1>1. /\ k \in evidence.started /\ ~evidence.fault /\ ~Starved
      /\ \/ evidence.ends[Message] \in { << "stop" >>, << "tool-calls" >> }
         \/ evidence.ends[Message] = << >> /\ evidence.caller = "complete"
  BY DEF SdkClean, RoomInv
<1>2. ~Dead
  BY <1>1, EndSaidMeans DEF SdkInv, DeadAsSaid, DiedAsSaid
<1>3. isFinished /\ emitted = << >>
  BY DEF GateInv, FinishSettles, Settled, PhaseFinishes
<1>4. AgreesNow(k)
  BY <1>2, <1>3, QuietAndFinished DEF Ended
<1>5. Known(k)
  <2> SUFFICES ASSUME ~Known(k)  PROVE FALSE
    OBVIOUS
  <2> DEFINE known == { j \in SourceKeys : Known(j) }
  <2>1. k \in SdkInputs /\ known \subseteq SdkInputs \ { k }
    BY <1>1 DEF RoomInv
  <2>2. IsFiniteSet(SdkInputs)
    <3>1. SdkInputs \in SUBSET SourceKeys /\ IsFiniteSet(SourceKeys)
      BY SdkKeys, GuardAssumption
    <3> QED
      BY <3>1, FS_Subset
  <2>3. /\ IsFiniteSet(known) /\ Cardinality(known) <= Cardinality(SdkInputs)
        /\ Cardinality(SdkInputs) = Cardinality(known) => SdkInputs = known
    BY <2>1, <2>2, FS_Subset
  <2>4. Cardinality(known) \in Nat /\ Cardinality(SdkInputs) \in Nat
    BY <2>2, <2>3, FS_CardinalityType
  <2> HIDE DEF known
  <2>5. Cardinality(known) < Cardinality(SdkInputs)
    BY <2>1, <2>3, <2>4
  <2>6. ~Refused(k)
    BY <2>4, <2>5, CoordinatorAssumption DEF Refused, SdkRoom, known
  <2> QED
    BY <1>1, <1>4, <2>6 DEF AgreesNow, SdkAgrees
<1> QED
  BY <1>1, <1>5 DEF WithinLimits

\* Where there is room for the stream, exactly the clean calls may run.
THEOREM SdkExecutesCleanAlways ==
  ASSUME SdkRoom  PROVE SdkSpec => []SdkExecutesClean
<1>1. GuardInit /\ adapter = NewAiSdk => RoomInv
  BY RoomInitially
<1>2. SdkInv /\ GateInv /\ RoomInv /\ [GuardNext \/ SdkNext]_guardVars => RoomInv'
  BY RoomKept DEF SdkInv, GateInv, CoordinatorInv
<1>3. SdkInv /\ GateInv /\ HistoryInv /\ RoomInv /\ PhaseFinishes => SdkExecutesClean
  <2> SUFFICES ASSUME SdkInv, GateInv, HistoryInv, RoomInv, PhaseFinishes, Settled,
                      NEW k \in SourceKeys
               PROVE  Executable(k) <=> SdkClean(k)
    BY DEF SdkExecutesClean
  <2>1. Executable(k) => SdkClean(k)
    BY ExecutableIsClean DEF Settled
  <2>2. SdkClean(k) => Executable(k)
    BY CleanHasRoom, CleanIsExecutable DEF PhaseFinishes, Settled
  <2> QED
    BY <2>1, <2>2
<1> QED
  BY <1>1, <1>2, <1>3, SdkInvariant, SdkPhaseFinishes, PTL DEF SdkSpec
================================================================================
