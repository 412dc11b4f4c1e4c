-------------------------- MODULE CallHistory_proofs --------------------------
(***************************************************************************)
(* Proofs about the history of a call: what the coordinator keeps of it    *)
(* until the stream ends, and what the end of the stream makes of it.      *)
(***************************************************************************)
EXTENDS ExecutionGate_proofs

\* What an ended call without a diagnostic has to look like: it is named and still
\* collecting, or completed under a complete end if its arguments closed.
CleanHistory(k) ==
  calls[k].ended /\ callDiagnostics[k] = {} =>
    /\ calls[k].name # NoName
    /\ ~isFinished => Collecting(calls[k])
    /\ isFinished /\ finishedReason = "complete" /\ calls[k].parser = "closed" =>
         calls[k].status = "complete" /\ calls[k].executable

\* The tool_call_finished event of a call that may execute said so.
EventHistory(k) ==
  /\ calls[k].status = "complete" /\ calls[k].executable
  /\ calls[k].schemaValid # "invalid"
  => calls[k].finished = "executable"

HistoryInv == \A k \in SourceKeys : CleanHistory(k) /\ EventHistory(k)

HistoryVars == << calls, callDiagnostics, isFinished, finishedReason >>

------------------------------------------------------------------------------
(* Events before the end of the stream.                                     *)

\* Nothing that leaves the calls and their diagnostics alone changes the history.
LEMMA HistoryKept ==
  ASSUME HistoryInv, UNCHANGED HistoryVars
  PROVE  HistoryInv'
BY DEF HistoryInv, HistoryVars, CleanHistory, EventHistory, Collecting

\* An event about a call keeps the history if it does not end a call without a
\* name or out of turn, unless it says so in a diagnostic.
LEMMA CallEventHistory ==
  ASSUME TypeOK, HistoryInv, NEW k \in SourceKeys, NEW c \in Call,
         NEW codes \in SUBSET Codes, CallEvent(k, c, codes),
         c.status # "complete",
         c.ended /\ callDiagnostics[k] = {} /\ codes = {} =>
           c.name # NoName /\ Collecting(c)
  PROVE  HistoryInv'
<1>1. /\ ~isFinished /\ UNCHANGED finishVars
      /\ calls' = [ calls EXCEPT ![k] = c ]
      /\ callDiagnostics' = [ callDiagnostics EXCEPT ![k] = @ \cup codes ]
  BY DEF CallEvent, Accepted
<1>2. ASSUME NEW j \in SourceKeys
      PROVE  CleanHistory(j)' /\ EventHistory(j)'
  <2>1. CASE j = k
    <3>1. calls'[k] = c /\ callDiagnostics'[k] = callDiagnostics[k] \cup codes
      BY <1>1 DEF TypeOK
    <3>2. c.ended /\ callDiagnostics[k] \cup codes = {} => c.name # NoName /\ Collecting(c)
      OBVIOUS
    <3> QED
      BY <1>1, <2>1, <3>1, <3>2 DEF CleanHistory, EventHistory, Collecting, finishVars
  <2>2. CASE j # k
    <3>1. calls'[j] = calls[j] /\ callDiagnostics'[j] = callDiagnostics[j]
      BY <1>1, <2>2 DEF TypeOK
    <3> QED
      BY <1>1, <3>1 DEF HistoryInv, CleanHistory, EventHistory, Collecting, finishVars
  <2> QED
    BY <2>1, <2>2
<1> QED
  BY <1>2 DEF HistoryInv

\* Every event about a known call is one of the former kind, and changes the status
\* of a settled call to "invalid" at most.
LEMMA KnownCallHistory ==
  ASSUME CoordinatorInv, HistoryInv, NEW k \in SourceKeys,
         \/ \E id \in ToolCallIds \cup { Absent },
               index \in ToolIndices \cup { Absent } : Identity(k, id, index)
         \/ \E n \in DeltaLengths : NameDelta(k, n)
         \/ ArgumentsDelta(k)
         \/ CallEnd(k)
         \/ \E code \in ProviderCodes : CallDiagnostic(k, code)
  PROVE  \E c \in Call, codes \in SUBSET Codes :
           /\ CallEvent(k, c, codes) /\ c.status # "complete"
           /\ c.ended /\ callDiagnostics[k] = {} /\ codes = {} =>
                c.name # NoName /\ Collecting(c)
           /\ ~Collecting(calls[k]) => c.status \in { calls[k].status, "invalid" }
<1> DEFINE Fits(c, codes) ==
             /\ c \in Call /\ codes \in SUBSET Codes
             /\ CallEvent(k, c, codes) /\ c.status # "complete"
             /\ c.ended /\ callDiagnostics[k] = {} /\ codes = {} =>
                  c.name # NoName /\ Collecting(c)
             /\ ~Collecting(calls[k]) => c.status \in { calls[k].status, "invalid" }
<1>1. ~isFinished
  BY DEF Identity, NameDelta, ArgumentsDelta, CallEnd, CallDiagnostic, CallEvent, Accepted
<1>2. /\ calls[k] \in Call /\ calls[k].status # "complete"
      /\ calls[k].ended /\ callDiagnostics[k] = {} =>
           calls[k].name # NoName /\ Collecting(calls[k])
  BY <1>1, EndedOnlyOnce DEF CoordinatorInv, TypeOK, HistoryInv, CleanHistory
<1>3. ASSUME NEW id \in ToolCallIds \cup { Absent },
             NEW index \in ToolIndices \cup { Absent }, Identity(k, id, index)
      PROVE  \E c, codes : Fits(c, codes)
  <2> DEFINE codes == { code \in { "E_PROVIDER_IDENTITY_CONFLICT" } :
                          Clashes(calls[k].toolCallId, id) } \cup
                      { code \in { "E_PROVIDER_INDEX_CONFLICT" } :
                          Clashes(calls[k].toolIndex, index) }
             c == [ calls[k] EXCEPT
                      !.toolCallId = Fill(calls[k].toolCallId, id),
                      !.toolIndex  = Fill(calls[k].toolIndex, index),
                      !.status     = IF codes = {} THEN calls[k].status
                                     ELSE "invalid" ]
  <2>1. CallEvent(k, c, codes)
    BY <1>3 DEF Identity
  <2>2. codes \in SUBSET Codes
    BY DEF Codes, CallDefectCodes
  <2>3. /\ c \in Call /\ c.ended = calls[k].ended /\ c.name = calls[k].name
        /\ c.status = IF codes = {} THEN calls[k].status ELSE "invalid"
    <3> HIDE DEF codes
    <3> QED  BY ZenonT(60), <1>2 DEF Call, Statuses, Fill
  <2> HIDE DEF c, codes
  <2>4. Fits(c, codes)
    BY <1>2, <2>1, <2>2, <2>3 DEF Collecting
  <2> QED
    BY <2>4
<1>4. ASSUME NEW n \in DeltaLengths, NameDelta(k, n)
      PROVE  \E c, codes : Fits(c, codes)
  <2> DEFINE length == (IF calls[k].name = NoName THEN 0 ELSE calls[k].name) + n
             longer == [ calls[k] EXCEPT !.name = length ]
             tooLong == [ calls[k] EXCEPT !.name = length, !.status = "invalid" ]
  <2>1. length \in Nat /\ length # NoName
    BY <1>2, CoordinatorAssumption DEF Call, NoName
  <2>2. /\ longer \in Call /\ longer.status = calls[k].status
        /\ longer.name = length
        /\ tooLong \in Call /\ tooLong.status = "invalid"
    <3> HIDE DEF length
    <3> QED  BY <1>2, <2>1 DEF Call, Statuses
  <2>3. { "E_NAME_DELTA_AFTER_END" } \in SUBSET Codes /\ { "E_TOOL_NAME_LIMIT" } \in SUBSET Codes
    BY DEF Codes, CallDefectCodes, CoordinatorResourceLimitCodes
  <2>4. \/ CallEvent(k, calls[k], { "E_NAME_DELTA_AFTER_END" })
        \/ Collecting(calls[k]) /\ CallEvent(k, longer, {})
        \/ Collecting(calls[k]) /\ CallEvent(k, tooLong, { "E_TOOL_NAME_LIMIT" })
    BY <1>4 DEF NameDelta
  <2> HIDE DEF length, longer, tooLong
  <2>5. \/ Fits(calls[k], { "E_NAME_DELTA_AFTER_END" })
        \/ Fits(longer, {})
        \/ Fits(tooLong, { "E_TOOL_NAME_LIMIT" })
    BY <1>2, <2>1, <2>2, <2>3, <2>4 DEF Collecting
  <2> QED
    BY <2>5
<1>5. ASSUME ArgumentsDelta(k)
      PROVE  \E c, codes : Fits(c, codes)
  <2>1. { "E_ARGUMENT_DELTA_AFTER_END" } \in SUBSET Codes
    BY DEF Codes, CallDefectCodes
  <2>2. CASE CallEvent(k, calls[k], { "E_ARGUMENT_DELTA_AFTER_END" })
    <3>1. Fits(calls[k], { "E_ARGUMENT_DELTA_AFTER_END" })
      BY <1>2, <2>1, <2>2
    <3> QED  BY <3>1
  <2>3. CASE \E p \in PushArguments(calls[k].parser) :
               CallEvent(k, [ calls[k] EXCEPT !.parser = p ], {})
    <3>1. PICK p \in PushArguments(calls[k].parser) :
            CallEvent(k, [ calls[k] EXCEPT !.parser = p ], {})
      BY <2>3
    <3> DEFINE c == [ calls[k] EXCEPT !.parser = p ]
    <3>2. p \in ParserStates
      BY <1>2 DEF PushArguments, ParserStates, Call
    <3>3. /\ c \in Call /\ c.status = calls[k].status
          /\ c.name = calls[k].name /\ c.ended = calls[k].ended
      BY <1>2, <3>2 DEF Call
    <3> HIDE DEF c
    <3>4. Fits(c, {})
      BY <1>2, <3>1, <3>3 DEF Collecting, c
    <3> QED  BY <3>4
  <2> QED
    BY <1>5, <2>2, <2>3 DEF ArgumentsDelta
<1>6. ASSUME CallEnd(k)
      PROVE  \E c, codes : Fits(c, codes)
  <2> DEFINE c == [ calls[k] EXCEPT !.ended = TRUE ]
             codes == IF calls[k].name = NoName THEN { "E_TOOL_NAME_MISSING" } ELSE {}
  <2>1. /\ c \in Call /\ c.status = calls[k].status /\ c.name = calls[k].name
    BY <1>2 DEF Call
  <2>2. codes \in SUBSET Codes /\ (codes = {} => calls[k].name # NoName)
    BY DEF Codes, CallDefectCodes
  <2>3. \/ CallEvent(k, calls[k], {})
        \/ Collecting(calls[k]) /\ CallEvent(k, c, codes)
    BY <1>6 DEF CallEnd
  <2> HIDE DEF c, codes
  <2>4. Fits(calls[k], {}) \/ Fits(c, codes)
    BY <1>2, <2>1, <2>2, <2>3 DEF Collecting
  <2> QED  BY <2>4
<1>7. ASSUME NEW code \in ProviderCodes, CallDiagnostic(k, code)
      PROVE  \E c, codes : Fits(c, codes)
  <2> DEFINE c == [ calls[k] EXCEPT !.status =
                      IF code \in SdkExecutionObservedCodes /\ Collecting(calls[k])
                      THEN "sdk_execution_observed" ELSE calls[k].status ]
  <2>1. CallEvent(k, c, { code })
    BY <1>7 DEF CallDiagnostic
  <2>2. /\ c \in Call /\ c.status # "complete"
        /\ ~Collecting(calls[k]) => c.status = calls[k].status
    BY <1>2 DEF Call, Statuses
  <2>3. { code } \in SUBSET Codes /\ { code } # {}
    BY CoordinatorAssumption
  <2> HIDE DEF c
  <2>4. Fits(c, { code })
    BY <2>1, <2>2, <2>3
  <2> QED  BY <2>4
<1>8. \E c, codes : Fits(c, codes)
  BY <1>3, <1>4, <1>5, <1>6, <1>7
<1> QED
  BY <1>8

\* A push of anything but the end of the stream keeps the history, and a settled
\* call at most becomes invalid.
LEMMA PushCallEventHistory ==
  ASSUME CoordinatorInv, HistoryInv, PushCallEvent
  PROVE  /\ HistoryInv'
         /\ \A k \in SourceKeys : Known(k) /\ ~Collecting(calls[k]) =>
              calls'[k].status \in { calls[k].status, "invalid" }
<1> DEFINE Goal == /\ HistoryInv'
                   /\ \A k \in SourceKeys : Known(k) /\ ~Collecting(calls[k]) =>
                        calls'[k].status \in { calls[k].status, "invalid" }
<1>0. TypeOK
  BY DEF CoordinatorInv
<1>1. CASE UNCHANGED HistoryVars
  BY <1>1, HistoryKept DEF HistoryVars
<1>2. ASSUME NEW k \in SourceKeys, NEW c \in Call, NEW codes \in SUBSET Codes,
             CallEvent(k, c, codes), c.status # "complete",
             c.ended /\ callDiagnostics[k] = {} /\ codes = {} =>
               c.name # NoName /\ Collecting(c),
             ~Collecting(calls[k]) => c.status \in { calls[k].status, "invalid" }
      PROVE  Goal
  <2>1. HistoryInv'
    BY <1>0, <1>2, CallEventHistory
  <2>2. calls' = [ calls EXCEPT ![k] = c ]
    BY <1>2 DEF CallEvent
  <2> QED
    BY <1>0, <1>2, <2>1, <2>2 DEF TypeOK
<1>3. ASSUME NEW k \in SourceKeys, NEW id, NEW index, NEW name, Start(k, id, index, name)
      PROVE  Goal
  <2>1. /\ calls' = [ calls EXCEPT ![k] = NewCall(id, index, name) ]
        /\ callDiagnostics' =
             [ callDiagnostics EXCEPT ![k] = @ \cup pendingProtocolDiagnostics[k] ]
        /\ UNCHANGED finishVars /\ ~Known(k)
    BY <1>3 DEF Start
  <2>2. /\ ~NewCall(id, index, name).ended
        /\ NewCall(id, index, name).status = "collecting"
    BY DEF NewCall
  <2>3. ASSUME NEW j \in SourceKeys
        PROVE  CleanHistory(j)' /\ EventHistory(j)'
    <3>1. CASE j = k
      <4>1. calls'[j] = NewCall(id, index, name)
        BY <1>0, <2>1, <3>1 DEF TypeOK
      <4> QED
        BY <2>2, <4>1 DEF CleanHistory, EventHistory
    <3>2. CASE j # k
      <4>1. calls'[j] = calls[j] /\ callDiagnostics'[j] = callDiagnostics[j]
        BY <1>0, <2>1, <3>2 DEF TypeOK
      <4> QED
        BY <2>1, <4>1 DEF HistoryInv, CleanHistory, EventHistory, Collecting, finishVars
    <3> QED
      BY <3>1, <3>2
  <2>4. ASSUME NEW j \in SourceKeys, Known(j)
        PROVE  calls'[j] = calls[j]
    BY <1>0, <2>1, <2>4 DEF TypeOK
  <2> QED
    BY <2>3, <2>4 DEF HistoryInv
<1>4. ASSUME NEW k \in SourceKeys, DuplicateStart(k)
      PROVE  Goal
  <2>1. /\ UNCHANGED << calls, finishVars >>
        /\ callDiagnostics' =
             [ callDiagnostics EXCEPT ![k] = @ \cup { "E_DUPLICATE_TOOL_CALL_START" } ]
    BY <1>4 DEF DuplicateStart
  <2>2. \A j \in SourceKeys : callDiagnostics'[j] = {} => callDiagnostics[j] = {}
    BY <1>0, <2>1 DEF TypeOK
  <2> QED
    BY <2>1, <2>2 DEF HistoryInv, CleanHistory, EventHistory, Collecting, finishVars
<1>5. ASSUME NEW k \in SourceKeys,
             \/ StartOverLimit(k) \/ EventOfUnknownCall(k)
             \/ \E code \in ProviderCodes : SourceDiagnostic(k, code)
      PROVE  UNCHANGED HistoryVars
  BY <1>5 DEF StartOverLimit, EventOfUnknownCall, SourceDiagnostic, HistoryVars,
              diagnosticVars, finishVars
<1>6. ASSUME PushRejected \/ \E code \in ProviderCodes : StreamDiagnostic(code)
      PROVE  UNCHANGED HistoryVars
  BY <1>6 DEF PushRejected, PushAfterStreamEnd, PushOverLimit, RejectedPush,
              StreamDiagnostic, HistoryVars, finishVars
<1>7. ASSUME NEW k \in SourceKeys,
             \/ \E id \in ToolCallIds \cup { Absent },
                   index \in ToolIndices \cup { Absent } : Identity(k, id, index)
             \/ \E n \in DeltaLengths : NameDelta(k, n)
             \/ ArgumentsDelta(k)
             \/ CallEnd(k)
             \/ \E code \in ProviderCodes : CallDiagnostic(k, code)
      PROVE  Goal
  BY <1>2, <1>7, KnownCallHistory
<1> HIDE DEF Goal
<1>8. Goal
  <2>1. CASE PushRejected \/ \E code \in ProviderCodes : StreamDiagnostic(code)
    BY <1>1, <1>6, <2>1 DEF Goal
  <2>2. CASE \E k \in SourceKeys :
               \/ DuplicateStart(k) \/ StartOverLimit(k) \/ EventOfUnknownCall(k)
               \/ \E code \in ProviderCodes : SourceDiagnostic(k, code)
    BY <1>1, <1>4, <1>5, <2>2 DEF Goal
  <2>3. CASE \E k \in SourceKeys : \E id, index, name : Start(k, id, index, name)
    BY <1>3, <2>3
  <2>4. CASE \E k \in SourceKeys :
               \/ \E id \in ToolCallIds \cup { Absent },
                     index \in ToolIndices \cup { Absent } : Identity(k, id, index)
               \/ \E n \in DeltaLengths : NameDelta(k, n)
               \/ ArgumentsDelta(k) \/ CallEnd(k)
               \/ \E code \in ProviderCodes : CallDiagnostic(k, code)
    BY <1>7, <2>4
  <2> QED
    BY <2>1, <2>2, <2>3, <2>4 DEF PushCallEvent
<1> QED
  BY <1>8 DEF Goal

------------------------------------------------------------------------------
(* The end of the stream.                                                   *)

\* A call that was ended without any diagnostic, with closed arguments, completes
\* under a complete end; and the event of a call says what became of it.
LEMMA SettlementHistory ==
  ASSUME NEW k \in SourceKeys, NEW reason \in Reasons, TypeOK,
         Collecting(calls[k]), NEW c \in Settlements(k, reason)
  PROVE  /\ c.ended = calls[k].ended /\ c.name = calls[k].name
         /\ c.parser = calls[k].parser
         /\ /\ NoticedAtEnd(k) = {} /\ c.name # NoName
            /\ reason = "complete" /\ c.parser = "closed"
            => c.status = "complete" /\ c.executable
         /\ c.status = "complete" /\ c.executable /\ c.schemaValid # "invalid" =>
              c.finished = "executable"
<1>1. calls[k] \in Call
  BY DEF TypeOK
<1>2. PICK r \in FinishParser(calls[k].parser, reason), verdict \in ValidatorAnswers :
        c = FinishCall(calls[k], r, reason, verdict, HasError(NoticedAtEnd(k)))
  BY DEF Settlements
<1> DEFINE conflict == HasError(NoticedAtEnd(k))
           parsed == IF r.outcome # "valid" THEN r.outcome
                     ELSE IF calls[k].name = NoName \/ conflict THEN "invalid"
                     ELSE "complete"
           outcome == IF reason = "cancelled" THEN "cancelled" ELSE parsed
           schema == IF outcome = "complete" THEN verdict ELSE "none"
           event == IF outcome = "complete" /\ r.executable /\ schema # "invalid"
                    THEN "executable" ELSE "not_executable"
<1>3. c = [ calls[k] EXCEPT !.status = outcome, !.executable = r.executable,
                            !.schemaValid = schema, !.finished = event ]
  BY <1>2 DEF FinishCall
<1>4. ASSUME calls[k].parser = "closed", reason = "complete"
      PROVE  r.outcome = "valid" /\ r.executable
  <2>1. r = Result("valid", TRUE)
    BY <1>2, <1>4 DEF FinishParser
  <2> QED
    BY <2>1 DEF Result
<1>5. NoticedAtEnd(k) = {} => ~conflict
  BY DEF HasError
<1>6. /\ c.ended = calls[k].ended /\ c.name = calls[k].name
      /\ c.parser = calls[k].parser /\ c.status = outcome
      /\ c.executable = r.executable /\ c.schemaValid = schema /\ c.finished = event
  <2> HIDE DEF outcome, schema, event
  <2> QED  BY <1>1, <1>3 DEF Call
<1>7. ASSUME NoticedAtEnd(k) = {}, c.name # NoName, reason = "complete",
             c.parser = "closed"
      PROVE  c.status = "complete" /\ c.executable
  BY <1>4, <1>5, <1>6, <1>7
<1> QED
  BY <1>6, <1>7

\* handleStreamEnd() keeps the history.
LEMMA EndStreamHistory ==
  ASSUME CoordinatorInv, HistoryInv, ~isFinished, NEW reason \in Reasons,
         EndStream(reason)
  PROVE  /\ HistoryInv'
         /\ \A k \in SourceKeys : ~Collecting(calls[k]) => calls'[k] = calls[k]
<1> DEFINE settling == { k \in SourceKeys : Settlements(k, reason) # { calls[k] } }
<1>0. TypeOK
  BY DEF CoordinatorInv
<1>1. PICK outcomes \in [ settling -> UNION { Settlements(k, reason) : k \in settling } ] :
        /\ \A k \in settling : outcomes[k] \in Settlements(k, reason)
        /\ calls' = [ k \in SourceKeys |->
                        IF k \in settling THEN outcomes[k] ELSE calls[k] ]
        /\ callDiagnostics' =
             [ k \in SourceKeys |-> NoticedAtEnd(k) \cup
                 { code \in { "E_SCHEMA_VALIDATION_FAILED" } :
                     Collecting(calls[k]) /\ calls'[k].schemaValid = "invalid" } ]
  BY DEF EndStream
<1>2. ASSUME NEW k \in SourceKeys  PROVE calls'[k] \in Settlements(k, reason)
  <2>1. CASE k \in settling
    BY <1>1, <2>1
  <2>2. CASE k \notin settling
    BY <1>1, <2>2
  <2> QED  BY <2>1, <2>2
<1>3. isFinished' = TRUE /\ finishedReason' = reason
  BY DEF EndStream
<1>4. ASSUME NEW k \in SourceKeys
      PROVE  callDiagnostics'[k] = {} => callDiagnostics[k] = {} /\ NoticedAtEnd(k) = {}
  BY <1>1 DEF NoticedAtEnd
<1> HIDE DEF settling
<1>5. ASSUME NEW k \in SourceKeys, ~Collecting(calls[k])
      PROVE  calls'[k] = calls[k] /\ CleanHistory(k)' /\ EventHistory(k)'
  <2>0. Settlements(k, reason) = { calls[k] }
    BY <1>5 DEF Settlements
  <2>1. calls'[k] = calls[k]
    BY <1>2, <2>0
  <2>2. CleanHistory(k)'
    BY <1>4, <1>5, <2>1 DEF HistoryInv, CleanHistory
  <2>3. EventHistory(k)'
    BY <2>1, EndedOnlyOnce DEF EventHistory
  <2> QED
    BY <2>1, <2>2, <2>3
<1>6. ASSUME NEW k \in SourceKeys, Collecting(calls[k])
      PROVE  CleanHistory(k)' /\ EventHistory(k)'
  <2>1. /\ calls'[k].ended = calls[k].ended /\ calls'[k].name = calls[k].name
        /\ calls'[k].parser = calls[k].parser
        /\ /\ NoticedAtEnd(k) = {} /\ calls'[k].name # NoName
           /\ reason = "complete" /\ calls'[k].parser = "closed"
           => calls'[k].status = "complete" /\ calls'[k].executable
        /\ /\ calls'[k].status = "complete" /\ calls'[k].executable
           /\ calls'[k].schemaValid # "invalid"
           => calls'[k].finished = "executable"
    BY <1>0, <1>2, <1>6, SettlementHistory
  <2>2. calls[k].ended /\ callDiagnostics[k] = {} => calls[k].name # NoName
    BY DEF HistoryInv, CleanHistory
  <2> QED
    BY <1>3, <1>4, <2>1, <2>2 DEF CleanHistory, EventHistory
<1> QED
  BY <1>5, <1>6 DEF HistoryInv

------------------------------------------------------------------------------
(* The gate.                                                                *)

\* No step of the gate breaks the history of a call, and no step reopens or
\* upgrades a call that is settled.
LEMMA GateStepHistory ==
  ASSUME GateInv, HistoryInv, [Next]_vars
  PROVE  /\ HistoryInv'
         /\ \A k \in SourceKeys : Known(k) /\ ~Collecting(calls[k]) =>
              calls'[k].status \in { calls[k].status, "invalid" }
<1> DEFINE Goal == /\ HistoryInv'
                   /\ \A k \in SourceKeys : Known(k) /\ ~Collecting(calls[k]) =>
                        calls'[k].status \in { calls[k].status, "invalid" }
<1>0. CoordinatorInv
  BY DEF GateInv
<1>1. ASSUME UNCHANGED HistoryVars  PROVE Goal
  BY <1>1, HistoryKept DEF HistoryVars
<1>2. ASSUME NEW reason \in Reasons, ~isFinished, EndStream(reason)  PROVE Goal
  BY <1>0, <1>2, EndStreamHistory
<1>3. CASE PushCallEvent
  BY <1>0, <1>3, PushCallEventHistory
<1> HIDE DEF Goal
<1>4. ASSUME NEW reason \in Reasons, PushEnd(reason)  PROVE Goal
  <2>1. CASE PushStreamEnd(reason)
    BY <1>2, <2>1 DEF PushStreamEnd, Accepted
  <2>2. CASE ~PushStreamEnd(reason)
    <3>1. UNCHANGED HistoryVars
      BY <1>4, <2>2 DEF PushEnd, PushConflictingEnd, PushAfterStreamEnd,
                        PushOverLimit, RejectedPush, HistoryVars, finishVars
    <3> QED  BY <1>1, <3>1
  <2> QED  BY <2>1, <2>2
<1>5. ASSUME NEW reason \in Reasons, FinishCoordinator(reason)  PROVE Goal
  <2>1. CASE isFinished
    <3>1. UNCHANGED HistoryVars
      BY <1>5, <2>1 DEF FinishCoordinator, coordinatorVars, diagnosticVars,
                        finishVars, HistoryVars
    <3> QED  BY <1>1, <3>1
  <2>2. CASE ~isFinished
    BY <1>2, <1>5, <2>2 DEF FinishCoordinator
  <2> QED  BY <2>1, <2>2
<1>6. ASSUME NEW k \in SourceKeys, TakeDecision(k)  PROVE Goal
  <2>1. UNCHANGED HistoryVars
    BY <1>6 DEF TakeDecision, coordinatorVars, diagnosticVars, finishVars, HistoryVars
  <2> QED  BY <1>1, <2>1
<1>7. CASE UNCHANGED vars
  <2>1. UNCHANGED HistoryVars
    BY <1>7 DEF vars, coordinatorVars, diagnosticVars, finishVars, HistoryVars
  <2> QED  BY <1>1, <2>1 DEF Goal
<1>8. Goal
  BY <1>3, <1>4, <1>5, <1>6, <1>7 DEF Next, Push, Finish, Goal
<1> QED
  BY <1>8 DEF Goal

\* The history is there from the start.
LEMMA HistoryInitially == Init => HistoryInv
<1>1. ~NoCall.ended /\ NoCall.status = "absent"
  BY DEF NoCall, NewCall
<1> QED
  BY <1>1 DEF Init, CoordinatorInit, HistoryInv, CleanHistory, EventHistory

\* Every reachable state has the history of its calls.
THEOREM HistoryInvariant == Spec => []HistoryInv
<1>1. ASSUME GateInv, HistoryInv, [Next]_vars
      PROVE  HistoryInv'
  BY <1>1, GateStepHistory
<1> QED
  BY <1>1, HistoryInitially, GateInvariant, PTL DEF Spec

\* A settled call is never reopened or upgraded, whatever arrives late.
THEOREM SettledNeverImprovesAlways == Spec => SettledNeverImproves
<1>1. ASSUME GateInv, HistoryInv, [Next]_vars
      PROVE  [ \A k \in SourceKeys : Known(k) /\ ~Collecting(calls[k]) =>
                 calls'[k].status \in { calls[k].status, "invalid" } ]_vars
  BY <1>1, GateStepHistory
<1> QED
  BY <1>1, GateInvariant, HistoryInvariant, PTL DEF Spec, SettledNeverImproves

\* The finished event that a UI saw and the gate never disagree in the dangerous
\* direction: what executes was announced as executable.
THEOREM FinishedEventAgreesAlways == Spec => []FinishedEventAgrees
<1>1. ASSUME HistoryInv  PROVE FinishedEventAgrees
  BY <1>1, ExecutableMeans DEF FinishedEventAgrees, HistoryInv, EventHistory
<1> QED
  BY <1>1, HistoryInvariant, PTL

\* A call with a clean history executes, whatever happened to the other calls.
THEOREM CleanCallExecutesAlways == Spec => []CleanCallExecutes
<1>1. ASSUME GateInv, HistoryInv
      PROVE  CleanCallExecutes
  <2> SUFFICES ASSUME NEW k \in SourceKeys,
                      isFinished, finishedReason = "complete",
                      streamEndReason = "complete",
                      calls[k].ended, calls[k].parser = "closed",
                      calls[k].schemaValid # "invalid",
                      callDiagnostics[k] = {}, streamDiagnostics = {}
               PROVE  Executable(k)
    BY DEF CleanCallExecutes
  <2>1. /\ calls[k].status = "complete" /\ calls[k].executable
        /\ calls[k].name # NoName
    BY <1>1 DEF HistoryInv, CleanHistory
  <2>2. calls[k].name >= 0
    BY <1>1, <2>1 DEF GateInv, CoordinatorInv, TypeOK, Call, NoName
  <2>3. DecideByStatus(calls[k]) = ExecuteReason
    BY <2>1, <2>2 DEF DecideByStatus
  <2>4. /\ ~SdkExecutionEvidence(calls[k], {})
        /\ ~ResourceLimitEvidence(calls[k], {}, {})
        /\ ~ProtocolViolationEvidence({}, {})
    BY <2>1 DEF SdkExecutionEvidence, ResourceLimitEvidence, ProtocolViolationEvidence
  <2>5. Decision(k) = ExecuteReason
    BY <2>3, <2>4 DEF Decision, Decide
  <2> QED
    BY <2>1, <2>5 DEF Executable, Known
<1> QED
  BY <1>1, GateInvariant, HistoryInvariant, PTL

==============================================================================
