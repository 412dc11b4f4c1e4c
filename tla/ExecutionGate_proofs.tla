------------------------- MODULE ExecutionGate_proofs -------------------------
(***************************************************************************)
(* Proofs about the execution gate, for every set of source keys, ids,     *)
(* names, reasons and codes and for every limit.                           *)
(***************************************************************************)
EXTENDS ExecutionGate, TLAPS

------------------------------------------------------------------------------
(* The inductive invariant of the coordinator.                              *)

\* A protocol violation that was reported about a key waits for the key's call
\* to start, and is among the diagnostics of the call from then on.
ViolationsKept ==
  \A k \in SourceKeys :
    sourceDiagnostics[k] \cap AuthorityProtocolViolationCodes
      \subseteq (IF Known(k) THEN callDiagnostics[k]
                 ELSE pendingProtocolDiagnostics[k])

\* What a call of status "complete" has behind it.
Earned(k) ==
  calls[k].status = "complete" =>
    /\ isFinished
    /\ calls[k].ended
    /\ calls[k].name # NoName
    /\ calls[k].schemaValid # "invalid" => ~HasError(callDiagnostics[k])
    /\ calls[k].executable => /\ calls[k].parser \in { "closed", "scalar" }
                              /\ finishedReason = "complete"

CompleteIsEarned == \A k \in SourceKeys : Earned(k)

ReasonMarksFinish == isFinished <=> finishedReason # "none"

CoordinatorInv ==
  TypeOK /\ ViolationsKept /\ CompleteIsEarned /\ ReasonMarksFinish

------------------------------------------------------------------------------

\* Only the end of the stream completes a call.
LEMMA EndedOnlyOnce ==
  ASSUME CoordinatorInv, ~isFinished, NEW k \in SourceKeys
  PROVE  calls[k].status # "complete"
BY DEF CoordinatorInv, CompleteIsEarned, Earned

\* An event about a call keeps the invariant if the record it leaves is well
\* typed and belongs to a call that is not complete.
LEMMA CallEventKeeps ==
  ASSUME CoordinatorInv, NEW k \in SourceKeys, NEW c \in Call,
         NEW codes \in SUBSET Codes, CallEvent(k, c, codes),
         c.status \notin { "complete", "absent" }
  PROVE  CoordinatorInv'
<1> USE DEF CallEvent, Accepted, diagnosticVars, finishVars, CoordinatorInv
<1>1. TypeOK'
  BY CoordinatorAssumption DEF TypeOK
<1>2. ViolationsKept'
  BY DEF ViolationsKept, Known, TypeOK
<1>3. CompleteIsEarned'
  BY DEF CompleteIsEarned, Earned, TypeOK
<1>4. ReasonMarksFinish'
  BY DEF ReasonMarksFinish
<1> QED
  BY <1>1, <1>2, <1>3, <1>4

\* handleIdentity() keeps the invariant: a conflict can only make a call invalid.
LEMMA IdentityKeeps ==
  ASSUME CoordinatorInv, NEW k \in SourceKeys,
         NEW id \in ToolCallIds \cup { Absent },
         NEW index \in ToolIndices \cup { Absent },
         Identity(k, id, index)
  PROVE  CoordinatorInv'
<1> DEFINE conflicts == { code \in { "E_PROVIDER_IDENTITY_CONFLICT" } :
                            Clashes(calls[k].toolCallId, id) } \cup
                        { code \in { "E_PROVIDER_INDEX_CONFLICT" } :
                            Clashes(calls[k].toolIndex, index) }
           c == [ calls[k] EXCEPT
                    !.toolCallId = Fill(calls[k].toolCallId, id),
                    !.toolIndex  = Fill(calls[k].toolIndex, index),
                    !.status     = IF conflicts = {} THEN calls[k].status
                                   ELSE "invalid" ]
<1>1. CallEvent(k, c, conflicts)
  BY DEF Identity
<1>2. ~isFinished /\ Known(k)
  BY <1>1 DEF CallEvent, Accepted
<1>3. calls[k] \in Call /\ calls[k].status \notin { "complete", "absent" }
  BY <1>2, EndedOnlyOnce DEF CoordinatorInv, TypeOK, Known
<1>4. conflicts \in SUBSET Codes
  BY DEF Codes, CallDefectCodes
<1>5. c \in Call /\ c.status \notin { "complete", "absent" }
  BY ZenonT(60), <1>3 DEF Call, Statuses, Fill
<1> HIDE DEF conflicts, c
<1> QED
  BY <1>1, <1>4, <1>5, CallEventKeeps

\* handleNameDelta() keeps the invariant, on either side of the name limit.
LEMMA NameDeltaKeeps ==
  ASSUME CoordinatorInv, NEW k \in SourceKeys, NEW n \in DeltaLengths,
         NameDelta(k, n)
  PROVE  CoordinatorInv'
<1> DEFINE length == (IF calls[k].name = NoName THEN 0 ELSE calls[k].name) + n
           longer == [ calls[k] EXCEPT !.name = length ]
           tooLong == [ calls[k] EXCEPT !.name = length, !.status = "invalid" ]
<1>1. ~isFinished /\ Known(k)
  BY DEF NameDelta, CallEvent, Accepted
<1>2. calls[k] \in Call /\ calls[k].status \notin { "complete", "absent" }
  BY <1>1, EndedOnlyOnce DEF CoordinatorInv, TypeOK, Known
<1>3. length \in Nat
  BY <1>2, CoordinatorAssumption DEF Call, NoName
<1>4. /\ longer \in Call  /\ longer.status \notin { "complete", "absent" }
      /\ tooLong \in Call /\ tooLong.status \notin { "complete", "absent" }
  <2> HIDE DEF length
  <2> QED  BY <1>2, <1>3 DEF Call, Statuses
<1>5. /\ {} \in SUBSET Codes
      /\ { "E_NAME_DELTA_AFTER_END" } \in SUBSET Codes
      /\ { "E_TOOL_NAME_LIMIT" } \in SUBSET Codes
  BY DEF Codes, CallDefectCodes, CoordinatorResourceLimitCodes
<1>6. \/ CallEvent(k, calls[k], { "E_NAME_DELTA_AFTER_END" })
      \/ CallEvent(k, longer, {})
      \/ CallEvent(k, tooLong, { "E_TOOL_NAME_LIMIT" })
  BY DEF NameDelta
<1> HIDE DEF longer, tooLong
<1> QED
  BY <1>2, <1>4, <1>5, <1>6, CallEventKeeps

\* handleArgumentsDelta() keeps the invariant, whatever its parser does.
LEMMA ArgumentsDeltaKeeps ==
  ASSUME CoordinatorInv, NEW k \in SourceKeys, ArgumentsDelta(k)
  PROVE  CoordinatorInv'
<1>1. ~isFinished /\ Known(k)
  BY DEF ArgumentsDelta, CallEvent, Accepted
<1>2. calls[k] \in Call /\ calls[k].status \notin { "complete", "absent" }
  BY <1>1, EndedOnlyOnce DEF CoordinatorInv, TypeOK, Known
<1>3. {} \in SUBSET Codes /\ { "E_ARGUMENT_DELTA_AFTER_END" } \in SUBSET Codes
  BY DEF Codes, CallDefectCodes
<1>4. CASE CallEvent(k, calls[k], { "E_ARGUMENT_DELTA_AFTER_END" })
  BY <1>2, <1>3, <1>4, CallEventKeeps
<1>5. CASE \E p \in PushArguments(calls[k].parser) :
             CallEvent(k, [ calls[k] EXCEPT !.parser = p ], {})
  <2>1. PICK p \in PushArguments(calls[k].parser) :
          CallEvent(k, [ calls[k] EXCEPT !.parser = p ], {})
    BY <1>5
  <2> DEFINE c == [ calls[k] EXCEPT !.parser = p ]
  <2>2. p \in ParserStates
    BY <1>2 DEF PushArguments, ParserStates, Call
  <2>3. c \in Call /\ c.status \notin { "complete", "absent" }
    BY <1>2, <2>2 DEF Call
  <2> HIDE DEF c
  <2> QED
    BY <2>1, <2>3, <1>3, CallEventKeeps DEF c
<1> QED
  BY <1>4, <1>5 DEF ArgumentsDelta

\* handleCallEnd() keeps the invariant: it ends no call that is settled.
LEMMA CallEndKeeps ==
  ASSUME CoordinatorInv, NEW k \in SourceKeys, CallEnd(k)
  PROVE  CoordinatorInv'
<1> DEFINE c == [ calls[k] EXCEPT !.ended = TRUE ]
           codes == IF calls[k].name = NoName THEN { "E_TOOL_NAME_MISSING" } ELSE {}
<1>1. ~isFinished /\ Known(k)
  BY DEF CallEnd, CallEvent, Accepted
<1>2. calls[k] \in Call /\ calls[k].status \notin { "complete", "absent" }
  BY <1>1, EndedOnlyOnce DEF CoordinatorInv, TypeOK, Known
<1>3. c \in Call /\ c.status \notin { "complete", "absent" }
  BY <1>2 DEF Call
<1>4. {} \in SUBSET Codes /\ codes \in SUBSET Codes
  BY DEF Codes, CallDefectCodes
<1>5. CallEvent(k, calls[k], {}) \/ CallEvent(k, c, codes)
  BY DEF CallEnd
<1> HIDE DEF c, codes
<1> QED
  BY <1>2, <1>3, <1>4, <1>5, CallEventKeeps

\* A diagnostic about a known call keeps the invariant.
LEMMA CallDiagnosticKeeps ==
  ASSUME CoordinatorInv, NEW k \in SourceKeys, NEW code \in ProviderCodes,
         CallDiagnostic(k, code)
  PROVE  CoordinatorInv'
<1> DEFINE c == [ calls[k] EXCEPT !.status =
                    IF code \in SdkExecutionObservedCodes /\ Collecting(calls[k])
                    THEN "sdk_execution_observed" ELSE calls[k].status ]
<1>1. CallEvent(k, c, { code })
  BY DEF CallDiagnostic
<1>2. ~isFinished /\ Known(k)
  BY <1>1 DEF CallEvent, Accepted
<1>3. calls[k] \in Call /\ calls[k].status \notin { "complete", "absent" }
  BY <1>2, EndedOnlyOnce DEF CoordinatorInv, TypeOK, Known
<1>4. c \in Call /\ c.status \notin { "complete", "absent" }
  BY <1>3 DEF Call, Statuses
<1>5. { code } \in SUBSET Codes
  BY CoordinatorAssumption
<1> HIDE DEF c
<1> QED
  BY <1>1, <1>4, <1>5, CallEventKeeps

\* handleStart() keeps the invariant: the pending violations move, none is lost.
LEMMA StartKeeps ==
  ASSUME CoordinatorInv, NEW k \in SourceKeys,
         NEW id \in ToolCallIds \cup { Absent },
         NEW index \in ToolIndices \cup { Absent },
         NEW name \in InitialNames, Start(k, id, index, name)
  PROVE  CoordinatorInv'
<1> USE DEF Start, Accepted, diagnosticVars, finishVars
<1> DEFINE c == NewCall(id, index, name)
<1>1. c \in Call /\ c.status = "collecting"
  BY CoordinatorAssumption DEF NewCall, Call, Statuses, ParserStates, SchemaVerdicts
<1> HIDE DEF c
<1>2. calls' = [ calls EXCEPT ![k] = c ]
  BY DEF c
<1>3. TypeOK'
  BY <1>1, <1>2, CoordinatorAssumption DEF CoordinatorInv, TypeOK
<1>4. ViolationsKept'
  BY <1>1, <1>2 DEF CoordinatorInv, ViolationsKept, Known, TypeOK
<1>5. CompleteIsEarned'
  BY <1>1, <1>2 DEF CoordinatorInv, CompleteIsEarned, Earned, TypeOK
<1>6. ReasonMarksFinish'
  BY DEF CoordinatorInv, ReasonMarksFinish
<1> QED
  BY <1>3, <1>4, <1>5, <1>6 DEF CoordinatorInv

\* Steps that leave the calls alone and only add diagnostics.
LEMMA StartlessEventKeeps ==
  ASSUME CoordinatorInv, NEW k \in SourceKeys,
         DuplicateStart(k) \/ StartOverLimit(k) \/ EventOfUnknownCall(k)
  PROVE  CoordinatorInv'
<1> USE CoordinatorAssumption DEF Accepted, diagnosticVars, finishVars, CoordinatorInv
<1>1. CASE DuplicateStart(k)
  <2>1. { "E_DUPLICATE_TOOL_CALL_START" } \subseteq Codes
    BY DEF Codes, AuthorityProtocolViolationCodes
  <2>2. TypeOK'
    BY <1>1, <2>1 DEF DuplicateStart, TypeOK
  <2>3. ViolationsKept'
    BY <1>1 DEF DuplicateStart, ViolationsKept, Known, TypeOK
  <2>4. CompleteIsEarned' /\ ReasonMarksFinish'
    BY <1>1 DEF DuplicateStart, CompleteIsEarned, Earned, ReasonMarksFinish
  <2> QED  BY <2>2, <2>3, <2>4
<1>2. CASE StartOverLimit(k)
  <2>1. { "E_COORDINATOR_LIMIT_CALLS" } \subseteq Codes
    BY DEF Codes, CoordinatorResourceLimitCodes
  <2>2. TypeOK'
    BY <1>2, <2>1 DEF StartOverLimit, TypeOK
  <2>3. ViolationsKept' /\ CompleteIsEarned' /\ ReasonMarksFinish'
    BY <1>2 DEF StartOverLimit, ViolationsKept, Known, CompleteIsEarned, Earned,
                ReasonMarksFinish
  <2> QED  BY <2>2, <2>3
<1>3. CASE EventOfUnknownCall(k)
  <2>1. TypeOK'
    BY <1>3 DEF EventOfUnknownCall, TypeOK
  <2>2. ViolationsKept' /\ CompleteIsEarned' /\ ReasonMarksFinish'
    BY <1>3 DEF EventOfUnknownCall, ViolationsKept, Known, CompleteIsEarned,
                Earned, ReasonMarksFinish
  <2> QED  BY <2>1, <2>2
<1> QED
  BY <1>1, <1>2, <1>3

\* A diagnostic about a key without a call keeps the invariant: a violation is
\* filed where handleStart() will find it.
LEMMA SourceDiagnosticKeeps ==
  ASSUME CoordinatorInv, NEW k \in SourceKeys, NEW code \in ProviderCodes,
         SourceDiagnostic(k, code)
  PROVE  CoordinatorInv'
<1> USE CoordinatorAssumption DEF Accepted, diagnosticVars, finishVars, CoordinatorInv
<1>1. TypeOK'
  BY DEF SourceDiagnostic, TypeOK
<1>2. ViolationsKept'
  BY DEF SourceDiagnostic, ViolationsKept, Known, TypeOK
<1>3. CompleteIsEarned' /\ ReasonMarksFinish'
  BY DEF SourceDiagnostic, CompleteIsEarned, Earned, ReasonMarksFinish
<1> QED
  BY <1>1, <1>2, <1>3

\* A diagnostic about the stream keeps the invariant.
LEMMA StreamDiagnosticKeeps ==
  ASSUME CoordinatorInv, NEW code \in ProviderCodes, StreamDiagnostic(code)
  PROVE  CoordinatorInv'
<1> USE CoordinatorAssumption DEF Accepted, diagnosticVars, finishVars, CoordinatorInv
<1>1. TypeOK'
  BY DEF StreamDiagnostic, TypeOK
<1>2. ViolationsKept' /\ CompleteIsEarned' /\ ReasonMarksFinish'
  BY DEF StreamDiagnostic, ViolationsKept, Known, CompleteIsEarned, Earned,
         ReasonMarksFinish
<1> QED
  BY <1>1, <1>2

RejectionCodes ==
  { "E_EVENT_AFTER_STREAM_END", "E_TERMINAL_REASON_CONFLICT",
    "E_COORDINATOR_LIMIT_EVENTS" }

\* A refused push keeps the invariant.
LEMMA RejectedPushKeeps ==
  ASSUME CoordinatorInv, NEW code \in RejectionCodes, RejectedPush(code)
  PROVE  CoordinatorInv'
<1> USE DEF RejectedPush, finishVars, CoordinatorInv
<1>1. code \in Codes
  BY DEF RejectionCodes, Codes, AuthorityProtocolViolationCodes,
         CoordinatorResourceLimitCodes
<1>2. TypeOK'
  BY <1>1 DEF TypeOK
<1>3. ViolationsKept' /\ CompleteIsEarned' /\ ReasonMarksFinish'
  BY DEF ViolationsKept, Known, CompleteIsEarned, Earned, ReasonMarksFinish
<1> QED
  BY <1>2, <1>3

\* Every push but that of the end of the stream keeps the invariant.
LEMMA PushCallEventKeeps ==
  ASSUME CoordinatorInv, PushCallEvent
  PROVE  CoordinatorInv'
<1>1. CASE PushRejected
  BY <1>1, RejectedPushKeeps
     DEF PushRejected, PushAfterStreamEnd, PushOverLimit, RejectionCodes
<1>2. CASE \E code \in ProviderCodes : StreamDiagnostic(code)
  BY <1>2, StreamDiagnosticKeeps
<1>3. ASSUME NEW k \in SourceKeys,
             DuplicateStart(k) \/ StartOverLimit(k) \/ EventOfUnknownCall(k)
      PROVE  CoordinatorInv'
  BY <1>3, StartlessEventKeeps
<1>4. ASSUME NEW k \in SourceKeys, NEW id \in ToolCallIds \cup { Absent },
             NEW index \in ToolIndices \cup { Absent },
             (\E name \in InitialNames : Start(k, id, index, name))
               \/ Identity(k, id, index)
      PROVE  CoordinatorInv'
  BY <1>4, StartKeeps, IdentityKeeps
<1>5. ASSUME NEW k \in SourceKeys,
             (\E n \in DeltaLengths : NameDelta(k, n))
               \/ ArgumentsDelta(k) \/ CallEnd(k)
      PROVE  CoordinatorInv'
  BY <1>5, NameDeltaKeeps, ArgumentsDeltaKeeps, CallEndKeeps
<1>6. ASSUME NEW k \in SourceKeys, NEW code \in ProviderCodes,
             CallDiagnostic(k, code) \/ SourceDiagnostic(k, code)
      PROVE  CoordinatorInv'
  BY <1>6, CallDiagnosticKeeps, SourceDiagnosticKeeps
<1> QED
  BY <1>1, <1>2, <1>3, <1>4, <1>5, <1>6 DEF PushCallEvent

------------------------------------------------------------------------------
(* The end of the stream.                                                   *)

\* What the parser's finish() may answer: only a valid result is executable, and
\* only under a complete end.
LEMMA FinishParserResult ==
  ASSUME NEW p \in ParserStates, NEW reason, NEW r \in FinishParser(p, reason)
  PROVE  /\ r \in [ outcome : ParserOutcomes, executable : BOOLEAN ]
         /\ r.executable => p \in { "closed", "scalar" } /\ reason = "complete"
<1>0. /\ \A o \in ParserOutcomes, e \in BOOLEAN :
           /\ Result(o, e) \in [ outcome : ParserOutcomes, executable : BOOLEAN ]
           /\ Result(o, e).executable = e
      /\ ParserOutcomes = { "valid", "truncated", "salvaged", "invalid" }
  BY DEF Result, ParserOutcomes
<1>1. CASE p \in { "empty", "open" }
  <2>1. \/ r = Result("truncated", FALSE) \/ r = Result("salvaged", FALSE)
        \/ r = Result("invalid", FALSE)
    <3>1. CASE p = "empty"  BY <3>1 DEF FinishParser
    <3>2. CASE p = "open"   BY <3>2 DEF FinishParser
    <3> QED  BY <1>1, <3>1, <3>2
  <2> QED  BY <1>0, <2>1
<1>2. CASE p = "scalar" /\ reason = "complete"
  <2>1. \/ r = Result("valid", TRUE) \/ r = Result("valid", FALSE)
        \/ r = Result("invalid", FALSE)
    BY <1>2 DEF FinishParser
  <2>2. r \in [ outcome : ParserOutcomes, executable : BOOLEAN ]
    <3>1. CASE r = Result("valid", TRUE)     BY <1>0, <3>1
    <3>2. CASE r = Result("valid", FALSE)    BY <1>0, <3>2
    <3>3. CASE r = Result("invalid", FALSE)  BY <1>0, <3>3
    <3> QED  BY <2>1, <3>1, <3>2, <3>3
  <2> QED  BY <1>2, <2>2
<1>3. CASE p = "scalar" /\ reason # "complete"
  <2>1. r = Result("truncated", FALSE)
    BY <1>3 DEF FinishParser
  <2> QED  BY <1>0, <2>1
<1>4. CASE p = "closed"
  <2>1. r = Result("valid", reason = "complete")
    BY <1>4 DEF FinishParser
  <2> QED  BY <1>0, <1>4, <2>1
<1>5. CASE p = "trailing"
  <2>1. r = Result("valid", FALSE)
    BY <1>5 DEF FinishParser
  <2> QED  BY <1>0, <2>1
<1>6. CASE p \in { "invalid", "limited" }
  <2>1. r = Result("invalid", FALSE)
    BY <1>6 DEF FinishParser
  <2> QED  BY <1>0, <2>1
<1> QED
  BY <1>1, <1>2, <1>3, <1>4, <1>5, <1>6 DEF ParserStates

\* What settling a collecting call leaves behind.
LEMMA SettlementEarned ==
  ASSUME NEW k \in SourceKeys, NEW reason \in Reasons, TypeOK,
         Collecting(calls[k]), NEW c \in Settlements(k, reason)
  PROVE  /\ c \in Call
         /\ c.status \notin { "absent", "collecting" }
         /\ c.schemaValid = "invalid" => c.status = "complete"
         /\ c.status = "complete" =>
              /\ c.ended /\ c.name # NoName
              /\ ~HasError(NoticedAtEnd(k))
              /\ c.executable => /\ c.parser \in { "closed", "scalar" }
                                 /\ reason = "complete"
<1>1. calls[k] \in Call
  BY DEF TypeOK
<1>2. PICK r \in FinishParser(calls[k].parser, reason), verdict \in ValidatorAnswers :
        c = FinishCall(calls[k], r, reason, verdict, HasError(NoticedAtEnd(k)))
  BY DEF Settlements
<1>3. /\ r \in [ outcome : ParserOutcomes, executable : BOOLEAN ]
      /\ r.executable => /\ calls[k].parser \in { "closed", "scalar" }
                         /\ reason = "complete"
  BY <1>1, FinishParserResult DEF Call
<1>4. /\ c \in Call
      /\ c.status \notin { "absent", "collecting" }
      /\ c.schemaValid = "invalid" => c.status = "complete"
      /\ c.ended = calls[k].ended /\ c.name = calls[k].name
      /\ c.parser = calls[k].parser /\ c.executable = r.executable
  <2> DEFINE conflict == HasError(NoticedAtEnd(k))
             outcome == IF reason = "cancelled" THEN "cancelled"
                        ELSE IF r.outcome # "valid" THEN r.outcome
                        ELSE IF calls[k].name = NoName \/ conflict THEN "invalid"
                        ELSE "complete"
             schema == IF outcome = "complete" THEN verdict ELSE "none"
             event == IF outcome = "complete" /\ r.executable /\ schema # "invalid"
                      THEN "executable" ELSE "not_executable"
  <2>1. c = [ calls[k] EXCEPT !.status = outcome, !.executable = r.executable,
                              !.schemaValid = schema, !.finished = event ]
    BY <1>2 DEF FinishCall
  <2>2. /\ outcome \in { "cancelled", "complete", "truncated", "salvaged", "invalid" }
        /\ schema \in SchemaVerdicts
        /\ schema = "invalid" => outcome = "complete"
        /\ event \in { "none", "executable", "not_executable" }
    BY <1>3, CoordinatorAssumption DEF ParserOutcomes, SchemaVerdicts
  <2> HIDE DEF outcome, schema, event
  <2> QED
    BY <1>1, <1>3, <2>1, <2>2 DEF Call, Statuses
<1>5. c.status = "complete" => c.name # NoName /\ ~HasError(NoticedAtEnd(k))
  BY <1>1, <1>2, <1>3 DEF FinishCall, Call, ParserOutcomes
<1>6. ~HasError(NoticedAtEnd(k)) => calls[k].ended
  <2>1. SUFFICES ASSUME ~calls[k].ended
                 PROVE  HasError(NoticedAtEnd(k))
    OBVIOUS
  <2>2. "E_STREAM_ENDED_WITH_OPEN_CALL" \in NoticedAtEnd(k)
    BY <2>1 DEF NoticedAtEnd
  <2>3. "E_STREAM_ENDED_WITH_OPEN_CALL" \notin WarningCodes
    BY DEF WarningCodes, ProjectionOnlyCode
  <2> QED
    BY <2>2, <2>3 DEF HasError
<1> QED
  BY <1>3, <1>4, <1>5, <1>6

\* handleStreamEnd() keeps the invariant: what it completes is earned.
LEMMA EndStreamKeeps ==
  ASSUME CoordinatorInv, ~isFinished, NEW reason \in Reasons, EndStream(reason),
         eventsProcessed' \in 0 .. MaxNormalizedEvents
  PROVE  CoordinatorInv'
<1> DEFINE settling == { k \in SourceKeys : Settlements(k, reason) # { calls[k] } }
           settled == calls'
<1>1. /\ settled = [ k \in SourceKeys |-> settled[k] ]
      /\ \A k \in SourceKeys : settled[k] \in Settlements(k, reason)
      /\ callDiagnostics' =
           [ k \in SourceKeys |-> NoticedAtEnd(k) \cup
               { code \in { "E_SCHEMA_VALIDATION_FAILED" } :
                   Collecting(calls[k]) /\ settled[k].schemaValid = "invalid" } ]
  <2>1. PICK outcomes \in [ settling -> UNION { Settlements(k, reason) : k \in settling } ] :
          /\ \A k \in settling : outcomes[k] \in Settlements(k, reason)
          /\ calls' = [ k \in SourceKeys |->
                          IF k \in settling THEN outcomes[k] ELSE calls[k] ]
          /\ callDiagnostics' =
               [ k \in SourceKeys |-> NoticedAtEnd(k) \cup
                   { code \in { "E_SCHEMA_VALIDATION_FAILED" } :
                       Collecting(calls[k]) /\ calls'[k].schemaValid = "invalid" } ]
    BY DEF EndStream
  <2>2. ASSUME NEW k \in SourceKeys  PROVE calls'[k] \in Settlements(k, reason)
    <3>1. CASE k \in settling
      BY <2>1, <3>1
    <3>2. CASE k \notin settling
      BY <2>1, <3>2
    <3> QED  BY <3>1, <3>2
  <2> QED
    BY <2>1, <2>2
<1> HIDE DEF settled, settling
<1>2. /\ isFinished' = TRUE /\ finishedReason' = reason
      /\ UNCHANGED << sourceDiagnostics, streamDiagnostics,
                      pendingProtocolDiagnostics >>
  BY DEF EndStream
<1>3. reason # "none"
  BY ReasonsAssumption
<1>4. TypeOK
  BY DEF CoordinatorInv
<1>5. \A k \in SourceKeys :
        /\ settled[k] \in Call
        /\ settled[k].status = "absent" <=> calls[k].status = "absent"
        /\ settled[k].status = "complete" =>
             /\ settled[k].ended /\ settled[k].name # NoName
             /\ Collecting(calls[k]) /\ ~HasError(NoticedAtEnd(k))
             /\ settled[k].executable =>
                  /\ settled[k].parser \in { "closed", "scalar" }
                  /\ reason = "complete"
  <2> SUFFICES ASSUME NEW k \in SourceKeys
               PROVE  /\ settled[k] \in Call
                      /\ settled[k].status = "absent" <=> calls[k].status = "absent"
                      /\ settled[k].status = "complete" =>
                           /\ settled[k].ended /\ settled[k].name # NoName
                           /\ Collecting(calls[k]) /\ ~HasError(NoticedAtEnd(k))
                           /\ settled[k].executable =>
                                /\ settled[k].parser \in { "closed", "scalar" }
                                /\ reason = "complete"
    OBVIOUS
  <2>1. CASE Collecting(calls[k])
    BY <2>1, <1>1, <1>4, SettlementEarned DEF Collecting
  <2>2. CASE ~Collecting(calls[k])
    BY <2>2, <1>1, <1>4, EndedOnlyOnce DEF Settlements, TypeOK
  <2> QED  BY <2>1, <2>2
<1>6. /\ "E_SCHEMA_VALIDATION_FAILED" \in Codes
      /\ "E_STREAM_ENDED_WITH_OPEN_CALL" \in Codes
  BY DEF Codes, CallDefectCodes
<1>7. \A k \in SourceKeys : NoticedAtEnd(k) \in SUBSET Codes
  BY <1>4, <1>6 DEF NoticedAtEnd, TypeOK
<1>8. TypeOK'
  <2>1. calls' \in [ SourceKeys -> Call ]
    BY <1>1, <1>5 DEF settled
  <2>2. callDiagnostics' \in [ SourceKeys -> SUBSET Codes ]
    BY <1>1, <1>6, <1>7
  <2> QED
    BY <2>1, <2>2, <1>2, <1>4 DEF TypeOK
<1>9. ViolationsKept'
  BY <1>1, <1>2, <1>4, <1>5 DEF settled, CoordinatorInv, ViolationsKept, Known, NoticedAtEnd
<1>10. CompleteIsEarned'
  <2> SUFFICES ASSUME NEW k \in SourceKeys, settled[k].status = "complete"
               PROVE  Earned(k)'
    BY <1>1 DEF settled, CompleteIsEarned, Earned
  <2>1. settled[k].schemaValid # "invalid" => callDiagnostics'[k] = NoticedAtEnd(k)
    BY <1>1
  <2> QED
    BY <2>1, <1>1, <1>2, <1>5 DEF settled, Earned, HasError
<1>11. ReasonMarksFinish'
  BY <1>2, <1>3 DEF ReasonMarksFinish
<1> QED
  BY <1>8, <1>9, <1>10, <1>11 DEF CoordinatorInv

\* Pushing the end of the stream keeps the invariant.
LEMMA PushEndKeeps ==
  ASSUME CoordinatorInv, NEW reason \in Reasons, PushEnd(reason)
  PROVE  CoordinatorInv'
<1>1. CASE PushStreamEnd(reason)
  BY <1>1, EndStreamKeeps, CoordinatorAssumption
     DEF PushStreamEnd, Accepted, CoordinatorInv, TypeOK
<1>2. CASE ~PushStreamEnd(reason)
  BY <1>2, RejectedPushKeeps
     DEF PushEnd, PushConflictingEnd, PushAfterStreamEnd, PushOverLimit,
         RejectionCodes
<1> QED
  BY <1>1, <1>2

\* finish() of the coordinator keeps the invariant.
LEMMA FinishCoordinatorKeeps ==
  ASSUME CoordinatorInv, NEW reason \in Reasons, FinishCoordinator(reason)
  PROVE  CoordinatorInv'
<1>1. CASE isFinished
  BY <1>1 DEF FinishCoordinator, coordinatorVars, diagnosticVars, finishVars,
              CoordinatorInv, TypeOK, ViolationsKept, Known, CompleteIsEarned,
              Earned, ReasonMarksFinish
<1>2. CASE ~isFinished
  BY <1>2, EndStreamKeeps DEF FinishCoordinator, CoordinatorInv, TypeOK
<1> QED
  BY <1>1, <1>2

\* The invariant of the coordinator holds initially.
LEMMA CoordinatorInitially == CoordinatorInit => CoordinatorInv
<1> SUFFICES ASSUME CoordinatorInit  PROVE CoordinatorInv
  OBVIOUS
<1>1. NoCall \in Call /\ NoCall.status = "absent"
  BY DEF NoCall, NewCall, Call, Statuses, ParserStates, SchemaVerdicts
<1>2. TypeOK
  <2> HIDE DEF NoCall
  <2>1. calls \in [ SourceKeys -> Call ]
    BY <1>1 DEF CoordinatorInit
  <2>2. /\ callDiagnostics \in [ SourceKeys -> SUBSET Codes ]
        /\ sourceDiagnostics \in [ SourceKeys -> SUBSET Codes ]
        /\ pendingProtocolDiagnostics \in [ SourceKeys -> SUBSET Codes ]
        /\ streamDiagnostics \in SUBSET Codes
    BY DEF CoordinatorInit
  <2>3. eventsProcessed \in 0 .. MaxNormalizedEvents
    BY CoordinatorAssumption DEF CoordinatorInit
  <2> QED
    BY <2>1, <2>2, <2>3 DEF CoordinatorInit, TypeOK
<1>3. ViolationsKept
  BY DEF CoordinatorInit, ViolationsKept
<1>4. CompleteIsEarned
  BY <1>1 DEF CoordinatorInit, CompleteIsEarned, Earned
<1>5. ReasonMarksFinish
  BY DEF CoordinatorInit, ReasonMarksFinish
<1> QED
  BY <1>2, <1>3, <1>4, <1>5 DEF CoordinatorInv

------------------------------------------------------------------------------
(* The decision table.                                                      *)

\* What an execute decision rests on: it is reached from one branch only.
LEMMA ExecuteMeans ==
  ASSUME NEW call, NEW own, NEW stream, NEW endReason,
         Decide(call, own, stream, endReason) = ExecuteReason
  PROVE  /\ call.status = "complete" /\ call.schemaValid # "invalid"
         /\ call.executable /\ call.name >= 0
         /\ "E_COORDINATOR_LIMIT_EVENTS" \notin stream
         /\ (own \cup stream) \cap AuthorityProtocolViolationCodes = {}
<1>1. /\ DecideByStatus(call) = ExecuteReason
      /\ ~ResourceLimitEvidence(call, own, stream)
      /\ ~ProtocolViolationEvidence(own, stream)
  BY DEF Decide, ExecuteReason
<1>2. call.status = "complete"
  BY <1>1 DEF DecideByStatus, ExecuteReason
<1> QED
  BY <1>1, <1>2 DEF DecideByStatus, ExecuteReason, ResourceLimitEvidence,
                    ProtocolViolationEvidence

\* More evidence never turns a refusal into an execute decision: a diagnostic
\* can only take authority away, whatever its code (decide.ts, "universal
\* fail-closed checks").
THEOREM EvidenceNeverAuthorises ==
  ASSUME NEW call, NEW endReason,
         NEW own, NEW moreOwn, own \subseteq moreOwn,
         NEW stream, NEW moreStream, stream \subseteq moreStream,
         Decide(call, moreOwn, moreStream, endReason) = ExecuteReason
  PROVE  Decide(call, own, stream, endReason) = ExecuteReason
<1>1. /\ ~SdkExecutionEvidence(call, moreStream)
      /\ ~ResourceLimitEvidence(call, moreOwn, moreStream)
      /\ endReason # "provider_error"
      /\ ContentFilteredCode \notin moreStream
      /\ ProjectionOnlyCode \notin moreOwn
      /\ ~ProtocolViolationEvidence(moreOwn, moreStream)
      /\ DecideByStatus(call) = ExecuteReason
  BY DEF Decide, ExecuteReason
<1>2. ~SdkExecutionEvidence(call, stream)
  BY <1>1 DEF SdkExecutionEvidence
<1>3. ~ResourceLimitEvidence(call, own, stream)
  BY <1>1 DEF ResourceLimitEvidence
<1>4. ~ProtocolViolationEvidence(own, stream)
  BY <1>1 DEF ProtocolViolationEvidence
<1> QED
  BY <1>1, <1>2, <1>3, <1>4 DEF Decide

------------------------------------------------------------------------------
(* The inductive invariant of the gate.                                     *)

\* A refused push is on record as one of the three codes that nothing evicts.
RejectionRecorded ==
  rejected => streamDiagnostics \cap RejectionCodes # {}

\* The captured reason is the applied one, unless the event that carried it was
\* refused for the event limit, which is on record.
CapturedOrLimited ==
  /\ \/ streamEndReason = finishedReason
     \/ "E_COORDINATOR_LIMIT_EVENTS" \in streamDiagnostics
  /\ isFinished => streamEndReason # "none"

\* finish() settles the coordinator, and reported everything still executable.
FinishSettles ==
  /\ gateFinished => /\ isFinished
                     /\ \A k \in SourceKeys :
                          Executable(k) => finalResult[k] = ExecuteReason
  /\ ~gateFinished => consumedExecutionIds = {}

GateInv ==
  /\ CoordinatorInv /\ GateTypeOK
  /\ RejectionRecorded /\ CapturedOrLimited /\ FinishSettles

\* The invariant of the gate holds initially.
LEMMA GateInitially == Init => GateInv
<1> SUFFICES ASSUME Init  PROVE GateInv
  OBVIOUS
<1>1. CoordinatorInv
  BY CoordinatorInitially DEF Init
<1>2. GateTypeOK
  BY <1>1 DEF Init, GateTypeOK, CoordinatorInv
<1>3. RejectionRecorded /\ CapturedOrLimited /\ FinishSettles
  BY DEF Init, CoordinatorInit, RejectionRecorded, CapturedOrLimited, FinishSettles
<1> QED
  BY <1>1, <1>2, <1>3 DEF GateInv

\* A push of anything but the end of the stream.
LEMMA PushCallEventEffect ==
  ASSUME TypeOK, PushCallEvent
  PROVE  /\ UNCHANGED finishVars
         /\ streamDiagnostics \subseteq streamDiagnostics'
         /\ eventsProcessed' = eventsProcessed =>
              streamDiagnostics' \cap RejectionCodes # {}
         /\ isFinished => UNCHANGED << calls, callDiagnostics >>
<1> USE DEF diagnosticVars, finishVars
<1>1. CASE PushRejected
  BY <1>1 DEF PushRejected, PushAfterStreamEnd, PushOverLimit, RejectedPush,
              RejectionCodes
<1>2. ASSUME NEW k \in SourceKeys, NEW c, NEW codes, CallEvent(k, c, codes)
      PROVE  /\ Accepted /\ UNCHANGED finishVars
             /\ streamDiagnostics \subseteq streamDiagnostics'
  BY <1>2 DEF CallEvent
<1>3. ASSUME NEW k \in SourceKeys,
             \/ DuplicateStart(k) \/ StartOverLimit(k) \/ EventOfUnknownCall(k)
             \/ \E id, index, name : Start(k, id, index, name)
             \/ \E code : SourceDiagnostic(k, code)
      PROVE  /\ Accepted /\ UNCHANGED finishVars
             /\ streamDiagnostics \subseteq streamDiagnostics'
  BY <1>3 DEF DuplicateStart, StartOverLimit, EventOfUnknownCall, Start,
              SourceDiagnostic
<1>4. ASSUME NEW k \in SourceKeys,
             \/ \E id, index : Identity(k, id, index)
             \/ \E n : NameDelta(k, n)
             \/ ArgumentsDelta(k) \/ CallEnd(k)
             \/ \E code : CallDiagnostic(k, code)
      PROVE  /\ Accepted /\ UNCHANGED finishVars
             /\ streamDiagnostics \subseteq streamDiagnostics'
  <2>1. \E c, codes : CallEvent(k, c, codes)
    BY <1>4 DEF Identity, NameDelta, ArgumentsDelta, CallEnd, CallDiagnostic
  <2> QED
    BY <1>2, <2>1
<1>5. ASSUME NEW code, StreamDiagnostic(code)
      PROVE  /\ Accepted /\ UNCHANGED finishVars
             /\ streamDiagnostics \subseteq streamDiagnostics'
  BY <1>5 DEF StreamDiagnostic
<1>6. CASE ~PushRejected
  <2>1. /\ Accepted /\ UNCHANGED finishVars
        /\ streamDiagnostics \subseteq streamDiagnostics'
    BY <1>3, <1>4, <1>5, <1>6 DEF PushCallEvent
  <2> QED
    BY <2>1 DEF Accepted, TypeOK
<1> QED
  BY <1>1, <1>6

\* A push of the end of the stream: refused and recorded, or applied.
LEMMA PushEndEffect ==
  ASSUME TypeOK, NEW reason \in Reasons, PushEnd(reason)
  PROVE  \/ /\ UNCHANGED << calls, callDiagnostics, isFinished, finishedReason >>
            /\ streamDiagnostics \subseteq streamDiagnostics'
            /\ streamDiagnostics' \cap RejectionCodes # {}
            /\ ~isFinished => "E_COORDINATOR_LIMIT_EVENTS" \in streamDiagnostics'
         \/ /\ ~isFinished /\ isFinished' /\ finishedReason' = reason
            /\ UNCHANGED streamDiagnostics
            /\ eventsProcessed' # eventsProcessed
<1>1. CASE PushStreamEnd(reason)
  <2>1. ~isFinished /\ eventsProcessed' # eventsProcessed
    BY <1>1 DEF PushStreamEnd, Accepted, TypeOK
  <2>2. /\ isFinished' = TRUE /\ finishedReason' = reason
        /\ UNCHANGED streamDiagnostics
    BY <1>1 DEF PushStreamEnd, EndStream
  <2> QED
    BY <2>1, <2>2
<1>2. CASE ~PushStreamEnd(reason)
  BY <1>2 DEF PushEnd, PushConflictingEnd, PushAfterStreamEnd, PushOverLimit,
              RejectedPush, RejectionCodes, finishVars
<1> QED
  BY <1>1, <1>2

\* push() of the gate keeps its invariant.
LEMMA PushKeeps ==
  ASSUME GateInv, Push
  PROVE  GateInv'
<1>1. /\ CoordinatorInv /\ TypeOK /\ GateTypeOK
      /\ RejectionRecorded /\ CapturedOrLimited /\ FinishSettles
  BY DEF GateInv, GateTypeOK
<1>2. ObservePush /\ UNCHANGED << finalResult, gateFinished, consumedExecutionIds,
                                  released >>
  BY DEF Push
<1>3. CASE PushCallEvent /\ UNCHANGED streamEndReason
  <2>1. CoordinatorInv'
    BY <1>1, <1>3, PushCallEventKeeps
  <2>2. /\ UNCHANGED finishVars
        /\ streamDiagnostics \subseteq streamDiagnostics'
        /\ eventsProcessed' = eventsProcessed =>
             streamDiagnostics' \cap RejectionCodes # {}
        /\ isFinished => UNCHANGED << calls, callDiagnostics >>
    BY <1>1, <1>3, PushCallEventEffect
  <2>3. GateTypeOK'
    BY <1>1, <1>2, <1>3, <2>1 DEF GateTypeOK, CoordinatorInv, ObservePush
  <2>4. RejectionRecorded'
    BY <1>1, <1>2, <2>2 DEF RejectionRecorded, ObservePush
  <2>5. CapturedOrLimited'
    BY <1>1, <1>3, <2>2 DEF CapturedOrLimited, finishVars
  <2>6. FinishSettles'
    <3>1. ASSUME NEW k \in SourceKeys, isFinished, Executable(k)'
          PROVE  Executable(k)
      BY <1>3, <2>2, <3>1, EvidenceNeverAuthorises DEF Executable, Known, Decision
    <3> QED
      BY <1>1, <1>2, <2>2, <3>1 DEF FinishSettles, finishVars
  <2> QED
    BY <2>1, <2>3, <2>4, <2>5, <2>6 DEF GateInv
<1>4. ASSUME NEW reason \in Reasons, CaptureEnd(reason), PushEnd(reason)
      PROVE  GateInv'
  <2>1. CoordinatorInv'
    BY <1>1, <1>4, PushEndKeeps
  <2>2. \/ /\ UNCHANGED << calls, callDiagnostics, isFinished, finishedReason >>
           /\ streamDiagnostics \subseteq streamDiagnostics'
           /\ streamDiagnostics' \cap RejectionCodes # {}
           /\ ~isFinished => "E_COORDINATOR_LIMIT_EVENTS" \in streamDiagnostics'
        \/ /\ ~isFinished /\ isFinished' /\ finishedReason' = reason
           /\ UNCHANGED streamDiagnostics
           /\ eventsProcessed' # eventsProcessed
    BY <1>1, <1>4, PushEndEffect
  <2>3. GateTypeOK'
    BY <1>1, <1>2, <1>4, <2>1 DEF GateTypeOK, CoordinatorInv, ObservePush, CaptureEnd
  <2>4. RejectionRecorded'
    BY <1>1, <1>2, <2>2 DEF RejectionRecorded, ObservePush
  <2>5. CapturedOrLimited'
    BY <1>1, <1>4, <2>2, ReasonsAssumption
       DEF CapturedOrLimited, CaptureEnd, CoordinatorInv, ReasonMarksFinish
  <2>6. FinishSettles'
    <3>1. CASE gateFinished
      <4>1. isFinished /\ UNCHANGED streamEndReason
        BY <1>1, <1>4, <3>1 DEF FinishSettles, CapturedOrLimited, CaptureEnd
      <4>2. ASSUME NEW k \in SourceKeys, Executable(k)'
            PROVE  Executable(k)
        BY <2>2, <4>1, <4>2, EvidenceNeverAuthorises DEF Executable, Known, Decision
      <4> QED
        BY <1>1, <1>2, <2>2, <3>1, <4>1, <4>2 DEF FinishSettles
    <3>2. CASE ~gateFinished
      BY <1>1, <1>2, <3>2 DEF FinishSettles
    <3> QED
      BY <3>1, <3>2
  <2> QED
    BY <2>1, <2>3, <2>4, <2>5, <2>6 DEF GateInv
<1> QED
  BY <1>3, <1>4 DEF Push

\* finish() of the coordinator leaves it finished, with its own reason or an
\* earlier one.
LEMMA FinishCoordinatorEffect ==
  ASSUME NEW reason \in Reasons, FinishCoordinator(reason)
  PROVE  /\ isFinished' /\ UNCHANGED streamDiagnostics
         /\ isFinished => UNCHANGED << calls, callDiagnostics, finishedReason >>
         /\ ~isFinished => finishedReason' = reason
BY DEF FinishCoordinator, EndStream, coordinatorVars, diagnosticVars, finishVars

\* finish() of the gate keeps its invariant.
LEMMA FinishKeeps ==
  ASSUME GateInv, Finish
  PROVE  GateInv'
<1>1. /\ CoordinatorInv /\ TypeOK /\ GateTypeOK
      /\ RejectionRecorded /\ CapturedOrLimited /\ FinishSettles
  BY DEF GateInv, GateTypeOK
<1>2. PICK reason \in Reasons : CaptureEnd(reason) /\ FinishCoordinator(reason)
  BY DEF Finish
<1>3. /\ finalResult' = [ k \in SourceKeys |->
                             IF Known(k)' THEN Decision(k)' ELSE "none" ]
      /\ gateFinished' = TRUE
      /\ UNCHANGED << consumedExecutionIds, released, rejected >>
  BY DEF Finish, observerVars
<1>4. /\ isFinished' /\ UNCHANGED streamDiagnostics
      /\ isFinished => UNCHANGED << calls, callDiagnostics, finishedReason >>
      /\ ~isFinished => finishedReason' = reason
  BY <1>2, FinishCoordinatorEffect
<1>5. CoordinatorInv'
  BY <1>1, <1>2, FinishCoordinatorKeeps
<1>6. GateTypeOK'
  <2>1. \A k \in SourceKeys : Decision(k)' \in ExecutionReasons
    BY DEF Decision, Decide, DecideByStatus, ExecutionReasons, ExecuteReason,
           RetryReasons, RejectReasons
  <2> QED
    BY <1>1, <1>2, <1>3, <1>5, <2>1 DEF GateTypeOK, CoordinatorInv, CaptureEnd
<1>7. RejectionRecorded'
  BY <1>1, <1>3, <1>4 DEF RejectionRecorded
<1>8. CapturedOrLimited'
  BY <1>1, <1>2, <1>4, ReasonsAssumption
     DEF CapturedOrLimited, CaptureEnd, CoordinatorInv, ReasonMarksFinish
<1>9. FinishSettles'
  BY <1>3, <1>4 DEF FinishSettles, Executable
<1> QED
  BY <1>5, <1>6, <1>7, <1>8, <1>9 DEF GateInv

\* takeDecision() keeps the invariant of the gate.
LEMMA TakeDecisionKeeps ==
  ASSUME GateInv, NEW k \in SourceKeys, TakeDecision(k)
  PROVE  GateInv'
<1> USE DEF TakeDecision, coordinatorVars, diagnosticVars, finishVars
<1>1. CoordinatorInv'
  BY DEF GateInv, CoordinatorInv, TypeOK, ViolationsKept, Known,
         CompleteIsEarned, Earned, ReasonMarksFinish
<1>2. GateTypeOK'
  BY <1>1 DEF GateInv, GateTypeOK, CoordinatorInv
<1>3. RejectionRecorded' /\ CapturedOrLimited'
  BY DEF GateInv, RejectionRecorded, CapturedOrLimited
<1>4. FinishSettles'
  BY DEF GateInv, FinishSettles, Executable, Known, Decision
<1> QED
  BY <1>1, <1>2, <1>3, <1>4 DEF GateInv

\* A step that changes nothing keeps the invariant of the gate.
LEMMA StutterKeeps ==
  ASSUME GateInv, UNCHANGED vars
  PROVE  GateInv'
<1> USE DEF vars, coordinatorVars, diagnosticVars, finishVars, gateVars, observerVars
<1>1. CoordinatorInv'
  BY DEF GateInv, CoordinatorInv, TypeOK, ViolationsKept, Known,
         CompleteIsEarned, Earned, ReasonMarksFinish
<1>2. GateTypeOK'
  BY <1>1 DEF GateInv, GateTypeOK, CoordinatorInv
<1>3. RejectionRecorded' /\ CapturedOrLimited'
  BY DEF GateInv, RejectionRecorded, CapturedOrLimited
<1>4. FinishSettles'
  BY DEF GateInv, FinishSettles, Executable, Known, Decision
<1> QED
  BY <1>1, <1>2, <1>3, <1>4 DEF GateInv

\* The inductive invariant holds of every reachable state.
THEOREM GateInvariant == Spec => []GateInv
<1>1. ASSUME GateInv, [Next]_vars
      PROVE  GateInv'
  BY <1>1, PushKeeps, FinishKeeps, TakeDecisionKeeps, StutterKeeps DEF Next
<1> QED
  BY <1>1, GateInitially, PTL DEF Spec

------------------------------------------------------------------------------
(* Safety.                                                                  *)

\* What the gate keeps about every call is well typed.
THEOREM TypeCorrect == Spec => []GateTypeOK
<1>1. GateInv => GateTypeOK
  BY DEF GateInv
<1> QED
  BY <1>1, GateInvariant, PTL

\* What it takes for a call to be executable.
LEMMA ExecutableMeans ==
  ASSUME NEW k \in SourceKeys, Executable(k)
  PROVE  /\ calls[k].status = "complete" /\ calls[k].schemaValid # "invalid"
         /\ calls[k].executable
         /\ "E_COORDINATOR_LIMIT_EVENTS" \notin streamDiagnostics
         /\ (callDiagnostics[k] \cup streamDiagnostics)
               \cap AuthorityProtocolViolationCodes = {}
  BY ExecuteMeans DEF Executable, Decision

\* An executable call has a clean history: see ExecuteIsEarned.
THEOREM ExecuteIsEarnedAlways == Spec => []ExecuteIsEarned
<1>1. ASSUME GateInv
      PROVE  ExecuteIsEarned
  <2> SUFFICES ASSUME NEW k \in SourceKeys, Executable(k)
               PROVE  /\ isFinished /\ finishedReason = "complete"
                      /\ streamEndReason = "complete"
                      /\ calls[k].ended /\ calls[k].name # NoName
                      /\ calls[k].parser \in { "closed", "scalar" }
                      /\ calls[k].schemaValid # "invalid"
                      /\ ~HasError(callDiagnostics[k])
    BY DEF ExecuteIsEarned
  <2>1. /\ calls[k].status = "complete" /\ calls[k].schemaValid # "invalid"
        /\ calls[k].executable
        /\ "E_COORDINATOR_LIMIT_EVENTS" \notin streamDiagnostics
    BY ExecutableMeans
  <2>2. /\ isFinished /\ finishedReason = "complete"
        /\ calls[k].ended /\ calls[k].name # NoName
        /\ calls[k].parser \in { "closed", "scalar" }
        /\ ~HasError(callDiagnostics[k])
    BY <1>1, <2>1 DEF GateInv, CoordinatorInv, CompleteIsEarned, Earned
  <2>3. streamEndReason = finishedReason
    BY <1>1, <2>1 DEF GateInv, CapturedOrLimited
  <2> QED
    BY <2>1, <2>2, <2>3
<1> QED
  BY <1>1, GateInvariant, PTL

\* A protocol violation reported before its call starts blocks it for good.
THEOREM EarlyViolationBlocksAlways == Spec => []EarlyViolationBlocks
<1>1. ASSUME GateInv
      PROVE  EarlyViolationBlocks
  <2> SUFFICES ASSUME NEW k \in SourceKeys, Executable(k)
               PROVE  (sourceDiagnostics[k] \cup callDiagnostics[k])
                        \cap AuthorityProtocolViolationCodes = {}
    BY DEF EarlyViolationBlocks
  <2>1. callDiagnostics[k] \cap AuthorityProtocolViolationCodes = {}
    BY ExecutableMeans
  <2>2. sourceDiagnostics[k] \cap AuthorityProtocolViolationCodes
          \subseteq callDiagnostics[k]
    BY <1>1 DEF GateInv, CoordinatorInv, ViolationsKept, Executable
  <2> QED
    BY <2>1, <2>2
<1> QED
  BY <1>1, GateInvariant, PTL

\* A gate that refused an event authorises nothing.
THEOREM RejectedPushBlocksAllAlways == Spec => []RejectedPushBlocksAll
<1>1. ASSUME GateInv
      PROVE  RejectedPushBlocksAll
  <2> SUFFICES ASSUME rejected, NEW k \in SourceKeys, Executable(k)
               PROVE  FALSE
    BY DEF RejectedPushBlocksAll
  <2>1. streamDiagnostics \cap RejectionCodes # {}
    BY <1>1 DEF GateInv, RejectionRecorded
  <2>2. RejectionCodes \subseteq AuthorityProtocolViolationCodes \cup
                                  { "E_COORDINATOR_LIMIT_EVENTS" }
    BY DEF RejectionCodes, AuthorityProtocolViolationCodes
  <2> QED
    BY <2>1, <2>2, ExecutableMeans
<1> QED
  BY <1>1, GateInvariant, PTL

\* takeDecision() hands out only what the last finish() reported.
THEOREM TakenWasReportedAlways == Spec => TakenWasReported
<1>1. ASSUME GateInv, [Next]_vars
      PROVE  [ \A k \in SourceKeys :
                 released'[k] # released[k] => finalResult[k] = ExecuteReason ]_vars
  <2> SUFFICES ASSUME NEW k \in SourceKeys, released'[k] # released[k]
               PROVE  finalResult[k] = ExecuteReason
    OBVIOUS
  <2>1. CASE Push \/ Finish \/ UNCHANGED vars
    BY <2>1 DEF Push, Finish, vars, observerVars
  <2>2. ASSUME NEW j \in SourceKeys, TakeDecision(j)
        PROVE  finalResult[k] = ExecuteReason
    <3>1. j = k
      BY <1>1, <2>2 DEF TakeDecision, GateInv, GateTypeOK
    <3> QED
      BY <1>1, <2>2, <3>1 DEF TakeDecision, GateInv, FinishSettles
  <2> QED
    BY <1>1, <2>1, <2>2 DEF Next
<1> QED
  BY <1>1, GateInvariant, PTL DEF Spec, TakenWasReported

------------------------------------------------------------------------------
(* Refinement.                                                              *)

\* A push after finish() can only take authority away.
LEMMA LatePush ==
  ASSUME GateInv, gateFinished, Push, NEW k \in SourceKeys, Executable(k)'
  PROVE  Executable(k)
<1>1. /\ CoordinatorInv /\ TypeOK /\ isFinished /\ streamEndReason # "none"
  BY DEF GateInv, GateTypeOK, FinishSettles, CapturedOrLimited
<1>2. /\ UNCHANGED << calls, callDiagnostics, streamEndReason >>
      /\ streamDiagnostics \subseteq streamDiagnostics'
  <2>1. CASE PushCallEvent /\ UNCHANGED streamEndReason
    BY <1>1, <2>1, PushCallEventEffect
  <2>2. ASSUME NEW reason \in Reasons, CaptureEnd(reason), PushEnd(reason)
        PROVE  /\ UNCHANGED << calls, callDiagnostics, streamEndReason >>
               /\ streamDiagnostics \subseteq streamDiagnostics'
    BY <1>1, <2>2, PushEndEffect DEF CaptureEnd
  <2> QED
    BY <2>1, <2>2 DEF Push
<1> QED
  BY <1>2, EvidenceNeverAuthorises DEF Executable, Known, Decision

\* A push maps to a withdrawal of authority or to a stutter.
LEMMA PushRefines ==
  ASSUME GateInv, Push
  PROVE  [Authority!Next]_<< authority, released >>
<1>1. UNCHANGED << gateFinished, consumedExecutionIds, released >>
  BY DEF Push
<1>2. CASE ~gateFinished
  BY <1>1, <1>2 DEF authority
<1>3. CASE gateFinished
  <2> DEFINE lost == { k \in SourceKeys : authority[k] = "granted" /\ ~Executable(k)' }
  <2>1. authority' = [ k \in SourceKeys |->
                         IF k \in lost THEN "refused" ELSE authority[k] ]
    <3>1. \A k \in SourceKeys : Executable(k)' => Executable(k)
      BY <1>3, LatePush
    <3> QED
      BY <1>1, <1>3, <3>1 DEF authority
  <2>2. lost \in SUBSET { k \in SourceKeys : authority[k] = "granted" }
    OBVIOUS
  <2> HIDE DEF lost
  <2>3. Authority!Withdraw
    BY <1>1, <2>1, <2>2 DEF Authority!Withdraw
  <2> QED
    BY <2>3 DEF Authority!Next
<1> QED
  BY <1>2, <1>3

\* The first finish() maps to Settle, a repeated one to a stutter.
LEMMA FinishRefines ==
  ASSUME GateInv, Finish
  PROVE  [Authority!Next]_<< authority, released >>
<1>1. /\ gateFinished' = TRUE /\ UNCHANGED << consumedExecutionIds, released >>
  BY DEF Finish, observerVars
<1>2. CASE ~gateFinished
  <2>1. consumedExecutionIds = {}
    BY <1>2 DEF GateInv, FinishSettles
  <2>2. \A k \in SourceKeys : authority[k] = "pending"
    BY <1>2, <2>1 DEF authority
  <2>3. authority' \in [ SourceKeys -> { "granted", "refused" } ]
    BY <1>1, <2>1 DEF authority
  <2> QED
    BY <1>1, <2>2, <2>3 DEF Authority!Next, Authority!Settle
<1>3. CASE gateFinished
  <2>1. isFinished /\ streamEndReason # "none"
    BY <1>3 DEF GateInv, FinishSettles, CapturedOrLimited
  <2>2. PICK reason \in Reasons : CaptureEnd(reason) /\ FinishCoordinator(reason)
    BY DEF Finish
  <2>3. UNCHANGED << calls, callDiagnostics, streamDiagnostics, streamEndReason >>
    BY <2>1, <2>2, FinishCoordinatorEffect DEF CaptureEnd
  <2> QED
    BY <1>1, <1>3, <2>3 DEF authority, Executable, Known, Decision
<1> QED
  BY <1>2, <1>3

\* takeDecision() maps to Take.
LEMMA TakeDecisionRefines ==
  ASSUME GateInv, NEW k \in SourceKeys, TakeDecision(k)
  PROVE  Authority!Take(k)
<1>1. authority[k] = "granted"
  BY DEF TakeDecision, authority
<1>2. authority' = [ authority EXCEPT ![k] = "taken" ]
  <2>1. \A j \in SourceKeys : Executable(j)' <=> Executable(j)
    BY DEF TakeDecision, Executable, Known, Decision, coordinatorVars, diagnosticVars
  <2> QED
    BY <2>1 DEF TakeDecision, authority
<1> QED
  BY <1>1, <1>2 DEF Authority!Take, TakeDecision

\* The gate implements the abstract one-shot, revocable authority.
THEOREM GateImplementsAuthority == Spec => ImplementsAuthority
<1>1. Init => Authority!Init
  BY DEF Init, authority, Authority!Init
<1>2. ASSUME GateInv, [Next]_vars
      PROVE  [Authority!Next]_(Authority!authorityVars)
  <2>1. CASE Push
    BY <1>2, <2>1, PushRefines DEF Authority!authorityVars
  <2>2. CASE Finish
    BY <1>2, <2>2, FinishRefines DEF Authority!authorityVars
  <2>3. ASSUME NEW k \in SourceKeys, TakeDecision(k)
        PROVE  [Authority!Next]_(Authority!authorityVars)
    BY <1>2, <2>3, TakeDecisionRefines DEF Authority!Next
  <2>4. CASE UNCHANGED vars
    BY <2>4 DEF vars, coordinatorVars, diagnosticVars, gateVars, observerVars,
                authority, Executable, Known, Decision, Authority!authorityVars
  <2> QED
    BY <1>2, <2>1, <2>2, <2>3, <2>4 DEF Next
<1> QED
  BY <1>1, <1>2, GateInvariant, PTL DEF Spec, ImplementsAuthority, Authority!Spec
===============================================================================
