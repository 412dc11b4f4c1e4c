------------------------- MODULE ToolCallCoordinator -------------------------
(***************************************************************************)
(* The tool-call coordinator (src/src/coordinator/coordinator.ts): it      *)
(* collects the normalized events of one provider stream into per-call     *)
(* state, and settles every call when the stream ends.                     *)
(*                                                                         *)
(* A call is identified by the provider's source key.  A source key starts *)
(* at most one call, so the internal id and the map from one to the other  *)
(* are left implicit, and a call record of status "absent" stands for a    *)
(* key that has no call.  The diagnostics list is split by scope, as its   *)
(* only readers do.  One action per kind of event pushed, for an event the *)
(* coordinator takes, and one per reason why it rejects one.               *)
(***************************************************************************)
EXTENDS Integers, FiniteSets, Diagnostics, ArgumentParser

CONSTANTS
  SourceKeys,           \* source keys the provider may use
  ToolCallIds,          \* provider call ids
  ToolIndices,          \* provider tool indices
  Absent,               \* an optional field that is undefined
  InitialNames,         \* lengths of a name given by a start event (or NoName)
  DeltaLengths,         \* lengths of one name delta
  Reasons,              \* stream-end reasons in use
  ProviderCodes,        \* codes of the provider diagnostics in use
  ValidatorAnswers,     \* verdicts that the tools' validators may return
  MaxToolCalls,         \* limits.maxToolCalls
  MaxToolNameBytes,     \* limits.maxToolNameBytes
  MaxNormalizedEvents   \* limits.maxNormalizedEvents

NoName == -1

ASSUME CoordinatorAssumption ==
  /\ Absent \notin ToolCallIds \cup ToolIndices
  /\ InitialNames \subseteq Nat \cup { NoName }
  /\ DeltaLengths \subseteq Nat
  /\ ProviderCodes \subseteq Codes
  /\ ValidatorAnswers \subseteq { "none", "valid", "invalid" }
  /\ MaxToolCalls \in Nat
  /\ MaxToolNameBytes \in Nat
  /\ MaxNormalizedEvents \in Nat

ASSUME ReasonsAssumption ==
  Reasons \subseteq { "complete", "length", "network_error", "provider_error",
                      "cancelled", "unknown" }

VARIABLES
  calls,                       \* the call of each source key
  callDiagnostics,             \* diagnostics that carry the call's internalId
  sourceDiagnostics,           \* diagnostics that carry only a sourceKey
  streamDiagnostics,           \* diagnostics that carry neither
  pendingProtocolDiagnostics,  \* violations waiting for their call to start
  eventsProcessed,
  isFinished,
  finishedReason

diagnosticVars ==
  << callDiagnostics, sourceDiagnostics, streamDiagnostics,
     pendingProtocolDiagnostics >>
finishVars == << isFinished, finishedReason >>
coordinatorVars == << calls, diagnosticVars, eventsProcessed, finishVars >>

Statuses ==
  { "collecting", "complete", "truncated", "salvaged", "invalid", "cancelled",
    "sdk_execution_observed" }

SchemaVerdicts == { "none", "valid", "invalid" }  \* schemaValid: undefined, true, false

Call ==
  [ status      : Statuses \cup { "absent" },
    toolCallId  : ToolCallIds \cup { Absent },
    toolIndex   : ToolIndices \cup { Absent },
    name        : Nat \cup { NoName },         \* length of the name, if any
    ended       : BOOLEAN,                     \* nameComplete, argumentStreamClosed
    parser      : ParserStates,
    executable  : BOOLEAN,                     \* parser.executable
    schemaValid : SchemaVerdicts,
    finished    : { "none", "executable", "not_executable" } ]
                                               \* the tool_call_finished event

NewCall(id, index, name) ==
  [ status |-> "collecting", toolCallId |-> id, toolIndex |-> index,
    name |-> name, ended |-> FALSE, parser |-> "empty", executable |-> FALSE,
    schemaValid |-> "none", finished |-> "none" ]

NoCall == [ NewCall(Absent, Absent, NoName) EXCEPT !.status = "absent" ]

Known(k) == calls[k].status # "absent"

TypeOK ==
  /\ calls \in [ SourceKeys -> Call ]
  /\ callDiagnostics \in [ SourceKeys -> SUBSET Codes ]
  /\ sourceDiagnostics \in [ SourceKeys -> SUBSET Codes ]
  /\ streamDiagnostics \in SUBSET Codes
  /\ pendingProtocolDiagnostics \in [ SourceKeys -> SUBSET Codes ]
  /\ eventsProcessed \in 0 .. MaxNormalizedEvents
  /\ isFinished \in BOOLEAN
  /\ finishedReason \in Reasons \cup { "none" }

CoordinatorInit ==
  /\ calls = [ k \in SourceKeys |-> NoCall ]
  /\ callDiagnostics = [ k \in SourceKeys |-> {} ]
  /\ sourceDiagnostics = [ k \in SourceKeys |-> {} ]
  /\ streamDiagnostics = {}
  /\ pendingProtocolDiagnostics = [ k \in SourceKeys |-> {} ]
  /\ eventsProcessed = 0
  /\ isFinished = FALSE
  /\ finishedReason = "none"

------------------------------------------------------------------------------
(* push(): what every event must pass before it is dispatched.              *)

\* Mutant of Accepted: the event budget is off by one.
AcceptedOneTooMany ==
  /\ ~isFinished
  /\ eventsProcessed <= MaxNormalizedEvents
  /\ eventsProcessed' = eventsProcessed + 1

Accepted ==
  /\ ~isFinished
  /\ eventsProcessed < MaxNormalizedEvents
  /\ eventsProcessed' = eventsProcessed + 1

\* Mutant of RejectedPush: the refusal is returned but leaves no evidence.
RejectedPushForgotten(code) ==
  UNCHANGED << calls, callDiagnostics, sourceDiagnostics, streamDiagnostics,
               pendingProtocolDiagnostics, eventsProcessed, finishVars >>

\* An event rejected before dispatch leaves one stream-wide record per code.
RejectedPush(code) ==
  /\ streamDiagnostics' = streamDiagnostics \cup { code }
  /\ UNCHANGED << calls, callDiagnostics, sourceDiagnostics,
                  pendingProtocolDiagnostics, eventsProcessed, finishVars >>

PushAfterStreamEnd ==
  /\ isFinished
  /\ RejectedPush("E_EVENT_AFTER_STREAM_END")

PushConflictingEnd(reason) ==
  /\ isFinished
  /\ reason # finishedReason
  /\ RejectedPush("E_TERMINAL_REASON_CONFLICT")

PushOverLimit ==
  /\ ~isFinished
  /\ eventsProcessed >= MaxNormalizedEvents
  /\ RejectedPush("E_COORDINATOR_LIMIT_EVENTS")

------------------------------------------------------------------------------
(* tool_call_start *)

DuplicateStart(k) ==
  /\ Accepted
  /\ Known(k)
  /\ callDiagnostics' =
       [ callDiagnostics EXCEPT ![k] = @ \cup { "E_DUPLICATE_TOOL_CALL_START" } ]
  /\ UNCHANGED << calls, sourceDiagnostics, streamDiagnostics,
                  pendingProtocolDiagnostics, finishVars >>

StartOverLimit(k) ==
  /\ Accepted
  /\ ~Known(k)
  /\ Cardinality({ j \in SourceKeys : Known(j) }) >= MaxToolCalls
  /\ streamDiagnostics' = streamDiagnostics \cup { "E_COORDINATOR_LIMIT_CALLS" }
  /\ UNCHANGED << calls, callDiagnostics, sourceDiagnostics,
                  pendingProtocolDiagnostics, finishVars >>

\* Mutant of Start: violations reported before the call existed are dropped.
StartForgetsPending(k, id, index, name) ==
  /\ Accepted
  /\ ~Known(k)
  /\ Cardinality({ j \in SourceKeys : Known(j) }) < MaxToolCalls
  /\ calls' = [ calls EXCEPT ![k] = NewCall(id, index, name) ]
  /\ pendingProtocolDiagnostics' =
       [ pendingProtocolDiagnostics EXCEPT ![k] = {} ]
  /\ UNCHANGED << callDiagnostics, sourceDiagnostics, streamDiagnostics,
                  finishVars >>

\* The violations that were reported before the call existed move onto it.
Start(k, id, index, name) ==
  /\ Accepted
  /\ ~Known(k)
  /\ Cardinality({ j \in SourceKeys : Known(j) }) < MaxToolCalls
  /\ calls' = [ calls EXCEPT ![k] = NewCall(id, index, name) ]
  /\ callDiagnostics' =
       [ callDiagnostics EXCEPT ![k] = @ \cup pendingProtocolDiagnostics[k] ]
  /\ pendingProtocolDiagnostics' =
       [ pendingProtocolDiagnostics EXCEPT ![k] = {} ]
  /\ UNCHANGED << sourceDiagnostics, streamDiagnostics, finishVars >>

------------------------------------------------------------------------------
(* Events about a call.  For a source key without a call they only count.   *)

EventOfUnknownCall(k) ==
  /\ Accepted
  /\ ~Known(k)
  /\ UNCHANGED << calls, diagnosticVars, finishVars >>

\* One event about call c of key k: its new record and the codes it raises.
CallEvent(k, c, codes) ==
  /\ Accepted
  /\ Known(k)
  /\ calls' = [ calls EXCEPT ![k] = c ]
  /\ callDiagnostics' = [ callDiagnostics EXCEPT ![k] = @ \cup codes ]
  /\ UNCHANGED << sourceDiagnostics, streamDiagnostics,
                  pendingProtocolDiagnostics, finishVars >>

Clashes(known, given) == known # Absent /\ given # Absent /\ known # given

Fill(known, given) == IF known = Absent THEN given ELSE known

\* handleIdentity() does not ask whether the call is still collecting.
Identity(k, id, index) ==
  LET c         == calls[k]
      conflicts == { code \in { "E_PROVIDER_IDENTITY_CONFLICT" } :
                       Clashes(c.toolCallId, id) } \cup
                   { code \in { "E_PROVIDER_INDEX_CONFLICT" } :
                       Clashes(c.toolIndex, index) }
  IN CallEvent(k,
       [ c EXCEPT !.toolCallId = Fill(c.toolCallId, id),
                  !.toolIndex  = Fill(c.toolIndex, index),
                  !.status     = IF conflicts = {} THEN c.status ELSE "invalid" ],
       conflicts)

Collecting(c) == c.status = "collecting"

NameDelta(k, n) ==
  LET c      == calls[k]
      length == (IF c.name = NoName THEN 0 ELSE c.name) + n
  IN \/ /\ ~Collecting(c)
        /\ CallEvent(k, c, { "E_NAME_DELTA_AFTER_END" })
     \/ /\ Collecting(c)
        /\ length <= MaxToolNameBytes
        /\ CallEvent(k, [ c EXCEPT !.name = length ], {})
     \/ /\ Collecting(c)
        /\ length > MaxToolNameBytes
        /\ CallEvent(k, [ c EXCEPT !.name = length, !.status = "invalid" ],
                     { "E_TOOL_NAME_LIMIT" })

ArgumentsDelta(k) ==
  LET c == calls[k]
  IN \/ /\ ~Collecting(c)
        /\ CallEvent(k, c, { "E_ARGUMENT_DELTA_AFTER_END" })
     \/ /\ Collecting(c)
        /\ \E p \in PushArguments(c.parser) :
             CallEvent(k, [ c EXCEPT !.parser = p ], {})

\* The call stays "collecting": only the end of the stream settles it.
CallEnd(k) ==
  LET c == calls[k]
  IN \/ /\ ~Collecting(c)
        /\ CallEvent(k, c, {})
     \/ /\ Collecting(c)
        /\ CallEvent(k, [ c EXCEPT !.ended = TRUE ],
                     IF c.name = NoName THEN { "E_TOOL_NAME_MISSING" } ELSE {})

------------------------------------------------------------------------------
(* provider_diagnostic: about a call, about a key that has no call yet, or  *)
(* about the stream.                                                        *)

CallDiagnostic(k, code) ==
  LET c == calls[k]
  IN CallEvent(k,
       [ c EXCEPT !.status =
           IF code \in SdkExecutionObservedCodes /\ Collecting(c)
           THEN "sdk_execution_observed" ELSE @ ],
       { code })

SourceDiagnostic(k, code) ==
  /\ Accepted
  /\ ~Known(k)
  /\ sourceDiagnostics' = [ sourceDiagnostics EXCEPT ![k] = @ \cup { code } ]
  /\ pendingProtocolDiagnostics' =
       [ pendingProtocolDiagnostics EXCEPT
           ![k] = @ \cup ({ code } \cap AuthorityProtocolViolationCodes) ]
  /\ UNCHANGED << calls, callDiagnostics, streamDiagnostics, finishVars >>

StreamDiagnostic(code) ==
  /\ Accepted
  /\ streamDiagnostics' = streamDiagnostics \cup { code }
  /\ UNCHANGED << calls, callDiagnostics, sourceDiagnostics,
                  pendingProtocolDiagnostics, finishVars >>

------------------------------------------------------------------------------
(* provider_stream_end and finish().                                        *)

\* finishCall(): the record of a collecting call c once its parser returned r
\* and, if it came out complete, its tool's validator returned verdict.
FinishCall(c, r, reason, verdict, conflict) ==
  LET parsed  == IF r.outcome # "valid" THEN r.outcome
                 ELSE IF c.name = NoName \/ conflict THEN "invalid"
                 ELSE "complete"
      outcome == IF reason = "cancelled" THEN "cancelled" ELSE parsed
      schema  == IF outcome = "complete" THEN verdict ELSE "none"
      runs    == outcome = "complete" /\ r.executable /\ schema # "invalid"
  IN [ c EXCEPT !.status = outcome,
                !.executable = r.executable,
                !.schemaValid = schema,
                !.finished = IF runs THEN "executable" ELSE "not_executable" ]

\* Mutant of NoticedAtEnd: a call that was left open is not noticed.
NoticedAtEndNothing(k) == callDiagnostics[k]

\* The diagnostics of k once handleStreamEnd() has noticed that it is open.
NoticedAtEnd(k) ==
  callDiagnostics[k] \cup
    { code \in { "E_STREAM_ENDED_WITH_OPEN_CALL" } :
        Collecting(calls[k]) /\ ~calls[k].ended }

\* Mutant of Settlements: the conflict check forgets to filter by call.
SettlementsAnyConflict(k, reason) ==
  IF Collecting(calls[k])
  THEN { FinishCall(calls[k], r, reason, verdict,
                    \E j \in SourceKeys : HasError(NoticedAtEnd(j))) :
           r \in FinishParser(calls[k].parser, reason), verdict \in ValidatorAnswers }
  ELSE { calls[k] }

\* Mutant of Settlements: calls that are no longer collecting are settled too.
SettlementsOfAll(k, reason) ==
  IF Known(k)
  THEN { FinishCall(calls[k], r, reason, verdict, HasError(NoticedAtEnd(k))) :
           r \in FinishParser(calls[k].parser, reason), verdict \in ValidatorAnswers }
  ELSE { calls[k] }

\* The records handleStreamEnd() may leave for k, over what its parser and its
\* tool's validator may answer.
Settlements(k, reason) ==
  IF Collecting(calls[k])
  THEN { FinishCall(calls[k], r, reason, verdict, HasError(NoticedAtEnd(k))) :
           r \in FinishParser(calls[k].parser, reason), verdict \in ValidatorAnswers }
  ELSE { calls[k] }

\* handleStreamEnd(): settles every call that is still collecting.
EndStream(reason) ==
  /\ LET settling == { k \in SourceKeys : Settlements(k, reason) # { calls[k] } } IN
     \E outcomes \in [ settling -> UNION { Settlements(k, reason) : k \in settling } ] :
       /\ \A k \in settling : outcomes[k] \in Settlements(k, reason)
       /\ calls' = [ k \in SourceKeys |->
                       IF k \in settling THEN outcomes[k] ELSE calls[k] ]
       /\ callDiagnostics' =
            [ k \in SourceKeys |-> NoticedAtEnd(k) \cup
                { code \in { "E_SCHEMA_VALIDATION_FAILED" } :
                    Collecting(calls[k]) /\ calls'[k].schemaValid = "invalid" } ]
  /\ isFinished' = TRUE
  /\ finishedReason' = reason
  /\ UNCHANGED << sourceDiagnostics, streamDiagnostics,
                  pendingProtocolDiagnostics >>

PushStreamEnd(reason) ==
  /\ Accepted
  /\ EndStream(reason)

FinishCoordinator(reason) ==
  \/ /\ ~isFinished
     /\ EndStream(reason)
     /\ UNCHANGED eventsProcessed
  \/ /\ isFinished
     /\ UNCHANGED coordinatorVars

------------------------------------------------------------------------------

PushRejected == PushAfterStreamEnd \/ PushOverLimit

\* A push of any event but provider_stream_end.
PushCallEvent ==
  \/ PushRejected
  \/ \E k \in SourceKeys :
       \/ DuplicateStart(k)
       \/ StartOverLimit(k)
       \/ \E id \in ToolCallIds \cup { Absent },
             index \in ToolIndices \cup { Absent } :
            \/ \E name \in InitialNames : Start(k, id, index, name)
            \/ Identity(k, id, index)
       \/ EventOfUnknownCall(k)
       \/ \E n \in DeltaLengths : NameDelta(k, n)
       \/ ArgumentsDelta(k)
       \/ CallEnd(k)
       \/ \E code \in ProviderCodes :
            CallDiagnostic(k, code) \/ SourceDiagnostic(k, code)
  \/ \E code \in ProviderCodes : StreamDiagnostic(code)

\* A push of provider_stream_end; an end that repeats the reason is just late.
PushEnd(reason) ==
  \/ PushConflictingEnd(reason)
  \/ reason = finishedReason /\ PushAfterStreamEnd
  \/ PushOverLimit
  \/ PushStreamEnd(reason)
==============================================================================
