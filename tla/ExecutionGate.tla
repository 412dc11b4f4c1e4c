----------------------------- MODULE ExecutionGate -----------------------------
(***************************************************************************)
(* The execution gate (src/src/gate/gate.ts) around one coordinator: it    *)
(* remembers which stream-end reason it saw first, turns the state of the  *)
(* calls into decisions, and hands out the authority to execute a call at  *)
(* most once.                                                              *)
(***************************************************************************)
EXTENDS ToolCallCoordinator, DecisionTable

VARIABLES
  streamEndReason,       \* the captured reason; "none" before streamEndCaptured
  finalResult,           \* decisions frozen by finish(); "none" per call before
  gateFinished,          \* finalResult is defined
  consumedExecutionIds,  \* calls whose authority was taken
  released,              \* observer: execute decisions handed out per call
  rejected               \* observer: push() returned accepted = false once

gateVars == << streamEndReason, finalResult, gateFinished,
               consumedExecutionIds >>
observerVars == << released, rejected >>
vars == << coordinatorVars, gateVars, observerVars >>

GateTypeOK ==
  /\ TypeOK
  /\ streamEndReason \in Reasons \cup { "none" }
  /\ finalResult \in [ SourceKeys -> ExecutionReasons \cup { "none" } ]
  /\ gateFinished \in BOOLEAN
  /\ consumedExecutionIds \in SUBSET SourceKeys
  /\ released \in [ SourceKeys -> Nat ]
  /\ rejected \in BOOLEAN

Init ==
  /\ CoordinatorInit
  /\ streamEndReason = "none"
  /\ finalResult = [ k \in SourceKeys |-> "none" ]
  /\ gateFinished = FALSE
  /\ consumedExecutionIds = {}
  /\ released = [ k \in SourceKeys |-> 0 ]
  /\ rejected = FALSE

\* What snapshot() and takeDecision() compute for the call of k.
Decision(k) ==
  Decide(calls[k], callDiagnostics[k], streamDiagnostics,
         IF streamEndReason = "none" THEN "unknown" ELSE streamEndReason)

Executable(k) == Known(k) /\ Decision(k) = ExecuteReason

------------------------------------------------------------------------------

\* The first reason offered wins, whatever the coordinator does with it.
CaptureEnd(reason) ==
  streamEndReason' = IF streamEndReason = "none" THEN reason ELSE streamEndReason

\* An accepted push is the one that the event budget counts.
ObservePush == rejected' = (rejected \/ eventsProcessed' = eventsProcessed)

Push ==
  /\ \/ /\ PushCallEvent
        /\ UNCHANGED streamEndReason
     \/ \E reason \in Reasons :
          /\ CaptureEnd(reason)
          /\ PushEnd(reason)
  /\ ObservePush
  /\ UNCHANGED << finalResult, gateFinished, consumedExecutionIds, released >>

\* finish({reason}) may be called again: it then decides afresh.
Finish ==
  /\ \E reason \in Reasons :
       /\ CaptureEnd(reason)
       /\ FinishCoordinator(reason)
  /\ finalResult' = [ k \in SourceKeys |->
                        IF Known(k)' THEN Decision(k)' ELSE "none" ]
  /\ gateFinished' = TRUE
  /\ UNCHANGED << consumedExecutionIds, observerVars >>

\* Mutant of TakeDecision: it trusts the decisions frozen by finish().
TakeFrozenDecision(k) ==
  /\ gateFinished
  /\ k \notin consumedExecutionIds
  /\ finalResult[k] = ExecuteReason
  /\ consumedExecutionIds' = consumedExecutionIds \cup { k }
  /\ released' = [ released EXCEPT ![k] = @ + 1 ]
  /\ UNCHANGED << coordinatorVars, streamEndReason, finalResult, gateFinished,
                  rejected >>

\* Mutant of TakeDecision: it does not wait for finish().
TakeBeforeFinish(k) ==
  /\ k \notin consumedExecutionIds
  /\ Executable(k)
  /\ consumedExecutionIds' = consumedExecutionIds \cup { k }
  /\ released' = [ released EXCEPT ![k] = @ + 1 ]
  /\ UNCHANGED << coordinatorVars, streamEndReason, finalResult, gateFinished,
                  rejected >>

\* takeDecision() that hands the decision out. It decides on the diagnostics
\* of now, not on finalResult; in every other case it changes nothing.
TakeDecision(k) ==
  /\ gateFinished
  /\ k \notin consumedExecutionIds
  /\ Executable(k)
  /\ consumedExecutionIds' = consumedExecutionIds \cup { k }
  /\ released' = [ released EXCEPT ![k] = @ + 1 ]
  /\ UNCHANGED << coordinatorVars, streamEndReason, finalResult, gateFinished,
                  rejected >>

Next ==
  \/ Push
  \/ Finish
  \/ \E k \in SourceKeys : TakeDecision(k)

Spec == Init /\ [][Next]_vars

------------------------------------------------------------------------------
(* The gate as an instance of what an execution gate promises.              *)

authority ==
  [ k \in SourceKeys |->
      IF k \in consumedExecutionIds THEN "taken"
      ELSE IF ~gateFinished THEN "pending"
      ELSE IF Executable(k) THEN "granted" ELSE "refused" ]

Authority == INSTANCE ExecutionAuthority WITH
  SourceKeys <- SourceKeys, authority <- authority, released <- released

\* The gate implements the abstract specification: authority is granted by
\* finish() alone, handed out once per call, and never comes back once late
\* evidence or takeDecision() has ended it (GHSA-3xpw-9694-2xxp).
ImplementsAuthority == Authority!Spec

------------------------------------------------------------------------------
(* Safety.                                                                  *)

\* A call may execute only if its whole history is clean: the provider itself
\* ended the call, the arguments closed under a "complete" end that both the
\* coordinator and the gate agree on, the schema did not fail, and no error was
\* ever recorded against the call.
ExecuteIsEarned ==
  \A k \in SourceKeys : Executable(k) =>
    /\ isFinished /\ finishedReason = "complete" /\ streamEndReason = "complete"
    /\ calls[k].ended /\ calls[k].name # NoName
    /\ calls[k].parser \in { "closed", "scalar" }
    /\ calls[k].schemaValid # "invalid"
    /\ ~HasError(callDiagnostics[k])

\* A protocol violation reported about a source key blocks its call for good,
\* also when the report came before the call started.
EarlyViolationBlocks ==
  \A k \in SourceKeys :
    (sourceDiagnostics[k] \cup callDiagnostics[k])
        \cap AuthorityProtocolViolationCodes # {} => ~Executable(k)

\* A gate that refused an event (after the end of the stream, or beyond the
\* event budget) has incomplete evidence, and authorises no call from then on.
RejectedPushBlocksAll == rejected => \A k \in SourceKeys : ~Executable(k)

\* A call with a clean history executes, whatever happened to the other calls:
\* evidence of one call is never held against another (decide.ts filters the
\* diagnostics by internalId, and so does hasCallConflict()).
CleanCallExecutes ==
  \A k \in SourceKeys :
    /\ isFinished /\ finishedReason = "complete" /\ streamEndReason = "complete"
    /\ calls[k].ended /\ calls[k].parser = "closed"
    /\ calls[k].schemaValid # "invalid"
    /\ callDiagnostics[k] = {} /\ streamDiagnostics = {}
    => Executable(k)

\* The tool_call_finished event a UI saw and the gate's decision never
\* disagree in the dangerous direction.
FinishedEventAgrees ==
  \A k \in SourceKeys : Executable(k) => calls[k].finished = "executable"

\* takeDecision() never hands out a call that the last finish() refused.
TakenWasReported ==
  [][ \A k \in SourceKeys :
        released'[k] # released[k] => finalResult[k] = ExecuteReason ]_vars

\* A settled call is never reopened or upgraded; the only status it can still
\* get is "invalid" (that the status "sdk_execution_observed" can be lost in this
\* way contradicts the documents: ObservedExecutionStays below).
SettledNeverImproves ==
  [][ \A k \in SourceKeys : Known(k) /\ ~Collecting(calls[k]) =>
        calls'[k].status \in { calls[k].status, "invalid" } ]_vars

------------------------------------------------------------------------------
(* What the documentation says and the code does not do.                    *)

\* docs/THREAT_MODEL.md: evidence that the SDK ran a tool permanently blocks
\* that call when the part carries a usable call id.
AttributedExecutionBlocks ==
  \A k \in SourceKeys :
    (sourceDiagnostics[k] \cup callDiagnostics[k])
        \cap SdkExecutionObservedCodes # {} => ~Executable(k)

\* docs/EXECUTION_GATE.md and the comment in handleProviderDiagnostic(): once a call
\* is known to have been executed by the SDK, nothing that comes later, no event and
\* no other reason for a refusal, takes or hides that fact.
ObservedExecutionStays ==
  [][ \A k \in SourceKeys :
        Known(k) /\ Decision(k) = "sdk_execution_observed" =>
          Decision(k)' = "sdk_execution_observed" ]_vars

\* gate/types.ts and docs/EXECUTION_GATE.md: snapshot() reports no call as
\* executable before finish().
SnapshotNeverExecutes ==
  ~gateFinished => \A k \in SourceKeys : ~Executable(k)
==============================================================================
