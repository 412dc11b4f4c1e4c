------------------------------- MODULE GuardedChat -------------------------------
(***************************************************************************)
(* One call of guardedChat() (packages/ai-sdk/src/index.ts) and the        *)
(* responses it fetches (guardResponse() in wire.ts).  An action runs from *)
(* one await to the next, as the event loop does; what an await waits for, *)
(* the SDK, the provider, the application's validators and callbacks, may  *)
(* settle at any time or never, and cancellation and abort may come        *)
(* between any two steps.                                                  *)
(***************************************************************************)
EXTENDS FileRecorder, FiniteSets, SequencesExt

CONSTANTS
  ToolCallIds, Inputs,  \* an input stands for a tool's name and its arguments
  TextFrame,            \* a frame of display-only text: textFrame() holds
  BadFrame,             \* any frame that makes inspectWire() refuse the body
  CallFrames,           \* frames with complete calls: sequences of [ id, input ]
  None,
  Buffered,             \* textStreaming: "buffered"
  MaxFrames             \* the response limit, in frames

VARIABLES
  current,      \* the response fetched last; 0 before the first
  response,     \* the locals of guardedFetch() and guardResponse(), per response
  authorities,  \* the grant that each identifier may execute
  approved,     \* the inputs that the SDK's own validation accepts
  executed      \* observer: the grants whose tool ran

vars == << current, response, authorities, approved, executed, disk >>

Calls == [ id : ToolCallIds, input : Inputs ]
Frames == { TextFrame, BadFrame } \cup CallFrames
Statuses == { "none", "allowed", "refused" }
Grants == [ owner : Responses, id : ToolCallIds, input : Inputs ]

\* Responses are numbered in the order they are fetched, a frame of calls is a
\* sequence of them, and None is not a grant.
ASSUME ResponsesAreCounted == MaxResponses \in Nat
ASSUME FramesOfCalls == CallFrames \subseteq Seq(Calls)
ASSUME NoneIsNoGrant == None \notin Grants
ASSUME BufferedIsSwitch == Buffered \in BOOLEAN

Awaiting == { "validating", "reporting", "refusing" }
Ended == { "closed", "failed", "returned", "unguarded" }
Stages == { "unsent", "upstream", "idle", "reading", "cancelling" }
            \cup Awaiting \cup Ended

Unsent ==
  [ stage |-> "unsent",        \* where the fetch, and then pull(), is
    cancelStage |-> "no",      \* where cancel() is
    answer |-> "none",         \* the cancellable() promise that pull() awaits
    validation |-> "none",     \* the validate() promise: it outlives the await
    pending |-> << >>,         \* the calls validate() accepted, in order
    recording |-> "none",      \* the observe() promise: created once
    event |-> "none",          \* the status observe() was given
    told |-> "none",           \* the last status onDecision was given
    received |-> << >>,        \* the frames read (chunks)
    decisions |-> << >>,       \* the calls that inspectWire() finds in them
    released |-> 0,            \* how many of them went to the SDK
    delivered |-> "no",        \* the fetch promise: "no", "yes" or "failed"
    holding |-> Buffered, complete |-> FALSE, cancelled |-> FALSE,
    settled |-> FALSE,
    aborted |-> FALSE,         \* the request's signal
    callbackAborted |-> FALSE ]

ResponseStates ==
  [ stage : Stages,
    cancelStage : { "no", "reader", "report", "done" },
    answer : { "none", "pending", "resolved", "rejected" },
    validation : { "none", "running", "returned", "threw" },
    pending : Seq(Calls),
    recording : { "none", "running", "resolved", "rejected" },
    event : Statuses, told : Statuses,
    received : Seq(Frames), decisions : Seq(Calls), released : Nat,
    delivered : { "no", "yes", "failed" },
    holding : BOOLEAN, complete : BOOLEAN, cancelled : BOOLEAN,
    settled : BOOLEAN, aborted : BOOLEAN, callbackAborted : BOOLEAN ]

TypeOK ==
  /\ current \in Responses \cup { 0 }
  /\ response \in [ Responses -> ResponseStates ]
  /\ authorities \in [ ToolCallIds -> Grants \cup { None } ]
  /\ approved \in SUBSET Inputs
  /\ executed \in SUBSET Grants
  /\ disk \in [ Responses -> [ body : FileStates, manifest : FileStates ] ]

Init ==
  /\ current = 0
  /\ response = [ r \in Responses |-> Unsent ]
  /\ authorities = [ id \in ToolCallIds |-> None ]
  /\ approved = {}
  /\ executed = {}
  /\ RecorderInit

------------------------------------------------------------------------------
(* The wire policy *)

\* inspectWire() refuses the whole response for one frame or for an identifier
\* that is repeated, in one frame or over several.
Accepts(state) ==
  /\ BadFrame \notin Range(state.received)
  /\ \A i, j \in DOMAIN state.decisions :
       state.decisions[i].id = state.decisions[j].id => i = j

\* One more frame: its calls come after those of the frames before.
Received(state, frame) ==
  [ state EXCEPT !.received = Append(@, frame),
                 !.decisions = IF frame \in CallFrames THEN @ \o frame ELSE @ ]

------------------------------------------------------------------------------
(* Pieces of the handlers *)

Revoke ==
  /\ authorities' = [ id \in ToolCallIds |-> None ]
  /\ approved' = {}

KeepAuthority == UNCHANGED << authorities, approved >>

Becomes(r, state) == response' = [ response EXCEPT ![r] = state ]

\* Mutant of Awaits: an await under an aborted signal still waits.
AwaitsAnyway(state, where) ==
  [ state EXCEPT !.stage = where, !.answer = "pending" ]

\* An await of cancellable(): rejected at once under an aborted signal.
Awaits(state, where) ==
  [ state EXCEPT !.stage = where,
                 !.answer = IF state.callbackAborted THEN "rejected" ELSE "pending" ]

\* callbackAbort.abort() rejects the await that is under way.
CallbacksAborted(state) ==
  [ state EXCEPT !.callbackAborted = TRUE,
                 !.answer = IF @ = "pending" THEN "rejected" ELSE @ ]

\* report(): the callback is invoked once, with the first event offered.
Reported(state, status) ==
  IF state.recording # "none" THEN state
  ELSE [ state EXCEPT !.recording = "running", !.event = status ]

\* The body of cancel() up to its first await; the caller revokes.
CancelBegun(state) ==
  [ CallbacksAborted(state) EXCEPT !.cancelled = TRUE, !.cancelStage = "reader" ]

Active(state) == ~state.aborted /\ ~state.cancelled

\* The catch of pull() up to its first await: cancel() owns a cancelled response.
Throws(r, state) ==
  IF state.cancelled
    THEN KeepAuthority /\ Becomes(r, [ state EXCEPT !.stage = "returned" ])
    ELSE Revoke /\ Becomes(r, [ state EXCEPT !.stage = "cancelling" ])

\* Mutant of Commit: the last call of the batch is not granted.
CommitOneShort(r) ==
  LET granted == { response[r].pending[i] : i \in 1 .. Len(response[r].pending) - 1 } IN
  /\ authorities' = [ id \in ToolCallIds |->
       IF \E call \in granted : call.id = id
         THEN [ owner |-> r, id |-> id,
                input |-> (CHOOSE call \in granted : call.id = id).input ]
         ELSE authorities[id] ]
  /\ approved' = approved \cup { call.input : call \in granted }

\* Mutant of Commit: the call itself is stored as its authority.
CommitCalls(r) ==
  /\ authorities' = [ id \in ToolCallIds |->
       IF \E call \in Range(response[r].pending) : call.id = id
         THEN CHOOSE call \in Range(response[r].pending) : call.id = id
         ELSE authorities[id] ]
  /\ approved' = approved \cup { call.input : call \in Range(response[r].pending) }

Commit(r) ==
  /\ authorities' = [ id \in ToolCallIds |->
       IF \E call \in Range(response[r].pending) : call.id = id
         THEN [ owner |-> r, id |-> id,
                input |-> (CHOOSE call \in Range(response[r].pending) :
                             call.id = id).input ]
         ELSE authorities[id] ]
  /\ approved' = approved \cup { call.input : call \in Range(response[r].pending) }

------------------------------------------------------------------------------
(* The requests of the SDK *)

\* The SDK starts a step when it is done with the stream of the step before:
\* read to its end, failed, or cancelled, whatever cancel() still waits for.
Over(state) ==
  state.stage \in { "unsent", "unguarded", "closed", "failed" } \/ state.cancelled

StepMayStart == \A r \in Responses : Over(response[r])

\* The wrapper of prepareStep.
PrepareStep ==
  /\ StepMayStart
  /\ Revoke
  /\ UNCHANGED << current, response, executed, disk >>

\* Mutant of Fetch: unused authority of the response before stays.
FetchWithoutRevoke(r) ==
  /\ StepMayStart
  /\ r = current + 1
  /\ current' = r
  /\ Becomes(r, [ response[r] EXCEPT !.stage = "upstream" ])
  /\ KeepAuthority
  /\ UNCHANGED << executed, disk >>

\* guardedFetch() up to the upstream request, or its refusal of the request.
Fetch(r) ==
  /\ StepMayStart
  /\ r = current + 1
  /\ current' = r
  /\ Revoke
  /\ \/ Becomes(r, [ response[r] EXCEPT !.stage = "upstream" ])
     \/ Becomes(r, [ response[r] EXCEPT !.stage = "failed", !.delivered = "failed" ])
  /\ UNCHANGED << executed, disk >>

\* No response, one that is not 2xx and passes unguarded, or one that is not SSE.
UnguardedAnswer(r) ==
  /\ response[r].stage = "upstream"
  /\ \/ Becomes(r, [ response[r] EXCEPT !.stage = "failed", !.delivered = "failed" ])
     \/ Becomes(r, [ response[r] EXCEPT !.stage = "unguarded", !.delivered = "yes" ])
     \/ Becomes(r, [ response[r] EXCEPT !.stage = "failed", !.delivered = "failed",
                                        !.told = "refused" ])
  /\ KeepAuthority
  /\ UNCHANGED << current, executed, disk >>

\* guardResponse(): the stream exists, and under an aborted signal the
\* callbacks are already aborted.
StreamAnswer(r) ==
  /\ response[r].stage = "upstream"
  /\ Becomes(r, [ response[r] EXCEPT !.stage = "idle",
                                     !.callbackAborted = response[r].aborted ])
  /\ KeepAuthority
  /\ UNCHANGED << current, executed, disk >>

\* The request's signal aborts, while anything that looks at it may still run;
\* guardResponse() has no listener before the stream exists and after it closed.
Abort(r) ==
  LET state == [ response[r] EXCEPT !.aborted = TRUE ] IN
  /\ response[r].stage \notin { "unsent", "unguarded", "failed", "returned" }
  /\ ~response[r].aborted /\ ~response[r].cancelled
  /\ Becomes(r, IF state.stage \in { "upstream", "closed" }
                  THEN state ELSE CallbacksAborted(state))
  /\ KeepAuthority
  /\ UNCHANGED << current, executed, disk >>

------------------------------------------------------------------------------
(* pull() *)

\* The stream wants more bytes: pull() begins, or finds no body.
Pull(r) ==
  LET state == response[r] IN
  /\ state.stage = "idle" /\ ~state.cancelled
  /\ \/ Active(state) /\ Becomes(r, [ state EXCEPT !.stage = "reading" ]) /\ KeepAuthority
     \/ ~Active(state) /\ Throws(r, state)
     \/ state.received = << >> /\ Throws(r, state)
  /\ UNCHANGED << current, executed, disk >>

\* Mutant of ReadFrame: holding is not kept for the frames that follow.
ReadFrameForgetsHolding(r) ==
  LET state == response[r]
      read(frame) == [ Received(state, frame) EXCEPT !.holding = frame # TextFrame ] IN
  /\ state.stage = "reading" /\ Active(state)
  /\ Len(state.received) < MaxFrames
  /\ \E frame \in Frames :
       IF read(frame).holding
         THEN Becomes(r, read(frame))
         ELSE Becomes(r, [ read(frame) EXCEPT !.released = Len(state.received) + 1,
                                              !.delivered = "yes",
                                              !.stage = "idle" ])
  /\ KeepAuthority
  /\ UNCHANGED << current, executed, disk >>

\* A frame arrives: a display-only prefix goes out, the rest is held.
ReadFrame(r) ==
  LET state == response[r]
      read(frame) ==
        [ Received(state, frame) EXCEPT !.holding = @ \/ frame # TextFrame ] IN
  /\ state.stage = "reading" /\ Active(state)
  /\ Len(state.received) < MaxFrames
  /\ \E frame \in Frames :
       IF read(frame).holding
         THEN Becomes(r, read(frame))
         ELSE Becomes(r, [ read(frame) EXCEPT !.released = Len(state.received) + 1,
                                              !.delivered = "yes",
                                              !.stage = "idle" ])
  /\ KeepAuthority
  /\ UNCHANGED << current, executed, disk >>

\* The transport fails, or a read passes the limit.
ReadFails(r) ==
  /\ response[r].stage = "reading" /\ Active(response[r])
  /\ Throws(r, response[r])
  /\ UNCHANGED << current, executed, disk >>

\* The signal and cancel() cancel the reader, so that the read settles.
ReadInterrupted(r) ==
  /\ response[r].stage = "reading" /\ ~Active(response[r])
  /\ Throws(r, response[r])
  /\ UNCHANGED << current, executed, disk >>

\* The body is complete: validate() inspects it and starts on the first call.
ReadEnds(r) ==
  LET state == [ response[r] EXCEPT !.complete = TRUE ] IN
  /\ state.stage = "reading" /\ Active(state)
  /\ Becomes(r, [ Awaits(state, "validating") EXCEPT
                    !.validation = IF Accepts(state) THEN "running"
                                                              ELSE "threw" ])
  /\ KeepAuthority
  /\ UNCHANGED << current, executed, disk >>

\* The application's validator answers for the next call: its input stands, or
\* it is invalid or transformed.  This loop does not learn of a cancellation.
ValidateCall(r) ==
  LET state == response[r] IN
  /\ state.validation = "running" /\ Len(state.pending) < Len(state.decisions)
  /\ \/ /\ ~state.aborted
        /\ Becomes(r, [ state EXCEPT
                          !.pending = Append(@, state.decisions[Len(state.pending) + 1]) ])
     \/ Becomes(r, [ state EXCEPT !.validation = "threw" ])
  /\ KeepAuthority
  /\ UNCHANGED << current, executed, disk >>

ValidateReturns(r) ==
  LET state == response[r] IN
  /\ state.validation = "running"
  /\ Len(state.pending) = Len(state.decisions)
  /\ Becomes(r, [ state EXCEPT !.validation = "returned" ])
  /\ KeepAuthority
  /\ UNCHANGED << current, executed, disk >>

\* The promise that the await waits for settles before an abort does.
AnswerArrives(r) ==
  LET state == response[r]
      promise == IF state.stage = "validating" THEN state.validation
                                               ELSE state.recording IN
  /\ state.answer = "pending"
  /\ promise \notin { "none", "running" }
  /\ Becomes(r, [ state EXCEPT !.answer =
                    IF promise \in { "returned", "resolved" } THEN "resolved"
                                                              ELSE "rejected" ])
  /\ KeepAuthority
  /\ UNCHANGED << current, executed, disk >>

\* pull() goes on from the await of validate().
Validated(r) ==
  LET state == response[r] IN
  /\ state.stage = "validating" /\ state.answer # "pending"
  /\ IF state.answer = "resolved" /\ Active(state)
       THEN /\ Becomes(r, Awaits(Reported(state, "allowed"), "reporting"))
            /\ KeepAuthority
       ELSE Throws(r, state)
  /\ UNCHANGED << current, executed, disk >>

\* pull() goes on from the await of report(allowed): it commits the batch and
\* tells the application, whose callback returns, throws or cancels the stream.
ReportedAllowed(r) ==
  LET state == response[r]
      told == [ state EXCEPT !.told = "allowed" ] IN
  /\ state.stage = "reporting" /\ state.answer # "pending"
  /\ IF state.answer = "resolved" /\ Active(state)
       THEN \/ /\ Becomes(r, [ told EXCEPT !.released = Len(state.received),
                                           !.settled = TRUE, !.stage = "closed",
                                           !.delivered = "yes" ])
               /\ Commit(r)
            \/ Throws(r, told)
            \/ /\ state.delivered = "yes"
               /\ Becomes(r, [ CancelBegun(told) EXCEPT
                                 !.stage = "returned",
                                 !.settled = state.released = Len(state.received) ])
               /\ Revoke
       ELSE Throws(r, state)
  /\ UNCHANGED << current, executed, disk >>

\* The catch goes on from the await of reader.cancel().
ReaderCancelled(r) ==
  LET state == response[r] IN
  /\ state.stage = "cancelling"
  /\ Becomes(r, IF state.cancelled THEN [ state EXCEPT !.stage = "returned" ]
                ELSE Awaits(Reported(state, "refused"), "refusing"))
  /\ KeepAuthority
  /\ UNCHANGED << current, executed, disk >>

\* Mutant of ReportedRefused: a callback that heard "allowed" is not told again.
ReportedRefusedOnce(r) ==
  LET state == response[r] IN
  /\ state.stage = "refusing" /\ state.answer # "pending"
  /\ Becomes(r, [ state EXCEPT
                    !.told = IF @ = "none" THEN "refused" ELSE @,
                    !.settled = TRUE, !.stage = "failed",
                    !.delivered = IF @ = "no" THEN "failed" ELSE @ ])
  /\ KeepAuthority
  /\ UNCHANGED << current, executed, disk >>

\* The catch goes on from report(refused), which may have failed, as may decide().
ReportedRefused(r) ==
  LET state == response[r] IN
  /\ state.stage = "refusing" /\ state.answer # "pending"
  /\ Becomes(r, [ state EXCEPT
                    !.told = "refused", !.settled = TRUE, !.stage = "failed",
                    !.delivered = IF @ = "no" THEN "failed" ELSE @ ])
  /\ KeepAuthority
  /\ UNCHANGED << current, executed, disk >>

------------------------------------------------------------------------------
(* cancel() *)

\* The SDK can cancel the stream it was given, until the stream has ended.
Cancel(r) ==
  LET state == response[r] IN
  /\ state.delivered = "yes"
  /\ ~state.cancelled /\ state.stage \notin Ended
  /\ Becomes(r, CancelBegun(state))
  /\ Revoke
  /\ UNCHANGED << current, executed, disk >>

\* From the await of reader.cancel(): report(refused) cannot be waited for.
CancelReports(r) ==
  LET state == response[r] IN
  /\ state.cancelStage = "reader"
  /\ Becomes(r, [ Reported(state, "refused") EXCEPT !.cancelStage = "report" ])
  /\ KeepAuthority
  /\ UNCHANGED << current, executed, disk >>

\* Mutant of CancelSettles: cancel() waits for the recorder.
CancelSettlesRecorded(r) ==
  LET state == response[r] IN
  /\ state.cancelStage = "report" /\ state.recording # "running"
  /\ Becomes(r, [ state EXCEPT !.told = "refused", !.settled = TRUE,
                               !.cancelStage = "done" ])
  /\ KeepAuthority
  /\ UNCHANGED << current, executed, disk >>

CancelSettles(r) ==
  LET state == response[r] IN
  /\ state.cancelStage = "report"
  /\ Becomes(r, [ state EXCEPT !.told = "refused", !.settled = TRUE,
                               !.cancelStage = "done",
                               !.delivered = IF @ = "no" THEN "failed" ELSE @ ])
  /\ KeepAuthority
  /\ UNCHANGED << current, executed, disk >>

------------------------------------------------------------------------------
(* The recorder, and the tools *)

\* onCapture makes progress on the disk, finishes or fails.
RecordingStep(r) ==
  LET state == response[r]
      skips == ~Recorded(state.event) IN
  /\ state.recording = "running"
  /\ \/ /\ ~skips /\ ~Saved(r)
        /\ WriteNext(r)
        /\ UNCHANGED response
     \/ /\ skips \/ Saved(r)
        /\ Becomes(r, [ state EXCEPT !.recording = "resolved" ])
        /\ UNCHANGED disk
     \/ /\ ~skips
        /\ Becomes(r, [ state EXCEPT !.recording = "rejected" ])
        /\ UNCHANGED disk
  /\ KeepAuthority
  /\ UNCHANGED << current, executed >>

\* The SDK runs a tool with the identifier and the input it parsed.  The
\* authority is gone before the signal is looked at.
Execute(id, input) ==
  /\ input \in approved
  /\ authorities[id] # None
  /\ authorities[id].input = input
  /\ authorities' = [ authorities EXCEPT ![id] = None ]
  /\ executed' = IF response[authorities[id].owner].aborted THEN executed
                 ELSE executed \cup { authorities[id] }
  /\ UNCHANGED << current, response, approved, disk >>

------------------------------------------------------------------------------

\* What the event loop runs by itself once an await has settled.
Continue(r) ==
  \/ ReadInterrupted(r) \/ AnswerArrives(r) \/ Validated(r) \/ ReportedAllowed(r)
  \/ ReaderCancelled(r) \/ ReportedRefused(r) \/ CancelReports(r) \/ CancelSettles(r)

Next ==
  \/ PrepareStep
  \/ \E r \in Responses :
       \/ Fetch(r) \/ UnguardedAnswer(r) \/ StreamAnswer(r) \/ Abort(r)
       \/ Pull(r) \/ ReadFrame(r) \/ ReadFails(r) \/ ReadEnds(r)
       \/ ValidateCall(r) \/ ValidateReturns(r) \/ Continue(r)
       \/ Cancel(r) \/ RecordingStep(r)
  \/ \E id \in ToolCallIds, input \in Inputs : Execute(id, input)

\* What the event loop runs is run in the end, and the awaited reader.cancel() of
\* the transport settles (wire.ts:197, 216: there is no deadline on it).  Nothing
\* else is assumed: the provider may send nothing, the SDK may stop reading, and
\* the validators and the recorder may never answer.
Fairness == \A r \in Responses : WF_vars(Continue(r))

Spec == Init /\ [][Next]_vars /\ Fairness

------------------------------------------------------------------------------
(* Safety *)

\* Authority, when there is any, is that of the response fetched last, and that
\* response was read to its end, neither refused nor cancelled (revoke() and the
\* active() checks: packages/ai-sdk/src/index.ts:92, wire.ts:145-147).
AuthorityIsCurrent ==
  \A id \in ToolCallIds :
    authorities[id] # None =>
      /\ authorities[id].owner = current
      /\ response[current].stage = "closed"

\* The SDK sees the frames from the first that is not plain text only with the
\* whole batch: the body complete and accepted, every call validated, and the
\* recording finished ("Recording completes before tool authority is
\* installed", packages/ai-sdk/README.md).
HeldUntilBatchReady ==
  \A r \in Responses :
    LET state == response[r] IN
    (\E i \in 1..state.released : state.received[i] # TextFrame) =>
      /\ state.complete /\ Accepts(state)
      /\ state.pending = state.decisions
      /\ state.recording = "resolved" /\ state.event = "allowed"

\* The last decision the application heard of a settled response is what
\* happened to it, although the callback may throw or cancel the stream while
\* it hears "allowed" (wire.ts:149, 195-203, 211-223).
ToldWhatHappened ==
  \A r \in Responses :
    response[r].settled /\ response[r].cancelStage \in { "no", "done" } =>
      response[r].told = IF response[r].stage = "closed" THEN "allowed" ELSE "refused"

\* A replay of what the recorder left, wherever it was stopped, never says
\* "allowed" of a body that was cut or that the wire policy refused, and never
\* "refused" of a response recorded as allowed (recording.ts:21-25, 82-94).
ReplayIsFaithful ==
  \A r \in Responses :
    \A files \in Survivors(disk[r]) :
      LET state == response[r]
          replay == Replayed(files, state.complete,
                      IF Accepts(state) THEN "allowed" ELSE "refused") IN
      /\ replay = "allowed" => state.complete /\ files.body = "whole"
      /\ replay = "refused" => state.event = "refused"

------------------------------------------------------------------------------
(* Refinement and liveness *)

OutcomeOf(state) ==
  IF state.stage = "closed" THEN "allowed"
  ELSE IF state.cancelled \/ state.stage \in { "cancelling", "refusing", "failed" }
    THEN "refused" ELSE "open"

Outcome == [ r \in Responses |-> OutcomeOf(response[r]) ]

Authority == { authorities[id] : id \in ToolCallIds } \ { None }

Offered == [ r \in Responses |-> Range(response[r].decisions) ]

Batch == INSTANCE BatchRelease WITH
  offered <- Offered, outcome <- Outcome, authority <- Authority,
  executed <- executed

\* The chat implements BatchRelease: the calls read of a response become
\* executable all at once or never, none missing and none but they; a late answer
\* of a validator or recorder grants nothing, and a granted call runs at most
\* once, as it was read (wire.ts:144-149, packages/ai-sdk/src/index.ts:125-150).
ImplementsBatchRelease == Batch!BatchSpec

\* cancel() finishes although validators and recorders never answer (the comment
\* at wire.ts:54).
CancelledSettles ==
  \A r \in Responses :
    response[r].cancelled ~> (response[r].cancelStage = "done")

\* So does a pull() that is under way when the signal aborts.
AbortedSettles ==
  \A r \in Responses :
    (/\ response[r].aborted
     /\ response[r].stage \in { "reading", "cancelling" } \cup Awaiting)
      ~> (response[r].settled)
================================================================================
