---------------------------- MODULE GuardedChat_proofs ----------------------------
(***************************************************************************)
(* Proofs about the guarded chat: its state is well formed, and authority  *)
(* is that of the response fetched last, for any number of responses, any  *)
(* frames and any mode of the recorder.                                    *)
(***************************************************************************)
EXTENDS GuardedChat, TLAPS

\* What the proofs look at in a response: where it is, and whether it is cancelled.
Alike(old, new) == new.stage = old.stage /\ new.cancelled = old.cancelled

Typed(old, new) == new \in ResponseStates /\ Alike(old, new)

\* A step of a response that does not allow it: it may be refused, and what is
\* over stays over.
Progress(old, new) ==
  /\ old # Unsent
  /\ old.stage = "closed" <=> new.stage = "closed"
  /\ Over(old) => Over(new)
  /\ \/ OutcomeOf(new) = OutcomeOf(old)
     \/ OutcomeOf(old) = "open" /\ OutcomeOf(new) = "refused"

DiskTyped == disk \in [ Responses -> [ body : FileStates, manifest : FileStates ] ]

\* What a step of response r changes, at most.
StepOf(r) ==
  /\ response' \in [ Responses -> ResponseStates ]
  /\ \A s \in Responses \ { r } : response'[s] = response[s]
  /\ UNCHANGED << current, executed >>
  /\ DiskTyped'

Progresses(r) ==
  /\ StepOf(r)
  /\ Progress(response[r], response'[r])
  /\ KeepAuthority \/ Revoke

Allows(r) ==
  /\ StepOf(r)
  /\ response[r].stage = "reporting" /\ ~response[r].cancelled
  /\ response'[r].stage = "closed"
  /\ Commit(r)

------------------------------------------------------------------------------
(* Updates of one response.                                                 *)

\* Stage of a response; and its other fields, which leave it Alike.
LEMMA StageTyped ==
  ASSUME NEW s \in ResponseStates, NEW stage \in Stages
  PROVE  /\ [ s EXCEPT !.stage = stage ] \in ResponseStates
         /\ [ s EXCEPT !.stage = stage ].stage = stage
         /\ [ s EXCEPT !.stage = stage ].cancelled = s.cancelled
BY DEF ResponseStates

LEMMA FieldsTyped ==
  ASSUME NEW s \in ResponseStates
  PROVE  /\ \A x \in { "no", "reader", "report", "done" } :
              Typed(s, [ s EXCEPT !.cancelStage = x ])
         /\ \A x \in { "none", "pending", "resolved", "rejected" } :
              Typed(s, [ s EXCEPT !.answer = x ])
         /\ \A x \in { "none", "running", "returned", "threw" } :
              Typed(s, [ s EXCEPT !.validation = x ])
         /\ \A x \in { "none", "running", "resolved", "rejected" } :
              Typed(s, [ s EXCEPT !.recording = x ])
         /\ \A x \in { "no", "yes", "failed" } :
              Typed(s, [ s EXCEPT !.delivered = x ])
         /\ \A x \in Statuses :
              Typed(s, [ s EXCEPT !.told = x ])
         /\ \A x \in Nat :
              Typed(s, [ s EXCEPT !.released = x ])
         /\ \A x \in Seq(Calls) :
              Typed(s, [ s EXCEPT !.pending = x ])
<1>1. \A x \in { "no", "reader", "report", "done" } :
       Typed(s, [ s EXCEPT !.cancelStage = x ])
  BY DEF Typed, Alike, ResponseStates
<1>2. \A x \in { "none", "pending", "resolved", "rejected" } :
       Typed(s, [ s EXCEPT !.answer = x ])
  BY DEF Typed, Alike, ResponseStates
<1>3. \A x \in { "none", "running", "returned", "threw" } :
       Typed(s, [ s EXCEPT !.validation = x ])
  BY DEF Typed, Alike, ResponseStates
<1>4. \A x \in { "no", "yes", "failed" } :
       Typed(s, [ s EXCEPT !.delivered = x ])
  BY DEF Typed, Alike, ResponseStates
<1>5. \A x \in Statuses :
       Typed(s, [ s EXCEPT !.told = x ])
  BY DEF Typed, Alike, ResponseStates
<1>6. \A x \in Nat :
       Typed(s, [ s EXCEPT !.released = x ])
  BY DEF Typed, Alike, ResponseStates
<1>7. \A x \in Seq(Calls) :
       Typed(s, [ s EXCEPT !.pending = x ])
  BY DEF Typed, Alike, ResponseStates
<1>8. \A x \in { "none", "running", "resolved", "rejected" } :
       Typed(s, [ s EXCEPT !.recording = x ])
  BY DEF Typed, Alike, ResponseStates
<1> QED
  BY <1>1, <1>2, <1>3, <1>4, <1>5, <1>6, <1>7, <1>8

LEMMA SwitchesTyped ==
  ASSUME NEW s \in ResponseStates, NEW b \in BOOLEAN
  PROVE  /\ Typed(s, [ s EXCEPT !.settled = b ])
         /\ Typed(s, [ s EXCEPT !.complete = b ])
         /\ Typed(s, [ s EXCEPT !.aborted = b ])
         /\ Typed(s, [ s EXCEPT !.callbackAborted = b ])
         /\ Typed(s, [ s EXCEPT !.holding = b ])
BY DEF Typed, ResponseStates, Alike

LEMMA ReceivedTyped == 
  ASSUME NEW s \in ResponseStates, NEW frame \in Frames 
  PROVE  Received(s, frame) \in ResponseStates /\ Alike(s, Received(s, frame))
<1>1. Append(s.received, frame) \in Seq(Frames)
  BY DEF ResponseStates
<1>2. CASE frame \in CallFrames
  <2>1. s.decisions \o frame \in Seq(Calls)
    BY <1>2, FramesOfCalls DEF ResponseStates
  <2>2. Received(s, frame) = [ s EXCEPT !.received = Append(s.received, frame), !.decisions = s.decisions \o frame ]
    BY <1>2 DEF Received, ResponseStates
  <2> HIDE DEF Frames
  <2> QED
    BY <1>1, <2>1, <2>2 DEF ResponseStates, Alike
<1>3. CASE frame \notin CallFrames
  <2>2. Received(s, frame) = [ s EXCEPT !.received = Append(s.received, frame) ]
    BY <1>3 DEF Received, ResponseStates
  <2> QED
    BY <1>1, <2>2 DEF ResponseStates, Alike
<1> QED
  BY <1>2, <1>3

LEMMA ReportedTyped == 
  ASSUME NEW s \in ResponseStates, NEW status \in Statuses
  PROVE  Reported(s, status) \in ResponseStates /\ Alike(s, Reported(s, status))
<1>1. CASE s.recording = "none"
  BY <1>1 DEF Reported, ResponseStates, Alike
<1>2. CASE s.recording # "none"
  BY <1>2 DEF Reported, ResponseStates, Alike
<1> QED
  BY <1>1, <1>2

LEMMA AwaitsTyped == 
  ASSUME NEW s \in ResponseStates, NEW where \in Stages
  PROVE  /\ Awaits(s, where) \in ResponseStates 
         /\ Awaits(s, where).stage = where
         /\ Awaits(s, where).cancelled = s.cancelled
<1>1. CASE s.callbackAborted
  BY <1>1 DEF Awaits, ResponseStates, Alike
<1>2. CASE ~s.callbackAborted
  BY <1>2 DEF Awaits, ResponseStates, Alike
<1> QED
  BY <1>1, <1>2

LEMMA CallbacksAbortedTyped == 
  ASSUME NEW s \in ResponseStates
  PROVE  /\ CallbacksAborted(s) \in ResponseStates 
         /\ Alike(s, CallbacksAborted(s))
<1>1. CASE s.answer = "pending"
  BY <1>1 DEF CallbacksAborted, ResponseStates, Alike
<1>2. CASE s.answer # "pending"
  BY <1>2 DEF CallbacksAborted, ResponseStates, Alike
<1> QED
  BY <1>1, <1>2
LEMMA CancelBegunTyped ==
  ASSUME NEW s \in ResponseStates
  PROVE  /\ CancelBegun(s) \in ResponseStates
         /\ CancelBegun(s).stage = s.stage
         /\ CancelBegun(s).cancelled
<1> DEFINE aborted == CallbacksAborted(s)
           cancelled == [ aborted EXCEPT !.cancelled = TRUE ]
<1>1. aborted \in ResponseStates /\ Alike(s, aborted)
  BY CallbacksAbortedTyped
<1> HIDE DEF aborted
<1>2. cancelled \in ResponseStates /\ cancelled.stage = s.stage /\ cancelled.cancelled
  BY <1>1 DEF ResponseStates, Alike
<1> HIDE DEF cancelled
<1>3. [ cancelled EXCEPT !.cancelStage = "reader" ] \in ResponseStates
  BY <1>2, FieldsTyped DEF Typed
<1>4. Alike(cancelled, [ cancelled EXCEPT !.cancelStage = "reader" ])
  BY <1>2, FieldsTyped DEF Typed
<1> QED
  BY <1>2, <1>3, <1>4 DEF CancelBegun, cancelled, aborted, Alike

\* Alike states of a response that was sent are a progress.
LEMMA AlikeProgress ==
  ASSUME NEW old, NEW new, old # Unsent, Alike(old, new)
  PROVE  Progress(old, new)
BY DEF Alike, Progress, Over, OutcomeOf

------------------------------------------------------------------------------
(* Every action of a response is a progress of it, or allows it.            *)

\* The response becomes a state that progresses.
LEMMA BecomesProgresses ==
  ASSUME TypeOK, NEW r \in Responses, NEW new \in ResponseStates,
         Becomes(r, new), Progress(response[r], new), KeepAuthority \/ Revoke,
         UNCHANGED << current, executed, disk >>
  PROVE  Progresses(r)
BY DEF TypeOK, Becomes, Progresses, StepOf, DiskTyped

\* A handler that throws in pull() progresses: the response is refused.
LEMMA ThrowsProgresses ==
  ASSUME TypeOK, NEW r \in Responses, NEW state \in ResponseStates,
         Alike(response[r], state), Throws(r, state),
         state.stage \in { "idle", "reading", "validating", "reporting" },
         UNCHANGED << current, executed, disk >>
  PROVE  Progresses(r)
<1>0. response[r] \in ResponseStates /\ response[r] # Unsent
  BY DEF TypeOK, Alike, Unsent
<1>1. CASE state.cancelled
  <2> DEFINE new == [ state EXCEPT !.stage = "returned" ]
  <2>1. new \in ResponseStates /\ new.stage = "returned" /\ new.cancelled
    BY <1>1, StageTyped DEF Stages, Ended
  <2>2. Becomes(r, new) /\ KeepAuthority
    BY <1>1 DEF Throws
  <2> HIDE DEF new
  <2>3. Progress(response[r], new)
    BY <1>0, <1>1, <2>1 DEF Progress, Alike, Over, OutcomeOf
  <2> QED
    BY <2>1, <2>2, <2>3, BecomesProgresses
<1>2. CASE ~state.cancelled
  <2> DEFINE new == [ state EXCEPT !.stage = "cancelling" ]
  <2>1. new \in ResponseStates /\ new.stage = "cancelling" /\ new.cancelled = state.cancelled
    BY StageTyped DEF Stages
  <2>2. Becomes(r, new) /\ Revoke
    BY <1>2 DEF Throws
  <2> HIDE DEF new
  <2>3. Progress(response[r], new)
    BY <1>0, <1>2, <2>1 DEF Progress, Alike, Over, OutcomeOf
  <2> QED
    BY <2>1, <2>2, <2>3, BecomesProgresses
<1> QED
  BY <1>1, <1>2

LEMMA UnguardedAnswerStep ==
  ASSUME TypeOK, NEW r \in Responses, UnguardedAnswer(r)
  PROVE  Progresses(r)
<1> DEFINE old == response[r]
<1>0. old \in ResponseStates /\ old.stage = "upstream" /\ old # Unsent
  BY DEF TypeOK, UnguardedAnswer, Unsent
<1>1. PICK new \in { [ old EXCEPT !.stage = "failed", !.delivered = "failed" ],
                     [ old EXCEPT !.stage = "unguarded", !.delivered = "yes" ],
                     [ old EXCEPT !.stage = "failed", !.delivered = "failed",
                                  !.told = "refused" ] } : Becomes(r, new)
  BY DEF UnguardedAnswer
<1> HIDE DEF old
<1>2. /\ new \in ResponseStates
      /\ new.stage \in { "failed", "unguarded" } /\ new.cancelled = old.cancelled
  <2>1. \A stage \in { "failed", "unguarded" } :
          LET moved == [ old EXCEPT !.stage = stage ]
          IN  /\ moved \in ResponseStates
              /\ moved.stage = stage /\ moved.cancelled = old.cancelled
    BY <1>0, StageTyped DEF Stages, Ended
  <2> DEFINE failed == [ old EXCEPT !.stage = "failed" ]
             unfetched == [ failed EXCEPT !.delivered = "failed" ]
             passed == [ [ old EXCEPT !.stage = "unguarded" ] EXCEPT !.delivered = "yes" ]
  <2>2. Typed(failed, unfetched) /\ Typed([ old EXCEPT !.stage = "unguarded" ], passed)
    BY <2>1, FieldsTyped DEF Statuses
  <2>3. Typed(unfetched, [ unfetched EXCEPT !.told = "refused" ])
    BY <2>2, FieldsTyped DEF Typed, Statuses
  <2> QED
    BY <1>1, <2>1, <2>2, <2>3 DEF Typed, Alike
<1>3. Progress(old, new)
  BY <1>0, <1>2 DEF Progress, Over, OutcomeOf
<1> QED
  BY <1>1, <1>2, <1>3, BecomesProgresses DEF UnguardedAnswer, old

LEMMA StreamAnswerStep ==
  ASSUME TypeOK, NEW r \in Responses, StreamAnswer(r)
  PROVE  Progresses(r)
<1> DEFINE old == response[r]
           new == [ old EXCEPT !.stage = "idle", !.callbackAborted = old.aborted ]
<1>0. old \in ResponseStates /\ old.stage = "upstream" /\ old # Unsent
  BY DEF TypeOK, StreamAnswer, Unsent
<1>1. Becomes(r, new)
  BY DEF StreamAnswer
<1>2. new \in ResponseStates /\ new.stage = "idle" /\ new.cancelled = old.cancelled
  BY <1>0 DEF ResponseStates, Stages
<1> HIDE DEF new
<1>3. Progress(old, new)
  BY <1>0, <1>2 DEF Progress, Over, OutcomeOf
<1> QED
  BY <1>1, <1>2, <1>3, BecomesProgresses DEF StreamAnswer

LEMMA AbortStep ==
  ASSUME TypeOK, NEW r \in Responses, Abort(r)
  PROVE  Progresses(r)
<1> DEFINE old == response[r]
           state == [ old EXCEPT !.aborted = TRUE ]
<1>0. old \in ResponseStates /\ old # Unsent
  BY DEF TypeOK, Abort, Unsent
<1>1. state \in ResponseStates /\ Alike(old, state)
  BY <1>0 DEF ResponseStates, Alike
<1>2. PICK new \in { state, CallbacksAborted(state) } : Becomes(r, new)
  BY DEF Abort
<1> HIDE DEF state
<1>3. new \in ResponseStates /\ Alike(old, new)
  BY <1>1, <1>2, CallbacksAbortedTyped DEF Alike
<1>4. Progress(old, new)
  BY <1>0, <1>3, AlikeProgress
<1> QED
  BY <1>2, <1>3, <1>4, BecomesProgresses DEF Abort

LEMMA PullStep ==
  ASSUME TypeOK, NEW r \in Responses, Pull(r)
  PROVE  Progresses(r)
<1> DEFINE old == response[r]
           new == [ old EXCEPT !.stage = "reading" ]
<1>0. old \in ResponseStates /\ old.stage = "idle" /\ old # Unsent
  BY DEF TypeOK, Pull, Unsent
<1>1. CASE Becomes(r, new) /\ KeepAuthority
  <2>1. new \in ResponseStates /\ new.stage = "reading" /\ new.cancelled = old.cancelled
    BY <1>0 DEF ResponseStates, Stages
  <2> HIDE DEF new
  <2>2. Progress(old, new)
    BY <1>0, <2>1 DEF Progress, Over, OutcomeOf
  <2> QED
    BY <1>1, <2>1, <2>2, BecomesProgresses DEF Pull
<1>2. CASE Throws(r, old)
  BY <1>0, <1>2, ThrowsProgresses DEF Pull, Alike
<1> QED
  BY <1>1, <1>2 DEF Pull

LEMMA ReadFrameStep ==
  ASSUME TypeOK, NEW r \in Responses, ReadFrame(r)
  PROVE  Progresses(r)
<1> DEFINE old == response[r]
           held(frame) == old.holding \/ frame # TextFrame
           read(frame) == [ Received(old, frame) EXCEPT !.holding = held(frame) ]
           sent(frame) == [ read(frame) EXCEPT !.released = Len(old.received) + 1,
                                               !.delivered = "yes",
                                               !.stage = "idle" ]
<1>0. old \in ResponseStates /\ old.stage = "reading" /\ old # Unsent
  BY DEF TypeOK, ReadFrame, Unsent
<1>1. ASSUME NEW frame \in Frames
      PROVE  read(frame) \in ResponseStates /\ Alike(old, read(frame))
  <2>1. Received(old, frame) \in ResponseStates /\ Alike(old, Received(old, frame))
    BY <1>0, ReceivedTyped
  <2>2. held(frame) \in BOOLEAN
    BY <1>0 DEF ResponseStates
  <2> HIDE DEF held
  <2> QED
    BY <2>1, <2>2, SwitchesTyped DEF Typed, Alike
<1>2. PICK frame \in Frames : Becomes(r, read(frame)) \/ Becomes(r, sent(frame))
  <2>1. \A frame \in Frames :
          [ Received(old, frame) EXCEPT !.holding = @ \/ frame # TextFrame ] = read(frame)
    <3> SUFFICES ASSUME NEW frame \in Frames
                 PROVE  Received(old, frame).holding = old.holding
      OBVIOUS
    <3> QED
      BY <1>0 DEF Received, ResponseStates
  <2> QED
    BY <2>1 DEF ReadFrame
<1>3. CASE Becomes(r, read(frame))
  BY <1>0, <1>1, <1>3, AlikeProgress, BecomesProgresses DEF ReadFrame
<1>4. CASE Becomes(r, sent(frame))
  <2> DEFINE state == read(frame)
  <2>1. state \in ResponseStates /\ Alike(old, state) /\ Len(old.received) \in Nat
    BY <1>0, <1>1 DEF ResponseStates
  <2> HIDE DEF read
  <2>2. sent(frame) \in ResponseStates /\ sent(frame).stage = "idle"
        /\ sent(frame).cancelled = old.cancelled
    <3> DEFINE count == Len(old.received) + 1
               out == [ state EXCEPT !.released = count ]
               told == [ out EXCEPT !.delivered = "yes" ]
    <3>0. count \in Nat
      BY <2>1
    <3> HIDE DEF state, count
    <3>1. Typed(state, out)
      BY <2>1, <3>0, FieldsTyped
    <3>2. Typed(out, told)
      BY <3>1, FieldsTyped DEF Typed, Statuses
    <3> HIDE DEF out
    <3>3. told \in ResponseStates /\ told.cancelled = old.cancelled
      BY <2>1, <3>1, <3>2 DEF Typed, Alike
    <3> HIDE DEF told
    <3>4. LET new == [ told EXCEPT !.stage = "idle" ]
          IN  /\ new \in ResponseStates
              /\ new.stage = "idle" /\ new.cancelled = old.cancelled
      BY <3>3, StageTyped DEF Stages
    <3> QED
      BY <3>4 DEF told, out, state, count
  <2> HIDE DEF sent
  <2>3. Progress(old, sent(frame))
    BY <1>0, <2>2 DEF Progress, Over, OutcomeOf
  <2> QED
    BY <1>4, <2>2, <2>3, BecomesProgresses DEF ReadFrame
<1> QED
  BY <1>2, <1>3, <1>4

LEMMA ReadStep ==
  ASSUME TypeOK, NEW r \in Responses, ReadFails(r) \/ ReadInterrupted(r)
  PROVE  Progresses(r)
BY ThrowsProgresses DEF TypeOK, ReadFails, ReadInterrupted, Alike

LEMMA ReadEndsStep ==
  ASSUME TypeOK, NEW r \in Responses, ReadEnds(r)
  PROVE  Progresses(r)
<1> DEFINE old == response[r]
           state == [ old EXCEPT !.complete = TRUE ]
           waits == Awaits(state, "validating")
<1>0. old \in ResponseStates /\ old.stage = "reading" /\ old # Unsent
  BY DEF TypeOK, ReadEnds, Unsent
<1>1. PICK validation \in { "running", "threw" } :
        Becomes(r, [ waits EXCEPT !.validation = validation ])
  BY DEF ReadEnds
<1> DEFINE new == [ waits EXCEPT !.validation = validation ]
<1>2. state \in ResponseStates /\ Alike(old, state)
  BY <1>0, SwitchesTyped DEF Typed
<1> HIDE DEF state
<1>3. waits \in ResponseStates /\ waits.stage = "validating" /\ waits.cancelled = old.cancelled
  BY <1>2, AwaitsTyped DEF Stages, Awaiting, Alike
<1> HIDE DEF waits
<1>4. Typed(waits, new)
  BY <1>3, FieldsTyped
<1> HIDE DEF new
<1>5. Progress(old, new)
  BY <1>0, <1>3, <1>4 DEF Typed, Alike, Progress, Over, OutcomeOf
<1> QED
  BY <1>1, <1>4, <1>5, BecomesProgresses DEF ReadEnds, Typed, new

\* The steps that leave a response Alike.
LEMMA AlikeStep ==
  ASSUME TypeOK, NEW r \in Responses, NEW new, response[r] # Unsent,
         Typed(response[r], new), Becomes(r, new), KeepAuthority,
         UNCHANGED << current, executed, disk >>
  PROVE  Progresses(r)
BY AlikeProgress, BecomesProgresses DEF Typed

LEMMA ValidateStep ==
  ASSUME TypeOK, NEW r \in Responses, ValidateCall(r) \/ ValidateReturns(r)
  PROVE  Progresses(r)
<1> DEFINE old == response[r]
           next == old.decisions[Len(old.pending) + 1]
           threw == [ old EXCEPT !.validation = "threw" ]
           returned == [ old EXCEPT !.validation = "returned" ]
           accepted == [ old EXCEPT !.pending = Append(old.pending, next) ]
<1>0. /\ old \in ResponseStates /\ old # Unsent
      /\ KeepAuthority /\ UNCHANGED << current, executed, disk >>
  BY DEF TypeOK, ValidateCall, ValidateReturns, Unsent
<1>1. Typed(old, threw) /\ Typed(old, returned)
  BY <1>0, FieldsTyped
<1>2. CASE Becomes(r, threw) \/ Becomes(r, returned)
  BY <1>0, <1>1, <1>2, AlikeStep
<1>3. CASE Becomes(r, accepted) /\ Len(old.pending) < Len(old.decisions)
  <2>1. old.pending \in Seq(Calls) /\ old.decisions \in Seq(Calls)
    BY <1>0 DEF ResponseStates
  <2>2. Append(old.pending, next) \in Seq(Calls)
    BY <1>3, <2>1
  <2>3. Typed(old, accepted)
    BY <1>0, <2>2, FieldsTyped
  <2> QED
    BY <1>0, <1>3, <2>3, AlikeStep
<1> QED
  BY <1>2, <1>3 DEF ValidateCall, ValidateReturns

LEMMA AnswerArrivesStep ==
  ASSUME TypeOK, NEW r \in Responses, AnswerArrives(r)
  PROVE  Progresses(r)
<1> DEFINE new(answer) == [ response[r] EXCEPT !.answer = answer ]
<1>1. response[r] \in ResponseStates /\ response[r] # Unsent
  BY DEF TypeOK, AnswerArrives, Unsent
<1>2. Typed(response[r], new("resolved")) /\ Typed(response[r], new("rejected"))
  BY <1>1, FieldsTyped
<1>3. Becomes(r, new("resolved")) \/ Becomes(r, new("rejected"))
  BY DEF AnswerArrives
<1> HIDE DEF new
<1> QED
  BY <1>1, <1>2, <1>3, AlikeStep DEF AnswerArrives

LEMMA ValidatedStep ==
  ASSUME TypeOK, NEW r \in Responses, Validated(r)
  PROVE  Progresses(r)
<1> DEFINE old == response[r]
           reported == Reported(old, "allowed")
           new == Awaits(reported, "reporting")
<1>0. old \in ResponseStates /\ old.stage = "validating" /\ old # Unsent
  BY DEF TypeOK, Validated, Unsent
<1>1. CASE Becomes(r, new) /\ KeepAuthority
  <2>1. reported \in ResponseStates /\ Alike(old, reported)
    BY <1>0, ReportedTyped DEF Statuses
  <2> HIDE DEF reported
  <2>2. new \in ResponseStates /\ new.stage = "reporting" /\ new.cancelled = old.cancelled
    BY <2>1, AwaitsTyped DEF Stages, Awaiting, Alike
  <2> HIDE DEF new
  <2>3. Progress(old, new)
    BY <1>0, <2>2 DEF Progress, Over, OutcomeOf
  <2> QED
    BY <1>1, <2>2, <2>3, BecomesProgresses DEF Validated
<1>2. CASE Throws(r, old)
  BY <1>0, <1>2, ThrowsProgresses DEF Validated, Alike
<1> QED
  BY <1>1, <1>2 DEF Validated

\* pull() allows the response, or its callback threw or cancelled the stream.
LEMMA ReportedAllowedStep ==
  ASSUME TypeOK, NEW r \in Responses, ReportedAllowed(r)
  PROVE  Progresses(r) \/ Allows(r)
<1> DEFINE old == response[r]
           told == [ old EXCEPT !.told = "allowed" ]
           out == [ told EXCEPT !.released = Len(old.received) ]
           settled == [ out EXCEPT !.settled = TRUE ]
           closed == [ settled EXCEPT !.stage = "closed" ]
           allowed == [ closed EXCEPT !.delivered = "yes" ]
           begun == CancelBegun(told)
           left == [ begun EXCEPT !.stage = "returned" ]
           cancelled == [ left EXCEPT !.settled = old.released = Len(old.received) ]
<1>0. /\ old \in ResponseStates /\ old.stage = "reporting" /\ old # Unsent
      /\ Len(old.received) \in Nat
  BY DEF TypeOK, ReportedAllowed, Unsent, ResponseStates
<1>1. Typed(old, told)
  BY <1>0, FieldsTyped DEF Statuses
<1>2. CASE Becomes(r, allowed) /\ Commit(r) /\ Active(old)
  <2>1. Typed(told, out)
    BY <1>0, <1>1, FieldsTyped DEF Typed
  <2> HIDE DEF out
  <2>2. Typed(out, settled)
    BY <2>1, SwitchesTyped DEF Typed
  <2> HIDE DEF settled
  <2>3. closed \in ResponseStates /\ closed.stage = "closed"
    BY <2>2, StageTyped DEF Typed, Stages, Ended
  <2> HIDE DEF closed
  <2>4. allowed \in ResponseStates /\ allowed.stage = "closed"
    BY <2>3, FieldsTyped DEF Typed, Alike
  <2> HIDE DEF allowed
  <2>5. Allows(r)
    BY <1>0, <1>2, <2>4 DEF Allows, StepOf, TypeOK, Becomes, Active, ReportedAllowed, DiskTyped
  <2> QED
    BY <2>5
<1>3. CASE Throws(r, told)
  <2> HIDE DEF told
  <2> QED
    BY <1>0, <1>1, <1>3, ThrowsProgresses DEF ReportedAllowed, Typed, Alike
<1>4. CASE Becomes(r, cancelled) /\ Revoke /\ Active(old)
  <2> HIDE DEF told
  <2>1. begun \in ResponseStates /\ begun.cancelled
    BY <1>1, CancelBegunTyped DEF Typed
  <2> HIDE DEF begun
  <2>2. left \in ResponseStates /\ left.stage = "returned" /\ left.cancelled
    BY <2>1, StageTyped DEF Stages, Ended
  <2> HIDE DEF left
  <2>3. \A b \in BOOLEAN : Typed(left, [ left EXCEPT !.settled = b ])
    BY <2>2, SwitchesTyped
  <2>4. (old.released = Len(old.received)) \in BOOLEAN
    OBVIOUS
  <2>5. cancelled \in ResponseStates /\ cancelled.stage = "returned" /\ cancelled.cancelled
    BY <2>2, <2>3, <2>4 DEF Typed, Alike
  <2> HIDE DEF cancelled
  <2>6. Progress(old, cancelled)
    BY <1>0, <1>4, <2>5 DEF Progress, Over, OutcomeOf, Active
  <2> QED
    BY <1>4, <2>5, <2>6, BecomesProgresses DEF ReportedAllowed
<1>5. CASE Throws(r, old)
  BY <1>0, <1>5, ThrowsProgresses DEF ReportedAllowed, Alike
<1> QED
  BY <1>2, <1>3, <1>4, <1>5 DEF ReportedAllowed

LEMMA ReaderCancelledStep ==
  ASSUME TypeOK, NEW r \in Responses, ReaderCancelled(r)
  PROVE  Progresses(r)
<1> DEFINE old == response[r]
           returned == [ old EXCEPT !.stage = "returned" ]
           reported == Reported(old, "refused")
           waits == Awaits(reported, "refusing")
<1>0. old \in ResponseStates /\ old.stage = "cancelling" /\ old # Unsent
  BY DEF TypeOK, ReaderCancelled, Unsent
<1>1. CASE old.cancelled /\ Becomes(r, returned)
  <2>1. returned \in ResponseStates /\ returned.stage = "returned" /\ returned.cancelled
    BY <1>0, <1>1, StageTyped DEF Stages, Ended
  <2> HIDE DEF returned
  <2>2. Progress(old, returned)
    BY <1>0, <1>1, <2>1 DEF Progress, Over, OutcomeOf
  <2> QED
    BY <1>1, <2>1, <2>2, BecomesProgresses DEF ReaderCancelled
<1>2. CASE ~old.cancelled /\ Becomes(r, waits)
  <2>1. reported \in ResponseStates /\ Alike(old, reported)
    BY <1>0, ReportedTyped DEF Statuses
  <2> HIDE DEF reported
  <2>2. waits \in ResponseStates /\ waits.stage = "refusing" /\ waits.cancelled = old.cancelled
    BY <2>1, AwaitsTyped DEF Stages, Awaiting, Alike
  <2> HIDE DEF waits
  <2>3. Progress(old, waits)
    BY <1>0, <2>2 DEF Progress, Over, OutcomeOf
  <2> QED
    BY <1>2, <2>2, <2>3, BecomesProgresses DEF ReaderCancelled
<1> QED
  BY <1>1, <1>2 DEF ReaderCancelled

LEMMA ReportedRefusedStep ==
  ASSUME TypeOK, NEW r \in Responses, ReportedRefused(r)
  PROVE  Progresses(r)
<1> DEFINE old == response[r]
           told == [ old EXCEPT !.told = "refused" ]
           settled == [ told EXCEPT !.settled = TRUE ]
           failed == [ settled EXCEPT !.stage = "failed" ]
           delivered == IF old.delivered = "no" THEN "failed" ELSE old.delivered
           new == [ failed EXCEPT !.delivered = delivered ]
<1>0. old \in ResponseStates /\ old.stage = "refusing" /\ old # Unsent
  BY DEF TypeOK, ReportedRefused, Unsent
<1>1. delivered \in { "no", "yes", "failed" }
  BY <1>0 DEF ResponseStates
<1>2. Becomes(r, new)
  BY <1>0 DEF ReportedRefused, ResponseStates
<1> HIDE DEF delivered
<1>3. Typed(old, told)
  BY <1>0, FieldsTyped DEF Statuses
<1> HIDE DEF told
<1>4. Typed(told, settled)
  BY <1>3, SwitchesTyped DEF Typed
<1> HIDE DEF settled
<1>5. failed \in ResponseStates /\ failed.stage = "failed" /\ failed.cancelled = old.cancelled
  BY <1>3, <1>4, StageTyped DEF Typed, Alike, Stages, Ended
<1> HIDE DEF failed
<1>6. new \in ResponseStates /\ new.stage = "failed" /\ new.cancelled = old.cancelled
  BY ZenonT(60), <1>1, <1>5, FieldsTyped DEF Typed, Alike
<1> HIDE DEF new
<1>7. Progress(old, new)
  BY <1>0, <1>6 DEF Progress, Over, OutcomeOf
<1> QED
  BY <1>2, <1>6, <1>7, BecomesProgresses DEF ReportedRefused

LEMMA CancelStep ==
  ASSUME TypeOK, NEW r \in Responses, Cancel(r)
  PROVE  Progresses(r)
<1> DEFINE old == response[r]
           new == CancelBegun(old)
<1>0. old \in ResponseStates /\ old # Unsent /\ old.stage # "closed" /\ ~old.cancelled
  BY DEF TypeOK, Cancel, Unsent, Ended
<1>1. new \in ResponseStates /\ new.stage = old.stage /\ new.cancelled
  BY <1>0, CancelBegunTyped
<1> HIDE DEF new
<1>2. Progress(old, new)
  BY <1>0, <1>1 DEF Progress, Over, OutcomeOf
<1> QED
  BY <1>1, <1>2, BecomesProgresses DEF Cancel, new

LEMMA CancelReportsStep ==
  ASSUME TypeOK, NEW r \in Responses, CancelReports(r)
  PROVE  Progresses(r)
<1> DEFINE old == response[r]
           reported == Reported(old, "refused")
           new == [ reported EXCEPT !.cancelStage = "report" ]
<1>0. old \in ResponseStates /\ old # Unsent
  BY DEF TypeOK, CancelReports, Unsent
<1>1. Typed(old, reported)
  BY <1>0, ReportedTyped DEF Statuses, Typed
<1> HIDE DEF reported
<1>2. Typed(reported, new)
  BY <1>1, FieldsTyped DEF Typed
<1> HIDE DEF new
<1>3. Typed(old, new)
  BY <1>1, <1>2 DEF Typed, Alike
<1> QED
  BY <1>0, <1>3, AlikeStep DEF CancelReports, new, reported

LEMMA CancelSettlesStep ==
  ASSUME TypeOK, NEW r \in Responses, CancelSettles(r)
  PROVE  Progresses(r)
<1> DEFINE old == response[r]
           told == [ old EXCEPT !.told = "refused" ]
           settled == [ told EXCEPT !.settled = TRUE ]
           done == [ settled EXCEPT !.cancelStage = "done" ]
           delivered == IF old.delivered = "no" THEN "failed" ELSE old.delivered
           new == [ done EXCEPT !.delivered = delivered ]
<1>0. old \in ResponseStates /\ old # Unsent
  BY DEF TypeOK, CancelSettles, Unsent
<1>1. delivered \in { "no", "yes", "failed" }
  BY <1>0 DEF ResponseStates
<1>2. Becomes(r, new)
  BY <1>0 DEF CancelSettles, ResponseStates
<1> HIDE DEF delivered
<1>3. Typed(old, told)
  BY <1>0, FieldsTyped DEF Statuses
<1> HIDE DEF told
<1>4. Typed(told, settled)
  BY <1>3, SwitchesTyped DEF Typed
<1> HIDE DEF settled
<1>5. Typed(settled, done)
  BY <1>4, FieldsTyped DEF Typed
<1> HIDE DEF done
<1>6. Typed(done, new)
  BY <1>1, <1>5, FieldsTyped DEF Typed
<1> HIDE DEF new
<1>7. Typed(old, new)
  BY <1>3, <1>4, <1>5, <1>6 DEF Typed, Alike
<1> QED
  BY <1>0, <1>2, <1>7, AlikeStep DEF CancelSettles

LEMMA RecordingProgresses ==
  ASSUME TypeOK, NEW r \in Responses, RecordingStep(r)
  PROVE  Progresses(r)
<1> DEFINE old == response[r]
<1>0. old \in ResponseStates /\ old # Unsent
  BY DEF TypeOK, RecordingStep, Unsent
<1>1. CASE WriteNext(r) /\ UNCHANGED response
  <2>1. DiskTyped'
    <3>1. \A file \in FileStates : Grown(file) \in FileStates
      BY DEF Grown, FileStates
    <3>2. disk[r] \in [ body : FileStates, manifest : FileStates ]
      BY DEF TypeOK
    <3> QED
      BY <1>1, <3>1, <3>2 DEF WriteNext, TypeOK, DiskTyped
  <2>2. Progress(old, old)
    BY <1>0, AlikeProgress DEF Alike
  <2> QED
    BY <1>1, <2>1, <2>2 DEF RecordingStep, Progresses, StepOf, TypeOK
<1>2. ASSUME NEW recording \in { "resolved", "rejected" },
             Becomes(r, [ old EXCEPT !.recording = recording ]), UNCHANGED disk
      PROVE  Progresses(r)
  <2>1. Typed(old, [ old EXCEPT !.recording = recording ])
    BY <1>0, FieldsTyped
  <2> QED
    BY <1>0, <1>2, <2>1, AlikeStep DEF RecordingStep
<1> QED
  BY <1>1, <1>2 DEF RecordingStep

\* Any step of a response but its fetch.
LEMMA ResponseStep ==
  ASSUME TypeOK, NEW r \in Responses,
         \/ UnguardedAnswer(r) \/ StreamAnswer(r) \/ Abort(r)
         \/ Pull(r) \/ ReadFrame(r) \/ ReadFails(r) \/ ReadEnds(r)
         \/ ValidateCall(r) \/ ValidateReturns(r) \/ Continue(r)
         \/ Cancel(r) \/ RecordingStep(r)
  PROVE  Progresses(r) \/ Allows(r)
BY UnguardedAnswerStep, StreamAnswerStep, AbortStep, PullStep, ReadFrameStep, ReadStep,
   ReadEndsStep, ValidateStep, AnswerArrivesStep, ValidatedStep, ReportedAllowedStep,
   ReaderCancelledStep, ReportedRefusedStep, CancelStep, CancelReportsStep,
   CancelSettlesStep, RecordingProgresses
   DEF Continue

------------------------------------------------------------------------------
(* The inductive invariant.                                                 *)

\* Only the response fetched last can be under way, and the rest are to come.
FetchedInOrder ==
  \A r \in Responses :
    /\ r # current => Over(response[r])
    /\ r > current => response[r] = Unsent

\* Every grant is that of the identifier it is found under, from the response
\* fetched last, which was allowed.
GrantsAreCurrent ==
  \A id \in ToolCallIds :
    authorities[id] # None =>
      /\ authorities[id].owner = current
      /\ authorities[id].id = id
      /\ response[current].stage = "closed"

\* A grant that ran came from a response that was allowed, and is gone.
ExecutedAreSpent ==
  \A grant \in executed :
    /\ response[grant.owner].stage = "closed"
    /\ authorities[grant.id] # grant

ChatInv == TypeOK /\ FetchedInOrder /\ GrantsAreCurrent /\ ExecutedAreSpent

LEMMA InitChat == Init => ChatInv
<1> SUFFICES ASSUME Init PROVE ChatInv
  OBVIOUS
<1>1. Unsent \in ResponseStates
  <2>1. << >> \in Seq(Calls) /\ << >> \in Seq(Frames)
    OBVIOUS
  <2> QED
    BY <2>1, BufferedIsSwitch DEF Unsent, ResponseStates, Stages, Statuses
<1>2. TypeOK
  BY <1>1 DEF Init, TypeOK, RecorderInit, FileStates
<1>3. FetchedInOrder
  BY DEF Init, FetchedInOrder, Over, Unsent
<1>4. GrantsAreCurrent /\ ExecutedAreSpent
  BY DEF Init, GrantsAreCurrent, ExecutedAreSpent
<1> QED
  BY <1>2, <1>3, <1>4 DEF ChatInv

\* A progress of a response keeps the invariant: what was closed stays closed.
LEMMA ProgressKeepsInv ==
  ASSUME ChatInv, NEW r \in Responses, Progresses(r)
  PROVE  ChatInv'
<1>0. /\ TypeOK /\ StepOf(r) /\ Progress(response[r], response'[r])
      /\ KeepAuthority \/ Revoke
  BY DEF ChatInv, Progresses
<1>1. \A id \in ToolCallIds : authorities'[id] \in { authorities[id], None }
  BY <1>0 DEF KeepAuthority, Revoke, TypeOK
<1>2. TypeOK'
  <2>1. /\ authorities' \in [ ToolCallIds -> Grants \cup { None } ]
        /\ approved' \in SUBSET Inputs
    BY <1>0 DEF KeepAuthority, Revoke, TypeOK
  <2> QED
    BY <1>0, <2>1 DEF TypeOK, StepOf, DiskTyped
<1>3. \A s \in Responses : response[s].stage = "closed" => response'[s].stage = "closed"
  BY <1>0 DEF StepOf, Progress
<1>4. FetchedInOrder'
  BY <1>0 DEF ChatInv, FetchedInOrder, StepOf, Progress
<1>5. GrantsAreCurrent'
  <2> SUFFICES ASSUME NEW id \in ToolCallIds, authorities'[id] # None
               PROVE  /\ authorities'[id].owner = current'
                      /\ authorities'[id].id = id
                      /\ response'[current'].stage = "closed"
    BY DEF GrantsAreCurrent
  <2>1. authorities'[id] = authorities[id] /\ authorities[id] \in Grants
    BY <1>0, <1>1 DEF TypeOK
  <2>2. /\ authorities[id].owner = current /\ authorities[id].id = id
        /\ response[current].stage = "closed"
    BY <2>1 DEF ChatInv, GrantsAreCurrent
  <2>3. current \in Responses /\ current' = current
    BY <1>0, <2>1, <2>2 DEF Grants, StepOf
  <2> QED
    BY <1>3, <2>1, <2>2, <2>3
<1>6. ExecutedAreSpent'
  <2> SUFFICES ASSUME NEW grant \in executed
               PROVE  response'[grant.owner].stage = "closed" /\ authorities'[grant.id] # grant
    BY <1>0 DEF ExecutedAreSpent, StepOf
  <2>1. grant \in Grants /\ grant.owner \in Responses /\ grant.id \in ToolCallIds
    BY <1>0 DEF TypeOK, Grants
  <2>2. response[grant.owner].stage = "closed" /\ authorities[grant.id] # grant
    BY DEF ChatInv, ExecutedAreSpent
  <2> QED
    BY <1>1, <1>3, <2>1, <2>2, NoneIsNoGrant
<1> QED
  BY <1>2, <1>4, <1>5, <1>6 DEF ChatInv

\* What commit() installs: grants of the response, each under its identifier.
LEMMA CommitGrants ==
  ASSUME TypeOK, NEW r \in Responses, Commit(r)
  PROVE  /\ authorities' \in [ ToolCallIds -> Grants \cup { None } ]
         /\ approved' \in SUBSET Inputs
         /\ \A id \in ToolCallIds :
              \/ authorities'[id] = authorities[id]
              \/ /\ authorities'[id] \in Grants
                 /\ authorities'[id].owner = r /\ authorities'[id].id = id
<1> DEFINE batch == Range(response[r].pending)
           call(id) == CHOOSE c \in batch : c.id = id
           grant(id) == [ owner |-> r, id |-> id, input |-> call(id).input ]
<1>1. batch \subseteq Calls
  BY DEF TypeOK, ResponseStates, Range
<1>2. ASSUME NEW id \in ToolCallIds, \E c \in batch : c.id = id
      PROVE  call(id) \in batch
  BY <1>2
<1> HIDE DEF batch
<1>3. ASSUME NEW id \in ToolCallIds, \E c \in batch : c.id = id
      PROVE  grant(id) \in Grants /\ grant(id).owner = r /\ grant(id).id = id
  <2>1. call(id) \in Calls
    BY <1>1, <1>2, <1>3
  <2> HIDE DEF call
  <2> QED
    BY <2>1 DEF Calls, Grants
<1>4. authorities' = [ id \in ToolCallIds |->
                         IF \E c \in batch : c.id = id THEN grant(id) ELSE authorities[id] ]
  BY DEF Commit, batch
<1>5. approved' = approved \cup { c.input : c \in batch }
  BY DEF Commit, batch
<1> HIDE DEF grant
<1>6. approved' \in SUBSET Inputs
  BY <1>1, <1>5 DEF TypeOK, Calls
<1> QED
  BY <1>3, <1>4, <1>6 DEF TypeOK

\* A response that is under way is the one fetched last, and nothing is granted
\* before it is allowed.
LEMMA AllowedAlone ==
  ASSUME ChatInv, NEW r \in Responses, Allows(r)
  PROVE  r = current /\ \A id \in ToolCallIds : authorities[id] = None
<1>1. r = current
  BY DEF ChatInv, FetchedInOrder, Allows, Over
<1>2. response[current].stage # "closed"
  BY <1>1 DEF Allows
<1> QED
  BY <1>1, <1>2 DEF ChatInv, GrantsAreCurrent

LEMMA AllowKeepsInv ==
  ASSUME ChatInv, NEW r \in Responses, Allows(r)
  PROVE  ChatInv'
<1>0. /\ TypeOK /\ StepOf(r) /\ Commit(r)
      /\ response[r].stage = "reporting" /\ response'[r].stage = "closed"
  BY DEF ChatInv, Allows
<1>1. r = current /\ \A id \in ToolCallIds : authorities[id] = None
  BY AllowedAlone
<1>2. \A id \in ToolCallIds :
        authorities'[id] # None =>
          authorities'[id] \in Grants /\ authorities'[id].owner = r /\ authorities'[id].id = id
  BY <1>0, <1>1, CommitGrants
<1>3. TypeOK'
  BY <1>0, CommitGrants DEF TypeOK, StepOf, DiskTyped
<1>4. FetchedInOrder'
  BY <1>0, <1>1 DEF ChatInv, FetchedInOrder, StepOf, Responses
<1>5. GrantsAreCurrent'
  BY <1>0, <1>1, <1>2 DEF GrantsAreCurrent, StepOf
<1>6. ExecutedAreSpent'
  <2> SUFFICES ASSUME NEW grant \in executed
               PROVE  response'[grant.owner].stage = "closed" /\ authorities'[grant.id] # grant
    BY <1>0 DEF ExecutedAreSpent, StepOf
  <2>1. grant \in Grants /\ grant.owner \in Responses /\ grant.id \in ToolCallIds
    BY <1>0 DEF TypeOK, Grants
  <2>2. response[grant.owner].stage = "closed" /\ grant.owner # r
    BY <1>0 DEF ChatInv, ExecutedAreSpent
  <2> QED
    BY <1>0, <1>2, <2>1, <2>2, NoneIsNoGrant DEF StepOf
<1> QED
  BY <1>3, <1>4, <1>5, <1>6 DEF ChatInv

LEMMA FetchKeepsInv ==
  ASSUME ChatInv, NEW r \in Responses, Fetch(r)
  PROVE  ChatInv'
<1> DEFINE old == response[r]
           sent == [ old EXCEPT !.stage = "upstream" ]
           failed == [ old EXCEPT !.stage = "failed" ]
           refused == [ failed EXCEPT !.delivered = "failed" ]
<1>0. /\ TypeOK /\ old \in ResponseStates /\ Revoke
      /\ UNCHANGED << executed, disk >> /\ current' = r /\ r = current + 1
      /\ StepMayStart
  BY DEF ChatInv, TypeOK, Fetch
<1>1. r > current /\ old.stage = "unsent"
  <2>1. r > current
    BY <1>0 DEF TypeOK, Responses
  <2> QED
    BY <2>1 DEF ChatInv, FetchedInOrder, Unsent
<1>2. PICK new \in ResponseStates : Becomes(r, new)
  <2>1. sent \in ResponseStates /\ failed \in ResponseStates
    BY <1>0, StageTyped DEF Stages, Ended
  <2> HIDE DEF failed
  <2>2. Typed(failed, refused)
    BY <2>1, FieldsTyped
  <2>3. Becomes(r, sent) \/ Becomes(r, refused)
    BY DEF Fetch, failed
  <2> HIDE DEF sent, refused
  <2> QED
    BY <2>1, <2>2, <2>3 DEF Typed
<1>3. TypeOK'
  BY <1>0, <1>2 DEF TypeOK, Becomes, Revoke
<1>4. FetchedInOrder'
  <2> SUFFICES ASSUME NEW s \in Responses, s # r
               PROVE  Over(response'[s]) /\ (s > r => response'[s] = Unsent)
    BY <1>0 DEF FetchedInOrder, Responses
  <2>1. response'[s] = response[s]
    BY <1>0, <1>2 DEF TypeOK, Becomes
  <2>2. Over(response[s])
    BY <1>0 DEF StepMayStart
  <2>3. s > r => s > current
    BY <1>0 DEF TypeOK, Responses
  <2> QED
    BY <2>1, <2>2, <2>3 DEF ChatInv, FetchedInOrder
<1>5. GrantsAreCurrent'
  BY <1>0 DEF GrantsAreCurrent, Revoke
<1>6. ExecutedAreSpent'
  <2> SUFFICES ASSUME NEW grant \in executed
               PROVE  response'[grant.owner].stage = "closed" /\ authorities'[grant.id] # grant
    BY <1>0 DEF ExecutedAreSpent
  <2>1. grant \in Grants /\ grant.owner \in Responses /\ grant.id \in ToolCallIds
    BY <1>0 DEF TypeOK, Grants
  <2>2. response[grant.owner].stage = "closed" /\ grant.owner # r
    BY <1>1 DEF ChatInv, ExecutedAreSpent
  <2>3. response'[grant.owner] = response[grant.owner]
    BY <1>0, <1>2, <2>1, <2>2 DEF TypeOK, Becomes
  <2> QED
    BY <1>0, <2>1, <2>2, <2>3, NoneIsNoGrant DEF Revoke
<1> QED
  BY <1>3, <1>4, <1>5, <1>6 DEF ChatInv

\* A tool runs at the expense of its grant.
LEMMA ExecuteSpends ==
  ASSUME ChatInv, NEW id \in ToolCallIds, NEW input \in Inputs, Execute(id, input)
  PROVE  /\ authorities[id] \in Grants \ executed
         /\ authorities[id].id = id
         /\ response[authorities[id].owner].stage = "closed"
         /\ authorities' = [ authorities EXCEPT ![id] = None ]
         /\ executed' \in { executed, executed \cup { authorities[id] } }
         /\ UNCHANGED << current, response, approved, disk >>
<1>1. authorities[id] \in Grants
  BY DEF ChatInv, TypeOK, Execute
<1>2. /\ authorities[id].owner = current /\ authorities[id].id = id
      /\ response[current].stage = "closed"
  BY DEF ChatInv, GrantsAreCurrent, Execute
<1>3. authorities[id] \notin executed
  BY <1>2 DEF ChatInv, ExecutedAreSpent
<1> QED
  BY <1>1, <1>2, <1>3 DEF Execute

LEMMA ExecuteKeepsInv ==
  ASSUME ChatInv, NEW id \in ToolCallIds, NEW input \in Inputs, Execute(id, input)
  PROVE  ChatInv'
<1> DEFINE spent == authorities[id]
<1>0. /\ TypeOK /\ spent \in Grants \ executed /\ spent.id = id
      /\ response[spent.owner].stage = "closed"
      /\ authorities' = [ authorities EXCEPT ![id] = None ]
      /\ executed' \in { executed, executed \cup { spent } }
      /\ UNCHANGED << current, response, approved, disk >>
  BY ExecuteSpends DEF ChatInv
<1>1. /\ authorities'[id] = None
      /\ \A other \in ToolCallIds \ { id } : authorities'[other] = authorities[other]
  BY <1>0 DEF TypeOK
<1>2. TypeOK'
  BY <1>0 DEF TypeOK
<1>3. FetchedInOrder'
  BY <1>0 DEF ChatInv, FetchedInOrder
<1>4. GrantsAreCurrent'
  BY <1>0, <1>1 DEF ChatInv, GrantsAreCurrent
<1>5. ExecutedAreSpent'
  <2> SUFFICES ASSUME NEW grant \in executed'
               PROVE  response[grant.owner].stage = "closed" /\ authorities'[grant.id] # grant
    BY <1>0 DEF ExecutedAreSpent
  <2> HIDE DEF spent
  <2>1. CASE grant = spent
    BY <1>0, <1>1, <2>1, NoneIsNoGrant
  <2>2. CASE grant \in executed
    <3>1. grant \in Grants /\ grant.id \in ToolCallIds
      BY <1>0, <2>2 DEF TypeOK, Grants
    <3>2. response[grant.owner].stage = "closed" /\ authorities[grant.id] # grant
      BY <2>2 DEF ChatInv, ExecutedAreSpent
    <3> QED
      BY <1>1, <3>1, <3>2, NoneIsNoGrant
  <2> QED
    BY <1>0, <2>1, <2>2
<1> QED
  BY <1>2, <1>3, <1>4, <1>5 DEF ChatInv

LEMMA PrepareStepKeepsInv ==
  ASSUME ChatInv, PrepareStep
  PROVE  ChatInv'
<1>1. TypeOK'
  BY DEF ChatInv, TypeOK, PrepareStep, Revoke
<1>2. FetchedInOrder' /\ GrantsAreCurrent'
  BY DEF ChatInv, FetchedInOrder, GrantsAreCurrent, PrepareStep, Revoke
<1>3. ExecutedAreSpent'
  <2> SUFFICES ASSUME NEW grant \in executed
               PROVE  response[grant.owner].stage = "closed" /\ authorities'[grant.id] # grant
    BY DEF ExecutedAreSpent, PrepareStep
  <2>1. grant \in Grants /\ grant.id \in ToolCallIds
    BY DEF ChatInv, TypeOK, Grants
  <2> QED
    BY <2>1, NoneIsNoGrant DEF ChatInv, ExecutedAreSpent, PrepareStep, Revoke
<1> QED
  BY <1>1, <1>2, <1>3 DEF ChatInv

LEMMA NextKeepsInv ==
  ASSUME ChatInv, [Next]_vars
  PROVE  ChatInv'
<1>1. CASE PrepareStep
  BY <1>1, PrepareStepKeepsInv
<1>2. CASE \E r \in Responses : Fetch(r)
  BY <1>2, FetchKeepsInv
<1>3. CASE \E r \in Responses :
        \/ UnguardedAnswer(r) \/ StreamAnswer(r) \/ Abort(r)
        \/ Pull(r) \/ ReadFrame(r) \/ ReadFails(r) \/ ReadEnds(r)
        \/ ValidateCall(r) \/ ValidateReturns(r) \/ Continue(r)
        \/ Cancel(r) \/ RecordingStep(r)
  <2>1. PICK r \in Responses : Progresses(r) \/ Allows(r)
    BY <1>3, ResponseStep DEF ChatInv
  <2> QED
    BY <2>1, ProgressKeepsInv, AllowKeepsInv
<1>4. CASE \E id \in ToolCallIds, input \in Inputs : Execute(id, input)
  BY <1>4, ExecuteKeepsInv
<1>5. CASE UNCHANGED vars
  BY <1>5 DEF ChatInv, vars, TypeOK, FetchedInOrder, GrantsAreCurrent, ExecutedAreSpent
<1> QED
  BY <1>1, <1>2, <1>3, <1>4, <1>5 DEF Next

LEMMA ChatInvHolds == Spec => []ChatInv
BY InitChat, NextKeepsInv, PTL DEF Spec

\* The state of a guarded chat is always well formed: the locals of each
\* response, the grants and what the recorder left (index.ts, wire.ts).
THEOREM ChatTypeCorrect == Spec => []TypeOK
<1>1. ChatInv => TypeOK
  BY DEF ChatInv
<1> QED
  BY <1>1, ChatInvHolds, PTL

\* Whatever the SDK, the provider and the callbacks do, and however their answers
\* interleave, authority is that of the response fetched last, which was allowed.
THEOREM AuthorityIsCurrentAlways == Spec => []AuthorityIsCurrent
<1>1. ChatInv => AuthorityIsCurrent
  BY DEF ChatInv, GrantsAreCurrent, AuthorityIsCurrent
<1> QED
  BY <1>1, ChatInvHolds, PTL
===================================================================================
