--------------------------- MODULE ResponseOrder_proofs ---------------------------
(***************************************************************************)
(* Proofs about the order of one guarded response's steps: reading, then   *)
(* validation, then recording, then the release of what was held, with     *)
(* cancel() and abort between any two of them.  From it: what the SDK saw, *)
(* what the application was told and what a recording replays as agree     *)
(* with what happened, and the chat implements BatchRelease, for any       *)
(* number of responses, any frames, limits and recorder mode.              *)
(***************************************************************************)
EXTENDS GuardedChat_proofs

------------------------------------------------------------------------------
(* The inductive invariant of one response, in four parts.                  *)

\* What went out before the end is plain text, and while nothing is held, so is
\* all that was read.
ReadInOrder(s) ==
  /\ s.released <= Len(s.received)
  /\ ~s.holding => \A i \in DOMAIN s.received : s.received[i] = TextFrame
  /\ s.stage # "closed" => \A i \in 1 .. s.released : s.received[i] = TextFrame

\* Validation starts on a complete body that was accepted, and what it has
\* accepted so far are the first of its calls.
ValidatedInOrder(s) ==
  /\ s.validation # "none" =>
       s.complete /\ s.stage \notin { "unsent", "upstream", "idle", "reading" }
  /\ s.validation \in { "running", "returned" } => Accepts(s)
  /\ Len(s.pending) <= Len(s.decisions)
  /\ \A i \in DOMAIN s.pending : s.pending[i] = s.decisions[i]
  /\ s.validation = "none" => s.pending = << >>
  /\ s.validation = "returned" => s.pending = s.decisions

\* The recorder hears once, "allowed" only of what validation returned, and a
\* response is closed only when it has answered.
RecordedInOrder(s) ==
  /\ s.recording = "none" <=> s.event = "none"
  /\ s.event = "allowed" => s.validation = "returned"
  /\ s.recording # "none" =>
       \/ s.cancelled
       \/ s.stage \in { "reporting", "cancelling", "refusing", "closed", "failed",
                        "returned" }
  /\ s.stage = "validating" /\ s.answer = "resolved" => s.validation = "returned"
  /\ s.stage \in { "reporting", "closed" } => s.event = "allowed"
  /\ s.stage = "reporting" /\ s.answer = "resolved" => s.recording = "resolved"
  /\ s.stage = "closed" => s.recording = "resolved"

\* cancel() and pull() do not both decide: a response is over when pull() closed
\* or failed it, or when cancel() has told the application.
DecidedInOrder(s) ==
  /\ s.cancelled <=> s.cancelStage # "no"
  /\ s.cancelled => s.stage \notin { "unsent", "upstream", "unguarded", "closed" }
  /\ s.stage \in { "unsent", "upstream" } => s.delivered = "no"
  /\ s.settled /\ ~s.cancelled => s.stage \in { "closed", "failed" }
  /\ s.stage = "closed" => s.told = "allowed"
  /\ s.stage = "failed" /\ s.settled => s.told = "refused"
  /\ s.cancelStage = "done" => s.told = "refused"

InOrder(s) ==
  ReadInOrder(s) /\ ValidatedInOrder(s) /\ RecordedInOrder(s) /\ DecidedInOrder(s)

\* Nothing is on the disk before the recorder was told of the response.
WrittenAfter(s, files) ==
  files.body # "absent" \/ files.manifest # "absent" => s.recording # "none"

------------------------------------------------------------------------------
(* Updates of one response, field by field.                                 *)

Fields ==
  { "stage", "cancelStage", "answer", "validation", "pending", "recording",
    "event", "told", "received", "decisions", "released", "delivered", "holding",
    "complete", "cancelled", "settled", "aborted", "callbackAborted" }

\* What a step of a response must do: keep its order, and the recorder's call.
Ordered(old, new) ==
  InOrder(new) /\ (old.recording # "none" => new.recording # "none")

\* All but a read keep the calls that were found so far, too.
SameCalls(old, new) == Ordered(old, new) /\ new.decisions = old.decisions

\* Every field but those that changed is kept.
KeepsBut(old, new, changed) ==
  \A field \in Fields \ changed : new[field] = old[field]

LEMMA FieldsOfResponse ==
  ASSUME NEW s \in ResponseStates
  PROVE  DOMAIN s = Fields
BY DEF ResponseStates, Fields

\* The wire policy looks at the frames and their calls only.
LEMMA AcceptsKept ==
  ASSUME NEW old, NEW new,
         new.received = old.received, new.decisions = old.decisions
  PROVE  Accepts(new) <=> Accepts(old)
BY DEF Accepts

LEMMA BecomesState ==
  ASSUME TypeOK, NEW r \in Responses, NEW state, Becomes(r, state)
  PROVE  response'[r] = state
BY DEF TypeOK, Becomes

------------------------------------------------------------------------------
(* Every action of a response keeps its order.                              *)

\* A handler that throws in pull() keeps the order.
LEMMA ThrowsInOrder ==
  ASSUME TypeOK, NEW r \in Responses, NEW state \in ResponseStates,
         InOrder(state), Throws(r, state),
         state.stage \in { "idle", "reading", "validating", "reporting" }
  PROVE  SameCalls(state, response'[r])
<1> DEFINE new == response'[r]
<1>1. DOMAIN state = Fields
  BY FieldsOfResponse
<1>2. /\ KeepsBut(state, new, { "stage" })
      /\ new.stage \in { "returned", "cancelling" }
  BY <1>1 DEF Throws, Becomes, TypeOK, KeepsBut, Fields
<1> HIDE DEF new
<1>3. Accepts(new) <=> Accepts(state)
  BY <1>2, AcceptsKept DEF KeepsBut, Fields
<1>4. ReadInOrder(new)
  BY <1>2 DEF InOrder, ReadInOrder, KeepsBut, Fields
<1>5. ValidatedInOrder(new)
  BY <1>2, <1>3 DEF InOrder, ValidatedInOrder, KeepsBut, Fields
<1>6. RecordedInOrder(new)
  BY <1>2 DEF InOrder, RecordedInOrder, KeepsBut, Fields
<1>7. DecidedInOrder(new)
  BY <1>2 DEF InOrder, DecidedInOrder, KeepsBut, Fields
<1> QED
  BY <1>2, <1>4, <1>5, <1>6, <1>7
     DEF SameCalls, Ordered, InOrder, KeepsBut, Fields, new

\* The request fails or goes upstream, and is answered or not: nothing was read.
LEMMA RequestInOrder ==
  ASSUME TypeOK, NEW r \in Responses, InOrder(response[r]),
         response[r].stage \in { "unsent", "upstream" },
         NEW stage \in { "upstream", "idle", "failed", "unguarded" },
         KeepsBut(response[r], response'[r],
                  { "stage", "delivered", "told", "callbackAborted" }),
         response'[r].stage = stage,
         stage = "upstream" => response'[r].delivered = "no"
  PROVE  SameCalls(response[r], response'[r])
<1> DEFINE old == response[r]
           new == response'[r]
<1> HIDE DEF old, new
<1>1. /\ KeepsBut(old, new, { "stage", "delivered", "told", "callbackAborted" })
      /\ new.stage = stage /\ old.stage \in { "unsent", "upstream" }
      /\ stage = "upstream" => new.delivered = "no"
      /\ InOrder(old)
  BY DEF old, new
<1>2. Accepts(new) <=> Accepts(old)
  BY <1>1, AcceptsKept DEF KeepsBut, Fields
<1>3. ReadInOrder(new)
  BY <1>1 DEF InOrder, ReadInOrder, KeepsBut, Fields
<1>4. ValidatedInOrder(new)
  BY <1>1, <1>2 DEF InOrder, ValidatedInOrder, KeepsBut, Fields
<1>5. RecordedInOrder(new)
  BY <1>1 DEF InOrder, RecordedInOrder, KeepsBut, Fields
<1>6. DecidedInOrder(new)
  BY <1>1 DEF InOrder, DecidedInOrder, KeepsBut, Fields
<1> QED
  BY <1>1, <1>3, <1>4, <1>5, <1>6
     DEF SameCalls, Ordered, InOrder, KeepsBut, Fields, new, old

LEMMA FetchInOrder ==
  ASSUME TypeOK, NEW r \in Responses, InOrder(response[r]), Fetch(r),
         response[r].stage = "unsent"
  PROVE  SameCalls(response[r], response'[r])
<1>1. DOMAIN response[r] = Fields
  BY FieldsOfResponse DEF TypeOK
<1>2. \/ response'[r] = [ response[r] EXCEPT !.stage = "upstream" ]
      \/ response'[r] = [ response[r] EXCEPT !.stage = "failed",
                                             !.delivered = "failed" ]
  BY BecomesState DEF Fetch
<1>3. /\ KeepsBut(response[r], response'[r],
                  { "stage", "delivered", "told", "callbackAborted" })
      /\ \/ /\ response'[r].stage = "upstream"
            /\ response'[r].delivered = response[r].delivered
         \/ response'[r].stage = "failed"
  BY <1>1, <1>2 DEF KeepsBut, Fields
<1> QED
  BY <1>3, RequestInOrder DEF InOrder, DecidedInOrder

LEMMA AnswerInOrder ==
  ASSUME TypeOK, NEW r \in Responses, InOrder(response[r]),
         UnguardedAnswer(r) \/ StreamAnswer(r)
  PROVE  SameCalls(response[r], response'[r])
<1>1. DOMAIN response[r] = Fields /\ response[r].stage = "upstream"
  BY FieldsOfResponse DEF TypeOK, UnguardedAnswer, StreamAnswer
<1>2. response'[r] \in
        { [ response[r] EXCEPT !.stage = "failed", !.delivered = "failed" ],
          [ response[r] EXCEPT !.stage = "unguarded", !.delivered = "yes" ],
          [ response[r] EXCEPT !.stage = "failed", !.delivered = "failed",
                               !.told = "refused" ],
          [ response[r] EXCEPT !.stage = "idle",
                               !.callbackAborted = response[r].aborted ] }
  BY BecomesState DEF UnguardedAnswer, StreamAnswer
<1>3. /\ KeepsBut(response[r], response'[r],
                  { "stage", "delivered", "told", "callbackAborted" })
      /\ response'[r].stage \in { "idle", "failed", "unguarded" }
  BY <1>1, <1>2 DEF KeepsBut, Fields
<1> QED
  BY <1>1, <1>3, RequestInOrder

LEMMA AbortInOrder ==
  ASSUME TypeOK, NEW r \in Responses, InOrder(response[r]), Abort(r)
  PROVE  SameCalls(response[r], response'[r])
<1> DEFINE old == response[r]
           new == response'[r]
<1>1. DOMAIN old = Fields
  BY FieldsOfResponse DEF TypeOK
<1>2. /\ KeepsBut(old, new, { "aborted", "callbackAborted", "answer" })
      /\ new.answer \in { old.answer, "rejected" }
  BY <1>1 DEF Abort, CallbacksAborted, Becomes, TypeOK, KeepsBut, Fields
<1> HIDE DEF old, new
<1>3. Accepts(new) <=> Accepts(old)
  BY <1>2, AcceptsKept DEF KeepsBut, Fields
<1>4. ReadInOrder(new)
  BY <1>2 DEF InOrder, ReadInOrder, KeepsBut, Fields, old
<1>5. ValidatedInOrder(new)
  BY <1>2, <1>3 DEF InOrder, ValidatedInOrder, KeepsBut, Fields, old
<1>6. RecordedInOrder(new)
  BY <1>2 DEF InOrder, RecordedInOrder, KeepsBut, Fields, old
<1>7. DecidedInOrder(new)
  BY <1>2 DEF InOrder, DecidedInOrder, KeepsBut, Fields, old
<1> QED
  BY <1>2, <1>4, <1>5, <1>6, <1>7
     DEF SameCalls, Ordered, InOrder, KeepsBut, Fields, new, old

LEMMA PullInOrder ==
  ASSUME TypeOK, NEW r \in Responses, InOrder(response[r]), Pull(r)
  PROVE  SameCalls(response[r], response'[r])
<1> DEFINE old == response[r]
           new == response'[r]
<1>0. old \in ResponseStates /\ DOMAIN old = Fields /\ old.stage = "idle"
  BY FieldsOfResponse DEF TypeOK, Pull
<1>1. CASE Throws(r, old)
  BY <1>0, <1>1, ThrowsInOrder
<1>2. CASE Becomes(r, [ old EXCEPT !.stage = "reading" ])
  <2>1. KeepsBut(old, new, { "stage" }) /\ new.stage = "reading"
    BY <1>0, <1>2 DEF Becomes, TypeOK, KeepsBut, Fields
  <2> HIDE DEF old, new
  <2>2. Accepts(new) <=> Accepts(old)
    BY <2>1, AcceptsKept DEF KeepsBut, Fields
  <2>3. ReadInOrder(new)
    BY <1>0, <2>1 DEF InOrder, ReadInOrder, KeepsBut, Fields, old
  <2>4. ValidatedInOrder(new)
    BY <1>0, <2>1, <2>2 DEF InOrder, ValidatedInOrder, KeepsBut, Fields, old
  <2>5. RecordedInOrder(new)
    BY <1>0, <2>1 DEF InOrder, RecordedInOrder, KeepsBut, Fields, old
  <2>6. DecidedInOrder(new)
    BY <1>0, <2>1 DEF InOrder, DecidedInOrder, KeepsBut, Fields, old
  <2> QED
    BY <2>1, <2>3, <2>4, <2>5, <2>6
       DEF SameCalls, Ordered, InOrder, KeepsBut, Fields, new, old
<1> QED
  BY <1>1, <1>2 DEF Pull

\* What a read of one frame does to the response.
Reads(old, new, frame) ==
  /\ KeepsBut(old, new, { "received", "decisions", "holding", "released",
                          "delivered", "stage" })
  /\ new.received = Append(old.received, frame)
  /\ new.decisions \in { old.decisions, old.decisions \o frame }
  /\ new.decisions # old.decisions => frame \in CallFrames
  /\ new.decisions \in Seq(Calls)
  /\ new.holding = (old.holding \/ frame # TextFrame)
  /\ \/ new.released = old.released /\ new.stage = "reading"
     \/ /\ ~new.holding /\ new.released = Len(old.received) + 1
        /\ new.stage = "idle"

LEMMA ReadFrameReads ==
  ASSUME TypeOK, NEW r \in Responses, ReadFrame(r)
  PROVE  \E frame \in Frames : Reads(response[r], response'[r], frame)
<1> DEFINE old == response[r]
           new == response'[r]
<1>0. /\ old \in ResponseStates /\ DOMAIN old = Fields /\ old.stage = "reading"
      /\ old.received \in Seq(Frames) /\ old.decisions \in Seq(Calls)
      /\ ~old.cancelled
  BY FieldsOfResponse DEF TypeOK, ReadFrame, ResponseStates, Active
<1>1. PICK frame \in Frames :
        LET read == [ Received(old, frame) EXCEPT !.holding = @ \/ frame # TextFrame ]
        IN  IF read.holding
            THEN new = read
            ELSE new = [ read EXCEPT !.released = Len(old.received) + 1,
                                     !.delivered = "yes", !.stage = "idle" ]
  BY BecomesState DEF ReadFrame
<1> DEFINE got == Received(old, frame)
           read == [ got EXCEPT !.holding = old.holding \/ frame # TextFrame ]
<1>2. /\ DOMAIN got = Fields
      /\ KeepsBut(old, got, { "received", "decisions" })
      /\ got.received = Append(old.received, frame)
      /\ got.decisions \in Seq(Calls)
      /\ got.decisions \in { old.decisions, old.decisions \o frame }
      /\ got.decisions # old.decisions => frame \in CallFrames
  <2>1. CASE frame \in CallFrames
    <3>1. old.decisions \o frame \in Seq(Calls)
      BY <1>0, <2>1, FramesOfCalls
    <3>2. got = [ old EXCEPT !.received = Append(old.received, frame),
                             !.decisions = old.decisions \o frame ]
      BY <1>0, <2>1 DEF Received, Fields
    <3> HIDE DEF got
    <3> QED
      BY <1>0, <2>1, <3>1, <3>2 DEF KeepsBut, Fields
  <2>2. CASE frame \notin CallFrames
    BY <1>0, <2>2 DEF Received, KeepsBut, Fields
  <2> QED
    BY <2>1, <2>2
<1> HIDE DEF got
<1>3. /\ DOMAIN read = Fields
      /\ KeepsBut(old, read, { "received", "decisions", "holding" })
      /\ read.received = Append(old.received, frame)
      /\ read.decisions = got.decisions
      /\ read.holding = (old.holding \/ frame # TextFrame)
  BY <1>2 DEF KeepsBut, Fields
<1>4. IF read.holding THEN new = read
      ELSE new = [ read EXCEPT !.released = Len(old.received) + 1,
                               !.delivered = "yes", !.stage = "idle" ]
  <2>1. got.holding = old.holding
    BY <1>2 DEF KeepsBut, Fields
  <2> QED
    BY <1>1, <2>1 DEF got
<1> HIDE DEF new, old, read
<1>5. /\ KeepsBut(old, new, { "received", "decisions", "holding", "released",
                              "delivered", "stage" })
      /\ new.received = Append(old.received, frame)
      /\ new.decisions = got.decisions
      /\ new.holding = (old.holding \/ frame # TextFrame)
      /\ \/ new.released = old.released /\ new.stage = "reading"
         \/ /\ ~new.holding /\ new.released = Len(old.received) + 1
            /\ new.stage = "idle"
  BY ZenonT(60), <1>0, <1>3, <1>4 DEF KeepsBut, Fields
<1>6. Reads(old, new, frame)
  BY <1>2, <1>5 DEF Reads
<1> QED
  BY <1>6 DEF new, old

LEMMA ReadFrameInOrder ==
  ASSUME TypeOK, NEW r \in Responses, InOrder(response[r]), ReadFrame(r)
  PROVE  Ordered(response[r], response'[r])
<1> DEFINE old == response[r]
           new == response'[r]
<1>0. /\ old \in ResponseStates /\ DOMAIN old = Fields /\ old.stage = "reading"
      /\ old.received \in Seq(Frames) /\ old.decisions \in Seq(Calls)
      /\ ~old.cancelled
  BY FieldsOfResponse DEF TypeOK, ReadFrame, ResponseStates, Active
<1>1. PICK frame \in Frames : Reads(old, new, frame)
  BY ReadFrameReads
<1> HIDE DEF new, old
<1>2. /\ KeepsBut(old, new, { "received", "decisions", "holding", "released",
                              "delivered", "stage" })
      /\ new.received = Append(old.received, frame)
      /\ new.decisions \in Seq(Calls)
      /\ new.holding = (old.holding \/ frame # TextFrame)
      /\ \/ new.released = old.released /\ new.stage = "reading"
         \/ /\ ~new.holding /\ new.released = Len(old.received) + 1
            /\ new.stage = "idle"
  BY <1>1 DEF Reads
<1>3. /\ Len(new.received) = Len(old.received) + 1
      /\ DOMAIN new.received = 1 .. Len(old.received) + 1
      /\ \A i \in 1 .. Len(old.received) : new.received[i] = old.received[i]
      /\ new.received[Len(old.received) + 1] = frame
      /\ DOMAIN old.received = 1 .. Len(old.received) /\ Len(old.received) \in Nat
  BY <1>0, <1>2
<1>4. old.released \in Nat
  BY <1>0 DEF ResponseStates
<1>5. ReadInOrder(new)
  <2>1. /\ old.released <= Len(old.received)
        /\ ~old.holding => \A i \in 1 .. Len(old.received) : old.received[i] = TextFrame
        /\ \A i \in 1 .. old.released : old.received[i] = TextFrame
    BY <1>0, <1>3 DEF InOrder, ReadInOrder, old
  <2>2. new.released <= Len(new.received)
    BY <1>2, <1>3, <1>4, <2>1
  <2>3. ~new.holding => \A i \in DOMAIN new.received : new.received[i] = TextFrame
    <3>1. ~new.holding => ~old.holding /\ frame = TextFrame
      BY <1>2
    <3> QED
      BY <1>2, <1>3, <2>1, <3>1
  <2>4. \A i \in 1 .. new.released : new.received[i] = TextFrame
    <3>1. CASE new.released = old.released
      <4> SUFFICES ASSUME NEW i \in 1 .. old.released
                   PROVE  new.received[i] = TextFrame
        BY <3>1
      <4>1. i \in 1 .. Len(old.received)
        BY <1>3, <1>4, <2>1
      <4> QED
        BY <1>3, <2>1, <4>1
    <3>2. CASE ~new.holding /\ new.released = Len(old.received) + 1
      BY <1>3, <2>3, <3>2
    <3> QED
      BY <1>2, <3>1, <3>2
  <2> QED
    BY <2>2, <2>3, <2>4 DEF ReadInOrder
<1>6. old.validation = "none" /\ old.pending = << >>
  BY <1>0 DEF InOrder, ValidatedInOrder, old
<1>7. ValidatedInOrder(new)
  BY <1>2, <1>6 DEF ValidatedInOrder, KeepsBut, Fields
<1>8. RecordedInOrder(new)
  BY <1>0, <1>2 DEF InOrder, RecordedInOrder, KeepsBut, Fields, old
<1>9. DecidedInOrder(new)
  BY <1>0, <1>2 DEF InOrder, DecidedInOrder, KeepsBut, Fields, old
<1> QED
  BY <1>2, <1>5, <1>7, <1>8, <1>9
     DEF Ordered, InOrder, KeepsBut, Fields, new, old

LEMMA ReadStopsInOrder ==
  ASSUME TypeOK, NEW r \in Responses, InOrder(response[r]),
         ReadFails(r) \/ ReadInterrupted(r)
  PROVE  SameCalls(response[r], response'[r])
BY ThrowsInOrder DEF ReadFails, ReadInterrupted, TypeOK

LEMMA ReadEndsInOrder ==
  ASSUME TypeOK, NEW r \in Responses, InOrder(response[r]), ReadEnds(r)
  PROVE  SameCalls(response[r], response'[r])
<1> DEFINE old == response[r]
           new == response'[r]
           ended == [ old EXCEPT !.complete = TRUE ]
<1>0. /\ DOMAIN old = Fields /\ old.stage = "reading" /\ ~old.cancelled
      /\ old.decisions \in Seq(Calls)
  BY FieldsOfResponse DEF TypeOK, ReadEnds, ResponseStates, Active
<1>1. Accepts(ended) <=> Accepts(old)
  BY <1>0, AcceptsKept DEF Fields
<1>2. /\ KeepsBut(old, new, { "complete", "stage", "answer", "validation" })
      /\ new.complete /\ new.stage = "validating"
      /\ new.answer \in { "pending", "rejected" }
      /\ new.validation = IF Accepts(ended) THEN "running" ELSE "threw"
  BY <1>0 DEF ReadEnds, Awaits, Becomes, TypeOK, KeepsBut, Fields
<1> HIDE DEF old, new, ended
<1>3. Accepts(new) <=> Accepts(old)
  BY <1>2, AcceptsKept DEF KeepsBut, Fields
<1>4. ReadInOrder(new)
  BY <1>0, <1>2 DEF InOrder, ReadInOrder, KeepsBut, Fields, old
<1>5. ValidatedInOrder(new)
  BY <1>0, <1>1, <1>2, <1>3 DEF InOrder, ValidatedInOrder, KeepsBut, Fields, old
<1>6. RecordedInOrder(new)
  BY <1>0, <1>2 DEF InOrder, ValidatedInOrder, RecordedInOrder, KeepsBut, Fields,
                    old
<1>7. DecidedInOrder(new)
  BY <1>0, <1>2 DEF InOrder, DecidedInOrder, KeepsBut, Fields, old
<1> QED
  BY <1>2, <1>4, <1>5, <1>6, <1>7
     DEF SameCalls, Ordered, InOrder, KeepsBut, Fields, new, old

LEMMA ValidateCallInOrder ==
  ASSUME TypeOK, NEW r \in Responses, InOrder(response[r]), ValidateCall(r)
  PROVE  SameCalls(response[r], response'[r])
<1> DEFINE old == response[r]
           new == response'[r]
           next == old.decisions[Len(old.pending) + 1]
<1>0. /\ DOMAIN old = Fields
      /\ old.pending \in Seq(Calls) /\ old.decisions \in Seq(Calls)
      /\ old.validation = "running" /\ Len(old.pending) < Len(old.decisions)
  BY FieldsOfResponse DEF TypeOK, ValidateCall, ResponseStates
<1>1. new \in { [ old EXCEPT !.pending = Append(old.pending, next) ],
                [ old EXCEPT !.validation = "threw" ] }
  BY BecomesState DEF ValidateCall
<1> HIDE DEF next
<1>2. /\ KeepsBut(old, new, { "pending", "validation" })
      /\ \/ new.validation = "running" /\ new.pending = Append(old.pending, next)
         \/ new.validation = "threw" /\ new.pending = old.pending
  BY <1>0, <1>1 DEF KeepsBut, Fields
<1> HIDE DEF old, new
<1>3. Accepts(new) <=> Accepts(old)
  BY <1>2, AcceptsKept DEF KeepsBut, Fields
<1>4. ReadInOrder(new)
  BY <1>2 DEF InOrder, ReadInOrder, KeepsBut, Fields, old
<1>5. ValidatedInOrder(new)
  <2>1. /\ Len(new.pending) <= Len(new.decisions)
        /\ \A i \in DOMAIN new.pending : new.pending[i] = new.decisions[i]
    <3>1. \A i \in DOMAIN old.pending : old.pending[i] = old.decisions[i]
      BY DEF InOrder, ValidatedInOrder, old
    <3>2. next \in Calls
      BY <1>0 DEF next
    <3>3. new.decisions = old.decisions
      BY <1>2 DEF KeepsBut, Fields
    <3>4. CASE new.pending = Append(old.pending, next)
      BY <1>0, <3>1, <3>2, <3>3, <3>4 DEF next
    <3>5. CASE new.pending = old.pending
      BY <1>0, <3>1, <3>3, <3>5
    <3> QED
      BY <1>2, <3>4, <3>5
  <2> QED
    BY <1>0, <1>2, <1>3, <2>1 DEF InOrder, ValidatedInOrder, KeepsBut, Fields, old
<1>6. RecordedInOrder(new)
  BY <1>0, <1>2 DEF InOrder, RecordedInOrder, KeepsBut, Fields, old
<1>7. DecidedInOrder(new)
  BY <1>2 DEF InOrder, DecidedInOrder, KeepsBut, Fields, old
<1> QED
  BY <1>2, <1>4, <1>5, <1>6, <1>7
     DEF SameCalls, Ordered, InOrder, KeepsBut, Fields, new, old

LEMMA ValidateReturnsInOrder ==
  ASSUME TypeOK, NEW r \in Responses, InOrder(response[r]), ValidateReturns(r)
  PROVE  SameCalls(response[r], response'[r])
<1> DEFINE old == response[r]
           new == response'[r]
<1>0. /\ DOMAIN old = Fields
      /\ old.pending \in Seq(Calls) /\ old.decisions \in Seq(Calls)
      /\ old.validation = "running" /\ Len(old.pending) = Len(old.decisions)
  BY FieldsOfResponse DEF TypeOK, ValidateReturns, ResponseStates
<1>1. new = [ old EXCEPT !.validation = "returned" ]
  BY BecomesState DEF ValidateReturns
<1>2. KeepsBut(old, new, { "validation" }) /\ new.validation = "returned"
  BY <1>0, <1>1 DEF KeepsBut, Fields
<1> HIDE DEF old, new
<1>3. Accepts(new) <=> Accepts(old)
  BY <1>2, AcceptsKept DEF KeepsBut, Fields
<1>4. ReadInOrder(new)
  BY <1>2 DEF InOrder, ReadInOrder, KeepsBut, Fields, old
<1>5. ValidatedInOrder(new)
  <2>1. \A i \in DOMAIN old.pending : old.pending[i] = old.decisions[i]
    BY DEF InOrder, ValidatedInOrder, old
  <2>2. old.pending = old.decisions
    BY <1>0, <2>1
  <2> QED
    BY <1>0, <1>2, <1>3, <2>2 DEF InOrder, ValidatedInOrder, KeepsBut, Fields, old
<1>6. RecordedInOrder(new)
  BY <1>2 DEF InOrder, RecordedInOrder, KeepsBut, Fields, old
<1>7. DecidedInOrder(new)
  BY <1>2 DEF InOrder, DecidedInOrder, KeepsBut, Fields, old
<1> QED
  BY <1>2, <1>4, <1>5, <1>6, <1>7
     DEF SameCalls, Ordered, InOrder, KeepsBut, Fields, new, old

LEMMA AnswerArrivesInOrder ==
  ASSUME TypeOK, NEW r \in Responses, InOrder(response[r]), AnswerArrives(r)
  PROVE  SameCalls(response[r], response'[r])
<1> DEFINE old == response[r]
           new == response'[r]
           promise == IF old.stage = "validating" THEN old.validation
                                                  ELSE old.recording
<1>0. old \in ResponseStates /\ DOMAIN old = Fields
  BY FieldsOfResponse DEF TypeOK
<1>1. new = [ old EXCEPT !.answer = IF promise \in { "returned", "resolved" }
                                      THEN "resolved" ELSE "rejected" ]
  BY BecomesState DEF AnswerArrives
<1>2. /\ KeepsBut(old, new, { "answer" })
      /\ new.answer = "resolved" => promise \in { "returned", "resolved" }
  BY <1>0, <1>1 DEF KeepsBut, Fields
<1>3. new.answer = "resolved" =>
        IF old.stage = "validating" THEN old.validation = "returned"
                                    ELSE old.recording = "resolved"
  BY <1>0, <1>2 DEF ResponseStates
<1> HIDE DEF old, new, promise
<1>4. Accepts(new) <=> Accepts(old)
  BY <1>2, AcceptsKept DEF KeepsBut, Fields
<1>5. ReadInOrder(new)
  BY <1>2 DEF InOrder, ReadInOrder, KeepsBut, Fields, old
<1>6. ValidatedInOrder(new)
  BY <1>2, <1>4 DEF InOrder, ValidatedInOrder, KeepsBut, Fields, old
<1>7. RecordedInOrder(new)
  BY <1>2, <1>3 DEF InOrder, RecordedInOrder, KeepsBut, Fields, old
<1>8. DecidedInOrder(new)
  BY <1>2 DEF InOrder, DecidedInOrder, KeepsBut, Fields, old
<1> QED
  BY <1>2, <1>5, <1>6, <1>7, <1>8
     DEF SameCalls, Ordered, InOrder, KeepsBut, Fields, new, old

LEMMA ValidatedStepInOrder ==
  ASSUME TypeOK, NEW r \in Responses, InOrder(response[r]), Validated(r)
  PROVE  SameCalls(response[r], response'[r])
<1> DEFINE old == response[r]
           new == response'[r]
<1>0. old \in ResponseStates /\ DOMAIN old = Fields /\ old.stage = "validating"
  BY FieldsOfResponse DEF TypeOK, Validated
<1>1. CASE old.answer = "resolved" /\ Active(old)
  <2>1. new = Awaits(Reported(old, "allowed"), "reporting")
    BY <1>1, BecomesState DEF Validated
  <2>2. ~old.cancelled
    BY <1>1 DEF Active
  <2>3. old.recording = "none" /\ old.validation = "returned"
    BY <1>0, <1>1, <2>2 DEF InOrder, RecordedInOrder
  <2>4. Reported(old, "allowed")
          = [ old EXCEPT !.recording = "running", !.event = "allowed" ]
    BY <2>3 DEF Reported
  <2>5. /\ KeepsBut(old, new, { "recording", "event", "stage", "answer" })
        /\ new.recording = "running" /\ new.event = "allowed"
        /\ new.stage = "reporting" /\ new.answer \in { "pending", "rejected" }
    <3> DEFINE reported == [ old EXCEPT !.recording = "running", !.event = "allowed" ]
    <3>1. /\ KeepsBut(old, reported, { "recording", "event" })
          /\ reported.recording = "running" /\ reported.event = "allowed"
          /\ DOMAIN reported = Fields
      BY <1>0 DEF KeepsBut, Fields
    <3>2. new = Awaits(reported, "reporting")
      BY <2>1, <2>4
    <3> HIDE DEF reported, new, old
    <3>3. /\ KeepsBut(reported, new, { "stage", "answer" })
          /\ new.stage = "reporting" /\ new.answer \in { "pending", "rejected" }
      BY <3>1, <3>2 DEF Awaits, KeepsBut, Fields
    <3> QED
      BY <3>1, <3>3 DEF KeepsBut, Fields
  <2> HIDE DEF old, new
  <2>6. Accepts(new) <=> Accepts(old)
    BY <2>5, AcceptsKept DEF KeepsBut, Fields
  <2>7. ReadInOrder(new)
    BY <1>0, <2>5 DEF InOrder, ReadInOrder, KeepsBut, Fields, old
  <2>8. ValidatedInOrder(new)
    BY <2>5, <2>6 DEF InOrder, ValidatedInOrder, KeepsBut, Fields, old
  <2>9. RecordedInOrder(new)
    BY <2>3, <2>5 DEF InOrder, RecordedInOrder, KeepsBut, Fields, old
  <2>10. DecidedInOrder(new)
    BY <1>0, <2>5 DEF InOrder, DecidedInOrder, KeepsBut, Fields, old
  <2> QED
    BY <2>5, <2>7, <2>8, <2>9, <2>10
       DEF SameCalls, Ordered, InOrder, KeepsBut, Fields, new, old
<1>2. CASE ~(old.answer = "resolved" /\ Active(old))
  BY <1>0, <1>2, ThrowsInOrder DEF Validated
<1> QED
  BY <1>1, <1>2

LEMMA ReportedAllowedInOrder ==
  ASSUME TypeOK, NEW r \in Responses, InOrder(response[r]), ReportedAllowed(r)
  PROVE  SameCalls(response[r], response'[r])
<1> DEFINE old == response[r]
           new == response'[r]
           told == [ old EXCEPT !.told = "allowed" ]
<1>0. old \in ResponseStates /\ DOMAIN old = Fields /\ old.stage = "reporting"
  BY FieldsOfResponse DEF TypeOK, ReportedAllowed
<1>1. CASE ~(old.answer = "resolved" /\ Active(old))
  BY <1>0, <1>1, ThrowsInOrder DEF ReportedAllowed
<1>2. CASE old.answer = "resolved" /\ Active(old)
  <2>0. ~old.cancelled /\ old.event = "allowed" /\ old.recording = "resolved"
    BY <1>0, <1>2 DEF Active, InOrder, RecordedInOrder
  <2>1. /\ KeepsBut(old, told, { "told" }) /\ told.told = "allowed"
        /\ DOMAIN told = Fields /\ told \in ResponseStates
    <3>1. told \in ResponseStates
      BY <1>0, FieldsTyped DEF Statuses, Typed
    <3> QED
      BY <1>0, <3>1 DEF KeepsBut, Fields
  <2> DEFINE closed == [ told EXCEPT !.released = Len(old.received), !.settled = TRUE,
                                     !.stage = "closed", !.delivered = "yes" ]
             away == [ CancelBegun(told) EXCEPT !.stage = "returned",
                         !.settled = old.released = Len(old.received) ]
  <2>2. \/ new = closed
        \/ Throws(r, told)
        \/ new = away
    BY <1>2, BecomesState DEF ReportedAllowed
  <2> HIDE DEF told
  <2>3. CASE new = closed
    <3>1. /\ KeepsBut(old, new, { "told", "released", "settled", "stage",
                                  "delivered" })
          /\ new.told = "allowed" /\ new.released = Len(old.received)
          /\ new.stage = "closed"
      BY <2>1, <2>3 DEF KeepsBut, Fields
    <3>2. old.received \in Seq(Frames)
      BY <1>0 DEF ResponseStates
    <3> HIDE DEF old, new
    <3>3. Accepts(new) <=> Accepts(old)
      BY <3>1, AcceptsKept DEF KeepsBut, Fields
    <3>4. ReadInOrder(new)
      BY <3>1, <3>2 DEF InOrder, ReadInOrder, KeepsBut, Fields, old
    <3>5. ValidatedInOrder(new)
      BY <3>1, <3>3 DEF InOrder, ValidatedInOrder, KeepsBut, Fields, old
    <3>6. RecordedInOrder(new)
      BY <2>0, <3>1 DEF InOrder, RecordedInOrder, KeepsBut, Fields, old
    <3>7. DecidedInOrder(new)
      BY <2>0, <3>1 DEF InOrder, DecidedInOrder, KeepsBut, Fields, old
    <3> QED
      BY <3>1, <3>4, <3>5, <3>6, <3>7
         DEF SameCalls, Ordered, InOrder, KeepsBut, Fields, new, old
  <2>4. CASE Throws(r, told)
    <3>1. Accepts(told) <=> Accepts(old)
      BY <2>1, AcceptsKept DEF KeepsBut, Fields
    <3> HIDE DEF old
    <3>2. ReadInOrder(told)
      BY <2>1 DEF InOrder, ReadInOrder, KeepsBut, Fields, old
    <3>3. ValidatedInOrder(told)
      BY <2>1, <3>1 DEF InOrder, ValidatedInOrder, KeepsBut, Fields, old
    <3>4. RecordedInOrder(told)
      BY <2>1 DEF InOrder, RecordedInOrder, KeepsBut, Fields, old
    <3>5. DecidedInOrder(told)
      BY <1>0, <2>0, <2>1 DEF InOrder, DecidedInOrder, KeepsBut, Fields, old
    <3>6. /\ told.stage = "reporting" /\ told.recording = old.recording
          /\ told.decisions = old.decisions
      BY <1>0, <2>1 DEF KeepsBut, Fields
    <3>7. SameCalls(told, new)
      BY <2>1, <2>4, <3>2, <3>3, <3>4, <3>5, <3>6, ThrowsInOrder DEF InOrder
    <3> QED
      BY <3>6, <3>7 DEF SameCalls, Ordered, old
  <2>5. CASE new = away
    <3>1. /\ KeepsBut(old, new, { "told", "callbackAborted", "answer", "cancelled",
                                  "cancelStage", "stage", "settled" })
          /\ new.stage = "returned" /\ new.cancelled /\ new.cancelStage = "reader"
      BY <2>1, <2>5 DEF CancelBegun, CallbacksAborted, KeepsBut, Fields
    <3> HIDE DEF old, new
    <3>2. Accepts(new) <=> Accepts(old)
      BY <3>1, AcceptsKept DEF KeepsBut, Fields
    <3>3. ReadInOrder(new)
      BY <1>0, <3>1 DEF InOrder, ReadInOrder, KeepsBut, Fields, old
    <3>4. ValidatedInOrder(new)
      BY <3>1, <3>2 DEF InOrder, ValidatedInOrder, KeepsBut, Fields, old
    <3>5. RecordedInOrder(new)
      BY <2>0, <3>1 DEF InOrder, RecordedInOrder, KeepsBut, Fields, old
    <3>6. DecidedInOrder(new)
      BY <3>1 DEF InOrder, DecidedInOrder, KeepsBut, Fields, old
    <3> QED
      BY <3>1, <3>3, <3>4, <3>5, <3>6
         DEF SameCalls, Ordered, InOrder, KeepsBut, Fields, new, old
  <2> QED
    BY <2>2, <2>3, <2>4, <2>5
<1> QED
  BY <1>1, <1>2

LEMMA ReaderCancelledInOrder ==
  ASSUME TypeOK, NEW r \in Responses, InOrder(response[r]), ReaderCancelled(r)
  PROVE  SameCalls(response[r], response'[r])
<1> DEFINE old == response[r]
           new == response'[r]
           reported == Reported(old, "refused")
<1>0. old \in ResponseStates /\ DOMAIN old = Fields /\ old.stage = "cancelling"
  BY FieldsOfResponse DEF TypeOK, ReaderCancelled
<1>1. new = IF old.cancelled THEN [ old EXCEPT !.stage = "returned" ]
            ELSE Awaits(reported, "refusing")
  BY BecomesState DEF ReaderCancelled
<1>2. /\ KeepsBut(old, reported, { "recording", "event" })
      /\ DOMAIN reported = Fields
      /\ \/ reported.recording = old.recording /\ reported.event = old.event
         \/ /\ old.recording = "none" /\ reported.recording = "running"
            /\ reported.event = "refused"
  <2>1. CASE old.recording = "none"
    BY <1>0, <2>1 DEF Reported, KeepsBut, Fields
  <2>2. CASE old.recording # "none"
    BY <1>0, <2>2 DEF Reported, KeepsBut, Fields
  <2> QED
    BY <2>1, <2>2
<1> HIDE DEF reported
<1>3. /\ KeepsBut(old, new, { "recording", "event", "stage", "answer" })
      /\ \/ new.recording = old.recording /\ new.event = old.event
         \/ new.recording = "running" /\ new.event = "refused"
      /\ \/ new.stage = "returned"
         \/ new.stage = "refusing" /\ ~old.cancelled
  <2>1. CASE old.cancelled
    BY <1>0, <1>1, <2>1 DEF KeepsBut, Fields
  <2>2. CASE ~old.cancelled
    BY <1>1, <1>2, <2>2 DEF Awaits, KeepsBut, Fields
  <2> QED
    BY <2>1, <2>2
<1> HIDE DEF old, new
<1>4. Accepts(new) <=> Accepts(old)
  BY <1>3, AcceptsKept DEF KeepsBut, Fields
<1>5. ReadInOrder(new)
  BY <1>0, <1>3 DEF InOrder, ReadInOrder, KeepsBut, Fields, old
<1>6. ValidatedInOrder(new)
  BY <1>3, <1>4 DEF InOrder, ValidatedInOrder, KeepsBut, Fields, old
<1>7. RecordedInOrder(new)
  BY <1>3 DEF InOrder, RecordedInOrder, KeepsBut, Fields, old
<1>8. DecidedInOrder(new)
  BY <1>0, <1>3 DEF InOrder, DecidedInOrder, KeepsBut, Fields, old
<1> QED
  BY <1>3, <1>5, <1>6, <1>7, <1>8
     DEF SameCalls, Ordered, InOrder, KeepsBut, Fields, new, old

LEMMA ReportedRefusedInOrder ==
  ASSUME TypeOK, NEW r \in Responses, InOrder(response[r]), ReportedRefused(r)
  PROVE  SameCalls(response[r], response'[r])
<1> DEFINE old == response[r]
           new == response'[r]
<1>0. DOMAIN old = Fields /\ old.stage = "refusing"
  BY FieldsOfResponse DEF TypeOK, ReportedRefused
<1>1. new = [ old EXCEPT !.told = "refused", !.settled = TRUE, !.stage = "failed",
                         !.delivered = IF old.delivered = "no" THEN "failed"
                                       ELSE old.delivered ]
  <2>1. Becomes(r, [ old EXCEPT !.told = "refused", !.settled = TRUE,
                       !.stage = "failed",
                       !.delivered = IF @ = "no" THEN "failed" ELSE @ ])
    BY DEF ReportedRefused
  <2> QED
    BY <1>0, <2>1, BecomesState DEF Fields
<1>2. /\ KeepsBut(old, new, { "told", "settled", "stage", "delivered" })
      /\ new.told = "refused" /\ new.stage = "failed"
  BY <1>0, <1>1 DEF KeepsBut, Fields
<1> HIDE DEF old, new
<1>3. Accepts(new) <=> Accepts(old)
  BY <1>2, AcceptsKept DEF KeepsBut, Fields
<1>4. ReadInOrder(new)
  BY <1>0, <1>2 DEF InOrder, ReadInOrder, KeepsBut, Fields, old
<1>5. ValidatedInOrder(new)
  BY <1>2, <1>3 DEF InOrder, ValidatedInOrder, KeepsBut, Fields, old
<1>6. RecordedInOrder(new)
  BY <1>2 DEF InOrder, RecordedInOrder, KeepsBut, Fields, old
<1>7. DecidedInOrder(new)
  BY <1>0, <1>2 DEF InOrder, DecidedInOrder, KeepsBut, Fields, old
<1> QED
  BY <1>2, <1>4, <1>5, <1>6, <1>7
     DEF SameCalls, Ordered, InOrder, KeepsBut, Fields, new, old

LEMMA CancelInOrder ==
  ASSUME TypeOK, NEW r \in Responses, InOrder(response[r]), Cancel(r)
  PROVE  SameCalls(response[r], response'[r])
<1> DEFINE old == response[r]
           new == response'[r]
<1>0. /\ DOMAIN old = Fields
      /\ old.delivered = "yes" /\ ~old.cancelled /\ old.stage \notin Ended
  BY FieldsOfResponse DEF TypeOK, Cancel
<1>1. new = CancelBegun(old)
  BY BecomesState DEF Cancel
<1>2. /\ KeepsBut(old, new, { "callbackAborted", "answer", "cancelled",
                              "cancelStage" })
      /\ new.cancelled /\ new.cancelStage = "reader"
      /\ new.answer \in { old.answer, "rejected" }
  BY <1>0, <1>1 DEF CancelBegun, CallbacksAborted, KeepsBut, Fields
<1> HIDE DEF old, new
<1>3. Accepts(new) <=> Accepts(old)
  BY <1>2, AcceptsKept DEF KeepsBut, Fields
<1>4. ReadInOrder(new)
  BY <1>2 DEF InOrder, ReadInOrder, KeepsBut, Fields, old
<1>5. ValidatedInOrder(new)
  BY <1>2, <1>3 DEF InOrder, ValidatedInOrder, KeepsBut, Fields, old
<1>6. RecordedInOrder(new)
  BY <1>2 DEF InOrder, RecordedInOrder, KeepsBut, Fields, old
<1>7. DecidedInOrder(new)
  BY <1>0, <1>2 DEF InOrder, DecidedInOrder, KeepsBut, Fields, Ended, old
<1> QED
  BY <1>2, <1>4, <1>5, <1>6, <1>7
     DEF SameCalls, Ordered, InOrder, KeepsBut, Fields, new, old

LEMMA CancelReportsInOrder ==
  ASSUME TypeOK, NEW r \in Responses, InOrder(response[r]), CancelReports(r)
  PROVE  SameCalls(response[r], response'[r])
<1> DEFINE old == response[r]
           new == response'[r]
           reported == Reported(old, "refused")
<1>0. DOMAIN old = Fields /\ old.cancelStage = "reader"
  BY FieldsOfResponse DEF TypeOK, CancelReports
<1>1. new = [ reported EXCEPT !.cancelStage = "report" ]
  BY BecomesState DEF CancelReports
<1>2. /\ KeepsBut(old, new, { "recording", "event", "cancelStage" })
      /\ \/ new.recording = old.recording /\ new.event = old.event
         \/ /\ old.recording = "none" /\ new.recording = "running"
            /\ new.event = "refused"
      /\ new.cancelStage = "report"
  <2>1. CASE old.recording = "none"
    BY <1>0, <1>1, <2>1 DEF Reported, KeepsBut, Fields
  <2>2. CASE old.recording # "none"
    BY <1>0, <1>1, <2>2 DEF Reported, KeepsBut, Fields
  <2> QED
    BY <2>1, <2>2
<1> HIDE DEF old, new
<1>3. Accepts(new) <=> Accepts(old)
  BY <1>2, AcceptsKept DEF KeepsBut, Fields
<1>4. ReadInOrder(new)
  BY <1>2 DEF InOrder, ReadInOrder, KeepsBut, Fields, old
<1>5. ValidatedInOrder(new)
  BY <1>2, <1>3 DEF InOrder, ValidatedInOrder, KeepsBut, Fields, old
<1>6. old.cancelled
  BY <1>0 DEF InOrder, DecidedInOrder, old
<1>7. RecordedInOrder(new)
  BY <1>2, <1>6 DEF InOrder, RecordedInOrder, DecidedInOrder, KeepsBut, Fields, old
<1>8. DecidedInOrder(new)
  BY <1>0, <1>2 DEF InOrder, DecidedInOrder, KeepsBut, Fields, old
<1> QED
  BY <1>2, <1>4, <1>5, <1>7, <1>8
     DEF SameCalls, Ordered, InOrder, KeepsBut, Fields, new, old

LEMMA CancelSettlesInOrder ==
  ASSUME TypeOK, NEW r \in Responses, InOrder(response[r]), CancelSettles(r)
  PROVE  SameCalls(response[r], response'[r])
<1> DEFINE old == response[r]
           new == response'[r]
<1>0. DOMAIN old = Fields /\ old.cancelStage = "report"
  BY FieldsOfResponse DEF TypeOK, CancelSettles
<1>1. /\ KeepsBut(old, new, { "told", "settled", "cancelStage", "delivered" })
      /\ new.told = "refused" /\ new.cancelStage = "done"
      /\ new.delivered \in { "failed", old.delivered }
  BY <1>0 DEF CancelSettles, Becomes, TypeOK, KeepsBut, Fields
<1> HIDE DEF old, new
<1>2. Accepts(new) <=> Accepts(old)
  BY <1>1, AcceptsKept DEF KeepsBut, Fields
<1>3. ReadInOrder(new)
  BY <1>1 DEF InOrder, ReadInOrder, KeepsBut, Fields, old
<1>4. ValidatedInOrder(new)
  BY <1>1, <1>2 DEF InOrder, ValidatedInOrder, KeepsBut, Fields, old
<1>5. RecordedInOrder(new)
  BY <1>1 DEF InOrder, RecordedInOrder, KeepsBut, Fields, old
<1>6. DecidedInOrder(new)
  BY <1>0, <1>1 DEF InOrder, DecidedInOrder, KeepsBut, Fields, old
<1> QED
  BY <1>1, <1>3, <1>4, <1>5, <1>6
     DEF SameCalls, Ordered, InOrder, KeepsBut, Fields, new, old

LEMMA RecordingStepInOrder ==
  ASSUME TypeOK, NEW r \in Responses, InOrder(response[r]), RecordingStep(r)
  PROVE  SameCalls(response[r], response'[r])
<1> DEFINE old == response[r]
           new == response'[r]
<1>0. DOMAIN old = Fields /\ old.recording = "running"
  BY FieldsOfResponse DEF TypeOK, RecordingStep
<1>1. new \in { old, [ old EXCEPT !.recording = "resolved" ],
                     [ old EXCEPT !.recording = "rejected" ] }
  BY BecomesState DEF RecordingStep
<1>2. /\ KeepsBut(old, new, { "recording" })
      /\ new.recording \in { "running", "resolved", "rejected" }
  BY <1>0, <1>1 DEF KeepsBut, Fields
<1> HIDE DEF old, new
<1>3. Accepts(new) <=> Accepts(old)
  BY <1>2, AcceptsKept DEF KeepsBut, Fields
<1>4. ReadInOrder(new)
  BY <1>2 DEF InOrder, ReadInOrder, KeepsBut, Fields, old
<1>5. ValidatedInOrder(new)
  BY <1>2, <1>3 DEF InOrder, ValidatedInOrder, KeepsBut, Fields, old
<1>6. RecordedInOrder(new)
  BY <1>0, <1>2 DEF InOrder, RecordedInOrder, KeepsBut, Fields, old
<1>7. DecidedInOrder(new)
  BY <1>2 DEF InOrder, DecidedInOrder, KeepsBut, Fields, old
<1> QED
  BY <1>2, <1>4, <1>5, <1>6, <1>7
     DEF SameCalls, Ordered, InOrder, KeepsBut, Fields, new, old

------------------------------------------------------------------------------
(* The order of every response is an invariant of the chat.                 *)

\* Any step of a response but its fetch keeps its order.
LEMMA ResponseInOrder ==
  ASSUME TypeOK, NEW r \in Responses, InOrder(response[r]),
         \/ UnguardedAnswer(r) \/ StreamAnswer(r) \/ Abort(r)
         \/ Pull(r) \/ ReadFrame(r) \/ ReadFails(r) \/ ReadEnds(r)
         \/ ValidateCall(r) \/ ValidateReturns(r) \/ Continue(r)
         \/ Cancel(r) \/ RecordingStep(r)
  PROVE  Ordered(response[r], response'[r])
BY AnswerInOrder, AbortInOrder, PullInOrder, ReadFrameInOrder, ReadStopsInOrder,
   ReadEndsInOrder, ValidateCallInOrder, ValidateReturnsInOrder,
   AnswerArrivesInOrder, ValidatedStepInOrder, ReportedAllowedInOrder,
   ReaderCancelledInOrder, ReportedRefusedInOrder, CancelInOrder,
   CancelReportsInOrder, CancelSettlesInOrder, RecordingStepInOrder
   DEF SameCalls, Continue

LEMMA ResponseKeepsCalls ==
  ASSUME TypeOK, NEW r \in Responses, InOrder(response[r]),
         \/ UnguardedAnswer(r) \/ StreamAnswer(r) \/ Abort(r)
         \/ Pull(r) \/ ReadFails(r) \/ ReadEnds(r)
         \/ ValidateCall(r) \/ ValidateReturns(r) \/ Continue(r)
         \/ Cancel(r) \/ RecordingStep(r)
  PROVE  response'[r].decisions = response[r].decisions
BY AnswerInOrder, AbortInOrder, PullInOrder, ReadStopsInOrder,
   ReadEndsInOrder, ValidateCallInOrder, ValidateReturnsInOrder,
   AnswerArrivesInOrder, ValidatedStepInOrder, ReportedAllowedInOrder,
   ReaderCancelledInOrder, ReportedRefusedInOrder, CancelInOrder,
   CancelReportsInOrder, CancelSettlesInOrder, RecordingStepInOrder
   DEF SameCalls, Continue

OrderInv == \A r \in Responses : InOrder(response[r])

LEMMA InitInOrder == Init => OrderInv
<1> SUFFICES ASSUME Init, NEW r \in Responses
             PROVE  InOrder(response[r])
  BY DEF OrderInv
<1>1. response[r] = Unsent
  BY DEF Init
<1>2. ReadInOrder(Unsent) /\ DecidedInOrder(Unsent)
  BY DEF Unsent, ReadInOrder, DecidedInOrder
<1>3. ValidatedInOrder(Unsent) /\ RecordedInOrder(Unsent)
  BY DEF Unsent, ValidatedInOrder, RecordedInOrder
<1> QED
  BY <1>1, <1>2, <1>3 DEF InOrder

LEMMA NextInOrder ==
  ASSUME ChatInv, OrderInv, [Next]_vars
  PROVE  OrderInv'
<1>0. TypeOK
  BY DEF ChatInv
<1>1. CASE UNCHANGED response
  BY <1>1 DEF OrderInv
<1>2. ASSUME NEW r \in Responses, Fetch(r)
      PROVE  OrderInv'
  <2>1. response[r].stage = "unsent"
    BY <1>0, <1>2 DEF ChatInv, FetchedInOrder, Fetch, TypeOK, Responses, Unsent
  <2>2. InOrder(response'[r])
    BY <1>0, <1>2, <2>1, FetchInOrder DEF OrderInv, SameCalls, Ordered
  <2>3. \A s \in Responses \ { r } : response'[s] = response[s]
    BY <1>0, <1>2 DEF Fetch, Becomes, TypeOK
  <2> QED
    BY <2>2, <2>3 DEF OrderInv
<1>3. ASSUME NEW r \in Responses,
             \/ UnguardedAnswer(r) \/ StreamAnswer(r) \/ Abort(r)
             \/ Pull(r) \/ ReadFrame(r) \/ ReadFails(r) \/ ReadEnds(r)
             \/ ValidateCall(r) \/ ValidateReturns(r) \/ Continue(r)
             \/ Cancel(r) \/ RecordingStep(r)
      PROVE  OrderInv'
  <2>1. InOrder(response'[r])
    BY <1>0, <1>3, ResponseInOrder DEF OrderInv, Ordered
  <2>2. \A s \in Responses \ { r } : response'[s] = response[s]
    BY <1>0, <1>3, ResponseStep DEF Progresses, Allows, StepOf
  <2> QED
    BY <2>1, <2>2 DEF OrderInv
<1>4. CASE PrepareStep \/ \E id \in ToolCallIds, input \in Inputs : Execute(id, input)
  BY <1>1, <1>4 DEF PrepareStep, Execute
<1>5. CASE UNCHANGED vars
  BY <1>1, <1>5 DEF vars
<1> QED
  BY <1>2, <1>3, <1>4, <1>5 DEF Next

LEMMA OrderInvHolds == Spec => []OrderInv
BY ChatInvHolds, InitInOrder, NextInOrder, PTL DEF Spec

\* What the SDK got of a response is the text before its first call until the
\* whole batch was read, accepted, validated and recorded, whenever validators
\* and the recorder answer and whoever cancels or aborts (wire.ts).
THEOREM HeldUntilBatchReadyAlways == Spec => []HeldUntilBatchReady
<1>1. OrderInv => HeldUntilBatchReady
  <2> SUFFICES ASSUME OrderInv, NEW r \in Responses,
                      \E i \in 1 .. response[r].released :
                        response[r].received[i] # TextFrame
               PROVE  /\ response[r].complete /\ Accepts(response[r])
                      /\ response[r].pending = response[r].decisions
                      /\ response[r].recording = "resolved"
                      /\ response[r].event = "allowed"
    BY DEF HeldUntilBatchReady
  <2>1. response[r].stage = "closed"
    BY DEF OrderInv, InOrder, ReadInOrder
  <2>2. /\ response[r].recording = "resolved" /\ response[r].event = "allowed"
        /\ response[r].validation = "returned"
    BY <2>1 DEF OrderInv, InOrder, RecordedInOrder
  <2> QED
    BY <2>2 DEF OrderInv, InOrder, ValidatedInOrder
<1> QED
  BY <1>1, OrderInvHolds, PTL

\* The last decision the application heard of a settled response is the one that
\* stands, although cancel() and pull() both tell it, in any order (wire.ts).
THEOREM ToldWhatHappenedAlways == Spec => []ToldWhatHappened
<1>1. OrderInv => ToldWhatHappened
  BY DEF OrderInv, InOrder, DecidedInOrder, ToldWhatHappened
<1> QED
  BY <1>1, OrderInvHolds, PTL

------------------------------------------------------------------------------
(* What the recorder leaves.                                                *)

RecordsInv == \A r \in Responses : WrittenAfter(response[r], disk[r])

LEMMA InitRecords == Init => RecordsInv
BY DEF Init, RecorderInit, RecordsInv, WrittenAfter

LEMMA NextRecords ==
  ASSUME ChatInv, OrderInv, RecordsInv, [Next]_vars
  PROVE  RecordsInv'
<1>0. TypeOK
  BY DEF ChatInv
<1>1. CASE UNCHANGED << response, disk >>
  BY <1>1 DEF RecordsInv
<1>2. ASSUME NEW r \in Responses, UNCHANGED disk,
             Ordered(response[r], response'[r]),
             \A s \in Responses \ { r } : response'[s] = response[s]
      PROVE  RecordsInv'
  BY <1>2 DEF RecordsInv, WrittenAfter, Ordered
<1>3. ASSUME NEW r \in Responses, Fetch(r)
      PROVE  RecordsInv'
  <2>1. response[r].stage = "unsent"
    BY <1>0, <1>3 DEF ChatInv, FetchedInOrder, Fetch, TypeOK, Responses, Unsent
  <2>2. Ordered(response[r], response'[r])
    BY <1>0, <1>3, <2>1, FetchInOrder DEF OrderInv, SameCalls
  <2>3. \A s \in Responses \ { r } : response'[s] = response[s]
    BY <1>0, <1>3 DEF Fetch, Becomes, TypeOK
  <2> QED
    BY <1>2, <1>3, <2>2, <2>3 DEF Fetch
<1>4. ASSUME NEW r \in Responses,
             \/ UnguardedAnswer(r) \/ StreamAnswer(r) \/ Abort(r)
             \/ Pull(r) \/ ReadFrame(r) \/ ReadFails(r) \/ ReadEnds(r)
             \/ ValidateCall(r) \/ ValidateReturns(r) \/ Continue(r) \/ Cancel(r)
      PROVE  RecordsInv'
  <2>1. Ordered(response[r], response'[r])
    BY <1>0, <1>4, ResponseInOrder DEF OrderInv
  <2>2. \A s \in Responses \ { r } : response'[s] = response[s]
    BY <1>0, <1>4, ResponseStep DEF Progresses, Allows, StepOf
  <2>3. UNCHANGED disk
    BY <1>4 DEF UnguardedAnswer, StreamAnswer, Abort, Pull, ReadFrame, ReadFails,
                ReadEnds, ValidateCall, ValidateReturns, Continue, Cancel,
                ReadInterrupted, AnswerArrives, Validated, ReportedAllowed,
                ReaderCancelled, ReportedRefused, CancelReports, CancelSettles
  <2> QED
    BY <1>2, <2>1, <2>2, <2>3
<1>5. ASSUME NEW r \in Responses, RecordingStep(r)
      PROVE  RecordsInv'
  <2>1. Ordered(response[r], response'[r]) /\ response[r].recording = "running"
    BY <1>0, <1>5, RecordingStepInOrder DEF OrderInv, SameCalls, RecordingStep
  <2>2. \A s \in Responses \ { r } : response'[s] = response[s]
    BY <1>0, <1>5, ResponseStep DEF Progresses, Allows, StepOf
  <2>3. \A s \in Responses \ { r } : disk'[s] = disk[s]
    BY <1>0, <1>5 DEF RecordingStep, WriteNext, TypeOK
  <2> QED
    BY <2>1, <2>2, <2>3 DEF RecordsInv, WrittenAfter, Ordered
<1>6. CASE PrepareStep \/ \E id \in ToolCallIds, input \in Inputs : Execute(id, input)
  BY <1>1, <1>6 DEF PrepareStep, Execute
<1>7. CASE UNCHANGED vars
  BY <1>1, <1>7 DEF vars
<1> QED
  BY <1>3, <1>4, <1>5, <1>6, <1>7 DEF Next

LEMMA RecordsInvHolds == Spec => []RecordsInv
BY ChatInvHolds, OrderInvHolds, InitRecords, NextRecords, PTL DEF Spec

\* A recording that replays as refused is of a response that was recorded as
\* refused, and one that replays as allowed has its whole body, wherever the
\* recorder was stopped and whatever a power loss took (recording.ts).
THEOREM ReplayIsFaithfulAlways == Spec => []ReplayIsFaithful
<1>1. TypeOK /\ OrderInv /\ RecordsInv => ReplayIsFaithful
  <2> SUFFICES ASSUME TypeOK, OrderInv, RecordsInv, NEW r \in Responses,
                      NEW files \in Survivors(disk[r])
               PROVE  LET state == response[r]
                          replay == Replayed(files, state.complete,
                                      IF Accepts(state) THEN "allowed" ELSE "refused")
                      IN  /\ replay = "allowed" =>
                               state.complete /\ files.body = "whole"
                          /\ replay = "refused" => state.event = "refused"
    BY DEF ReplayIsFaithful
  <2> DEFINE state == response[r]
             replay == Replayed(files, state.complete,
                                IF Accepts(state) THEN "allowed" ELSE "refused")
  <2>1. replay = "allowed" => state.complete /\ files.body = "whole"
    BY DEF Replayed
  <2>2. ASSUME replay = "refused"
        PROVE  state.event = "refused"
    <3>1. files.manifest = "whole" /\ ~(state.complete /\ Accepts(state))
      BY <2>2 DEF Replayed
    <3>2. files.manifest = disk[r].manifest
      BY DEF Survivors, TypeOK
    <3>3. state.recording # "none"
      BY <3>1, <3>2 DEF RecordsInv, WrittenAfter
    <3>4. state.event # "none" /\ state.event \in Statuses
      BY <3>3 DEF OrderInv, InOrder, RecordedInOrder, TypeOK, ResponseStates
    <3>5. state.event = "allowed" => state.complete /\ Accepts(state)
      BY DEF OrderInv, InOrder, RecordedInOrder, ValidatedInOrder
    <3> QED
      BY <3>1, <3>4, <3>5 DEF Statuses
  <2> QED
    BY <2>1, <2>2
<1> QED
  BY <1>1, ChatTypeCorrect, OrderInvHolds, RecordsInvHolds, PTL

------------------------------------------------------------------------------
(* The chat implements BatchRelease.                                        *)

\* The outcome of one response is what a step of it can change.
LEMMA OutcomeOfStep ==
  ASSUME NEW r \in Responses, StepOf(r)
  PROVE  Outcome' = [ Outcome EXCEPT ![r] = OutcomeOf(response'[r]) ]
<1>1. \A s \in Responses \ { r } : OutcomeOf(response'[s]) = OutcomeOf(response[s])
  BY DEF StepOf
<1> QED
  BY <1>1 DEF Outcome

\* A revocation leaves no authority.
LEMMA RevokedAuthority ==
  ASSUME Revoke
  PROVE  Authority' = {}
BY DEF Revoke, Authority

\* The calls found in one response are what a step of it can change.
LEMMA OfferedOfStep ==
  ASSUME NEW r \in Responses, StepOf(r)
  PROVE  Offered' = [ Offered EXCEPT ![r] = Range(response'[r].decisions) ]
<1>1. \A s \in Responses \ { r } : response'[s].decisions = response[s].decisions
  BY DEF StepOf
<1> QED
  BY <1>1 DEF Offered

\* A frame that is read offers its calls, and nothing else happens.
LEMMA ReadFrameOffers ==
  ASSUME ChatInv, NEW r \in Responses, ReadFrame(r)
  PROVE  Batch!Offer(r)
<1> DEFINE old == response[r]
           new == response'[r]
<1>0. /\ TypeOK /\ old \in ResponseStates /\ old.decisions \in Seq(Calls)
      /\ old.stage = "reading" /\ ~old.cancelled
      /\ UNCHANGED << authorities, executed >>
  BY DEF ChatInv, TypeOK, ResponseStates, ReadFrame, Active, KeepAuthority
<1>1. PICK frame \in Frames : Reads(old, new, frame)
  BY <1>0, ReadFrameReads
<1>2. StepOf(r)
  BY <1>0, ReadFrameStep DEF Progresses
<1>3. Outcome[r] = "open" /\ Outcome' = Outcome
  <2>1. OutcomeOf(old) = "open"
    BY <1>0 DEF OutcomeOf
  <2>2. ~new.cancelled /\ new.stage \in { "reading", "idle" }
    BY <1>0, <1>1 DEF Reads, KeepsBut, Fields
  <2>3. OutcomeOf(new) = "open"
    BY <2>2 DEF OutcomeOf
  <2> QED
    BY <1>2, <2>1, <2>3, OutcomeOfStep DEF Outcome
<1>4. /\ Range(old.decisions) \subseteq Range(new.decisions)
      /\ Range(new.decisions) \in SUBSET Calls
  <2> HIDE DEF old, new
  <2>1. CASE new.decisions = old.decisions
    BY <1>0, <2>1 DEF Range
  <2>2. CASE new.decisions = old.decisions \o frame /\ frame \in Seq(Calls)
    <3>1. /\ DOMAIN old.decisions = 1 .. Len(old.decisions)
          /\ DOMAIN new.decisions = 1 .. Len(old.decisions) + Len(frame)
          /\ Len(old.decisions) \in Nat /\ Len(frame) \in Nat
          /\ \A i \in 1 .. Len(old.decisions) : new.decisions[i] = old.decisions[i]
          /\ new.decisions \in Seq(Calls)
      BY <1>0, <2>2
    <3> QED
      BY <3>1 DEF Range
  <2> QED
    BY <1>1, <2>1, <2>2, FramesOfCalls DEF Reads
<1>5. Offered[r] = Range(old.decisions)
  BY DEF Offered
<1>6. Offered' = [ Offered EXCEPT ![r] = Range(new.decisions) ]
  BY <1>2, OfferedOfStep
<1> HIDE DEF old, new
<1>7. Range(new.decisions) = Offered[r] \cup Range(new.decisions)
  BY <1>4, <1>5
<1>8. Authority' = Authority /\ executed' = executed
  BY <1>0 DEF Authority
<1> QED
  BY <1>3, <1>4, <1>6, <1>7, <1>8 DEF Batch!Offer, Batch!Calls, Calls

\* A step that neither reads nor allows keeps the batch, and may refuse it.
LEMMA ProgressImplements ==
  ASSUME ChatInv, NEW r \in Responses, Progresses(r),
         response'[r].decisions = response[r].decisions
  PROVE  [Batch!BatchNext]_(Batch!batchVars)
<1>0. /\ StepOf(r) /\ UNCHANGED executed /\ Progress(response[r], response'[r])
      /\ KeepAuthority \/ Revoke
  BY DEF Progresses, StepOf
<1>1. Authority' \in { Authority, {} }
  BY <1>0, RevokedAuthority DEF KeepAuthority, Authority
<1>2. /\ Outcome' = [ Outcome EXCEPT ![r] = OutcomeOf(response'[r]) ]
      /\ Outcome[r] = OutcomeOf(response[r])
  BY <1>0, OutcomeOfStep DEF Outcome
<1>3. Offered' = Offered
  BY <1>0 DEF Offered, StepOf
<1>4. CASE OutcomeOf(response'[r]) = OutcomeOf(response[r])
  <2>1. Outcome' = Outcome
    BY <1>2, <1>4 DEF Outcome
  <2> QED
    BY <1>0, <1>1, <1>3, <2>1 DEF Batch!BatchNext, Batch!Revoke, Batch!batchVars
<1>5. CASE OutcomeOf(response[r]) = "open" /\ OutcomeOf(response'[r]) = "refused"
  <2>1. Batch!Refuse(r)
    BY <1>0, <1>1, <1>2, <1>3, <1>5 DEF Batch!Refuse
  <2> QED
    BY <2>1 DEF Batch!BatchNext
<1> QED
  BY <1>0, <1>4, <1>5 DEF Progress

\* At the commit the batch is what validate() returned, with one call for each
\* identifier, and the whole of it is granted.
LEMMA CommitGrantsBatch ==
  ASSUME ChatInv, OrderInv, NEW r \in Responses, Allows(r)
  PROVE  /\ \A one, other \in Offered[r] : one.id = other.id => one = other
         /\ Authority' = { [ owner |-> r, id |-> call.id, input |-> call.input ] :
                             call \in Offered[r] }
<1> DEFINE batch == Range(response[r].decisions)
           grant(call) == [ owner |-> r, id |-> call.id, input |-> call.input ]
           granted(id) == CHOOSE call \in batch : call.id = id
<1>0. /\ response[r] \in ResponseStates /\ Commit(r)
      /\ response[r].stage = "reporting"
  BY DEF ChatInv, TypeOK, Allows
<1>1. response[r].pending = response[r].decisions /\ Accepts(response[r])
  BY <1>0 DEF OrderInv, InOrder, RecordedInOrder, ValidatedInOrder
<1>2. batch \subseteq Calls
  BY <1>0 DEF ResponseStates, Range
<1>3. \A one, other \in batch : one.id = other.id => one = other
  BY <1>1 DEF Accepts, Range
<1> HIDE DEF batch
<1>4. \A call \in batch : granted(call.id) = call
  BY <1>3
<1>5. authorities' = [ id \in ToolCallIds |->
                         IF \E call \in batch : call.id = id
                           THEN [ owner |-> r, id |-> id, input |-> granted(id).input ]
                           ELSE None ]
  <2>1. \A id \in ToolCallIds : authorities[id] = None
    BY AllowedAlone
  <2> QED
    BY <1>0, <1>1, <2>1 DEF Commit, batch
<1>6. \A call \in batch : call.id \in ToolCallIds /\ grant(call) \in Grants
  BY <1>2 DEF Calls, Grants
<1> HIDE DEF granted
<1>7. \A call \in batch : authorities'[call.id] = grant(call) /\ grant(call) # None
  BY <1>4, <1>5, <1>6, NoneIsNoGrant
<1>8. \A id \in ToolCallIds :
        authorities'[id] # None => \E call \in batch : call.id = id
  BY <1>5
<1> HIDE DEF grant
<1>9. Authority' = { grant(call) : call \in batch }
  BY <1>6, <1>7, <1>8 DEF Authority
<1>10. Offered[r] = batch
  BY DEF Offered, batch
<1> QED
  BY <1>3, <1>9, <1>10 DEF grant

\* All the calls of a response are granted in one step.
LEMMA AllowImplements ==
  ASSUME ChatInv, OrderInv, NEW r \in Responses, Allows(r),
         response'[r].decisions = response[r].decisions
  PROVE  Batch!BatchNext
<1>0. /\ StepOf(r) /\ UNCHANGED executed
      /\ OutcomeOf(response[r]) = "open" /\ OutcomeOf(response'[r]) = "allowed"
  BY DEF Allows, StepOf, OutcomeOf
<1>1. Outcome[r] = "open" /\ Outcome' = [ Outcome EXCEPT ![r] = "allowed" ]
  BY <1>0, OutcomeOfStep DEF Outcome
<1>2. Offered' = Offered
  BY <1>0 DEF Offered, StepOf
<1>3. Batch!Allow(r)
  BY <1>0, <1>1, <1>2, CommitGrantsBatch DEF Batch!Allow
<1> QED
  BY <1>3 DEF Batch!BatchNext

LEMMA FetchImplements ==
  ASSUME ChatInv, NEW r \in Responses, Fetch(r)
  PROVE  [Batch!BatchNext]_(Batch!batchVars)
<1>0. /\ response \in [ Responses -> ResponseStates ] /\ Revoke /\ UNCHANGED executed
      /\ response[r] = Unsent
  <2>1. r > current
    BY DEF ChatInv, TypeOK, Fetch, Responses
  <2> QED
    BY <2>1 DEF ChatInv, TypeOK, Fetch, FetchedInOrder
<1>1. PICK new : /\ Becomes(r, new) /\ OutcomeOf(new) \in { "open", "refused" }
                 /\ new.decisions = Unsent.decisions
  <2> DEFINE sent == [ Unsent EXCEPT !.stage = "upstream" ]
             refused == [ Unsent EXCEPT !.stage = "failed", !.delivered = "failed" ]
  <2>1. Becomes(r, sent) \/ Becomes(r, refused)
    BY <1>0 DEF Fetch
  <2>2. OutcomeOf(sent) = "open" /\ sent.decisions = Unsent.decisions
    BY DEF OutcomeOf, Unsent
  <2>3. OutcomeOf(refused) = "refused" /\ refused.decisions = Unsent.decisions
    BY DEF OutcomeOf, Unsent
  <2> HIDE DEF sent, refused
  <2> QED
    BY <2>1, <2>2, <2>3
<1>2. OutcomeOf(response[r]) = "open"
  BY <1>0 DEF OutcomeOf, Unsent
<1> HIDE DEF Unsent
<1>3. /\ response'[r] = new
      /\ \A s \in Responses \ { r } : response'[s] = response[s]
  BY <1>0, <1>1 DEF Becomes
<1>4. Outcome[r] = "open" /\ Outcome' = [ Outcome EXCEPT ![r] = OutcomeOf(new) ]
  <2>1. \A s \in Responses \ { r } : OutcomeOf(response'[s]) = OutcomeOf(response[s])
    BY <1>3
  <2> QED
    BY <1>2, <1>3, <2>1 DEF Outcome
<1>5. Offered' = Offered
  <2>1. \A s \in Responses : response'[s].decisions = response[s].decisions
    BY <1>0, <1>1, <1>3
  <2> QED
    BY <2>1 DEF Offered
<1>6. Authority' = {}
  BY <1>0, RevokedAuthority
<1>7. CASE OutcomeOf(new) = "open"
  <2>1. Outcome' = Outcome
    BY <1>2, <1>4, <1>7 DEF Outcome
  <2> QED
    BY <1>0, <1>5, <1>6, <2>1 DEF Batch!BatchNext, Batch!Revoke
<1>8. CASE OutcomeOf(new) = "refused"
  <2>1. Batch!Refuse(r)
    BY <1>0, <1>4, <1>5, <1>6, <1>8 DEF Batch!Refuse
  <2> QED
    BY <2>1 DEF Batch!BatchNext
<1> QED
  BY <1>1, <1>7, <1>8

\* A tool runs at most once with each grant, as it was granted.
LEMMA ExecuteImplements ==
  ASSUME ChatInv, NEW id \in ToolCallIds, NEW input \in Inputs, Execute(id, input)
  PROVE  Batch!BatchNext
<1> DEFINE spent == authorities[id]
<1>0. /\ TypeOK /\ spent \in Grants \ executed /\ spent.id = id
      /\ authorities' = [ authorities EXCEPT ![id] = None ]
      /\ executed' \in { executed, executed \cup { spent } }
      /\ UNCHANGED response
  BY ExecuteSpends DEF ChatInv
<1>1. spent \in Authority
  BY <1>0, NoneIsNoGrant DEF Authority
<1>2. Authority' = Authority \ { spent }
  <2>1. \A other \in ToolCallIds \ { id } :
          authorities'[other] = authorities[other]
          /\ (authorities[other] # None => authorities[other].id = other)
    BY <1>0 DEF TypeOK, ChatInv, GrantsAreCurrent
  <2>2. authorities'[id] = None
    BY <1>0 DEF TypeOK
  <2>3. \A other \in ToolCallIds \ { id } : authorities[other] # None => authorities[other] # spent
    BY <1>0, <2>1
  <2> HIDE DEF spent
  <2>4. \A grant \in Authority' : grant \in Authority \ { spent }
    BY <2>1, <2>2, <2>3 DEF Authority
  <2>5. \A grant \in Authority \ { spent } : grant \in Authority'
    <3> SUFFICES ASSUME NEW other \in ToolCallIds, authorities[other] # None,
                        authorities[other] # spent
                 PROVE  authorities[other] \in Authority'
      BY DEF Authority
    <3>1. other # id
      BY DEF spent
    <3> QED
      BY <2>1, <3>1 DEF Authority
  <2> QED
    BY <2>4, <2>5
<1>3. Outcome' = Outcome /\ Offered' = Offered
  BY <1>0 DEF Outcome, Offered
<1> HIDE DEF spent
<1>4. Batch!Execute(spent)
  BY <1>0, <1>1, <1>2, <1>3 DEF Batch!Execute
<1> QED
  BY <1>1, <1>4 DEF Batch!BatchNext

LEMMA NextImplements ==
  ASSUME ChatInv, OrderInv, [Next]_vars
  PROVE  [Batch!BatchNext]_(Batch!batchVars)
<1>1. CASE PrepareStep
  <2>1. /\ Authority' = {} /\ Outcome' = Outcome /\ Offered' = Offered
        /\ executed' = executed
    BY <1>1, RevokedAuthority DEF PrepareStep, Outcome, Offered
  <2> QED
    BY <2>1 DEF Batch!BatchNext, Batch!Revoke
<1>2. CASE \E r \in Responses : Fetch(r)
  BY <1>2, FetchImplements
<1>3. CASE \E r \in Responses : ReadFrame(r)
  BY <1>3, ReadFrameOffers DEF Batch!BatchNext
<1>4. CASE \E r \in Responses :
        \/ UnguardedAnswer(r) \/ StreamAnswer(r) \/ Abort(r)
        \/ Pull(r) \/ ReadFails(r) \/ ReadEnds(r)
        \/ ValidateCall(r) \/ ValidateReturns(r) \/ Continue(r)
        \/ Cancel(r) \/ RecordingStep(r)
  <2>1. PICK r \in Responses : /\ Progresses(r) \/ Allows(r)
                               /\ response'[r].decisions = response[r].decisions
    BY <1>4, ResponseStep, ResponseKeepsCalls DEF ChatInv, OrderInv
  <2> QED
    BY <2>1, ProgressImplements, AllowImplements
<1>5. CASE \E id \in ToolCallIds, input \in Inputs : Execute(id, input)
  BY <1>5, ExecuteImplements
<1>6. CASE UNCHANGED vars
  BY <1>6 DEF vars, Outcome, Authority, Offered, Batch!batchVars
<1> QED
  BY <1>1, <1>2, <1>3, <1>4, <1>5, <1>6 DEF Next

LEMMA InitImplements == Init => Batch!BatchInit
BY DEF Init, Batch!BatchInit, Outcome, OutcomeOf, Offered, Unsent, Authority, Range

\* For every number of responses the calls read of a response become executable
\* all at once, none missing, or never; a late answer grants nothing, and a granted
\* call runs at most once, as it was read (packages/ai-sdk/src/index.ts, wire.ts).
THEOREM ChatImplementsBatchRelease == Spec => ImplementsBatchRelease
BY InitImplements, NextImplements, ChatInvHolds, OrderInvHolds, PTL
   DEF Spec, ImplementsBatchRelease, Batch!BatchSpec
=====================================================================================
