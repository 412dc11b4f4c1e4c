-------------------------- MODULE JsonParser_proofs --------------------------
(***************************************************************************)
(* The incremental parser of one call's arguments keeps to its type, and   *)
(* it implements ArgumentParser, the summary of it that the coordinator    *)
(* and the gate are modelled over.                                         *)
(*                                                                         *)
(* Neither holds by itself: what finish() answers depends on facts that    *)
(* push() keeps.  They are Collected: an error that is not a duplicate key *)
(* has stopped the parser, a fatal or limit diagnostic always has, nothing *)
(* is pending behind a complete root value, and a byte order mark cannot   *)
(* be found behind one.  That push() moves along the summaries is Grows:   *)
(* what it never takes back.                                               *)
(*                                                                         *)
(* The parser is a record of nineteen fields of which a helper changes a   *)
(* few, so each has a lemma that names them (Updates), and the lemmas on   *)
(* actions compare fields.                                                 *)
(***************************************************************************)
EXTENDS JsonParser, TLAPS

\* The fields of the parser.
Fields ==
  { "phase", "scanner", "partial", "stack", "syntax", "terminal", "rootComplete",
    "skipping", "skipDepth", "duplicate", "error", "fatal", "closed", "trailing",
    "received", "retained", "limited", "queued", "overflow" }

\* Every field but those that changed is kept.
KeepsBut(p, q, changed) ==
  \A field \in Fields \ changed : q[field] = p[field]

\* An update of these fields alone.
Updates(p, q, changed) == q \in Parser /\ KeepsBut(p, q, changed)

\* A parser has these fields and no others.
LEMMA FieldsOfParser ==
  ASSUME NEW p \in Parser
  PROVE  DOMAIN p = Fields
BY DEF Parser, Fields

\* Enqueueing changes the queue alone, and never passes its bound.
LEMMA EmitUpdates ==
  ASSUME NEW p \in Parser, NEW n \in Nat
  PROVE  Updates(p, Emit(p, n), { "queued", "overflow" })
<1>0. p.queued \in 0 .. MaxQueuedEvents + 1 /\ MaxQueuedEvents \in Nat
  BY ParserAssumption DEF Parser
<1>1. CASE p.overflow
  BY <1>1 DEF Emit, Updates, KeepsBut
<1>2. CASE ~p.overflow /\ p.queued + n <= MaxQueuedEvents
  <2> DEFINE q == [ p EXCEPT !.queued = p.queued + n ]
  <2>1. p.queued + n \in 0 .. MaxQueuedEvents + 1
    BY <1>0, <1>2
  <2>2. q \in Parser
    BY <2>1 DEF Parser
  <2>3. KeepsBut(p, q, { "queued", "overflow" })
    BY FieldsOfParser DEF KeepsBut, Fields
  <2>4. Emit(p, n) = q
    BY <1>2 DEF Emit
  <2> QED
    BY <2>2, <2>3, <2>4 DEF Updates
<1>3. CASE ~p.overflow /\ ~(p.queued + n <= MaxQueuedEvents)
  <2> DEFINE last == MaxQueuedEvents + 1
             q == [ p EXCEPT !.queued = last, !.overflow = TRUE ]
  <2>1. q \in Parser
    <3>1. last \in 0 .. MaxQueuedEvents + 1
      BY <1>0
    <3> HIDE DEF last
    <3> QED
      BY <3>1 DEF Parser
  <2>2. KeepsBut(p, q, { "queued", "overflow" })
    BY FieldsOfParser DEF KeepsBut, Fields
  <2>3. Emit(p, n) = q
    BY <1>3 DEF Emit
  <2> QED
    BY <2>1, <2>2, <2>3 DEF Updates
<1> QED
  BY <1>1, <1>2, <1>3

\* A diagnostic of an unrecoverable error is always an error, on record or not.
LEMMA DiagnoseUpdates ==
  ASSUME NEW p \in Parser
  PROVE  /\ Updates(p, Diagnose(p), { "error", "retained", "queued", "overflow" })
         /\ Diagnose(p).error
<1> DEFINE noted == [ p EXCEPT !.error = TRUE,
                               !.retained = IF @ < MaxQueuedEvents THEN @ + 1 ELSE @ ]
<1>1. noted \in Parser
  <2>0. p.retained \in 0 .. MaxQueuedEvents /\ MaxQueuedEvents \in Nat
    BY ParserAssumption DEF Parser
  <2>1. PICK n \in 0 .. MaxQueuedEvents :
          n = IF p.retained < MaxQueuedEvents THEN p.retained + 1 ELSE p.retained
    BY <2>0
  <2>2. noted = [ p EXCEPT !.error = TRUE, !.retained = n ]
    BY <2>1 DEF Parser
  <2> QED
    BY <2>2 DEF Parser
<1>2. KeepsBut(p, noted, { "error", "retained" }) /\ noted.error
  BY FieldsOfParser DEF KeepsBut, Fields
<1> HIDE DEF noted
<1>3. Updates(noted, Emit(noted, 1), { "queued", "overflow" })
  BY <1>1, EmitUpdates
<1> QED
  BY <1>2, <1>3 DEF Updates, KeepsBut, Fields, Diagnose, noted

\* A stopped parser is invalid.
LEMMA StopUpdates ==
  ASSUME NEW p \in Parser
  PROVE  /\ Updates(p, Stop(p), { "terminal", "syntax" })
         /\ Stop(p).terminal /\ Stop(p).syntax = "invalid"
<1>1. Stop(p) \in Parser
  BY DEF Stop, Parser
<1> QED
  BY <1>1, FieldsOfParser DEF Updates, KeepsBut, Fields, Stop

\* An error that stops the parser.
LEMMA FailUpdates ==
  ASSUME NEW p \in Parser
  PROVE  /\ Updates(p, Fail(p), { "error", "retained", "queued", "overflow",
                                  "terminal", "syntax" })
         /\ Fail(p).terminal /\ Fail(p).syntax = "invalid"
<1>1. /\ Diagnose(p) \in Parser
      /\ KeepsBut(p, Diagnose(p), { "error", "retained", "queued", "overflow" })
  BY DiagnoseUpdates DEF Updates
<1>2. /\ Updates(Diagnose(p), Fail(p), { "terminal", "syntax" })
      /\ Fail(p).terminal /\ Fail(p).syntax = "invalid"
  BY <1>1, StopUpdates DEF Fail
<1> QED
  BY <1>1, <1>2 DEF Updates, KeepsBut, Fields

\* A limit is reported like any error.
LEMMA LimitUpdates ==
  ASSUME NEW p \in Parser
  PROVE  Updates(p, LimitDiagnostic(p), { "error", "retained", "queued", "overflow",
                                          "limited" })
<1> DEFINE q == Diagnose(p)
           limited == q.limited \/ p.retained < MaxQueuedEvents
<1>1. q \in Parser /\ KeepsBut(p, q, { "error", "retained", "queued", "overflow" })
  BY DiagnoseUpdates DEF Updates
<1>2. LimitDiagnostic(p) = [ q EXCEPT !.limited = limited ]
  BY DEF LimitDiagnostic
<1> HIDE DEF q
<1>3. limited \in BOOLEAN
  OBVIOUS
<1> HIDE DEF limited
<1>4. [ q EXCEPT !.limited = limited ] \in Parser
  BY <1>1, <1>3 DEF Parser
<1>5. KeepsBut(q, [ q EXCEPT !.limited = limited ], { "limited" })
  BY <1>1, FieldsOfParser DEF KeepsBut, Fields
<1> QED
  BY <1>1, <1>2, <1>4, <1>5 DEF Updates, KeepsBut, Fields

\* A limit that stops the parser, for good.
LEMMA FatalLimitUpdates ==
  ASSUME NEW p \in Parser
  PROVE  /\ Updates(p, FatalLimit(p), { "error", "retained", "queued", "overflow",
                                        "limited", "terminal", "syntax", "fatal" })
         /\ FatalLimit(p).terminal /\ FatalLimit(p).syntax = "invalid"
<1> DEFINE noted == LimitDiagnostic(p)
           q == Stop(noted)
<1>1. /\ noted \in Parser
      /\ KeepsBut(p, noted, { "error", "retained", "queued", "overflow", "limited" })
  BY LimitUpdates DEF Updates
<1>2. /\ q \in Parser /\ KeepsBut(noted, q, { "terminal", "syntax" })
      /\ q.terminal /\ q.syntax = "invalid"
  BY <1>1, StopUpdates DEF Updates
<1> HIDE DEF noted, q
<1>3. [ q EXCEPT !.fatal = TRUE ] \in Parser
  BY <1>2 DEF Parser
<1>4. /\ KeepsBut(q, [ q EXCEPT !.fatal = TRUE ], { "fatal" })
      /\ [ q EXCEPT !.fatal = TRUE ].terminal
      /\ [ q EXCEPT !.fatal = TRUE ].syntax = "invalid"
  BY <1>2, FieldsOfParser DEF KeepsBut, Fields
<1>5. FatalLimit(p) = [ q EXCEPT !.fatal = TRUE ]
  BY DEF FatalLimit, q, noted
<1>6. KeepsBut(p, q, { "error", "retained", "queued", "overflow", "limited",
                       "terminal", "syntax" })
  BY <1>1, <1>2 DEF KeepsBut, Fields
<1> QED
  BY <1>3, <1>4, <1>5, <1>6 DEF Updates, KeepsBut, Fields

------------------------------------------------------------------------------
(* The grammar stack.                                                       *)

\* An update outside its domain leaves a function alone.
LEMMA UpdateOutside ==
  ASSUME NEW D, NEW S, NEW f \in [ D -> S ], NEW n, n \notin D, NEW value
  PROVE  [ f EXCEPT ![n] = value ] \in [ D -> S ]
OBVIOUS

\* The frame on top expects something else; there may be none.
LEMMA ExpectUpdates ==
  ASSUME NEW p \in Parser, NEW e \in Expectations
  PROVE  /\ Updates(p, Expect(p, e), { "stack" })
         /\ Len(Expect(p, e).stack) = Len(p.stack)
<1> DEFINE stack == [ p.stack EXCEPT ![Len(p.stack)].expects = e ]
<1>1. p.stack \in Seq(Frame)
  BY DEF Parser
<1>2. stack \in Seq(Frame) /\ Len(stack) = Len(p.stack)
  <2>1. CASE p.stack = << >>
    <3> DEFINE changed == [ p.stack[0] EXCEPT !.expects = e ]
    <3>1. p.stack \in [ 1 .. 0 -> Frame ]
      BY <1>1, <2>1
    <3>2. stack = [ p.stack EXCEPT ![0] = changed ]
      BY <2>1
    <3> HIDE DEF stack, changed
    <3>3. stack \in [ 1 .. 0 -> Frame ]
      BY <3>1, <3>2, UpdateOutside
    <3> QED
      BY <1>1, <2>1, <3>3
  <2>2. CASE p.stack # << >>
    <3> DEFINE top == p.stack[Len(p.stack)]
               changed == [ top EXCEPT !.expects = e ]
    <3>1. Len(p.stack) \in 1 .. Len(p.stack) /\ top \in Frame
      BY <1>1, <2>2
    <3>2. changed \in Frame
      BY <3>1 DEF Frame
    <3>3. stack = [ p.stack EXCEPT ![Len(p.stack)] = changed ]
      OBVIOUS
    <3> HIDE DEF stack, changed
    <3> QED
      BY <1>1, <3>1, <3>2, <3>3
  <2> QED
    BY <2>1, <2>2
<1>3. Expect(p, e) = [ p EXCEPT !.stack = stack ]
  BY FieldsOfParser DEF Expect, Fields
<1> HIDE DEF stack
<1>4. [ p EXCEPT !.stack = stack ] \in Parser
  BY <1>2 DEF Parser
<1> QED
  BY <1>2, <1>3, <1>4, FieldsOfParser DEF Updates, KeepsBut, Fields

\* The root value is complete.
LEMMA RootClosedUpdates ==
  ASSUME NEW p \in Parser
  PROVE  /\ Updates(p, RootClosed(p), { "rootComplete", "syntax" })
         /\ RootClosed(p).rootComplete /\ RootClosed(p).syntax = "root_complete"
<1>1. RootClosed(p) \in Parser
  BY DEF RootClosed, Parser
<1> QED
  BY <1>1, FieldsOfParser DEF Updates, KeepsBut, Fields, RootClosed

\* What the rest of the state knows of the parser while it collects.
Sound(p) ==
  /\ p.terminal <=> p.syntax = "invalid"
  /\ p.error => p.terminal \/ p.duplicate
  /\ p.fatal => p.terminal
  /\ p.limited => p.terminal
  /\ p.skipping => p.duplicate

\* What a token may do to a parser that is not stopped.
Handled(p, q) ==
  /\ q \in Parser
  /\ \A field \in { "phase", "scanner", "partial", "closed", "trailing", "received" } :
       q[field] = p[field]
  /\ p.rootComplete => q.rootComplete
  /\ p.duplicate => q.duplicate
  /\ p.stack # << >> => q.stack # << >> \/ q.rootComplete
  /\ Sound(q)

\* Of the token handlers, and of what they share: the parser stays sound.
LEMMA FailHandles ==
  ASSUME NEW p \in Parser, Sound(p)
  PROVE  Handled(p, Fail(p))
BY FailUpdates DEF Handled, Updates, KeepsBut, Fields, Sound

LEMMA OpenHandles ==
  ASSUME NEW p \in Parser, Sound(p), ~p.terminal, NEW opener \in Openers
  PROVE  Handled(p, Open(p, opener))
<1>1. CASE ~AtValue(p)
  BY <1>1, FailHandles DEF Open
<1>2. CASE AtValue(p) /\ Len(p.stack) >= MaxDepth
  BY <1>2, FatalLimitUpdates DEF Open, Handled, Updates, KeepsBut, Fields, Sound
<1>3. CASE AtValue(p) /\ ~(Len(p.stack) >= MaxDepth)
  <2> DEFINE stack == Append(p.stack, NewFrame(opener))
             syntax == IF p.syntax = "empty" THEN "incomplete" ELSE p.syntax
             q == [ p EXCEPT !.stack = stack, !.syntax = syntax ]
  <2>1. NewFrame(opener) \in Frame
    BY DEF NewFrame, Frame, Expectations
  <2>2. stack \in Seq(Frame) /\ stack # << >>
    BY <2>1 DEF Parser
  <2>3. /\ syntax \in { "empty", "incomplete", "root_complete", "invalid" }
        /\ syntax = "invalid" <=> p.syntax = "invalid"
    BY DEF Parser
  <2>4. Open(p, opener) = q
    BY <1>3, FieldsOfParser DEF Open, Fields
  <2> HIDE DEF stack, syntax
  <2>5. q \in Parser
    BY <2>2, <2>3 DEF Parser
  <2>6. /\ KeepsBut(p, q, { "stack", "syntax" })
        /\ q.stack = stack /\ q.syntax = syntax
    BY FieldsOfParser DEF KeepsBut, Fields
  <2> HIDE DEF q
  <2> QED
    BY <2>2, <2>3, <2>4, <2>5, <2>6 DEF Handled, KeepsBut, Fields, Sound
<1> QED
  BY <1>1, <1>2, <1>3

LEMMA ExpectHandles ==
  ASSUME NEW p \in Parser, Sound(p), NEW e \in Expectations
  PROVE  Handled(p, Expect(p, e)) /\ Expect(p, e).rootComplete = p.rootComplete
<1>1. /\ Expect(p, e) \in Parser /\ KeepsBut(p, Expect(p, e), { "stack" })
      /\ Len(Expect(p, e).stack) = Len(p.stack)
  BY ExpectUpdates DEF Updates
<1>2. p.stack # << >> => Expect(p, e).stack # << >>
  BY <1>1 DEF Parser
<1> QED
  BY <1>1, <1>2 DEF Handled, KeepsBut, Fields, Sound

LEMMA ColonHandles ==
  ASSUME NEW p \in Parser, Sound(p)
  PROVE  Handled(p, Colon(p))
BY FailHandles, ExpectHandles DEF Colon, Expectations

LEMMA CommaHandles ==
  ASSUME NEW p \in Parser, Sound(p)
  PROVE  Handled(p, Comma(p))
BY FailHandles, ExpectHandles DEF Comma, Expectations

LEMMA RootClosedHandles ==
  ASSUME NEW p \in Parser, Sound(p), ~p.terminal
  PROVE  Handled(p, RootClosed(p))
BY RootClosedUpdates DEF Handled, Updates, KeepsBut, Fields, Sound

LEMMA EmitHandles ==
  ASSUME NEW p \in Parser, Sound(p), NEW n \in Nat
  PROVE  Handled(p, Emit(p, n)) /\ Emit(p, n).stack = p.stack
         /\ Emit(p, n).terminal = p.terminal
         /\ Emit(p, n).rootComplete = p.rootComplete
BY EmitUpdates DEF Handled, Updates, KeepsBut, Fields, Sound

LEMMA HandledTwice ==
  ASSUME NEW p, NEW q, NEW r, Handled(p, q), Handled(q, r)
  PROVE  Handled(p, r)
BY DEF Handled

LEMMA CloseHandles ==
  ASSUME NEW p \in Parser, Sound(p), ~p.terminal, NEW closer \in Closers
  PROVE  Handled(p, Close(p, closer))
<1> DEFINE below == [ p EXCEPT !.stack = Below(p.stack) ]
           popped == Emit(below, 1)
<1>1. CASE Close(p, closer) = Fail(p)
  BY <1>1, FailHandles
<1>2. CASE p.stack # << >> /\ Close(p, closer) # Fail(p)
  <2>1. Below(p.stack) \in Seq(Frame)
    BY <1>2 DEF Below, Parser
  <2>2. below \in Parser
    BY <2>1 DEF Parser
  <2>3. KeepsBut(p, below, { "stack" })
    BY FieldsOfParser DEF KeepsBut, Fields
  <2>4. Close(p, closer) = IF popped.stack = << >> THEN RootClosed(popped)
                           ELSE Expect(popped, "comma_or_end")
    BY <1>2, FieldsOfParser DEF Close, Fields
  <2> HIDE DEF below
  <2>5. Updates(below, popped, { "queued", "overflow" })
    BY <2>2, EmitUpdates
  <2> HIDE DEF popped
  <2>6. KeepsBut(p, popped, { "stack", "queued", "overflow" }) /\ popped \in Parser
    BY <2>3, <2>5 DEF Updates, KeepsBut, Fields
  <2>7. Sound(popped) /\ ~popped.terminal
    BY <2>6 DEF Sound, KeepsBut, Fields
  <2>8. CASE popped.stack = << >>
    <3>1. Handled(popped, RootClosed(popped)) /\ RootClosed(popped).rootComplete
      BY <2>6, <2>7, RootClosedHandles, RootClosedUpdates
    <3> QED
      BY <2>4, <2>6, <2>8, <3>1 DEF Handled, KeepsBut, Fields
  <2>9. CASE popped.stack # << >>
    <3>1. Handled(popped, Expect(popped, "comma_or_end"))
      BY <2>6, <2>7, ExpectHandles DEF Expectations
    <3> QED
      BY <2>4, <2>6, <2>9, <3>1 DEF Handled, KeepsBut, Fields
  <2> QED
    BY <2>8, <2>9
<1> QED
  BY <1>1, <1>2 DEF Close

\* A value that is no container: it is the root, or it leaves the root open.
LEMMA ScalarHandles ==
  ASSUME NEW p \in Parser, Sound(p), ~p.terminal
  PROVE  /\ Handled(p, Scalar(p))
         /\ p.stack = << >> => Scalar(p).rootComplete /\ ~Scalar(p).terminal
         /\ p.stack # << >> => Scalar(p).stack # << >>
                               /\ Scalar(p).rootComplete = p.rootComplete
<1> DEFINE emitted == Emit(p, 1)
<1>1. /\ emitted \in Parser /\ KeepsBut(p, emitted, { "queued", "overflow" })
      /\ Handled(p, emitted) /\ Sound(emitted) /\ ~emitted.terminal
  BY EmitUpdates, EmitHandles DEF Updates, Handled
<1> HIDE DEF emitted
<1>2. CASE p.stack = << >>
  <2>1. Scalar(p) = RootClosed(emitted)
    BY <1>2 DEF Scalar, emitted
  <2>2. /\ Handled(emitted, RootClosed(emitted)) /\ RootClosed(emitted).rootComplete
        /\ RootClosed(emitted).terminal = emitted.terminal
    BY <1>1, RootClosedHandles, RootClosedUpdates DEF Updates, KeepsBut, Fields
  <2> QED
    BY <1>1, <1>2, <2>1, <2>2, HandledTwice
<1>3. CASE p.stack # << >> /\ AtValue(p)
  <2>1. Scalar(p) = Expect(emitted, "comma_or_end")
    BY <1>3 DEF Scalar, emitted
  <2>2. /\ Handled(emitted, Expect(emitted, "comma_or_end"))
        /\ Expect(emitted, "comma_or_end").rootComplete = emitted.rootComplete
    BY <1>1, ExpectHandles DEF Expectations
  <2>3. Len(Expect(emitted, "comma_or_end").stack) = Len(p.stack)
    BY <1>1, ExpectUpdates DEF Expectations, KeepsBut, Fields
  <2>4. Expect(emitted, "comma_or_end").stack # << >>
    BY <1>3, <2>2, <2>3 DEF Handled, Parser
  <2> QED
    BY <1>1, <1>3, <2>1, <2>2, <2>4, HandledTwice DEF KeepsBut, Fields
<1>4. CASE p.stack # << >> /\ ~AtValue(p)
  <2>1. Handled(p, p)
    BY DEF Handled
  <2>2. Handled(p, Fail(p)) /\ Fail(p).stack = p.stack
        /\ Fail(p).rootComplete = p.rootComplete
    BY FailHandles, FailUpdates DEF Updates, KeepsBut, Fields
  <2>3. Scalar(p) \in { p, Fail(p) }
    BY <1>4 DEF Scalar
  <2> QED
    BY <1>4, <2>1, <2>2, <2>3
<1> QED
  BY <1>2, <1>3, <1>4

\* A key of the frame on top, new or used before.
LEMMA KeyHandles ==
  ASSUME NEW p \in Parser, Sound(p), NEW k \in Keys, p.stack # << >>
  PROVE  /\ Handled(p, Key(p, k))
         /\ Key(p, k).stack # << >> /\ Key(p, k).rootComplete = p.rootComplete
<1>1. CASE k \in Top(p).keys
  <2> DEFINE noted == Diagnose(p)
             doubled == [ noted EXCEPT !.duplicate = TRUE, !.skipping = TRUE,
                                       !.skipDepth = 0 ]
  <2>1. /\ noted \in Parser
        /\ KeepsBut(p, noted, { "error", "retained", "queued", "overflow" })
    BY DiagnoseUpdates DEF Updates
  <2> HIDE DEF noted
  <2>2. doubled \in Parser
    BY <2>1 DEF Parser
  <2>3. /\ KeepsBut(noted, doubled, { "duplicate", "skipping", "skipDepth" })
        /\ doubled.duplicate
    BY <2>1, FieldsOfParser DEF KeepsBut, Fields
  <2>4. Key(p, k) = Expect(doubled, "colon")
    BY <1>1 DEF Key, noted
  <2> HIDE DEF doubled
  <2>5. /\ KeepsBut(p, doubled, { "error", "retained", "queued", "overflow",
                                  "duplicate", "skipping", "skipDepth" })
    BY <2>1, <2>3 DEF KeepsBut, Fields
  <2>6. Sound(doubled) /\ doubled.stack = p.stack
    BY <2>3, <2>5 DEF Sound, KeepsBut, Fields
  <2>7. /\ Handled(doubled, Expect(doubled, "colon"))
        /\ Expect(doubled, "colon").rootComplete = doubled.rootComplete
        /\ Len(Expect(doubled, "colon").stack) = Len(doubled.stack)
    BY <2>2, <2>6, ExpectHandles, ExpectUpdates DEF Expectations
  <2>8. Expect(doubled, "colon").stack # << >>
    BY <2>6, <2>7 DEF Handled, Parser
  <2> QED
    BY <2>3, <2>4, <2>5, <2>7, <2>8 DEF Handled, KeepsBut, Fields
<1>2. CASE k \notin Top(p).keys
  <2> DEFINE stack == [ p.stack EXCEPT ![Len(p.stack)].keys = @ \cup { k } ]
             used == [ p EXCEPT !.stack = stack ]
  <2>1. stack \in Seq(Frame) /\ Len(stack) = Len(p.stack)
    <3> DEFINE top == p.stack[Len(p.stack)]
               changed == [ top EXCEPT !.keys = top.keys \cup { k } ]
    <3>1. p.stack \in Seq(Frame) /\ Len(p.stack) \in 1 .. Len(p.stack)
      BY DEF Parser
    <3>2. top \in Frame
      BY <3>1
    <3>3. changed \in Frame
      BY <3>2 DEF Frame
    <3>4. stack = [ p.stack EXCEPT ![Len(p.stack)] = changed ]
      BY <3>2 DEF Frame
    <3> HIDE DEF stack, changed
    <3> QED
      BY <3>1, <3>3, <3>4
  <2>2. Key(p, k) = Expect(used, "colon")
    BY <1>2, FieldsOfParser DEF Key, Fields
  <2> HIDE DEF stack
  <2>3. used \in Parser
    BY <2>1 DEF Parser
  <2>4. KeepsBut(p, used, { "stack" }) /\ used.stack = stack
    BY FieldsOfParser DEF KeepsBut, Fields
  <2> HIDE DEF used
  <2>5. Sound(used)
    BY <2>4 DEF Sound, KeepsBut, Fields
  <2>6. /\ Handled(used, Expect(used, "colon"))
        /\ Expect(used, "colon").rootComplete = used.rootComplete
        /\ Len(Expect(used, "colon").stack) = Len(used.stack)
    BY <2>3, <2>5, ExpectHandles, ExpectUpdates DEF Expectations
  <2>7. Expect(used, "colon").stack # << >>
    BY <2>1, <2>4, <2>6 DEF Handled, Parser
  <2> QED
    BY <2>2, <2>4, <2>6, <2>7 DEF Handled, KeepsBut, Fields
<1> QED
  BY <1>1, <1>2

LEMMA SkipHandles ==
  ASSUME NEW p \in Parser, Sound(p), p.skipping, NEW token
  PROVE  Handled(p, Skip(p, token))
<1>0. p.skipDepth \in Nat
  BY DEF Parser
<1>1. ASSUME NEW depth \in Nat
      PROVE  Handled(p, [ p EXCEPT !.skipDepth = depth ])
  <2>1. [ p EXCEPT !.skipDepth = depth ] \in Parser
    BY DEF Parser
  <2>2. KeepsBut(p, [ p EXCEPT !.skipDepth = depth ], { "skipDepth" })
    BY FieldsOfParser DEF KeepsBut, Fields
  <2> QED
    BY <2>1, <2>2 DEF Handled, Sound, KeepsBut, Fields
<1>2. Handled(p, Resume(p))
  <2> DEFINE resumed == [ p EXCEPT !.skipping = FALSE, !.skipDepth = 0 ]
  <2>1. resumed \in Parser
    BY DEF Parser
  <2>2. KeepsBut(p, resumed, { "skipping", "skipDepth" }) /\ ~resumed.skipping
    BY FieldsOfParser DEF KeepsBut, Fields
  <2> HIDE DEF resumed
  <2>3. Handled(p, resumed) /\ Sound(resumed)
    BY <2>1, <2>2 DEF Handled, Sound, KeepsBut, Fields
  <2>4. Handled(resumed, Expect(resumed, "comma_or_end"))
    BY <2>1, <2>3, ExpectHandles DEF Expectations
  <2> QED
    BY <2>3, <2>4, HandledTwice DEF Resume, resumed
<1>3. Handled(p, p)
  BY DEF Handled
<1>4. CASE token \in Openers
  BY <1>0, <1>1, <1>4, FieldsOfParser DEF Skip, Fields
<1>5. CASE token \notin Openers /\ token \in Closers
  BY <1>0, <1>1, <1>2, <1>5, FieldsOfParser DEF Skip, Fields
<1>6. CASE token \notin Openers /\ token \notin Closers
  BY <1>2, <1>3, <1>6 DEF Skip
<1> QED
  BY <1>4, <1>5, <1>6

\* processToken() keeps the parser sound, and a value that ends is the root or
\* leaves a container open.
LEMMA ProcessHandles ==
  ASSUME NEW p \in Parser, Sound(p), ~p.terminal,
         NEW token \in Punctuation \cup Keys \cup { "scalar" }
  PROVE  /\ Handled(p, Process(p, token))
         /\ token \notin Punctuation /\ ~p.duplicate =>
              /\ p.stack = << >> =>
                   Process(p, token).rootComplete /\ ~Process(p, token).terminal
              /\ p.stack # << >> =>
                   /\ Process(p, token).stack # << >>
                   /\ Process(p, token).rootComplete = p.rootComplete
<1>1. CASE p.skipping
  BY <1>1, SkipHandles DEF Process, Sound
<1>2. CASE ~p.skipping /\ token \in Openers
  BY <1>2, OpenHandles, ParserAssumption DEF Process, Openers, Closers, Punctuation
<1>3. CASE ~p.skipping /\ token \in Closers
  BY <1>3, CloseHandles, ParserAssumption DEF Process, Openers, Closers, Punctuation
<1>4. CASE ~p.skipping /\ token = ":"
  BY <1>4, ColonHandles, ParserAssumption DEF Process, Openers, Closers, Punctuation
<1>5. CASE ~p.skipping /\ token = ","
  BY <1>5, CommaHandles, ParserAssumption DEF Process, Openers, Closers, Punctuation
<1>6. CASE ~p.skipping /\ token = "scalar"
  <2>1. Process(p, token) = Scalar(p)
    BY <1>6, ParserAssumption DEF Process, Openers, Closers, Punctuation
  <2> QED
    BY <2>1, ScalarHandles
<1>7. CASE ~p.skipping /\ token \in Keys
  <2>1. Process(p, token) = IF AtKey(p) THEN Key(p, token) ELSE Scalar(p)
    BY <1>7, ParserAssumption DEF Process, Openers, Closers, Punctuation
  <2>2. CASE AtKey(p)
    BY <1>7, <2>1, <2>2, KeyHandles DEF AtKey
  <2>3. CASE ~AtKey(p)
    BY <2>1, <2>3, ScalarHandles
  <2> QED
    BY <2>2, <2>3
<1> QED
  BY <1>1, <1>2, <1>3, <1>4, <1>5, <1>6, <1>7 DEF Punctuation

\* A scalar and the character after it: the value is over in either case.
LEMMA ProcessBothHandles ==
  ASSUME NEW p \in Parser, Sound(p), ~p.terminal,
         NEW token \in Punctuation \cup { "blank" }
  PROVE  /\ Handled(p, ProcessBoth(p, token))
         /\ ~p.duplicate => \/ ProcessBoth(p, token).stack # << >>
                            \/ ProcessBoth(p, token).rootComplete
<1> DEFINE q == Process(p, "scalar")
<1>1. /\ Handled(p, q) /\ q \in Parser /\ Sound(q)
      /\ ~p.duplicate => q.stack # << >> \/ q.rootComplete
  BY ProcessHandles, ParserAssumption DEF Handled, Punctuation, Openers, Closers
<1>2. CASE q.terminal \/ token = "blank"
  BY <1>1, <1>2 DEF ProcessBoth
<1>3. CASE ~(q.terminal \/ token = "blank")
  <2>1. ProcessBoth(p, token) = Process(q, token)
    BY <1>3 DEF ProcessBoth
  <2> HIDE DEF q
  <2>2. Handled(q, Process(q, token))
    BY <1>1, <1>3, ProcessHandles
  <2> QED
    BY <1>1, <2>1, <2>2, HandledTwice DEF Handled
<1> QED
  BY <1>2, <1>3

------------------------------------------------------------------------------
(* push()                                                                   *)

\* What holds of the parser until finish(): the errors it knows of have stopped
\* it or are a duplicate key, and nothing is pending behind the root value.
Collected(p) ==
  /\ Sound(p)
  /\ p.scanner # "finished" /\ ~p.closed
  /\ p.rootComplete /\ ~p.terminal => p.scanner = "structural"
  /\ p.rootComplete => p.received >= (IF p.partial THEN 2 ELSE 1)

\* A value has begun.
Begun(p) == p.stack # << >> \/ p.scanner # "structural"

\* What push() never takes back.
Grows(p, q) ==
  /\ p.limited => q.limited
  /\ p.terminal => q.terminal
  /\ p.duplicate => q.duplicate
  /\ p.rootComplete => q.rootComplete
  /\ p.rootComplete /\ (p.trailing > 0 \/ p.partial) =>
       q.trailing > 0 \/ q.partial \/ q.terminal
  /\ Begun(p) => Begun(q) \/ q.rootComplete \/ q.terminal \/ q.duplicate

Pushed(p, q) ==
  q \in Parser /\ q.phase = p.phase /\ Collected(q) /\ Grows(p, q)

\* What push() never takes back is what the summaries of ArgumentParser order.
LEMMA SummaryGrows ==
  ASSUME NEW p \in Parser, Sound(p), NEW q \in Parser, Sound(q), Grows(p, q)
  PROVE  Summary(q) \in PushArguments(Summary(p))
<1>0. /\ Summary(p) \in ParserStates /\ Summary(q) \in ParserStates
  BY DEF Summary, ParserStates
<1>1. CASE p.limited
  BY <1>1 DEF Summary, Grows, PushArguments
<1>2. CASE ~p.limited /\ (p.terminal \/ p.duplicate)
  <2>1. Summary(p) = "invalid" /\ Summary(q) \in { "invalid", "limited" }
    BY <1>2 DEF Summary, Grows
  <2> QED
    BY <2>1 DEF PushArguments
<1>3. CASE ~p.limited /\ ~(p.terminal \/ p.duplicate) /\ p.rootComplete
  <2>1. CASE p.trailing > 0 \/ p.partial
    <3>1. Summary(p) = "trailing" /\ Summary(q) \in { "trailing", "invalid", "limited" }
      BY <1>3, <2>1 DEF Summary, Grows
    <3> QED
      BY <3>1 DEF PushArguments
  <2>2. CASE ~(p.trailing > 0 \/ p.partial)
    <3>1. /\ Summary(p) = "closed"
          /\ Summary(q) \in { "closed", "trailing", "invalid", "limited" }
      BY <1>3, <2>2 DEF Summary, Grows
    <3> QED
      BY <3>1 DEF PushArguments
  <2> QED
    BY <2>1, <2>2
<1>4. CASE ~p.limited /\ ~(p.terminal \/ p.duplicate) /\ ~p.rootComplete /\ Begun(p)
  <2>1. Summary(p) \in { "open", "scalar" }
    BY <1>4 DEF Summary, Begun
  <2>2. Summary(q) # "empty"
    BY <1>4 DEF Summary, Begun, Grows
  <2> QED
    BY <1>0, <2>1, <2>2 DEF PushArguments, ParserStates
<1>5. CASE ~p.limited /\ ~(p.terminal \/ p.duplicate) /\ ~p.rootComplete /\ ~Begun(p)
  <2>1. Summary(p) = "empty"
    BY <1>5 DEF Summary, Begun
  <2> QED
    BY <1>0, <2>1 DEF PushArguments
<1> QED
  BY <1>1, <1>2, <1>3, <1>4, <1>5

\* The tail of the loop of push(): one more character, and a stop on overflow.
LEMMA FeedPushes ==
  ASSUME parser \in Parser, Collecting, Collected(parser),
         NEW q \in Parser, NEW tokens, Feed(q, tokens),
         q.phase = "collecting", q.received = parser.received, ~q.partial,
         Sound(q), q.scanner # "finished", ~q.closed,
         q.rootComplete /\ ~q.terminal => q.scanner = "structural",
         parser.duplicate => q.duplicate,
         parser.rootComplete => q.rootComplete /\ q.terminal,
         Begun(parser) => Begun(q) \/ q.rootComplete \/ q.terminal \/ q.duplicate
  PROVE  Pushed(parser, parser')
<1> DEFINE n == q.received + 1
           counted == [ q EXCEPT !.received = n ]
<1>0. /\ ~parser.terminal /\ ~parser.limited /\ parser.phase = "collecting"
      /\ n \in 0 .. MaxInput /\ n >= 1
  BY ParserAssumption DEF Collecting, Collected, Sound, Parser
<1>1. parser' = IF counted.overflow THEN Stop(counted) ELSE counted
  BY FieldsOfParser DEF Feed, Fields
<1> HIDE DEF n
<1>2. counted \in Parser
  BY <1>0 DEF Parser
<1>3. KeepsBut(q, counted, { "received" }) /\ counted.received = n
  BY FieldsOfParser DEF KeepsBut, Fields
<1> HIDE DEF counted
<1>4. CASE ~counted.overflow
  <2>1. Collected(counted)
    BY <1>0, <1>3 DEF Collected, Sound, KeepsBut, Fields
  <2>2. Grows(parser, counted)
    BY <1>0, <1>3 DEF Grows, Begun, KeepsBut, Fields
  <2> QED
    BY <1>0, <1>1, <1>2, <1>3, <1>4, <2>1, <2>2 DEF Pushed, KeepsBut, Fields
<1>5. CASE counted.overflow
  <2> DEFINE stopped == Stop(counted)
  <2>1. /\ stopped \in Parser /\ KeepsBut(counted, stopped, { "terminal", "syntax" })
        /\ stopped.terminal /\ stopped.syntax = "invalid"
    BY <1>2, StopUpdates DEF Updates
  <2> HIDE DEF stopped
  <2>2. /\ KeepsBut(q, stopped, { "terminal", "syntax", "received" })
        /\ stopped.received = n
    BY <1>3, <2>1 DEF KeepsBut, Fields
  <2>3. Collected(stopped)
    BY <1>0, <2>1, <2>2 DEF Collected, Sound, KeepsBut, Fields
  <2>4. Grows(parser, stopped)
    BY <1>0, <2>1, <2>2 DEF Grows, Begun, KeepsBut, Fields
  <2> QED
    BY <1>0, <1>1, <1>5, <2>1, <2>2, <2>3, <2>4 DEF Pushed, KeepsBut, Fields, stopped
<1> QED
  BY <1>4, <1>5

\* The scanner, or the half of a character, alone.
LEMMA ScannerUpdates ==
  ASSUME NEW p \in Parser
  PROVE  /\ \A s \in ScannerStates :
              /\ Updates(p, [ p EXCEPT !.scanner = s ], { "scanner" })
              /\ [ p EXCEPT !.scanner = s ].scanner = s
         /\ Updates(p, [ p EXCEPT !.partial = FALSE ], { "partial" })
         /\ ~[ p EXCEPT !.partial = FALSE ].partial
<1>1. ASSUME NEW s \in ScannerStates
      PROVE  /\ Updates(p, [ p EXCEPT !.scanner = s ], { "scanner" })
             /\ [ p EXCEPT !.scanner = s ].scanner = s
  <2>1. [ p EXCEPT !.scanner = s ] \in Parser
    BY DEF Parser
  <2> QED
    BY <2>1, FieldsOfParser DEF Updates, KeepsBut, Fields
<1>2. [ p EXCEPT !.partial = FALSE ] \in Parser
  BY DEF Parser
<1>3. /\ KeepsBut(p, [ p EXCEPT !.partial = FALSE ], { "partial" })
      /\ ~[ p EXCEPT !.partial = FALSE ].partial
  BY FieldsOfParser DEF KeepsBut, Fields
<1> QED
  BY <1>1, <1>2, <1>3 DEF Updates

\* push(), action by action.
LEMMA PunctuatePushes ==
  ASSUME parser \in Parser, Collected(parser), NEW token \in Punctuation,
         Punctuate(token)
  PROVE  Pushed(parser, parser')
<1> DEFINE q == Process(parser, token)
<1>1. /\ Collecting /\ ~parser.rootComplete /\ ~parser.partial /\ ~parser.terminal
      /\ parser.phase = "collecting" /\ parser.scanner = "structural"
  BY DEF Punctuate, Scanning, BeforeRootClosed, Collecting
<1>2. Handled(parser, q)
  BY <1>1, ProcessHandles DEF Collected
<1>3. Feed(q, << token >>)
  BY DEF Punctuate
<1> HIDE DEF q
<1> QED
  BY <1>1, <1>2, <1>3, FeedPushes DEF Collected, Handled, Begun

LEMMA ScannerPushes ==
  ASSUME parser \in Parser, Collected(parser),
         BeginString \/ BeginScalar \/ ContinueScalar
  PROVE  Pushed(parser, parser')
<1>1. PICK s \in { "string", "number_open", "number_ok", "number_bad", "literal_open",
                   "literal_ok" } :
        Feed([ parser EXCEPT !.scanner = s ], << >>)
  BY DEF BeginString, BeginScalar, ContinueScalar, Numbers
<1>2. /\ Collecting /\ ~parser.rootComplete /\ ~parser.partial /\ ~parser.terminal
      /\ parser.phase = "collecting"
  BY DEF BeginString, BeginScalar, ContinueScalar, Scanning, BeforeRootClosed,
         Collecting
<1> DEFINE q == [ parser EXCEPT !.scanner = s ]
<1>3. q \in Parser /\ KeepsBut(parser, q, { "scanner" }) /\ q.scanner = s
  <2>1. s \in ScannerStates
    BY DEF ScannerStates
  <2>2. Updates(parser, q, { "scanner" }) /\ q.scanner = s
    BY <2>1, ScannerUpdates
  <2> QED
    BY <2>2 DEF Updates
<1> HIDE DEF q
<1>4. /\ q.phase = "collecting" /\ q.received = parser.received /\ ~q.partial
      /\ Sound(q) /\ ~q.closed /\ ~q.rootComplete /\ q.duplicate = parser.duplicate
      /\ q.scanner # "finished" /\ Begun(q)
  BY <1>2, <1>3 DEF Collected, Sound, KeepsBut, Fields, Begun
<1> QED
  BY <1>1, <1>2, <1>3, <1>4, FeedPushes DEF q

LEMMA EndStringPushes ==
  ASSUME parser \in Parser, Collected(parser), NEW k \in Keys, EndString(k)
  PROVE  Pushed(parser, parser')
<1> DEFINE p == [ parser EXCEPT !.scanner = "structural" ]
           q == Process(p, k)
<1>1. /\ Collecting /\ ~parser.rootComplete /\ ~parser.partial /\ ~parser.terminal
      /\ parser.phase = "collecting"
  BY DEF EndString, Scanning, BeforeRootClosed, Collecting
<1>2. p \in Parser /\ KeepsBut(parser, p, { "scanner" }) /\ p.scanner = "structural"
  BY ScannerUpdates DEF ScannerStates, Updates
<1>3. Feed(q, << k >>)
  BY DEF EndString
<1> HIDE DEF p
<1>4. Sound(p) /\ ~p.terminal /\ k \notin Punctuation
  BY <1>1, <1>2, ParserAssumption DEF Collected, Sound, KeepsBut, Fields
<1>5. Handled(p, q) /\ (~p.duplicate => q.stack # << >> \/ q.rootComplete)
  BY <1>2, <1>4, ProcessHandles
<1> HIDE DEF q
<1>6. /\ q \in Parser /\ q.phase = "collecting" /\ q.received = parser.received
      /\ ~q.partial /\ Sound(q) /\ ~q.closed /\ q.scanner = "structural"
      /\ parser.duplicate => q.duplicate
      /\ Begun(q) \/ q.rootComplete \/ q.duplicate
  BY <1>1, <1>2, <1>5 DEF Handled, Collected, KeepsBut, Fields, Begun
<1> QED
  BY <1>1, <1>3, <1>6, FeedPushes

LEMMA EndScalarPushes ==
  ASSUME parser \in Parser, Collected(parser),
         NEW token \in Closers \cup { ",", ":", "blank" }, EndScalar(token)
  PROVE  Pushed(parser, parser')
<1> DEFINE p == [ parser EXCEPT !.scanner = "structural" ]
           q == ProcessBoth(p, token)
<1>1. /\ Collecting /\ ~parser.rootComplete /\ ~parser.partial /\ ~parser.terminal
      /\ parser.phase = "collecting"
  BY DEF EndScalar, Scanning, BeforeRootClosed, Collecting
<1>2. p \in Parser /\ KeepsBut(parser, p, { "scanner" }) /\ p.scanner = "structural"
  BY ScannerUpdates DEF ScannerStates, Updates
<1>3. PICK tokens : Feed(q, tokens)
  BY DEF EndScalar
<1> HIDE DEF p
<1>4. Sound(p) /\ ~p.terminal
  BY <1>1, <1>2 DEF Collected, Sound, KeepsBut, Fields
<1>5. Handled(p, q) /\ (~p.duplicate => q.stack # << >> \/ q.rootComplete)
  BY <1>2, <1>4, ProcessBothHandles DEF Punctuation
<1> HIDE DEF q
<1>6. /\ q \in Parser /\ q.phase = "collecting" /\ q.received = parser.received
      /\ ~q.partial /\ Sound(q) /\ ~q.closed /\ q.scanner = "structural"
      /\ parser.duplicate => q.duplicate
      /\ Begun(q) \/ q.rootComplete \/ q.duplicate
  BY <1>1, <1>2, <1>5 DEF Handled, Collected, KeepsBut, Fields, Begun
<1> QED
  BY <1>1, <1>3, <1>6, FeedPushes

\* Malformed input, and a string over its limit, stop the parser.
LEMMA StopPushes ==
  ASSUME parser \in Parser, Collected(parser),
         StringOverLimit \/ Malformed \/ InvalidUtf8
  PROVE  Pushed(parser, parser')
<1> DEFINE p == [ parser EXCEPT !.partial = FALSE ]
<1>1. Collecting /\ ~parser.terminal /\ parser.phase = "collecting"
  BY DEF StringOverLimit, Malformed, InvalidUtf8, BeforeRootClosed, Collecting
<1>2. p \in Parser /\ KeepsBut(parser, p, { "partial" }) /\ ~p.partial
  BY ScannerUpdates DEF Updates
<1>3. PICK q \in { FatalLimit(p), Fail(p) } : Feed(q, << "bad" >>)
  BY DEF StringOverLimit, Malformed, InvalidUtf8
<1> HIDE DEF p
<1>4. /\ q \in Parser /\ q.terminal /\ q.syntax = "invalid"
      /\ KeepsBut(p, q, { "error", "retained", "queued", "overflow", "limited",
                          "terminal", "syntax", "fatal" })
  BY <1>2, FatalLimitUpdates, FailUpdates DEF Updates, KeepsBut
<1>5. /\ q.phase = "collecting" /\ q.received = parser.received /\ ~q.partial
      /\ Sound(q) /\ ~q.closed /\ q.scanner # "finished"
      /\ parser.duplicate => q.duplicate
      /\ parser.rootComplete => q.rootComplete
  BY <1>1, <1>2, <1>4 DEF Collected, Sound, KeepsBut, Fields
<1> QED
  BY <1>1, <1>3, <1>4, <1>5, FeedPushes

LEMMA RawControlPushes ==
  ASSUME parser \in Parser, Collected(parser), RawControl
  PROVE  Pushed(parser, parser')
<1> DEFINE q == Emit(parser, 1)
<1>1. /\ Collecting /\ ~parser.rootComplete /\ ~parser.partial /\ ~parser.terminal
      /\ parser.phase = "collecting" /\ Feed(q, << >>)
  BY DEF RawControl, Scanning, BeforeRootClosed, Collecting
<1>2. q \in Parser /\ KeepsBut(parser, q, { "queued", "overflow" })
  BY EmitUpdates DEF Updates
<1> HIDE DEF q
<1>3. /\ q.phase = "collecting" /\ q.received = parser.received /\ ~q.partial
      /\ Sound(q) /\ ~q.closed /\ ~q.rootComplete /\ q.duplicate = parser.duplicate
      /\ q.scanner # "finished" /\ (Begun(parser) => Begun(q))
  BY <1>1, <1>2 DEF Collected, Sound, KeepsBut, Fields, Begun
<1> QED
  BY <1>1, <1>2, <1>3, FeedPushes

LEMMA CompleteCharacterPushes ==
  ASSUME parser \in Parser, Collected(parser), CompleteCharacter
  PROVE  Pushed(parser, parser')
<1> DEFINE q == [ parser EXCEPT !.partial = FALSE ]
<1>1. /\ Collecting /\ ~parser.rootComplete /\ ~parser.terminal
      /\ parser.phase = "collecting" /\ Feed(q, << >>)
  BY DEF CompleteCharacter, BeforeRootClosed, Collecting
<1>2. q \in Parser /\ KeepsBut(parser, q, { "partial" }) /\ ~q.partial
  BY ScannerUpdates DEF Updates
<1> HIDE DEF q
<1>3. /\ q.phase = "collecting" /\ q.received = parser.received /\ ~q.partial
      /\ Sound(q) /\ ~q.closed /\ ~q.rootComplete /\ q.duplicate = parser.duplicate
      /\ q.scanner # "finished" /\ (Begun(parser) => Begun(q))
  BY <1>1, <1>2 DEF Collected, Sound, KeepsBut, Fields, Begun
<1> QED
  BY <1>1, <1>2, <1>3, FeedPushes

LEMMA PartialCharacterPushes ==
  ASSUME parser \in Parser, Collected(parser), PartialCharacter
  PROVE  Pushed(parser, parser')
<1> DEFINE n == parser.received + 1
           q == [ parser EXCEPT !.partial = TRUE, !.received = n ]
<1>1. /\ ~parser.partial /\ parser' = q /\ n \in 0 .. MaxInput
      /\ parser.received \in Nat
  BY ParserAssumption, FieldsOfParser DEF PartialCharacter, Collecting, Parser, Fields
<1> HIDE DEF n
<1>2. q \in Parser
  BY <1>1 DEF Parser
<1>3. KeepsBut(parser, q, { "partial", "received" }) /\ q.partial /\ q.received = n
  BY FieldsOfParser DEF KeepsBut, Fields
<1> HIDE DEF q
<1>4. Collected(q)
  BY <1>1, <1>3 DEF Collected, Sound, KeepsBut, Fields, n
<1>5. Grows(parser, q)
  BY <1>1, <1>3 DEF Grows, Begun, KeepsBut, Fields
<1> QED
  BY <1>1, <1>2, <1>3, <1>4, <1>5 DEF Pushed, KeepsBut, Fields

LEMMA StripBomPushes ==
  ASSUME parser \in Parser, Collected(parser), StripBom
  PROVE  Pushed(parser, parser')
<1> DEFINE fed == [ parser EXCEPT !.received = 1, !.partial = FALSE ]
           q == Emit(fed, 1)
<1>1. /\ parser.received = (IF parser.partial THEN 1 ELSE 0) /\ parser' = q
      /\ 1 \in 0 .. MaxInput
  BY ParserAssumption DEF StripBom, Collecting, Parser
<1>2. fed \in Parser
  BY <1>1 DEF Parser
<1>3. KeepsBut(parser, fed, { "received", "partial" })
  BY FieldsOfParser DEF KeepsBut, Fields
<1> HIDE DEF fed
<1>4. q \in Parser /\ KeepsBut(fed, q, { "queued", "overflow" })
  BY <1>2, EmitUpdates DEF Updates
<1> HIDE DEF q
<1>5. KeepsBut(parser, q, { "received", "partial", "queued", "overflow" })
  BY <1>3, <1>4 DEF KeepsBut, Fields
<1>6. ~parser.rootComplete
  BY <1>1 DEF Collected
<1>7. Collected(q)
  BY <1>5, <1>6 DEF Collected, Sound, KeepsBut, Fields
<1>8. Grows(parser, q)
  BY <1>5, <1>6 DEF Grows, Begun, KeepsBut, Fields
<1> QED
  BY <1>1, <1>4, <1>5, <1>7, <1>8 DEF Pushed, KeepsBut, Fields

LEMMA TrailingCharacterPushes ==
  ASSUME parser \in Parser, Collected(parser), TrailingCharacter
  PROVE  Pushed(parser, parser')
<1> DEFINE n == parser.received + 1
           m == parser.trailing + 1
           p == [ parser EXCEPT !.received = n, !.partial = FALSE, !.trailing = m ]
           retained == IF p.retained < MaxQueuedEvents THEN p.retained + 1
                                                       ELSE p.retained
           repaired == [ p EXCEPT !.retained = retained ]
           noted == IF p.trailing > 1 THEN p ELSE Emit(repaired, 2)
<1>1. /\ parser.phase = "collecting" /\ ~parser.terminal /\ parser.rootComplete
      /\ n \in 0 .. MaxInput /\ n >= 1 /\ m \in Nat /\ m > 0
  BY ParserAssumption DEF TrailingCharacter, Collecting, Parser
<1>2. parser' \in { Fail(p), Stop(LimitDiagnostic(noted)), noted }
  BY FieldsOfParser DEF TrailingCharacter, Fields
<1> HIDE DEF n, m
<1>3. p \in Parser
  BY <1>1 DEF Parser
<1>4. /\ KeepsBut(parser, p, { "received", "partial", "trailing" })
      /\ p.received = n /\ ~p.partial /\ p.trailing = m
  BY FieldsOfParser DEF KeepsBut, Fields
<1> HIDE DEF p
<1>5. retained \in 0 .. MaxQueuedEvents
  BY <1>3, ParserAssumption DEF Parser
<1> HIDE DEF retained
<1>6. repaired \in Parser /\ KeepsBut(p, repaired, { "retained" })
  <2>1. repaired \in Parser
    BY <1>3, <1>5 DEF Parser
  <2> QED
    BY <1>3, <2>1, FieldsOfParser DEF KeepsBut, Fields
<1> HIDE DEF repaired
<1>7. noted \in Parser /\ KeepsBut(p, noted, { "retained", "queued", "overflow" })
  <2>1. /\ Emit(repaired, 2) \in Parser
        /\ KeepsBut(repaired, Emit(repaired, 2), { "queued", "overflow" })
    BY <1>6, EmitUpdates DEF Updates
  <2> QED
    BY <1>3, <1>6, <2>1 DEF KeepsBut, Fields
<1> HIDE DEF noted
<1>8. ASSUME NEW q \in Parser,
             KeepsBut(p, q, { "retained", "queued", "overflow", "error", "limited",
                              "terminal", "syntax" }),
             Sound(q)
      PROVE  Pushed(parser, q)
  <2>1. Collected(q)
    BY <1>1, <1>4, <1>8 DEF Collected, Sound, KeepsBut, Fields
  <2>2. Grows(parser, q)
    BY <1>1, <1>4, <1>8 DEF Grows, Collected, Sound, KeepsBut, Fields
  <2> QED
    BY <1>4, <1>8, <2>1, <2>2 DEF Pushed, KeepsBut, Fields
<1>9. Sound(p) /\ Sound(noted)
  BY <1>4, <1>7 DEF Collected, Sound, KeepsBut, Fields
<1>10. Pushed(parser, noted)
  BY <1>7, <1>8, <1>9 DEF KeepsBut
<1>11. Pushed(parser, Fail(p))
  <2>1. /\ Fail(p) \in Parser /\ Fail(p).terminal /\ Fail(p).syntax = "invalid"
        /\ KeepsBut(p, Fail(p), { "retained", "queued", "overflow", "error", "limited",
                                  "terminal", "syntax" })
    BY <1>3, FailUpdates DEF Updates, KeepsBut
  <2>2. Sound(Fail(p))
    BY <1>9, <2>1 DEF Sound, KeepsBut, Fields
  <2> QED
    BY <1>8, <2>1, <2>2
<1>12. Pushed(parser, Stop(LimitDiagnostic(noted)))
  <2> DEFINE limited == LimitDiagnostic(noted)
             q == Stop(limited)
  <2>1. /\ limited \in Parser
        /\ KeepsBut(noted, limited, { "error", "retained", "queued", "overflow",
                                      "limited" })
    BY <1>7, LimitUpdates DEF Updates
  <2> HIDE DEF limited
  <2>2. /\ q \in Parser /\ KeepsBut(limited, q, { "terminal", "syntax" })
        /\ q.terminal /\ q.syntax = "invalid"
    BY <2>1, StopUpdates DEF Updates
  <2> HIDE DEF q
  <2>3. KeepsBut(p, q, { "retained", "queued", "overflow", "error", "limited",
                         "terminal", "syntax" })
    BY <1>7, <2>1, <2>2 DEF KeepsBut, Fields
  <2>4. Sound(q)
    BY <1>9, <2>2, <2>3 DEF Sound, KeepsBut, Fields
  <2> QED
    BY <1>8, <2>2, <2>3, <2>4 DEF q, limited
<1> QED
  BY <1>2, <1>10, <1>11, <1>12

LEMMA PushOverLimitPushes ==
  ASSUME parser \in Parser, Collected(parser), PushOverLimit
  PROVE  Pushed(parser, parser')
<1> DEFINE q == FatalLimit(parser)
<1>1. /\ parser.phase = "collecting" /\ ~parser.terminal /\ parser' = q
  BY DEF PushOverLimit
<1>2. /\ q \in Parser /\ q.terminal /\ q.syntax = "invalid"
      /\ KeepsBut(parser, q, { "error", "retained", "queued", "overflow", "limited",
                               "terminal", "syntax", "fatal" })
  BY FatalLimitUpdates DEF Updates
<1> HIDE DEF q
<1>3. Collected(q)
  BY <1>2 DEF Collected, Sound, KeepsBut, Fields
<1>4. Grows(parser, q)
  BY <1>1, <1>2 DEF Grows, Collected, Sound, KeepsBut, Fields
<1> QED
  BY <1>1, <1>2, <1>3, <1>4 DEF Pushed, KeepsBut, Fields

\* Draining changes nothing but the queue, before finish() and after it.
LEMMA DrainUpdates ==
  ASSUME parser \in Parser, DrainEvents
  PROVE  Updates(parser, parser', { "queued" })
<1>1. parser' = [ parser EXCEPT !.queued = 0 ]
  BY DEF DrainEvents
<1>2. 0 \in 0 .. MaxQueuedEvents + 1
  BY ParserAssumption
<1>3. [ parser EXCEPT !.queued = 0 ] \in Parser
  BY <1>2 DEF Parser
<1> QED
  BY <1>1, <1>3, FieldsOfParser DEF Updates, KeepsBut, Fields

LEMMA DrainPushes ==
  ASSUME parser \in Parser, Collected(parser), DrainEvents
  PROVE  Pushed(parser, parser')
<1>1. parser' \in Parser /\ KeepsBut(parser, parser', { "queued" })
  BY DrainUpdates DEF Updates
<1>2. Collected(parser')
  BY <1>1 DEF Collected, Sound, KeepsBut, Fields
<1>3. Grows(parser, parser')
  BY <1>1 DEF Grows, Begun, KeepsBut, Fields
<1> QED
  BY <1>1, <1>2, <1>3 DEF Pushed, KeepsBut, Fields

\* Every step before finish() is one of push(), in the order of the summaries.
LEMMA PushSteps ==
  ASSUME parser \in Parser, Collected(parser),
         PushCharacter \/ PushOverLimit \/ DrainEvents
  PROVE  Pushed(parser, parser')
BY PunctuatePushes, ScannerPushes, EndStringPushes, EndScalarPushes, StopPushes,
   RawControlPushes, CompleteCharacterPushes, PartialCharacterPushes, StripBomPushes,
   TrailingCharacterPushes, PushOverLimitPushes, DrainPushes
   DEF PushCharacter

------------------------------------------------------------------------------
(* finish()                                                                 *)

\* A pending token ends with the input: under a complete end a scalar is
\* processed or refused, everything else is at most reported.
LEMMA FinalizePendingCases ==
  ASSUME NEW p, NEW reason
  PROVE  \/ /\ p.scanner \in { "number_ok", "literal_ok" } /\ reason = "complete"
            /\ FinalizePending(p, reason)
                 = Process([ p EXCEPT !.scanner = "finished" ], "scalar")
         \/ /\ p.scanner = "number_bad" /\ reason = "complete"
            /\ FinalizePending(p, reason) = Fail(p)
         \/ /\ p.scanner \in { "literal_open", "string" } \/ reason # "complete"
            /\ p.scanner \in Numbers \cup Literals \cup { "string" }
            /\ FinalizePending(p, reason) = Diagnose(p)
         \/ /\ \/ p.scanner = "number_open" /\ reason = "complete"
               \/ p.scanner \notin Numbers \cup Literals \cup { "string" }
            /\ FinalizePending(p, reason) = p
<1>1. CASE p.scanner \in { "number_ok", "literal_ok" } /\ reason = "complete"
  BY <1>1 DEF FinalizePending, Numbers, Literals
<1>2. CASE p.scanner = "number_bad" /\ reason = "complete"
  BY <1>2 DEF FinalizePending, Numbers, Literals
<1>3. CASE p.scanner = "number_open" /\ reason = "complete"
  BY <1>3 DEF FinalizePending, Numbers, Literals
<1>4. CASE p.scanner \in Numbers \cup Literals /\ reason # "complete"
  BY <1>4 DEF FinalizePending, Numbers, Literals
<1>5. CASE p.scanner \in { "literal_open", "string" } /\ reason = "complete"
  BY <1>5 DEF FinalizePending, Numbers, Literals
<1>6. CASE p.scanner = "string" /\ reason # "complete"
  BY <1>6 DEF FinalizePending, Numbers, Literals
<1>7. CASE p.scanner \notin Numbers \cup Literals \cup { "string" }
  BY <1>7 DEF FinalizePending, Numbers, Literals
<1> QED
  BY <1>1, <1>2, <1>3, <1>4, <1>5, <1>6, <1>7 DEF Numbers, Literals

\* A parser that has stopped, or has seen a duplicate key, ends invalid.
Refused(p) == p.syntax = "invalid" \/ p.duplicate

\* The pending token takes back no refusal.
LEMMA FinalizePendingTyped ==
  ASSUME NEW p \in Parser, Sound(p), ~p.terminal, NEW reason
  PROVE  /\ FinalizePending(p, reason) \in Parser
         /\ FinalizePending(p, reason).phase = p.phase
         /\ Refused(p) => Refused(FinalizePending(p, reason))
<1> DEFINE scanned == [ p EXCEPT !.scanner = "finished" ]
<1>1. Fail(p) \in Parser /\ Refused(Fail(p)) /\ Fail(p).phase = p.phase
  BY FailUpdates DEF Updates, Refused, KeepsBut, Fields
<1>2. scanned \in Parser /\ KeepsBut(p, scanned, { "scanner" })
  <2>1. "finished" \in ScannerStates
    BY DEF ScannerStates
  <2> QED
    BY <2>1, ScannerUpdates DEF Updates
<1>3. FinalizePending(p, reason) \in { Process(scanned, "scalar"), Fail(p), Diagnose(p), p }
  BY FinalizePendingCases
<1> HIDE DEF scanned
<1>4. Sound(scanned) /\ ~scanned.terminal /\ (Refused(p) => scanned.duplicate)
  BY <1>2 DEF Sound, KeepsBut, Fields, Refused
<1>5. Handled(scanned, Process(scanned, "scalar"))
  BY <1>2, <1>4, ProcessHandles
<1>6. /\ Process(scanned, "scalar") \in Parser
      /\ Process(scanned, "scalar").phase = p.phase
      /\ Refused(p) => Refused(Process(scanned, "scalar"))
  BY <1>2, <1>4, <1>5 DEF Handled, Refused, KeepsBut, Fields
<1>7. /\ Diagnose(p) \in Parser /\ Diagnose(p).phase = p.phase
      /\ Refused(p) => Refused(Diagnose(p))
  BY DiagnoseUpdates DEF Updates, Refused, KeepsBut, Fields
<1> QED
  BY <1>1, <1>3, <1>6, <1>7

\* Nor does a character that the end of input cut in two.
LEMMA FinalizeTyped ==
  ASSUME NEW p \in Parser, Sound(p), NEW reason
  PROVE  /\ FinalizeTokens(p, reason) \in Parser
         /\ FinalizeTokens(p, reason).phase = p.phase
         /\ Refused(p) => Refused(FinalizeTokens(p, reason))
<1>1. CASE p.terminal
  BY <1>1 DEF FinalizeTokens
<1>2. CASE ~p.terminal
  <2> DEFINE q == FinalizePending(p, reason)
  <2>1. q \in Parser /\ q.phase = p.phase /\ (Refused(p) => Refused(q))
    BY <1>2, FinalizePendingTyped
  <2> HIDE DEF q
  <2>2. /\ Diagnose(q) \in Parser
        /\ KeepsBut(q, Diagnose(q), { "error", "retained", "queued", "overflow" })
    BY <2>1, DiagnoseUpdates DEF Updates
  <2>3. (Refused(q) => Refused(Diagnose(q))) /\ Diagnose(q).phase = q.phase
    BY <2>2 DEF Refused, KeepsBut, Fields
  <2> QED
    BY <1>2, <2>1, <2>2, <2>3 DEF FinalizeTokens, q
<1> QED
  BY <1>1, <1>2

\* A root that is still open is closed, reported, or left alone.
LEMMA CloseRootTyped ==
  ASSUME NEW p \in Parser, NEW reason
  PROVE  /\ CloseRoot(p, reason) \in Parser
         /\ KeepsBut(p, CloseRoot(p, reason),
                     { "closed", "rootComplete", "error", "retained", "queued",
                       "overflow" })
<1> DEFINE closed == [ p EXCEPT !.closed = TRUE, !.rootComplete = TRUE ]
           n == Len(p.stack) + 1
<1>1. closed \in Parser /\ n \in Nat
  <2>1. closed \in Parser
    BY DEF Parser
  <2>2. p.stack \in Seq(Frame)
    BY DEF Parser
  <2> QED
    BY <2>1, <2>2
<1>2. KeepsBut(p, closed, { "closed", "rootComplete" })
  BY FieldsOfParser DEF KeepsBut, Fields
<1> HIDE DEF closed, n
<1>3. /\ Emit(closed, n) \in Parser
      /\ KeepsBut(closed, Emit(closed, n), { "queued", "overflow" })
  BY <1>1, EmitUpdates DEF Updates
<1>4. /\ Diagnose(p) \in Parser
      /\ KeepsBut(p, Diagnose(p), { "error", "retained", "queued", "overflow" })
  BY DiagnoseUpdates DEF Updates
<1>5. CloseRoot(p, reason) \in { p, Emit(closed, n), Diagnose(p) }
  BY DEF CloseRoot, closed, n
<1> QED
  BY <1>2, <1>3, <1>4, <1>5 DEF KeepsBut, Fields

\* What finish() returns for the parser that the pending token left.
Answer(q, reason) ==
  Result(Outcome(CloseRoot(q, reason)), IsExecutable(CloseRoot(q, reason), reason))

\* A refused parser answers that its arguments are invalid.
LEMMA RefusedAnswer ==
  ASSUME NEW q \in Parser, NEW reason, Refused(q)
  PROVE  Answer(q, reason) = Result("invalid", FALSE)
<1>1. Refused(CloseRoot(q, reason))
  BY CloseRootTyped DEF Refused, KeepsBut, Fields
<1> QED
  BY <1>1 DEF Answer, Refused, Outcome, IsExecutable

\* A root that is complete is left alone; one that is not may be closed by a
\* repair, unless the end was complete.
LEMMA OpenAnswer ==
  ASSUME NEW q \in Parser, NEW reason, ~q.rootComplete, ~q.closed
  PROVE  /\ ~Refused(q) /\ ~q.fatal =>
              \/ Answer(q, reason) = Result("truncated", FALSE)
              \/ /\ Answer(q, reason) = Result("salvaged", FALSE)
                 /\ reason # "complete" /\ Salvageable(q)
         /\ reason = "complete" =>
              Answer(q, reason) \in { Result("truncated", FALSE),
                                      Result("invalid", FALSE) }
<1> DEFINE f == CloseRoot(q, reason)
           closed == [ q EXCEPT !.closed = TRUE, !.rootComplete = TRUE ]
           n == Len(q.stack) + 1
<1>1. \/ f = q \/ f = Diagnose(q)
      \/ f = Emit(closed, n) /\ reason # "complete" /\ Salvageable(q)
  BY DEF CloseRoot
<1>2. /\ KeepsBut(q, Diagnose(q), { "error", "retained", "queued", "overflow" })
  BY DiagnoseUpdates DEF Updates
<1>3. CASE f = q \/ f = Diagnose(q)
  <2>1. /\ ~f.rootComplete /\ ~f.closed
        /\ ~Refused(q) /\ ~q.fatal => ~Refused(f) /\ ~f.fatal
    BY <1>2, <1>3 DEF KeepsBut, Fields, Refused
  <2> HIDE DEF f
  <2>2. ~IsExecutable(f, reason)
    BY <2>1 DEF IsExecutable
  <2>3. /\ Outcome(f) \in { "truncated", "invalid" }
        /\ ~Refused(q) /\ ~q.fatal => Outcome(f) = "truncated"
    BY <2>1 DEF Outcome, Refused
  <2>4. IsExecutable(f, reason) = FALSE
    BY <2>2 DEF IsExecutable
  <2> QED
    BY <2>3, <2>4 DEF Answer, f
<1>4. CASE f = Emit(closed, n) /\ reason # "complete" /\ Salvageable(q)
  <2>1. closed \in Parser /\ n \in Nat
    <3>1. closed \in Parser
      BY DEF Parser
    <3>2. q.stack \in Seq(Frame)
      BY DEF Parser
    <3> QED
      BY <3>1, <3>2
  <2>2. KeepsBut(q, closed, { "closed", "rootComplete" }) /\ closed.closed
    BY FieldsOfParser DEF KeepsBut, Fields
  <2> HIDE DEF closed, n
  <2>3. KeepsBut(closed, f, { "queued", "overflow" })
    BY <1>4, <2>1, EmitUpdates DEF Updates
  <2> HIDE DEF f
  <2>4. f.closed /\ (~Refused(q) /\ ~q.fatal => ~Refused(f) /\ ~f.fatal)
    BY <2>2, <2>3 DEF KeepsBut, Fields, Refused
  <2>5. IsExecutable(f, reason) = FALSE
    BY <1>4 DEF IsExecutable
  <2>6. ~Refused(q) /\ ~q.fatal => Outcome(f) = "salvaged"
    BY <2>4 DEF Outcome, Refused
  <2> QED
    BY <1>4, <2>5, <2>6 DEF Answer, f
<1> QED
  BY <1>1, <1>3, <1>4

\* A complete root that nothing was wrong with is valid.
LEMMA RootAnswer ==
  ASSUME NEW q \in Parser, NEW reason, q.rootComplete, ~Refused(q), ~q.fatal, ~q.closed
  PROVE  Answer(q, reason) = Result("valid", IsExecutable(q, reason))
BY DEF Answer, CloseRoot, Outcome, Refused

\* finish() answers what ArgumentParser says for the parser's summary.
LEMMA FinishAnswers ==
  ASSUME NEW p \in Parser, NEW reason, Sound(p), ~p.closed, p.scanner # "finished",
         p.rootComplete /\ ~p.terminal => p.scanner = "structural"
  PROVE  Answer(FinalizeTokens(p, reason), reason) \in FinishParser(Summary(p), reason)
<1> DEFINE q == FinalizeTokens(p, reason)
           pending == FinalizePending(p, reason)
<1>0. q \in Parser
  BY FinalizeTyped
<1>1. CASE Refused(p)
  <2>1. Summary(p) \in { "invalid", "limited" }
    BY <1>1 DEF Summary, Refused, Sound
  <2>2. Answer(q, reason) = Result("invalid", FALSE)
    BY <1>0, <1>1, FinalizeTyped, RefusedAnswer
  <2> QED
    BY <2>1, <2>2 DEF FinishParser
<1>2. CASE ~Refused(p)
  <2>0. /\ ~p.terminal /\ ~p.duplicate /\ ~p.fatal /\ ~p.limited /\ ~p.error
        /\ ~p.skipping
        /\ q = IF p.partial THEN Diagnose(pending) ELSE pending
    BY <1>2 DEF Refused, Sound, FinalizeTokens
  <2>1. ASSUME NEW s \in Parser
        PROVE  /\ KeepsBut(s, Diagnose(s), { "error", "retained", "queued", "overflow" })
               /\ Diagnose(s).error /\ Diagnose(s) \in Parser
    BY DiagnoseUpdates DEF Updates
  <2>2. CASE p.rootComplete
    <3>1. pending = p
      BY <2>0, <2>2, FinalizePendingCases DEF Numbers, Literals
    <3>2. /\ q.rootComplete /\ ~Refused(q) /\ ~q.fatal /\ ~q.closed
          /\ q.trailing = p.trailing /\ q.scanner = "structural" /\ ~q.terminal
          /\ q.error = p.partial
      BY <1>2, <2>0, <2>1, <2>2, <3>1 DEF KeepsBut, Fields, Refused, Parser
    <3>3. Answer(q, reason) = Result("valid", IsExecutable(q, reason))
      BY <1>0, <3>2, RootAnswer
    <3>4. CASE p.trailing > 0 \/ p.partial
      <4>1. Summary(p) = "trailing"
        BY <2>0, <2>2, <3>4 DEF Summary
      <4>2. IsExecutable(q, reason) = FALSE
        BY <3>2, <3>4 DEF IsExecutable, Parser
      <4> QED
        BY <3>3, <4>1, <4>2 DEF FinishParser
    <3>5. CASE ~(p.trailing > 0 \/ p.partial)
      <4>1. Summary(p) = "closed"
        BY <2>0, <2>2, <3>5 DEF Summary
      <4>2. q.trailing = 0
        BY <3>2, <3>5 DEF Parser
      <4>3. IsExecutable(q, reason) = (reason = "complete")
        BY <3>2, <3>5, <4>2 DEF IsExecutable, Refused
      <4> QED
        BY <3>3, <4>1, <4>3 DEF FinishParser
    <3> QED
      BY <3>4, <3>5
  <2> DEFINE LeftOpen == \/ p.stack # << >>
                         \/ p.scanner \in { "string", "number_open", "literal_open" }
             Empty == p.stack = << >> /\ p.scanner = "structural"
  <2>3. CASE ~p.rootComplete /\ reason # "complete"
    <3>1. pending \in { p, Diagnose(p) }
      BY <2>3, FinalizePendingCases
    <3>2. pending \in Parser /\ KeepsBut(p, pending, { "error", "retained", "queued",
                                                       "overflow" })
      BY <2>1, <3>1 DEF KeepsBut
    <3> HIDE DEF pending
    <3>3. KeepsBut(p, q, { "error", "retained", "queued", "overflow" })
      BY <2>0, <2>1, <3>2 DEF KeepsBut, Fields
    <3> HIDE DEF q
    <3>4. /\ ~q.rootComplete /\ ~q.closed /\ ~Refused(q) /\ ~q.fatal
          /\ q.scanner = p.scanner
      BY <1>2, <2>0, <2>3, <3>3 DEF KeepsBut, Fields, Refused
    <3>5. \/ Answer(q, reason) = Result("truncated", FALSE)
          \/ Answer(q, reason) = Result("salvaged", FALSE) /\ Salvageable(q)
      BY <1>0, <3>4, OpenAnswer
    <3>6. Salvageable(q) => CloseContainersAtFinish /\ p.scanner = "structural"
      BY <3>4 DEF Salvageable
    <3> HIDE DEF Answer
    <3>7. CASE LeftOpen \/ Empty
      <4>1. Summary(p) \in { "open", "empty" }
        BY <2>0, <2>3, <3>7 DEF Summary
      <4>2. /\ Result("truncated", FALSE) \in FinishParser(Summary(p), reason)
            /\ CloseContainersAtFinish =>
                 Result("salvaged", FALSE) \in FinishParser(Summary(p), reason)
        BY <2>3, <4>1 DEF FinishParser
      <4> QED
        BY <3>5, <3>6, <4>2 DEF q
    <3>8. CASE ~LeftOpen /\ ~Empty
      <4>1. Summary(p) = "scalar"
        BY <2>0, <2>3, <3>8 DEF Summary
      <4>2. p.scanner # "structural"
        BY <3>8
      <4>3. Answer(q, reason) = Result("truncated", FALSE)
        BY <3>5, <3>6, <4>2
      <4>4. FinishParser("scalar", reason) = { Result("truncated", FALSE) }
        BY <2>3 DEF FinishParser
      <4> QED
        BY <4>1, <4>3, <4>4 DEF q
    <3> QED
      BY <3>7, <3>8
  <2>4. CASE ~p.rootComplete /\ reason = "complete" /\ Empty
    <3>1. pending = p
      BY <2>4, FinalizePendingCases DEF Numbers, Literals
    <3>2. ~q.rootComplete /\ ~q.closed /\ ~Refused(q) /\ ~q.fatal
      BY <1>2, <2>0, <2>1, <2>4, <3>1 DEF KeepsBut, Fields, Refused
    <3>3. Answer(q, reason) = Result("truncated", FALSE)
      BY <1>0, <2>4, <3>2, OpenAnswer
    <3>4. Summary(p) = "empty"
      BY <2>0, <2>4 DEF Summary
    <3> QED
      BY <3>3, <3>4 DEF FinishParser
  <2>5. /\ q.scanner = pending.scanner /\ q.stack = pending.stack
        /\ q.rootComplete = pending.rootComplete /\ q.closed = pending.closed
        /\ q.fatal = pending.fatal /\ (Refused(pending) <=> Refused(q))
        /\ pending \in Parser
    <3>1. pending \in Parser
      BY <1>2, FinalizePendingTyped DEF Refused, Sound
    <3> HIDE DEF pending
    <3> QED
      BY <2>0, <2>1, <3>1 DEF KeepsBut, Fields, Refused
  <2> DEFINE scanned == [ p EXCEPT !.scanner = "finished" ]
  <2>6. /\ scanned \in Parser /\ KeepsBut(p, scanned, { "scanner" })
        /\ Sound(scanned) /\ ~scanned.terminal
    <3>1. "finished" \in ScannerStates
      BY DEF ScannerStates
    <3>2. scanned \in Parser /\ KeepsBut(p, scanned, { "scanner" })
      BY <3>1, ScannerUpdates DEF Updates
    <3> HIDE DEF scanned
    <3> QED
      BY <2>0, <3>2 DEF Sound, KeepsBut, Fields
  <2>7. ASSUME reason = "complete", p.scanner \in { "number_ok", "literal_ok" }
        PROVE  pending = Process(scanned, "scalar")
    BY <2>7, FinalizePendingCases DEF Numbers, Literals
  <2>8. ASSUME reason = "complete", p.scanner = "number_bad"
        PROVE  Answer(q, reason) = Result("invalid", FALSE)
    <3>1. pending = Fail(p)
      BY <2>8, FinalizePendingCases DEF Numbers, Literals
    <3>2. Refused(pending)
      BY <3>1, FailUpdates DEF Refused
    <3> QED
      BY <1>0, <2>5, <3>2, RefusedAnswer
  <2> HIDE DEF q, scanned
  <2>9. CASE ~p.rootComplete /\ reason = "complete" /\ LeftOpen
    <3>1. Summary(p) = "open"
      BY <2>0, <2>9 DEF Summary
    <3>2. /\ Result("truncated", FALSE) \in FinishParser("open", reason)
          /\ Result("invalid", FALSE) \in FinishParser("open", reason)
      BY <2>9 DEF FinishParser
    <3>3. CASE p.scanner = "number_bad"
      BY <2>8, <2>9, <3>1, <3>2, <3>3 DEF q
    <3>4. CASE p.scanner # "number_bad"
      <4>1. ~pending.rootComplete /\ ~pending.closed
        <5>1. CASE p.scanner \in { "number_ok", "literal_ok" }
          <6>1. pending = Process(scanned, "scalar")
            BY <2>7, <2>9, <5>1
          <6>2. /\ scanned.stack # << >> /\ ~scanned.duplicate /\ ~scanned.rootComplete
                /\ ~scanned.closed
            BY <2>0, <2>6, <2>9, <5>1 DEF KeepsBut, Fields
          <6>3. "scalar" \notin Punctuation
            BY DEF Punctuation, Openers, Closers
          <6> HIDE DEF pending
          <6>4. Handled(scanned, pending) /\ pending.rootComplete = scanned.rootComplete
            BY <2>6, <6>1, <6>2, <6>3, ProcessHandles
          <6> QED
            BY <6>2, <6>4 DEF Handled
        <5>2. CASE p.scanner \notin { "number_ok", "literal_ok" }
          <6>1. pending \in { p, Diagnose(p) }
            BY <3>4, <5>2, FinalizePendingCases
          <6> HIDE DEF pending
          <6> QED
            BY <2>1, <2>9, <6>1 DEF KeepsBut, Fields
        <5> QED
          BY <5>1, <5>2
      <4>2. ~q.rootComplete /\ ~q.closed
        BY <2>5, <4>1
      <4>3. Answer(q, reason) \in { Result("truncated", FALSE), Result("invalid", FALSE) }
        BY <1>0, <2>9, <4>2, OpenAnswer
      <4> QED
        BY <3>1, <3>2, <4>3 DEF q
    <3> QED
      BY <3>3, <3>4
  <2>10. CASE ~p.rootComplete /\ reason = "complete" /\ ~LeftOpen /\ ~Empty
    <3>1. p.scanner \in { "number_ok", "number_bad", "literal_ok" } /\ p.stack = << >>
      BY <2>10 DEF Parser, ScannerStates
    <3>2. Summary(p) = "scalar"
      BY <2>0, <2>10, <3>1 DEF Summary
    <3>3. FinishParser("scalar", reason)
            = { Result("valid", TRUE), Result("valid", FALSE), Result("invalid", FALSE) }
      BY <2>10 DEF FinishParser
    <3>4. CASE p.scanner = "number_bad"
      BY <2>8, <2>10, <3>2, <3>3, <3>4 DEF q
    <3>5. CASE p.scanner \in { "number_ok", "literal_ok" }
      <4> DEFINE emitted == Emit(scanned, 1)
      <4>1. /\ scanned.stack = << >> /\ ~scanned.skipping /\ ~scanned.duplicate
            /\ ~scanned.fatal /\ ~scanned.closed
        BY <2>0, <2>6, <3>1 DEF KeepsBut, Fields
      <4>2. pending = RootClosed(emitted)
        <5>1. Process(scanned, "scalar") = Scalar(scanned)
          BY <4>1, ParserAssumption DEF Process, Openers, Closers, Punctuation
        <5> QED
          BY <2>7, <2>10, <3>5, <4>1, <5>1 DEF Scalar
      <4>3. emitted \in Parser /\ KeepsBut(scanned, emitted, { "queued", "overflow" })
        BY <2>6, EmitUpdates DEF Updates
      <4> HIDE DEF emitted, pending
      <4>4. /\ KeepsBut(emitted, pending, { "rootComplete", "syntax" })
            /\ pending.rootComplete /\ pending.syntax = "root_complete"
        BY <4>2, <4>3, RootClosedUpdates DEF Updates
      <4>5. /\ pending.rootComplete /\ ~pending.closed /\ ~pending.fatal
            /\ ~Refused(pending)
        BY <4>1, <4>3, <4>4 DEF Refused, KeepsBut, Fields
      <4>6. Answer(q, reason) = Result("valid", IsExecutable(q, reason))
        BY <1>0, <2>5, <4>5, RootAnswer
      <4>7. IsExecutable(q, reason) \in BOOLEAN
        BY DEF IsExecutable
      <4> QED
        BY <3>2, <3>3, <4>6, <4>7 DEF q
    <3> QED
      BY <3>1, <3>4, <3>5
  <2> QED
    BY <2>2, <2>3, <2>4, <2>9, <2>10
<1> QED
  BY <1>1, <1>2
------------------------------------------------------------------------------
(* The specification.                                                       *)

\* Nothing is fed after finish().
LEMMA PushCollects ==
  ASSUME PushCharacter \/ PushOverLimit
  PROVE  parser.phase = "collecting"
BY DEF PushCharacter, PushOverLimit, Punctuate, BeginString, EndString, RawControl,
       StringOverLimit, BeginScalar, ContinueScalar, EndScalar, Malformed,
       PartialCharacter, CompleteCharacter, InvalidUtf8, TrailingCharacter, StripBom,
       Scanning, BeforeRootClosed, Collecting

\* The result is finish()'s alone.
LEMMA PushKeepsResult ==
  ASSUME PushCharacter \/ PushOverLimit \/ DrainEvents
  PROVE  UNCHANGED << finishMeta, result >>
BY DEF PushCharacter, PushOverLimit, DrainEvents, Punctuate, BeginString, EndString,
       RawControl, StringOverLimit, BeginScalar, ContinueScalar, EndScalar, Malformed,
       PartialCharacter, CompleteCharacter, InvalidUtf8, TrailingCharacter, StripBom,
       Feed

Texts == Seq(Punctuation \cup Keys \cup { "scalar", "bad" })

\* The observer is left alone or sees further tokens.
LEMMA TextTyped ==
  ASSUME text \in Texts, JsonNext
  PROVE  text' \in Texts
<1>1. ASSUME NEW tokens \in Texts, text' = text \o tokens
      PROVE  text' \in Texts
  BY <1>1 DEF Texts
<1>2. /\ << >> \in Texts /\ << "bad" >> \in Texts /\ << "scalar" >> \in Texts
      /\ \A token \in Punctuation \cup Keys : << token >> \in Texts
      /\ \A token \in Closers \cup { ",", ":" } : << "scalar", token >> \in Texts
  <2> DEFINE tokens == Punctuation \cup Keys \cup { "scalar", "bad" }
  <2>1. /\ "scalar" \in tokens /\ "bad" \in tokens
        /\ \A token \in Punctuation \cup Keys : token \in tokens
        /\ \A token \in Closers \cup { ",", ":" } : token \in tokens
    BY DEF Punctuation
  <2>2. Texts = Seq(tokens)
    BY DEF Texts
  <2> HIDE DEF tokens
  <2>3. /\ << >> \in Seq(tokens)
        /\ \A token \in tokens : << token >> \in Seq(tokens)
        /\ \A s, t \in tokens : << s, t >> \in Seq(tokens)
    OBVIOUS
  <2> QED
    BY <2>1, <2>2, <2>3
<1>3. CASE \E token \in Punctuation : Punctuate(token)
  BY <1>1, <1>2, <1>3 DEF Punctuate, Feed
<1>4. CASE BeginString \/ RawControl \/ BeginScalar \/ ContinueScalar \/ CompleteCharacter
  BY <1>1, <1>2, <1>4 DEF BeginString, RawControl, BeginScalar, ContinueScalar,
                          CompleteCharacter, Feed
<1>5. CASE \E k \in Keys : EndString(k)
  BY <1>1, <1>2, <1>5 DEF EndString, Feed
<1>6. CASE StringOverLimit \/ Malformed \/ InvalidUtf8
  BY <1>1, <1>2, <1>6 DEF StringOverLimit, Malformed, InvalidUtf8, Feed
<1>7. CASE \E token \in Closers \cup { ",", ":", "blank" } : EndScalar(token)
  <2>1. PICK token \in Closers \cup { ",", ":", "blank" } : EndScalar(token)
    BY <1>7
  <2>2. PICK tokens : /\ tokens = IF token = "blank" THEN << "scalar" >>
                                                     ELSE << "scalar", token >>
                      /\ text' = text \o tokens
    BY <2>1 DEF EndScalar, Feed
  <2> QED
    BY <1>1, <1>2, <2>1, <2>2
<1>8. CASE TrailingCharacter \/ PushOverLimit
  <2>1. Append(text, "bad") \in Texts
    BY DEF Texts
  <2> QED
    BY <1>8, <2>1 DEF TrailingCharacter, PushOverLimit
<1>9. CASE PartialCharacter \/ StripBom \/ DrainEvents
  BY <1>9 DEF PartialCharacter, StripBom, DrainEvents
<1>10. CASE \E reason \in Reasons : Finish(reason)
  <2>1. PICK p : text' = text \o LastTokens(p)
    BY <1>10 DEF Finish
  <2>2. LastTokens(p) \in Texts
    BY <1>2 DEF LastTokens
  <2> QED
    BY <1>1, <2>1, <2>2
<1> QED
  BY <1>3, <1>4, <1>5, <1>6, <1>7, <1>8, <1>9, <1>10 DEF JsonNext, PushCharacter

\* finish() is asked once, and answers for the parser that push() left.
LEMMA FinishSteps ==
  ASSUME JsonTypeOK, Collected(parser), NEW reason \in Reasons, Finish(reason)
  PROVE  /\ parser' \in Parser /\ parser'.phase = "finished"
         /\ finishMeta' = reason
         /\ result' \in FinishParser(Summary(parser), reason)
         /\ result' \in [ outcome : ParserOutcomes, executable : BOOLEAN ]
<1> DEFINE p == [ parser EXCEPT !.phase = "finished" ]
           q == FinalizeTokens(p, reason)
           r == CloseRoot(q, reason)
<1>0. parser \in Parser
  BY DEF JsonTypeOK
<1>1. p \in Parser /\ KeepsBut(parser, p, { "phase" }) /\ p.phase = "finished"
  <2>1. p \in Parser
    BY <1>0 DEF Parser
  <2> QED
    BY <1>0, <2>1, FieldsOfParser DEF KeepsBut, Fields
<1>2. /\ parser' = EmitFinish(r) /\ finishMeta' = reason
      /\ result' = Answer(q, reason)
  BY DEF Finish, Answer
<1>3. result' = Result(Outcome(r), IsExecutable(r, reason))
  BY DEF Finish
<1> HIDE DEF p
<1>4. /\ Sound(p) /\ ~p.closed /\ p.scanner # "finished"
      /\ p.rootComplete /\ ~p.terminal => p.scanner = "structural"
      /\ Summary(p) = Summary(parser)
  BY <1>1 DEF Collected, Sound, Summary, KeepsBut, Fields
<1>5. q \in Parser /\ q.phase = "finished"
  BY <1>1, <1>4, FinalizeTyped
<1>6. Answer(q, reason) \in FinishParser(Summary(p), reason)
  BY <1>1, <1>4, FinishAnswers
<1> HIDE DEF q
<1>7. r \in Parser /\ r.phase = "finished"
  BY <1>5, CloseRootTyped DEF KeepsBut, Fields
<1> HIDE DEF r
<1>8. EmitFinish(r) \in Parser /\ EmitFinish(r).phase = "finished"
  BY <1>7, EmitUpdates DEF EmitFinish, Updates, KeepsBut, Fields
<1>9. /\ Outcome(r) \in ParserOutcomes /\ IsExecutable(r, reason) \in BOOLEAN
  BY DEF Outcome, ParserOutcomes, IsExecutable
<1> QED
  BY <1>2, <1>3, <1>4, <1>6, <1>8, <1>9 DEF Result

\* The inductive invariant.
ParserInv ==
  /\ JsonTypeOK
  /\ parser.phase = "collecting" => Collected(parser)

\* The invariant holds at the start, and every step keeps it.
LEMMA ParserInvHolds ==
  JsonInit => ParserInv
<1> SUFFICES ASSUME JsonInit PROVE ParserInv
  OBVIOUS
<1>1. parser \in Parser
  BY ParserAssumption DEF JsonInit, Parser, ScannerStates
<1>2. JsonTypeOK
  BY <1>1 DEF JsonInit, JsonTypeOK, NoResult, Result
<1>3. Collected(parser)
  BY DEF JsonInit, Collected, Sound
<1> QED
  BY <1>2, <1>3 DEF ParserInv

LEMMA ParserInvKept ==
  ParserInv /\ [JsonNext]_vars => ParserInv'
<1> SUFFICES ASSUME ParserInv, [JsonNext]_vars PROVE ParserInv'
  OBVIOUS
<1>0. JsonTypeOK /\ parser \in Parser
  BY DEF ParserInv, JsonTypeOK
<1>1. CASE UNCHANGED vars
  BY <1>1 DEF vars, ParserInv, JsonTypeOK, Collected, Sound
<1>2. CASE JsonNext
  <2>1. text' \in Texts
    BY <1>0, <1>2, TextTyped DEF JsonTypeOK, Texts
  <2>2. CASE \E reason \in Reasons : Finish(reason)
    <3>1. PICK reason \in Reasons : Finish(reason)
      BY <2>2
    <3>2. parser.phase = "collecting"
      BY <3>1 DEF Finish
    <3>3. /\ parser' \in Parser /\ parser'.phase = "finished" /\ finishMeta' = reason
          /\ result' \in [ outcome : ParserOutcomes, executable : BOOLEAN ]
      BY <1>0, <3>1, <3>2, FinishSteps DEF ParserInv
    <3>4. JsonTypeOK'
      BY <2>1, <3>3 DEF JsonTypeOK, Texts
    <3> QED
      BY <3>3, <3>4 DEF ParserInv
  <2>3. CASE PushCharacter \/ PushOverLimit \/ DrainEvents
    <3>1. UNCHANGED << finishMeta, result >>
      BY <2>3, PushKeepsResult
    <3>2. parser' \in Parser /\ (parser'.phase = "collecting" => Collected(parser'))
      <4>1. CASE parser.phase = "collecting"
        BY <1>0, <2>3, <4>1, PushSteps DEF ParserInv, Pushed
      <4>2. CASE parser.phase # "collecting"
        <5>1. DrainEvents
          BY <2>3, <4>2, PushCollects
        <5> QED
          BY <1>0, <4>2, <5>1, DrainUpdates DEF Updates, KeepsBut, Fields
      <4> QED
        BY <4>1, <4>2
    <3>3. JsonTypeOK'
      BY <1>0, <2>1, <3>1, <3>2 DEF JsonTypeOK, Texts
    <3>4. (parser.phase = "collecting" => Collected(parser))'
      BY <3>2 DEF Collected, Sound
    <3> QED
      BY <3>3, <3>4 DEF ParserInv
  <2> QED
    BY <1>2, <2>2, <2>3 DEF JsonNext
<1> QED
  BY <1>1, <1>2

LEMMA ParserInvAlways ==
  JsonSpec => []ParserInv
BY ParserInvHolds, ParserInvKept, PTL DEF JsonSpec

\* The parser keeps to its type: the diagnostics and the event queue never pass
\* their bounds, the queue by more than the one event that ends it, and the grammar
\* stack holds frames only, whatever is fed and however often it is drained.
THEOREM JsonTypeCorrect ==
  JsonSpec => []JsonTypeOK
<1>1. ParserInv => JsonTypeOK
  BY DEF ParserInv
<1> QED
  BY <1>1, ParserInvAlways, PTL

\* A step of the parser is a step of ArgumentParser: push() and drainEvents() lead
\* from a summary to one that PushArguments allows, and finish() answers what
\* FinishParser does for the summary it finds.
LEMMA StepImplementsSummary ==
  ASSUME ParserInv, [JsonNext]_vars
  PROVE  [ IF parser'.phase = parser.phase
           THEN Summary(parser') \in { Summary(parser) } \cup PushArguments(Summary(parser))
           ELSE result' \in FinishParser(Summary(parser), finishMeta') ]_vars
<1>0. JsonTypeOK /\ parser \in Parser
  BY DEF ParserInv, JsonTypeOK
<1>1. CASE UNCHANGED vars
  BY <1>1
<1>2. CASE \E reason \in Reasons : Finish(reason)
  <2>1. PICK reason \in Reasons : Finish(reason)
    BY <1>2
  <2>2. parser.phase = "collecting"
    BY <2>1 DEF Finish
  <2>3. /\ parser'.phase = "finished" /\ finishMeta' = reason
        /\ result' \in FinishParser(Summary(parser), reason)
    BY <1>0, <2>1, <2>2, FinishSteps DEF ParserInv
  <2> QED
    BY <2>2, <2>3
<1>3. CASE PushCharacter \/ PushOverLimit \/ DrainEvents
  <2>1. CASE parser.phase = "collecting"
    <3>1. Collected(parser) /\ Pushed(parser, parser')
      BY <1>0, <1>3, <2>1, PushSteps DEF ParserInv
    <3>2. Summary(parser') \in PushArguments(Summary(parser))
      BY <1>0, <3>1, SummaryGrows DEF Pushed, Collected
    <3> QED
      BY <3>1, <3>2 DEF Pushed
  <2>2. CASE parser.phase # "collecting"
    <3>1. DrainEvents
      BY <1>3, <2>2, PushCollects
    <3>2. KeepsBut(parser, parser', { "queued" })
      BY <1>0, <3>1, DrainUpdates DEF Updates
    <3>3. Summary(parser') = Summary(parser) /\ parser'.phase = parser.phase
      BY <3>2 DEF Summary, KeepsBut, Fields
    <3> QED
      BY <3>3
  <2> QED
    BY <2>1, <2>2
<1> QED
  BY <1>1, <1>2, <1>3 DEF JsonNext

\* The parser implements its abstraction: whatever is fed, in whatever pieces and
\* with whatever limits, the coordinator and the gate see no parser that
\* ArgumentParser does not describe. A completed root never reopens, a limit is
\* never undone, and nothing that was repaired, cut short or followed by anything
\* is called executable.
THEOREM ParserImplementsSummary ==
  JsonSpec => ImplementsSummary
<1>1. ParserInv /\ [JsonNext]_vars =>
        [ IF parser'.phase = parser.phase
          THEN Summary(parser') \in { Summary(parser) } \cup PushArguments(Summary(parser))
          ELSE result' \in FinishParser(Summary(parser), finishMeta') ]_vars
  BY StepImplementsSummary
<1> QED
  BY <1>1, ParserInvAlways, PTL DEF JsonSpec, ImplementsSummary
==============================================================================
