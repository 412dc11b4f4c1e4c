------------------------------ MODULE JsonParser ------------------------------
(***************************************************************************)
(* The incremental JSON parser of one call's arguments (src/src/parser.ts) *)
(* with its grammar stack (grammar/stack.ts) and the bound of its event    *)
(* queue (semantic/builder.ts).  push() works one character at a time and  *)
(* keeps nothing per chunk, so an action is one character, or a run of     *)
(* characters that changes no control: the inside of a string, digits of a *)
(* number, blanks.  The scanner is its pending state and the tokens that   *)
(* leave it; paths, values and byte offsets are left out.                  *)
(***************************************************************************)
EXTENDS Integers, Sequences, FiniteSets, ArgumentParser

CONSTANTS
  Keys,                \* the strings, as keys and as values
  Reasons,             \* stream-end reasons in use
  MaxDepth,            \* limits.maxDepth
  MaxQueuedEvents,     \* limits.maxQueuedEvents
  MaxInput,            \* limits.maxInputBytes, in characters fed
  MaxTrailing,         \* limits.maxTrailingDataBytes, in characters fed
  TrailingData,        \* repairs.trailingData
  RawControlCharacters \* repairs.rawControlCharacters

Openers == { "{", "[" }
Closers == { "}", "]" }
Punctuation == Openers \cup Closers \cup { ":", "," }

ASSUME ParserAssumption ==
  /\ Keys \cap (Punctuation \cup { "scalar", "bad" }) = {}
  /\ MaxDepth \in Nat /\ MaxQueuedEvents \in Nat
  /\ MaxInput \in Nat /\ MaxTrailing \in Nat
  /\ TrailingData \in { "isolate", "reject" }
  /\ RawControlCharacters \in { "reject", "escape" }

VARIABLES
  parser,      \* the state of the parser
  finishMeta,  \* the reason given to finish(); "none" before
  result,      \* what finish() returned
  text         \* observer: the tokens fed so far, "bad" for anything else

vars == << parser, finishMeta, result, text >>

\* ScannerState, and for a number or literal what the end of input makes of it:
\* "ok" it is complete, "open" it needs more, "bad" it breaks the number grammar.
ScannerStates ==
  { "structural", "string", "number_open", "number_ok", "number_bad",
    "literal_open", "literal_ok", "finished" }

Expectations ==
  { "first_key_or_end", "key_after_comma", "colon", "value", "comma_or_end",
    "first_value_or_end", "value_after_comma" }

Frame == [ opener : Openers, expects : Expectations, keys : SUBSET Keys ]

Parser ==
  [ phase        : { "collecting", "finished" },
    scanner      : ScannerStates,
    partial      : BOOLEAN,     \* the decoder holds the start of a character
    stack        : Seq(Frame),
    syntax       : { "empty", "incomplete", "root_complete", "invalid" },
    terminal     : BOOLEAN,
    rootComplete : BOOLEAN,
    skipping     : BOOLEAN,     \* isSkippingValue: inside a duplicate key's value
    skipDepth    : Nat,
    duplicate    : BOOLEAN,     \* grammar.hasDuplicate
    error        : BOOLEAN,     \* everHadNonRecoverableError
    fatal        : BOOLEAN,     \* everHadFatalDiagnostic
    closed       : BOOLEAN,     \* everHadCloseContainerRepair
    trailing     : Nat,         \* trailing characters seen
    received     : 0 .. MaxInput,
    retained     : 0 .. MaxQueuedEvents,      \* length of allDiagnostics
    limited      : BOOLEAN,     \* an E_LIMIT_* code is in allDiagnostics
    queued       : 0 .. MaxQueuedEvents + 1,  \* length of the event queue
    overflow     : BOOLEAN ]    \* events.isTerminal

NoResult == Result("none", FALSE)

JsonTypeOK ==
  /\ parser \in Parser
  /\ finishMeta \in Reasons \cup { "none" }
  /\ result \in [ outcome : ParserOutcomes \cup { "none" }, executable : BOOLEAN ]
  /\ text \in Seq(Punctuation \cup Keys \cup { "scalar", "bad" })

JsonInit ==
  /\ parser =
       [ phase |-> "collecting", scanner |-> "structural", partial |-> FALSE,
         stack |-> << >>, syntax |-> "empty", terminal |-> FALSE,
         rootComplete |-> FALSE, skipping |-> FALSE, skipDepth |-> 0,
         duplicate |-> FALSE, error |-> FALSE, fatal |-> FALSE,
         closed |-> FALSE, trailing |-> 0, received |-> 0, retained |-> 0,
         limited |-> FALSE, queued |-> 0, overflow |-> FALSE ]
  /\ finishMeta = "none"
  /\ result = NoResult
  /\ text = << >>

------------------------------------------------------------------------------
(* Events and diagnostics.                                                  *)

\* Mutant of Emit: an overflowed queue still takes diagnostics.
EmitPastOverflow(p, n) ==
  IF p.queued + n <= MaxQueuedEvents THEN [ p EXCEPT !.queued = @ + n ]
  ELSE [ p EXCEPT !.queued = @ + 1, !.overflow = TRUE ]

\* n events are enqueued: one too many ends the queue with a last diagnostic.
Emit(p, n) ==
  IF p.overflow THEN p
  ELSE IF p.queued + n <= MaxQueuedEvents
       THEN [ p EXCEPT !.queued = @ + n ]
       ELSE [ p EXCEPT !.queued = MaxQueuedEvents + 1, !.overflow = TRUE ]

\* addDiagnostic() of an unrecoverable error; the array is capped, the flag is not.
Diagnose(p) ==
  Emit([ p EXCEPT !.error = TRUE,
                  !.retained = IF @ < MaxQueuedEvents THEN @ + 1 ELSE @ ], 1)

Stop(p) == [ p EXCEPT !.terminal = TRUE, !.syntax = "invalid" ]

Fail(p) == Stop(Diagnose(p))

\* A diagnostic with an E_LIMIT_* code, on record if the array has room.
LimitDiagnostic(p) ==
  [ Diagnose(p) EXCEPT !.limited = @ \/ p.retained < MaxQueuedEvents ]

FatalLimit(p) == [ Stop(LimitDiagnostic(p)) EXCEPT !.fatal = TRUE ]

------------------------------------------------------------------------------
(* The grammar stack and the token handlers.                                *)

Top(p) == p.stack[Len(p.stack)]

Below(stack) == SubSeq(stack, 1, Len(stack) - 1)

Expect(p, expectation) ==
  [ p EXCEPT !.stack[Len(p.stack)].expects = expectation ]

NewFrame(opener) ==
  [ opener |-> opener, keys |-> {},
    expects |-> IF opener = "{" THEN "first_key_or_end" ELSE "first_value_or_end" ]

AtValue(p) ==
  \/ p.stack = << >>
  \/ Top(p).expects \in { "value", "first_value_or_end", "value_after_comma" }

AtKey(p) ==
  p.stack # << >> /\ Top(p).expects \in { "first_key_or_end", "key_after_comma" }

\* handleObjectStart(), handleArrayStart()
Open(p, opener) ==
  IF ~AtValue(p) THEN Fail(p)
  ELSE IF Len(p.stack) >= MaxDepth THEN FatalLimit(p)
  ELSE [ p EXCEPT !.stack = Append(@, NewFrame(opener)),
                  !.syntax = IF @ = "empty" THEN "incomplete" ELSE @ ]

Matches(opener, closer) ==
  << opener, closer >> \in { << "{", "}" >>, << "[", "]" >> }

RootClosed(p) == [ p EXCEPT !.rootComplete = TRUE, !.syntax = "root_complete" ]

\* handleObjectEnd(), handleArrayEnd() and commitContainerToParent()
Close(p, closer) ==
  IF p.stack = << >> THEN Fail(p)
  ELSE IF ~Matches(Top(p).opener, closer)
          \/ Top(p).expects \notin { "first_key_or_end", "first_value_or_end",
                                     "comma_or_end" } THEN Fail(p)
  ELSE LET popped == Emit([ p EXCEPT !.stack = Below(@) ], 1)
       IN IF popped.stack = << >> THEN RootClosed(popped)
          ELSE Expect(popped, "comma_or_end")

\* handleColon()
Colon(p) ==
  IF p.stack = << >> THEN Fail(p)
  ELSE IF Top(p).expects # "colon" THEN Fail(p)
  ELSE Expect(p, "value")

\* handleComma()
Comma(p) ==
  IF p.stack = << >> THEN Fail(p)
  ELSE IF Top(p).expects # "comma_or_end" THEN Fail(p)
  ELSE Expect(p, IF Top(p).opener = "{" THEN "key_after_comma"
                 ELSE "value_after_comma")

\* Mutant of Scalar: an array element is committed although a comma is missing.
ScalarAnywhere(p) ==
  IF p.stack = << >> THEN RootClosed(Emit(p, 1))
  ELSE IF Top(p).opener = "[" \/ AtValue(p) THEN Expect(Emit(p, 1), "comma_or_end")
  ELSE p

\* commitScalar(), and handleString() of a value: in an object frame that
\* expects something else nothing happens and nothing is reported.
Scalar(p) ==
  IF p.stack = << >> THEN RootClosed(Emit(p, 1))
  ELSE IF AtValue(p) THEN Expect(Emit(p, 1), "comma_or_end")
  ELSE IF Top(p).opener = "[" THEN Fail(p)
  ELSE p

\* handleString() of a key and registerObjectKey()
Key(p, k) ==
  IF k \in Top(p).keys
  THEN Expect([ Diagnose(p) EXCEPT !.duplicate = TRUE, !.skipping = TRUE,
                                   !.skipDepth = 0 ], "colon")
  ELSE Expect([ p EXCEPT !.stack[Len(p.stack)].keys = @ \cup { k } ], "colon")

\* The value of a duplicate key is over.
Resume(p) ==
  Expect([ p EXCEPT !.skipping = FALSE, !.skipDepth = 0 ], "comma_or_end")

\* processToken() while isSkippingValue: only the nesting depth is looked at.
Skip(p, token) ==
  IF token \in Openers THEN [ p EXCEPT !.skipDepth = @ + 1 ]
  ELSE IF token \in Closers
       THEN IF p.skipDepth <= 1 THEN Resume(p) ELSE [ p EXCEPT !.skipDepth = @ - 1 ]
  ELSE IF p.skipDepth = 0 /\ token \notin Punctuation THEN Resume(p)
  ELSE p

\* processToken()
Process(p, token) ==
  CASE p.skipping        -> Skip(p, token)
    [] ~p.skipping /\ token \in Openers -> Open(p, token)
    [] ~p.skipping /\ token \in Closers -> Close(p, token)
    [] ~p.skipping /\ token = ":"       -> Colon(p)
    [] ~p.skipping /\ token = ","       -> Comma(p)
    [] ~p.skipping /\ token = "scalar"  -> Scalar(p)
    [] ~p.skipping /\ token \in Keys    -> IF AtKey(p) THEN Key(p, token) ELSE Scalar(p)

\* Mutant of ProcessBoth: the character that ended a number is lost.
ProcessScalarOnly(p, token) == Process(p, "scalar")

\* A number or literal and the character that ended it, which is scanned again.
ProcessBoth(p, token) ==
  LET q == Process(p, "scalar")
  IN IF q.terminal \/ token = "blank" THEN q ELSE Process(q, token)

------------------------------------------------------------------------------
(* push()                                                                   *)

Collecting ==
  parser.phase = "collecting" /\ ~parser.terminal /\ parser.received < MaxInput

BeforeRootClosed == Collecting /\ ~parser.rootComplete

\* The scanner is in one of these states, and no character is half decoded.
Scanning(states) ==
  BeforeRootClosed /\ ~parser.partial /\ parser.scanner \in states

Numbers  == { "number_open", "number_ok", "number_bad" }
Literals == { "literal_open", "literal_ok" }

\* The parser is q after one more character, which completed these tokens. The
\* main loop of push() looks at the event queue after every character.
Feed(q, tokens) ==
  LET counted == [ q EXCEPT !.received = @ + 1 ]
  IN /\ parser' = IF counted.overflow THEN Stop(counted) ELSE counted
     /\ text' = text \o tokens
     /\ UNCHANGED << finishMeta, result >>

Punctuate(token) ==
  /\ Scanning({ "structural" })
  /\ Feed(Process(parser, token), << token >>)

BeginString ==
  /\ Scanning({ "structural" })
  /\ Feed([ parser EXCEPT !.scanner = "string" ], << >>)

EndString(k) ==
  /\ Scanning({ "string" })
  /\ Feed(Process([ parser EXCEPT !.scanner = "structural" ], k), << k >>)

RawControl ==
  /\ Scanning({ "string" })
  /\ RawControlCharacters = "escape"
  /\ Feed(Emit(parser, 1), << >>)

StringOverLimit ==
  /\ BeforeRootClosed
  /\ parser.scanner = "string"
  /\ Feed(FatalLimit([ parser EXCEPT !.partial = FALSE ]), << "bad" >>)

BeginScalar ==
  /\ Scanning({ "structural" })
  /\ \E s \in { "number_open", "number_ok", "literal_open" } :
       Feed([ parser EXCEPT !.scanner = s ], << >>)

ContinueScalar ==
  \/ /\ Scanning(Numbers)
     /\ \E s \in Numbers \ { parser.scanner } :
          Feed([ parser EXCEPT !.scanner = s ], << >>)
  \/ /\ Scanning({ "literal_open" })
     /\ Feed([ parser EXCEPT !.scanner = "literal_ok" ], << >>)

\* A number or literal ends at the character after it.
EndScalar(token) ==
  /\ Scanning({ "number_ok", "literal_ok" })
  /\ Feed(ProcessBoth([ parser EXCEPT !.scanner = "structural" ], token),
          IF token = "blank" THEN << "scalar" >> ELSE << "scalar", token >>)

\* A character that the scanner has no place for in its state.
Malformed ==
  /\ BeforeRootClosed
  /\ Feed(Fail([ parser EXCEPT !.partial = FALSE ]), << "bad" >>)

\* The chunk ends inside a multi-byte character.
PartialCharacter ==
  /\ Collecting
  /\ ~parser.partial
  /\ parser' = [ parser EXCEPT !.partial = TRUE, !.received = @ + 1 ]
  /\ UNCHANGED << finishMeta, result, text >>

CompleteCharacter ==
  /\ BeforeRootClosed
  /\ parser.partial /\ parser.scanner = "string"
  /\ Feed([ parser EXCEPT !.partial = FALSE ], << >>)

InvalidUtf8 ==
  /\ Collecting
  /\ Feed(Fail([ parser EXCEPT !.partial = FALSE ]), << "bad" >>)

\* A character other than a blank after the root value; the queue is not looked
\* at here.
TrailingCharacter ==
  LET p     == [ parser EXCEPT !.received = @ + 1, !.partial = FALSE,
                               !.trailing = @ + 1 ]
      noted == IF p.trailing > 1 THEN p
               ELSE Emit([ p EXCEPT !.retained =
                             IF @ < MaxQueuedEvents THEN @ + 1 ELSE @ ], 2)
  IN /\ Collecting
     /\ parser.rootComplete
     /\ parser' = IF TrailingData = "reject" THEN Fail(p)
                  ELSE IF p.trailing > MaxTrailing THEN Stop(LimitDiagnostic(noted))
                  ELSE noted
     /\ text' = Append(text, "bad")
     /\ UNCHANGED << finishMeta, result >>

\* A byte order mark at the very start, in one chunk or cut in two, is dropped and
\* reported as a repair.
StripBom ==
  /\ Collecting
  /\ parser.received = IF parser.partial THEN 1 ELSE 0
  /\ parser' = Emit([ parser EXCEPT !.received = 1, !.partial = FALSE ], 1)
  /\ UNCHANGED << finishMeta, result, text >>

\* A chunk that would exceed maxInputBytes is refused as a whole.
PushOverLimit ==
  /\ parser.phase = "collecting" /\ ~parser.terminal
  /\ parser' = FatalLimit(parser)
  /\ text' = Append(text, "bad")
  /\ UNCHANGED << finishMeta, result >>

\* drainEvents()
DrainEvents ==
  /\ parser.queued > 0
  /\ parser' = [ parser EXCEPT !.queued = 0 ]
  /\ UNCHANGED << finishMeta, result, text >>

------------------------------------------------------------------------------
(* finish()                                                                 *)

\* What the end of input makes of a token that is still pending.
FinalizePending(p, reason) ==
  CASE p.scanner \in { "number_ok", "literal_ok" } /\ reason = "complete" ->
         Process([ p EXCEPT !.scanner = "finished" ], "scalar")
    [] p.scanner = "number_bad" /\ reason = "complete" -> Fail(p)
    [] p.scanner = "number_open" /\ reason = "complete" -> p
    [] p.scanner \in Numbers \cup Literals /\ reason # "complete" -> Diagnose(p)
    [] p.scanner \in { "literal_open", "string" } /\ reason = "complete" -> Diagnose(p)
    [] p.scanner = "string" /\ reason # "complete" -> Diagnose(p)
    [] OTHER -> p

FinalizeTokens(p, reason) ==
  IF p.terminal THEN p
  ELSE IF p.partial THEN Diagnose(FinalizePending(p, reason))
  ELSE FinalizePending(p, reason)

\* Mutant of CanSafelyCloseAll: a comma may be left behind.
CanCloseAfterComma(p) ==
  \A i \in DOMAIN p.stack : p.stack[i].expects \notin { "colon", "value" }

CanSafelyCloseAll(p) ==
  \A i \in DOMAIN p.stack :
    p.stack[i].expects \notin
      { "colon", "value", "key_after_comma", "value_after_comma" }

Salvageable(p) ==
  /\ CloseContainersAtFinish
  /\ p.scanner = "structural"
  /\ CanSafelyCloseAll(p)
  /\ ~p.fatal /\ p.syntax # "invalid"

\* A root that is still open is closed by a repair or reported as truncated;
\* under a complete end, only if a value was seen at all.
CloseRoot(p, reason) ==
  IF p.rootComplete \/ (reason = "complete" /\ p.stack = << >>) THEN p
  ELSE IF reason # "complete" /\ Salvageable(p)
  THEN Emit([ p EXCEPT !.closed = TRUE, !.rootComplete = TRUE ], Len(p.stack) + 1)
  ELSE Diagnose(p)

\* Mutant of IsExecutable: a duplicate key is not looked at.
IsExecutableDespiteErrors(p, reason) ==
  /\ p.rootComplete /\ ~p.terminal /\ p.syntax # "invalid"
  /\ reason = "complete"
  /\ ~p.fatal /\ ~p.closed
  /\ p.scanner \in { "structural", "finished" }
  /\ p.trailing = 0

IsExecutable(p, reason) ==
  /\ p.rootComplete /\ ~p.terminal /\ p.syntax # "invalid"
  /\ reason = "complete"
  /\ ~p.duplicate /\ ~p.fatal /\ ~p.error /\ ~p.closed
  /\ p.scanner \in { "structural", "finished" }
  /\ p.trailing = 0

\* determineOutcome()
Outcome(p) ==
  IF p.syntax = "invalid" \/ p.fatal \/ p.duplicate THEN "invalid"
  ELSE IF p.closed THEN "salvaged"
  ELSE IF ~p.rootComplete THEN "truncated" ELSE "valid"

\* document_complete, if there is a document, and stream_finished.
EmitFinish(p) ==
  Emit(p, IF p.rootComplete /\ ~p.duplicate /\ ~p.fatal THEN 2 ELSE 1)

\* The observer: a scalar that the end of input completed, or what it cut short.
LastTokens(p) ==
  IF p.partial \/ p.scanner \in Numbers \cup Literals \cup { "string" }
  THEN << "bad" >>
  ELSE IF p.scanner = "finished" THEN << "scalar" >> ELSE << >>

Finish(reason) ==
  LET p == CloseRoot(FinalizeTokens([ parser EXCEPT !.phase = "finished" ], reason),
                     reason)
  IN /\ parser.phase = "collecting"
     /\ parser' = EmitFinish(p)
     /\ finishMeta' = reason
     /\ result' = Result(Outcome(p), IsExecutable(p, reason))
     /\ text' = text \o LastTokens(p)

------------------------------------------------------------------------------

PushCharacter ==
  \/ \E token \in Punctuation : Punctuate(token)
  \/ BeginString
  \/ \E k \in Keys : EndString(k)
  \/ RawControl
  \/ StringOverLimit
  \/ BeginScalar
  \/ ContinueScalar
  \/ \E token \in Closers \cup { ",", ":", "blank" } : EndScalar(token)
  \/ Malformed
  \/ PartialCharacter
  \/ CompleteCharacter
  \/ InvalidUtf8
  \/ TrailingCharacter
  \/ StripBom

JsonNext == PushCharacter \/ PushOverLimit \/ DrainEvents
              \/ \E reason \in Reasons : Finish(reason)

JsonSpec == JsonInit /\ [][JsonNext]_vars

------------------------------------------------------------------------------
(* The parser as the coordinator sees it.                                   *)

Summary(p) ==
  IF p.limited THEN "limited"
  ELSE IF p.terminal \/ p.duplicate THEN "invalid"
  ELSE IF p.rootComplete
       THEN IF p.trailing > 0 \/ p.partial THEN "trailing" ELSE "closed"
  ELSE IF p.stack # << >> \/ p.scanner = "string" THEN "open"
  ELSE IF p.scanner = "structural" THEN "empty"
  ELSE IF p.scanner \in { "number_open", "literal_open" } THEN "open"
  ELSE "scalar"

\* Every step of the parser is one that ArgumentParser, on which the verdicts of
\* the coordinator and the gate rest, allows for: push() moves between summaries
\* as PushArguments says, and finish() answers what FinishParser says.
ImplementsSummary ==
  [][ IF parser'.phase = parser.phase
      THEN Summary(parser') \in { Summary(parser) } \cup PushArguments(Summary(parser))
      ELSE result' \in FinishParser(Summary(parser), finishMeta') ]_vars
==============================================================================
