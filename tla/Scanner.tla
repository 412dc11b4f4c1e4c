-------------------------------- MODULE Scanner --------------------------------
(***************************************************************************)
(* Scanner (lexer/scanner.ts): characters become tokens one at a time.  A  *)
(* character is named by what it is; "escape n" and the like are runs of   *)
(* characters that a string may contain, and stand for what they spell.    *)
(***************************************************************************)
EXTENDS Integers, Sequences, SequencesExt

CONSTANTS
  Structure,       \* characters in use outside strings
  MaxStringBytes,  \* limits.maxStringBytes
  MaxRuns          \* bound on the characters and runs of one text

VARIABLES
  scanner,  \* the private fields of the scanner
  closing,  \* what finalizeNumber() or finalizeLiteral() returned at the end
  runs      \* observer: the characters and runs fed so far

scannerVars == << scanner, closing, runs >>

Whitespace == { " " }
Digits     == { "0", "1", "2", "3", "4", "5", "6", "7", "8", "9" }
Punctuators == { "{", "}", "[", "]", ",", ":" }
ValueTerminators == Whitespace \cup { ",", "}", "]", ":" }

LiteralTexts == { << "t", "r", "u", "e" >>, << "f", "a", "l", "s", "e" >>,
              << "n", "u", "l", "l" >> }

NumberStates == { "integer", "fraction", "exponent_start", "exponent" }

\* Runs inside a string, each with the characters it consists of.
Spelling ==
  [ plain       |-> << "x" >>,
    wide        |-> << "wide" >>,
    control     |-> << "control" >>,
    quote       |-> << "quote" >>,
    newline     |-> << "backslash", "n" >>,
    badescape   |-> << "backslash", "x" >>,
    unit        |-> << "backslash", "u", "0", "0", "8", "c" >>,
    badunit     |-> << "backslash", "u", "0", "x" >>,
    high        |-> << "backslash", "u", "d", "8", "0", "0" >>,
    low         |-> << "backslash", "u", "d", "c", "0", "0" >> ]

Items == DOMAIN Spelling

\* Bytes of a character in UTF-8.
Width(ch) == IF ch = "wide" THEN 4 ELSE 1

NewScanner ==
  [ state     |-> "structural",
    tokens    |-> << >>,
    refused   |-> "none",  \* the diagnostic, always the last thing to happen
    buffer    |-> << >>,   \* stringBuffer
    start     |-> 0,       \* stringByteStart, numberByteStart, literalByteStart
    hex       |-> << >>,   \* unicodeHexBuffer
    high      |-> FALSE,   \* highSurrogate is set
    phase     |-> 0,       \* surrogatePhase
    number    |-> << >>,   \* numberBuffer
    hasDigit  |-> FALSE,   \* numberHasDigit
    literal   |-> << >>,   \* literalTarget
    index     |-> 0,       \* literalIndex
    offset    |-> 0,       \* currentByteOffset
    next      |-> 0 ]      \* where the next character begins

ScannerInit == scanner = NewScanner /\ closing = "none" /\ runs = << >>

------------------------------------------------------------------------------
(* Helpers *)

EmitToken(s, type, value, from, to) ==
  [ s EXCEPT !.tokens = Append(@, [ type |-> type, value |-> value,
                                    from |-> from, to |-> to ]) ]

Refuse(s, code) == [ s EXCEPT !.refused = code, !.state = "invalid" ]
Unexpected(s) == Refuse(s, "E_UNEXPECTED_TOKEN")

\* The integer part of the buffer, after a sign.
IntegerPart(number) ==
  LET unsigned == IF Head(number) = "-" THEN Tail(number) ELSE number
      lengths  == { n \in 0 .. Len(unsigned) : \A i \in 1 .. n : unsigned[i] \in Digits }
  IN SubSeq(unsigned, 1, CHOOSE n \in lengths : \A m \in lengths : m <= n)

\* Mutant of NumberGrammarError: a leading zero passes.
LastCharacterError(number) == Last(number) \in { ".", "e", "+", "-" }

\* numberGrammarError(): only the end of the buffer and a leading zero.
NumberGrammarError(number) ==
  \/ Last(number) \in { ".", "e", "+", "-" }
  \/ Len(IntegerPart(number)) > 1 /\ Head(IntegerPart(number)) = "0"

------------------------------------------------------------------------------
(* State handlers; at is the byte where the character begins.               *)

Structural(s, ch, at) ==
  CASE ch \in Whitespace -> s
    [] ch \in Punctuators -> EmitToken(s, "punctuation", << ch >>, at, at + 1)
    [] ch = "quote" -> [ s EXCEPT !.buffer = << >>, !.start = at, !.high = FALSE,
                                  !.state = "string" ]
    [] ch \in Digits \cup { "-" } ->
         [ s EXCEPT !.number = << ch >>, !.start = at, !.hasDigit = ch # "-",
                    !.state = "integer" ]
    [] ch \in { Head(l) : l \in LiteralTexts } ->
         [ s EXCEPT !.literal = CHOOSE l \in LiteralTexts : Head(l) = ch, !.index = 1,
                    !.start = at, !.state = "literal" ]
    [] OTHER -> Unexpected(s)

InString(s, ch, at) ==
  CASE ch # "quote" /\ at - s.start > MaxStringBytes -> Refuse(s, "E_LIMIT_STRING_BYTES")
    [] ch = "quote" ->
         [ EmitToken(s, "string", s.buffer, s.start, at + 1)
             EXCEPT !.buffer = << >>, !.state = "structural" ]
    [] ch = "backslash" /\ at - s.start <= MaxStringBytes ->
         [ s EXCEPT !.state = "escape" ]
    [] ch = "control" /\ at - s.start <= MaxStringBytes ->
         Refuse(s, "W_RAW_CONTROL_CHARACTER")
    [] OTHER -> [ s EXCEPT !.buffer = Append(@, ch) ]

\* What the characters after a backslash stand for, "u" aside.
Unescaped == [ n |-> "newline", quote |-> "quote", backslash |-> "backslash" ]

Escape(s, ch) ==
  CASE ch = "u" -> [ s EXCEPT !.hex = << >>, !.state = "unicode_escape" ]
    [] ch \in DOMAIN Unescaped ->
         [ s EXCEPT !.buffer = Append(@, Unescaped[ch]), !.state = "string" ]
    [] OTHER -> Unexpected(s)

HexDigits == Digits \cup { "a", "b", "c", "d", "e", "f" }

\* The kind of code unit that four hexadecimal digits name.
UnitKind(hex) ==
  CASE hex[1] = "d" /\ hex[2] \in { "8", "9", "a", "b" } -> "high"
    [] hex[1] = "d" /\ hex[2] \in { "c", "d", "e", "f" } -> "low"
    [] OTHER -> "unit"

\* Mutant of CodeUnit: a completed pair leaves its high half behind.
CodeUnitKeepsHigh(s, kind) ==
  CASE s.high /\ kind = "low" ->
         [ s EXCEPT !.buffer = Append(@, "pair"), !.state = "string" ]
    [] s.high # (kind = "low") ->
         [ Refuse(s, "E_UNPAIRED_SURROGATE") EXCEPT !.high = FALSE ]
    [] ~s.high /\ kind = "high" ->
         [ s EXCEPT !.high = TRUE, !.phase = 0, !.state = "surrogate_pending" ]
    [] OTHER -> [ s EXCEPT !.buffer = Append(@, kind), !.state = "string" ]

\* The fourth digit is there; a low surrogate completes the pair it belongs to.
CodeUnit(s, kind) ==
  CASE s.high /\ kind = "low" ->
         [ s EXCEPT !.buffer = Append(@, "pair"), !.high = FALSE, !.state = "string" ]
    [] s.high # (kind = "low") ->
         [ Refuse(s, "E_UNPAIRED_SURROGATE") EXCEPT !.high = FALSE ]
    [] ~s.high /\ kind = "high" ->
         [ s EXCEPT !.high = TRUE, !.phase = 0, !.state = "surrogate_pending" ]
    [] OTHER -> [ s EXCEPT !.buffer = Append(@, kind), !.state = "string" ]

UnicodeEscape(s, ch) ==
  LET hex == Append(s.hex, ch) IN
  CASE ch \notin HexDigits -> Refuse(s, "E_INVALID_UNICODE_ESCAPE")
    [] ch \in HexDigits /\ Len(hex) < 4 -> [ s EXCEPT !.hex = hex ]
    [] OTHER -> CodeUnit([ s EXCEPT !.hex = << >> ], UnitKind(hex))

SurrogatePending(s, ch) ==
  CASE s.phase = 0 /\ ch = "backslash" -> [ s EXCEPT !.phase = 1 ]
    [] s.phase = 1 /\ ch = "u" ->
         [ s EXCEPT !.hex = << >>, !.phase = 0, !.state = "unicode_escape" ]
    [] OTHER -> [ Refuse(s, "E_UNPAIRED_SURROGATE") EXCEPT !.high = FALSE ]

\* commitNumber() and reprocessChar(): the terminator is a character of its own.
CommitNumber(s, ch, at) ==
  IF NumberGrammarError(s.number) THEN Unexpected(s)
  ELSE Structural([ EmitToken(s, "number", s.number, s.start, at)
                      EXCEPT !.number = << >>, !.state = "structural" ], ch, at)

Extended(s, ch, state) == [ s EXCEPT !.number = Append(@, ch), !.state = state ]

\* A terminator after the point or in an exponent without digits is refused
\* there; after "1.", an exponent may follow.
Number(s, ch, at) ==
  CASE s.state = "integer" /\ ch \in Digits ->
         [ Extended(s, ch, "integer") EXCEPT !.hasDigit = TRUE ]
    [] s.state = "integer" /\ s.hasDigit /\ ch = "." -> Extended(s, ch, "fraction")
    [] s.state = "fraction" /\ ch \in Digits -> Extended(s, ch, "fraction")
    [] s.state \in { "integer", "fraction" } /\ s.hasDigit /\ ch = "e" ->
         Extended(s, ch, "exponent_start")
    [] s.state = "exponent_start" /\ ch \in Digits \cup { "+", "-" } ->
         Extended(s, ch, "exponent")
    [] s.state = "exponent" /\ ch \in Digits -> Extended(s, ch, "exponent")
    [] /\ s.state \in { "integer", "fraction", "exponent" } /\ s.hasDigit
       /\ ch \in ValueTerminators -> CommitNumber(s, ch, at)
    [] OTHER -> Unexpected(s)

Literal(s, ch, at) ==
  CASE s.index < Len(s.literal) /\ ch = s.literal[s.index + 1] ->
         [ s EXCEPT !.index = @ + 1 ]
    [] s.index = Len(s.literal) /\ ch \in ValueTerminators ->
         Structural([ EmitToken(s, "literal", s.literal, s.start, at)
                        EXCEPT !.state = "structural" ], ch, at)
    [] OTHER -> Unexpected(s)

\* feedChar()
FeedChar(scanning, ch) ==
  LET at == scanning.next
      s  == [ scanning EXCEPT !.offset = at, !.next = at + Width(ch) ]
  IN CASE s.state = "structural"        -> Structural(s, ch, at)
       [] s.state = "string"            -> InString(s, ch, at)
       [] s.state = "escape"            -> Escape(s, ch)
       [] s.state = "unicode_escape"    -> UnicodeEscape(s, ch)
       [] s.state = "surrogate_pending" -> SurrogatePending(s, ch)
       [] s.state \in NumberStates      -> Number(s, ch, at)
       [] s.state = "literal"           -> Literal(s, ch, at)
       [] s.state \in { "invalid", "finished" } -> s

\* Inside a string whole items are fed, outside single characters. The parser
\* feeds nothing after a diagnostic.
FeedRun ==
  /\ scanner.state \notin { "invalid", "finished" } /\ closing = "none"
  /\ Len(runs) < MaxRuns
  /\ \E run \in IF scanner.state \in { "string", "surrogate_pending" } THEN Items
                ELSE Structure :
       /\ runs' = Append(runs, run)
       /\ scanner' = IF scanner.state \in { "string", "surrogate_pending" }
                     THEN FoldLeft(FeedChar, scanner, Spelling[run])
                     ELSE FeedChar(scanner, run)
  /\ UNCHANGED closing

\* finalizeNumber(), for a pending number at the end of input
FinalizeNumber ==
  /\ scanner.state \in NumberStates /\ closing = "none"
  /\ LET ready == scanner.state # "exponent_start" /\ scanner.hasDigit
         wrong == NumberGrammarError(scanner.number)
     IN /\ closing' = CASE ~ready -> "not_ready"
                        [] ready /\ wrong -> "invalid"
                        [] ready /\ ~wrong -> "finalized"
        /\ scanner' = IF ready /\ ~wrong
                      THEN [ EmitToken(scanner, "number", scanner.number, scanner.start,
                                  scanner.offset + 1) EXCEPT !.state = "finished" ]
                      ELSE scanner
  /\ UNCHANGED runs

\* finalizeLiteral()
FinalizeLiteral ==
  /\ scanner.state = "literal" /\ closing = "none"
  /\ LET ready == scanner.index = Len(scanner.literal)
     IN /\ closing' = IF ready THEN "finalized" ELSE "not_ready"
        /\ scanner' = IF ready
                      THEN [ EmitToken(scanner, "literal", scanner.literal, scanner.start,
                                  scanner.offset + 1) EXCEPT !.state = "finished" ]
                      ELSE scanner
  /\ UNCHANGED runs

ScannerNext == FeedRun \/ FinalizeNumber \/ FinalizeLiteral

------------------------------------------------------------------------------
(* What a JSON text is made of (RFC 8259), against which the tokens are read. *)

AllDigits(s) == s # << >> /\ \A i \in 1 .. Len(s) : s[i] \in Digits
IsInteger(s)  == AllDigits(s) /\ (Len(s) > 1 => s[1] # "0")
IsFraction(s) == s = << >> \/ (Head(s) = "." /\ AllDigits(Tail(s)))
IsExponent(s) ==
  s = << >> \/ /\ Head(s) = "e"
               /\ \/ AllDigits(Tail(s))
                  \/ Len(s) > 1 /\ s[2] \in { "+", "-" } /\ AllDigits(SubSeq(s, 3, Len(s)))

IsNumber(s) ==
  LET u == IF s # << >> /\ Head(s) = "-" THEN Tail(s) ELSE s
  IN \E i \in 1 .. Len(u) : \E j \in i .. Len(u) :
       /\ IsInteger(SubSeq(u, 1, i))
       /\ IsFraction(SubSeq(u, i + 1, j))
       /\ IsExponent(SubSeq(u, j + 1, Len(u)))

\* The one text that is no JSON number and passes: an exponent may follow the
\* point at once.
IsNumberWithBarePoint(s) ==
  \E i \in 1 .. Len(s) - 1 :
    s[i] = "." /\ s[i + 1] = "e" /\ IsNumber(RemoveAt(s, i))

PassesAsNumber(s) == IsNumber(s) \/ IsNumberWithBarePoint(s)

\* Bytes of runs first .. last.
RunWidth(run) == IF run \in Items
                 THEN FoldLeft(LAMBDA sum, ch : sum + Width(ch), 0, Spelling[run]) ELSE 1
BytesOf(text) == FoldLeft(LAMBDA sum, run : sum + RunWidth(run), 0, text)
ByteOf(i) == BytesOf(SubSeq(runs, 1, i - 1))

\* The content of a string as far as it goes: a high surrogate is followed by a
\* low one and no low one comes without, and what does not complete a pair
\* begins within MaxStringBytes.
IsContent(items) ==
  \A i \in 1 .. Len(items) :
    /\ items[i] \in { "plain", "wide", "newline", "unit", "high", "low" }
    /\ (items[i] = "low") = (i > 1 /\ items[i - 1] = "high")
    /\ items[i] # "low" => 1 + BytesOf(SubSeq(items, 1, i - 1)) <= MaxStringBytes

ValueOf(items) ==
  LET kept == SelectSeq(items, LAMBDA item : item # "high")
  IN [ i \in 1 .. Len(kept) |-> CASE kept[i] = "low" -> "pair"
                                  [] kept[i] = "plain" -> "x"
                                  [] OTHER -> kept[i] ]

IsString(text) ==
  /\ Len(text) > 1 /\ Head(text) = "quote" /\ Last(text) = "quote"
  /\ IsContent(Front(Tail(text)))
  /\ Len(text) > 2 => text[Len(text) - 1] # "high"

Spells(text, token) ==
  CASE token.type = "punctuation" -> token.value = text /\ text[1] \in Punctuators
    [] token.type = "literal" -> token.value = text /\ text \in LiteralTexts
    [] token.type = "number"  -> token.value = text /\ PassesAsNumber(text)
    [] token.type = "string"  -> IsString(text) /\ token.value = ValueOf(Front(Tail(text)))

\* The runs of a token, whose bytes are exactly from .. to.
SpanOf(token) ==
  { << i, j >> \in (1 .. Len(runs)) \X (1 .. Len(runs)) :
      i <= j /\ ByteOf(i) = token.from /\ ByteOf(j + 1) = token.to }

Blank(first, last) == \A i \in first .. last : runs[i] \in Whitespace

\* Where the tokens so far end, as a number of runs.
LexedRuns ==
  IF scanner.tokens = << >> THEN 0
  ELSE CHOOSE j \in 1 .. Len(runs) : ByteOf(j + 1) = Last(scanner.tokens).to

\* What follows the last token, blanks in front dropped.
Rest ==
  LET starts == { i \in LexedRuns + 1 .. Len(runs) + 1 : Blank(LexedRuns + 1, i - 1) }
  IN SubSeq(runs, CHOOSE i \in starts : \A other \in starts : other <= i, Len(runs))

\* Some continuation of the text is a token.
Viable(text) ==
  \/ text = << >>
  \/ PassesAsNumber(text) \/ PassesAsNumber(Append(text, "1"))
  \/ \E l \in LiteralTexts : IsPrefix(text, l)
  \/ Head(text) = "quote" /\ IsContent(Tail(text))

\* Every token covers exactly the bytes of a well-formed JSON token and has the
\* value they spell, and only blanks lie between one token and the next.  A number
\* may also have a point followed by its exponent, which contradicts a comment:
\* NumbersAreJson below.
LexesOnlyJson ==
  \A k \in 1 .. Len(scanner.tokens) :
    LET token == scanner.tokens[k]
        ended == IF k = 1 THEN 0 ELSE scanner.tokens[k - 1].to
    IN \E span \in SpanOf(token) :
         /\ Spells(SubSeq(runs, span[1], span[2]), token)
         /\ ended <= token.from
         /\ \A i \in 1 .. span[1] - 1 : ByteOf(i) >= ended => runs[i] \in Whitespace

\* A text is refused only when no continuation of it is made of JSON tokens
\* within the limit on strings, and at the end only when what is pending is
\* neither a number nor a literal.
RefusesOnlyGarbage ==
  /\ scanner.state = "invalid" => ~Viable(Rest)
  /\ closing \in { "invalid", "not_ready" } => ~PassesAsNumber(Rest) /\ Rest \notin LiteralTexts

------------------------------------------------------------------------------
(* What the documentation says and the code does not do.                    *)

\* The comment on numberGrammarError(): what it finds no fault with is a well-formed
\* number of RFC 8259, so every number token is one.
NumbersAreJson ==
  \A k \in 1 .. Len(scanner.tokens) :
    scanner.tokens[k].type = "number" => IsNumber(scanner.tokens[k].value)
================================================================================
