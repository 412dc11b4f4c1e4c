------------------------------ MODULE Utf8Decoder ------------------------------
(***************************************************************************)
(* Utf8Decoder (utf8/decoder.ts): bytes arrive in chunks that may split a  *)
(* character or the byte order mark.  The reference is the table of well-  *)
(* formed byte sequences of RFC 3629, applied to all bytes at once.        *)
(***************************************************************************)
EXTENDS Integers, Sequences, SequencesExt

CONSTANTS
  Bytes,    \* the bytes in use
  MaxBytes  \* bound on the bytes of one stream

VARIABLES
  decoder,  \* the private fields of the decoder
  decoded,  \* observer: the text the parser accepts, as code points
  fault,    \* observer: the first error of the stream
  arrived   \* observer: the bytes so far

decoderVars == << decoder, decoded, fault, arrived >>

NoFault == [ kind |-> "none", at |-> 0 ]

NewDecoder ==
  [ pending  |-> << >>,  \* bytes of an incomplete sequence
    expected |-> 0,      \* pendingExpected
    offset   |-> 0,      \* totalOffset
    bom      |-> << >>,  \* bomBuffer
    checked  |-> FALSE ] \* checkedForBom

DecoderInit ==
  /\ decoder = NewDecoder
  /\ decoded = << >> /\ fault = NoFault /\ arrived = << >>

Bom == << 239, 187, 191 >>

Least(m, n) == IF m < n THEN m ELSE n

IsContinuation(b) == b \div 64 = 2

\* The length that a lead byte announces, 0 for a byte that is no lead.
SequenceLength(b) ==
  CASE b <= 127      -> 1
    [] b \div 32 = 6  -> 2
    [] b \div 16 = 14 -> 3
    [] b \div 8 = 30  -> 4
    [] OTHER          -> 0

------------------------------------------------------------------------------
(* decode(); the work on a chunk is the decoder, the bytes left, the code   *)
(* points and the first error, with how many code points precede it.        *)

CodePoint(s) ==
  CASE Len(s) = 1 -> s[1]
    [] Len(s) = 2 -> (s[1] % 32) * 64 + (s[2] % 64)
    [] Len(s) = 3 -> (s[1] % 16) * 4096 + (s[2] % 64) * 64 + (s[3] % 64)
    [] Len(s) = 4 -> (s[1] % 8) * 262144 + (s[2] % 64) * 4096
                       + (s[3] % 64) * 64 + (s[4] % 64)

Minimum == << 0, 128, 2048, 65536 >>

\* decodeSequence()
SequenceError(s) ==
  LET c == CodePoint(s) IN
  CASE \E i \in 2 .. Len(s) : ~IsContinuation(s[i]) -> "invalid_continuation"
    [] /\ \A i \in 2 .. Len(s) : IsContinuation(s[i])
       /\ c < Minimum[Len(s)] -> "overlong"
    [] /\ \A i \in 2 .. Len(s) : IsContinuation(s[i])
       /\ c > 1114111 \/ c \in 55296 .. 57343 -> "out_of_range"
    [] OTHER -> "none"

Take(w, n) ==
  [ w EXCEPT !.left = SubSeq(@, n + 1, Len(@)), !.decoder.offset = @ + n ]

RecordError(w, kind, at) ==
  IF w.error # NoFault THEN w
  ELSE [ w EXCEPT !.error = [ kind |-> kind, at |-> at ], !.valid = Len(w.codes) ]

NoPending(w) == [ w EXCEPT !.decoder.pending = << >>, !.decoder.expected = 0 ]

\* Completes the sequence that the chunk before left open, if there is one.
CompletePending(w) ==
  LET d       == w.decoder
      need    == d.expected - Len(d.pending)
      follows == { n \in 0 .. need : /\ n <= Len(w.left)
                                     /\ \A i \in 1 .. n : IsContinuation(w.left[i]) }
      n       == CHOOSE m \in follows : \A k \in follows : k <= m
      whole   == d.pending \o SubSeq(w.left, 1, n)
      start   == d.offset - Len(d.pending)
      kind    == SequenceError(whole)
  IN CASE d.pending = << >> -> w
       [] d.pending # << >> /\ n = need ->
            LET done == NoPending(Take(w, n))
            IN IF kind # "none" THEN RecordError(done, kind, start)
               ELSE [ done EXCEPT !.codes = Append(@, CodePoint(whole)) ]
       [] d.pending # << >> /\ n < need /\ n < Len(w.left) ->
            NoPending(RecordError(Take(w, n), "invalid_continuation", start))
       [] OTHER -> [ Take(w, n) EXCEPT !.decoder.pending = whole ]

\* Mutant of NextSequence: a short sequence is kept whatever its bytes are.
NextSequenceKeepsAll(w) ==
  LET b == Head(w.left)
      n == SequenceLength(b)
      s == SubSeq(w.left, 1, n)
  IN CASE n = 0 -> Take(RecordError(w, "invalid_start_byte", w.decoder.offset), 1)
       [] n > Len(w.left) ->
            [ Take(w, Len(w.left)) EXCEPT !.decoder.pending = w.left, !.decoder.expected = n ]
       [] n \in 1 .. Len(w.left) ->
            IF SequenceError(s) = "none"
            THEN [ Take(w, n) EXCEPT !.codes = Append(@, CodePoint(s)) ]
            ELSE Take(RecordError(w, SequenceError(s), w.decoder.offset), 1)

\* A sequence that the chunk cuts short is kept, unless it is already broken;
\* after an error, decoding goes on with the next byte.
NextSequence(w) ==
  LET b      == Head(w.left)
      n      == SequenceLength(b)
      s      == SubSeq(w.left, 1, n)
      broken == \E i \in 2 .. Len(w.left) : ~IsContinuation(w.left[i])
  IN CASE n = 0 -> Take(RecordError(w, "invalid_start_byte", w.decoder.offset), 1)
       [] n > Len(w.left) /\ broken ->
            Take(RecordError(w, "invalid_continuation", w.decoder.offset), 1)
       [] n > Len(w.left) /\ ~broken ->
            [ Take(w, Len(w.left)) EXCEPT !.decoder.pending = w.left, !.decoder.expected = n ]
       [] n \in 1 .. Len(w.left) ->
            IF SequenceError(s) = "none"
            THEN [ Take(w, n) EXCEPT !.codes = Append(@, CodePoint(s)) ]
            ELSE Take(RecordError(w, SequenceError(s), w.decoder.offset), 1)

RECURSIVE DecodeRest(_)
DecodeRest(w) == IF w.left = << >> THEN w ELSE DecodeRest(NextSequence(w))

Work(d, bytes) ==
  [ decoder |-> d, left |-> bytes, codes |-> << >>, error |-> NoFault, valid |-> 0 ]

\* The first three bytes wait until they are, or cannot be, a byte order mark.
Decode(d, chunk) ==
  LET head == d.bom \o chunk
      body == IF IsPrefix(Bom, head) THEN SubSeq(head, 4, Len(head)) ELSE head
      from == IF IsPrefix(Bom, head) THEN 3 ELSE d.offset
  IN CASE d.checked -> DecodeRest(CompletePending(Work(d, chunk)))
       [] ~d.checked /\ Len(head) < 3 /\ IsPrefix(head, Bom) ->
            Work([ d EXCEPT !.bom = head ], << >>)
       [] OTHER ->
            DecodeRest(Work([ d EXCEPT !.checked = TRUE, !.offset = from,
                                       !.bom = SubSeq(head, 1, Least(3, Len(head))) ], body))

HasIncomplete(d) == d.pending # << >> \/ (~d.checked /\ d.bom # << >>)

IncompleteByteOffset(d) == d.offset - Len(d.pending)

\* The parser takes the text before the first error, and then nothing more.
DecoderNext ==
  /\ fault = NoFault
  /\ \E n \in 1 .. MaxBytes - Len(arrived) : \E chunk \in [ 1 .. n -> Bytes ] :
       LET w == Decode(decoder, chunk) IN
       /\ decoder' = w.decoder
       /\ decoded' = decoded \o (IF w.error = NoFault THEN w.codes
                                 ELSE SubSeq(w.codes, 1, w.valid))
       /\ fault' = w.error
       /\ arrived' = arrived \o chunk

------------------------------------------------------------------------------
(* The reference: RFC 3629, section 4.                                      *)

Tail80BF == 128 .. 191

WellFormed(s) ==
  CASE Len(s) = 1 -> s[1] \in 0 .. 127
    [] Len(s) = 2 -> s[1] \in 194 .. 223 /\ s[2] \in Tail80BF
    [] Len(s) = 3 -> /\ s[3] \in Tail80BF
                     /\ \/ s[1] = 224 /\ s[2] \in 160 .. 191
                        \/ s[1] \in 225 .. 236 \cup { 238, 239 } /\ s[2] \in Tail80BF
                        \/ s[1] = 237 /\ s[2] \in 128 .. 159
    [] Len(s) = 4 -> /\ s[3] \in Tail80BF /\ s[4] \in Tail80BF
                     /\ \/ s[1] = 240 /\ s[2] \in 144 .. 191
                        \/ s[1] \in 241 .. 243 /\ s[2] \in Tail80BF
                        \/ s[1] = 244 /\ s[2] \in 128 .. 143
    [] OTHER -> FALSE

Encoded(c) ==
  CASE c < 128   -> << c >>
    [] c \in 128 .. 2047 -> << 192 + (c \div 64), 128 + (c % 64) >>
    [] c \in 2048 .. 65535 ->
         << 224 + (c \div 4096), 128 + ((c \div 64) % 64), 128 + (c % 64) >>
    [] c > 65535 -> << 240 + (c \div 262144), 128 + ((c \div 4096) % 64),
                       128 + ((c \div 64) % 64), 128 + (c % 64) >>

RECURSIVE GoodLength(_)
\* The length of the longest prefix of s that is a text.
GoodLength(s) ==
  LET starts == { n \in 1 .. 4 : n <= Len(s) /\ WellFormed(SubSeq(s, 1, n)) }
  IN IF starts = {} THEN 0
     ELSE LET n == CHOOSE m \in starts : TRUE
          IN n + GoodLength(SubSeq(s, n + 1, Len(s)))

\* What is wrong with bytes that begin with no character.
Malformation(s) ==
  LET n == SequenceLength(s[1]) IN
  CASE n = 0 -> "invalid_start_byte"
    [] n > 0 /\ \E i \in 2 .. n : i <= Len(s) /\ s[i] \notin Tail80BF ->
         "invalid_continuation"
    [] OTHER -> IF \/ s[1] \in { 192, 193 }
                   \/ s[1] = 224 /\ s[2] < 160
                   \/ s[1] = 240 /\ s[2] < 144
                THEN "overlong" ELSE "out_of_range"

\* The bytes after the last whole character are the start of a sequence.
Waits(s) ==
  s # << >> /\ SequenceLength(s[1]) > Len(s) /\ \A i \in 2 .. Len(s) : s[i] \in Tail80BF

\* However the bytes were cut into chunks, the parser gets the longest text
\* that they begin with, after one byte order mark; the first error has the kind
\* and the place that the whole stream gives it, and a stream that stops inside
\* a character is known to be incomplete from the place where that starts.
DecodesAsWhole ==
  LET skipped == IF IsPrefix(Bom, arrived) THEN 3 ELSE 0
      body    == SubSeq(arrived, skipped + 1, Len(arrived))
      good    == GoodLength(body)
      rest    == SubSeq(body, good + 1, Len(body))
  IN /\ FlattenSeq([ i \in DOMAIN decoded |-> Encoded(decoded[i]) ])
          = SubSeq(body, 1, good)
     /\ fault = IF rest = << >> \/ Waits(rest) THEN NoFault
                ELSE [ kind |-> Malformation(rest), at |-> skipped + good ]
     /\ fault = NoFault =>
          /\ HasIncomplete(decoder) <=> Waits(rest)
          /\ HasIncomplete(decoder) => IncompleteByteOffset(decoder) = skipped + good
================================================================================
