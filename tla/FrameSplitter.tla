----------------------------- MODULE FrameSplitter -----------------------------
(***************************************************************************)
(* The display prefix of a guarded chat response (guardResponse() in       *)
(* packages/ai-sdk/src/wire.ts): each read is scanned for the blank lines  *)
(* that end a server-sent event, and what is released ends with the last   *)
(* event before the first that is not plain text.  Lines end with CR, LF   *)
(* or CRLF, and a read may end between the two bytes of a CRLF.            *)
(***************************************************************************)
EXTENDS Integers, Sequences, FiniteSets

CONSTANTS
  MaxRead,     \* bound on the bytes of one read
  MaxReceived  \* bound on the bytes of one response

\* "text" stands for the bytes of a display-only event, "other" for a byte that
\* makes textFrame() refuse the event it is part of.
WireBytes == { "CR", "LF", "text", "other" }

VARIABLES
  splitter,  \* the locals of guardResponse() that the scan uses
  received   \* the bytes read so far

splitterVars == << splitter, received >>

SplitterInit ==
  /\ splitter = [ released     |-> 0,       \* bytes given to the consumer
                  safeEnd      |-> 0,       \* end of the last text event seen
                  framed       |-> 0,       \* end of the last event that was read
                  holding      |-> FALSE,
                  lineHasBytes |-> FALSE,
                  wasCR        |-> FALSE ]
  /\ received = << >>

\* textFrame() of the bytes from one position to another.
TextFrame(bytes, from, to) == \A i \in from + 1 .. to : bytes[i] # "other"

\* Mutant of ScanByte: the LF of a CRLF is taken for a line of its own.
ScanByteEachEnds(s, bytes, i) ==
  CASE s.holding -> s
    [] ~s.holding /\ bytes[i] \in { "CR", "LF" } /\ s.lineHasBytes ->
         [ s EXCEPT !.lineHasBytes = FALSE ]
    [] ~s.holding /\ bytes[i] \in { "CR", "LF" } /\ ~s.lineHasBytes ->
         IF TextFrame(bytes, s.framed, i)
         THEN [ s EXCEPT !.framed = i, !.safeEnd = i ]
         ELSE [ s EXCEPT !.framed = i, !.holding = TRUE ]
    [] OTHER -> [ s EXCEPT !.lineHasBytes = TRUE ]

\* The body of the loop over the bytes of a read, for the i-th byte in all.
ScanByte(s, bytes, i) ==
  CASE s.holding -> s
    [] ~s.holding /\ s.wasCR /\ bytes[i] = "LF" ->
         [ s EXCEPT !.wasCR = FALSE,
                    !.safeEnd = IF @ = i - 1 THEN i ELSE @ ]
    [] ~s.holding /\ (bytes[i] = "CR" \/ (bytes[i] = "LF" /\ ~s.wasCR)) ->
         IF s.lineHasBytes
         THEN [ s EXCEPT !.lineHasBytes = FALSE, !.wasCR = bytes[i] = "CR" ]
         ELSE IF TextFrame(bytes, s.framed, i)
         THEN [ s EXCEPT !.framed = i, !.safeEnd = i, !.wasCR = bytes[i] = "CR" ]
         ELSE [ s EXCEPT !.framed = i, !.holding = TRUE, !.wasCR = FALSE ]
    [] OTHER -> [ s EXCEPT !.lineHasBytes = TRUE, !.wasCR = FALSE ]

RECURSIVE ScanFrom(_, _, _)
ScanFrom(s, bytes, i) ==
  IF i > Len(bytes) THEN s ELSE ScanFrom(ScanByte(s, bytes, i), bytes, i + 1)

\* One read: afterwards everything safe has been given to the consumer.
SplitterNext ==
  \E n \in 1 .. MaxRead : \E read \in [ 1 .. n -> WireBytes ] :
    /\ Len(received) + n <= MaxReceived
    /\ received' = received \o read
    /\ LET scanned == ScanFrom(splitter, received', Len(received) + 1)
       IN splitter' = [ scanned EXCEPT !.released = scanned.safeEnd ]

------------------------------------------------------------------------------
(* The reference: lines and events of the whole byte sequence.              *)

\* Positions of the bytes that end a line, and where the next line begins.
LineEnds(b) ==
  { i \in DOMAIN b : b[i] = "CR" \/ (b[i] = "LF" /\ ~(i > 1 /\ b[i - 1] = "CR")) }

After(b, i) == IF b[i] = "CR" /\ i < Len(b) /\ b[i + 1] = "LF" THEN i + 2 ELSE i + 1

\* Events end with an empty line.
EventEnds(b) ==
  { i \in LineEnds(b) : i = 1 \/ \E j \in LineEnds(b) : j < i /\ After(b, j) = i }

\* The end of the events that come before the first byte of other than text.
DisplayEnd(b) ==
  LET others == { i \in DOMAIN b : b[i] = "other" }
      plain  == { i \in EventEnds(b) : \A o \in others : i < o }
  IN IF plain = {} THEN 0
     ELSE After(b, CHOOSE i \in plain : \A j \in plain : j <= i) - 1

\* However the response was cut into reads, the consumer has seen exactly the
\* whole events before the first one that is not plain text, also when a read
\* ended inside a CRLF or the other bytes came in the same read.
DisplaysWholeEvents == splitter.released = DisplayEnd(received)
================================================================================
