-------------------------------- MODULE MCText --------------------------------
(***************************************************************************)
(* The four machines that read a stream piece by piece, each checked       *)
(* against a definition over all of it: one behaviour runs one of them.    *)
(***************************************************************************)
EXTENDS Utf8Decoder, FrameSplitter, Scanner, MCJsonParser

VARIABLE machine  \* which of the four runs

\* Lead and continuation bytes at every boundary of RFC 3629: the byte order
\* mark, overlong forms (193, 224, 240), surrogates (237), the end of Unicode
\* (244) and a byte that starts nothing (255).
BoundaryBytes == { 65, 128, 187, 191, 193, 194, 224, 237, 239, 240, 244, 255 }

\* Enough for every shape of a number, "null", two tokens and a string.
TextCharacters ==
  { "0", "1", "-", "+", ".", "e", ",", "n", "u", "l", "x", " ", "quote" }

Init ==
  /\ machine \in { "decoder", "splitter", "scanner", "parser" }
  /\ DecoderInit /\ SplitterInit /\ ScannerInit /\ JsonInit

Next ==
  \/ /\ machine = "decoder" /\ DecoderNext
     /\ UNCHANGED << machine, splitterVars, scannerVars, vars >>
  \/ /\ machine = "splitter" /\ SplitterNext
     /\ UNCHANGED << machine, decoderVars, scannerVars, vars >>
  \/ /\ machine = "scanner" /\ ScannerNext
     /\ UNCHANGED << machine, decoderVars, splitterVars, vars >>
  \/ /\ machine = "parser" /\ JsonNext
     /\ UNCHANGED << machine, decoderVars, splitterVars, scannerVars >>

Spec ==
  Init /\ [][Next]_<< machine, decoderVars, splitterVars, scannerVars, vars >>

================================================================================
