---------------------------- MODULE MCJsonParser ----------------------------
(***************************************************************************)
(* Small instances of the JSON parser, with the JSON grammar generated up  *)
(* to a bounded length as the reference.                                   *)
(***************************************************************************)
EXTENDS JsonParser, SequencesExt

CONSTANT MaxTokens   \* tokens of the longest reference text

\* The texts of RFC 8259 with n tokens, as three families: values, the element
\* lists of arrays and the member lists of objects with the keys they use.
Grammar[n \in 0 .. MaxTokens] ==
  LET scalars  == IF n = 1 THEN { << "scalar" >> } \cup { << k >> : k \in Keys } ELSE {}
      arrays   == IF n < 2 THEN {}
                  ELSE { << "[" >> \o e \o << "]" >> : e \in Grammar[n - 2].elements }
      objects  == IF n < 2 THEN {}
                  ELSE { << "{" >> \o m.text \o << "}" >> : m \in Grammar[n - 2].members }
      values   == scalars \cup arrays \cup objects
      longer   == UNION { { v \o << "," >> \o e :
                              v \in Grammar[i].values,
                              e \in Grammar[n - 1 - i].elements \ { << >> } } :
                            i \in 1 .. n - 2 }
      member   == IF n < 3 THEN {}
                  ELSE { [ keys |-> { k }, text |-> << k, ":" >> \o v ] :
                           k \in Keys, v \in Grammar[n - 2].values }
      more     == UNION { { [ keys |-> f.keys \cup m.keys,
                              text |-> f.text \o << "," >> \o m.text ] :
                              << f, m >> \in
                                { fm \in { f \in Grammar[i].members :
                                             Cardinality(f.keys) = 1 }
                                         \X Grammar[n - 1 - i].members :
                                    /\ fm[1].keys \cap fm[2].keys = {}
                                    /\ fm[2].text # << >> } } :
                            i \in 3 .. n - 4 }
  IN [ values   |-> values,
       elements |-> IF n = 0 THEN { << >> } ELSE values \cup longer,
       members  |-> IF n = 0 THEN { [ keys |-> {}, text |-> << >> ] }
                    ELSE member \cup more ]

\* The keys are interchangeable, and every property is a safety property.
Symmetry == Permutations(Keys)

ValidTexts == UNION { Grammar[n].values : n \in 1 .. MaxTokens }

RECURSIVE Depth(_, _)
\* How deep the containers of a text are nested, from depth d on.
Depth(s, d) ==
  IF s = << >> THEN d
  ELSE LET rest == Depth(Tail(s), d + (CASE Head(s) \in Openers -> 1
                                         [] Head(s) \in Closers -> -1
                                         [] OTHER -> 0))
       IN IF rest > d THEN rest ELSE d

\* Texts that become s when some of their scalars and strings are left out.
Kept(s, positions) ==
  SelectSeq([ i \in DOMAIN s |-> << i, s[i] >> ], LAMBDA e : e[1] \in positions)

WithoutStrays(s) ==
  { [ i \in DOMAIN kept |-> kept[i][2] ] :
      kept \in { Kept(s, DOMAIN s \ strays) :
                   strays \in SUBSET { i \in DOMAIN s :
                                         s[i] \in Keys \cup { "scalar" } } } }

\* Any JSON text within the limits is executable once the stream has completed,
\* however it was cut into chunks and whenever events were drained (SPEC.md,
\* "Valid JSON equivalence").
ValidTextExecutes ==
  /\ finishMeta = "complete"
  /\ text \in ValidTexts
  /\ Depth(text, 0) <= MaxDepth
  /\ ~parser.overflow
  => result = Result("valid", TRUE)

\* Whatever executes is JSON with unique keys, but for scalars and strings that
\* stand where an object expects none; without objects it is JSON.
ExecutableUpToStrays ==
  result.executable =>
    /\ WithoutStrays(text) \cap ValidTexts # {}
    /\ "{" \notin ToSet(text) => text \in ValidTexts

\* A salvaged text becomes JSON by closing what is open, nothing else: no value,
\* colon or key is made up, and no comma dropped. (Two things are lost silently:
\* half a character at the end; and an empty text is salvaged as no value at all.)
SalvageOnlyCloses ==
  LET closers == [ i \in DOMAIN parser.stack |->
                     IF parser.stack[i].opener = "{" THEN "}" ELSE "]" ]
  IN /\ result.outcome = "salvaged" /\ text # << >> /\ ~parser.partial
     /\ Len(text) + Len(closers) <= MaxTokens
     =>
       WithoutStrays(text \o Reverse(closers)) \cap ValidTexts # {}

\* docs/THREAT_MODEL.md: malformed input never reaches execute.
ExecutableIsValid == result.executable => text \in ValidTexts
=============================================================================
