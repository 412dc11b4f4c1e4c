---------------------------- MODULE ArgumentParser ----------------------------
(***************************************************************************)
(* What the coordinator relies on of the incremental JSON parser it owns   *)
(* per call: a summary of the parser's state, the summaries one push() may *)
(* lead to, and the results finish() may return in each.                   *)
(*                                                                         *)
(*   empty     nothing but whitespace so far                               *)
(*   open      a value has begun and needs more input                      *)
(*   scalar    a root number or literal that only the end of the stream    *)
(*             can terminate                                               *)
(*   closed    the root value is complete, nothing follows it              *)
(*   trailing  the root value is complete, something follows it            *)
(*   invalid   malformed input or a duplicate key, no limit code recorded  *)
(*   limited   an E_LIMIT_* code is among the parser's diagnostics         *)
(***************************************************************************)

CONSTANT CloseContainersAtFinish  \* repairs.closeContainersAtFinish = "safe-only"

ASSUME CloseContainersAssumption == CloseContainersAtFinish \in BOOLEAN

ParserStates ==
  { "empty", "open", "scalar", "closed", "trailing", "invalid", "limited" }

ParserOutcomes == { "valid", "truncated", "salvaged", "invalid" }

\* Summaries reachable from p by one push() of a piece of argument text. A
\* completed root never reopens, and a limit or a malformation is never undone
\* (a duplicate key leaves the parser running, so a limit may still follow).
PushArguments(p) ==
  CASE p = "empty"    -> ParserStates
    [] p \in { "open", "scalar" } -> ParserStates \ { "empty" }
    [] p = "closed"   -> { "closed", "trailing", "invalid", "limited" }
    [] p = "trailing" -> { "trailing", "invalid", "limited" }
    [] p = "invalid"  -> { "invalid", "limited" }
    [] p = "limited"  -> { "limited" }

Result(outcome, executable) ==
  [ outcome |-> outcome, executable |-> executable ]

\* finish({reason}): outcome and executable flag. A scalar is finalised by a
\* "complete" end only, and then turns out valid, malformed ("01"), or valid
\* but followed by the first bytes of an unfinished character; inside a container
\* that was left open, it may turn out malformed as well.
FinishParser(p, reason) ==
  LET incomplete == { Result("truncated", FALSE) } \cup
        { r \in { Result("salvaged", FALSE) } :
            CloseContainersAtFinish /\ reason # "complete" }
  IN CASE p = "empty"                     -> incomplete
       [] p = "open"                      -> incomplete \cup
            { r \in { Result("invalid", FALSE) } : reason = "complete" }
       [] p = "scalar" /\ reason = "complete" ->
            { Result("valid", TRUE), Result("valid", FALSE),
              Result("invalid", FALSE) }
       [] p = "scalar" /\ reason # "complete" -> { Result("truncated", FALSE) }
       [] p = "closed"                     -> { Result("valid", reason = "complete") }
       [] p = "trailing"                   -> { Result("valid", FALSE) }
       [] p \in { "invalid", "limited" }   -> { Result("invalid", FALSE) }
==============================================================================
