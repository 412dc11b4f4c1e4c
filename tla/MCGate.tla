-------------------------------- MODULE MCGate --------------------------------
(***************************************************************************)
(* Small instances of the execution gate for TLC.  Every property checked  *)
(* here is a safety property and treats the source keys alike, and so do   *)
(* the provider's ids, so permuting them is sound.                         *)
(***************************************************************************)
EXTENDS ExecutionGate, TLC

\* A start event without a name: deltas bring it.
Missing == { NoName }

Symmetry == Permutations(SourceKeys) \cup Permutations(ToolCallIds)
              \cup Permutations(ToolIndices)
===============================================================================
