-------------------------- MODULE ExecutionAuthority --------------------------
(***************************************************************************)
(* What an execution gate promises, whatever the stream did: the authority *)
(* to execute a call comes into being only when the gate is finished, goes *)
(* to the caller at most once, may be withdrawn until then, and never      *)
(* comes back once it was refused, withdrawn or taken.                     *)
(***************************************************************************)
EXTENDS Naturals

CONSTANT SourceKeys

VARIABLES
  authority,   \* of each call
  released     \* how often the caller was handed authority for each call

authorityVars == << authority, released >>

AuthorityStates == { "pending", "granted", "refused", "taken" }

AuthorityTypeOK ==
  /\ authority \in [ SourceKeys -> AuthorityStates ]
  /\ released \in [ SourceKeys -> Nat ]

Init ==
  /\ authority = [ k \in SourceKeys |-> "pending" ]
  /\ released = [ k \in SourceKeys |-> 0 ]

\* The gate finishes: every call's authority is granted or refused.
Settle ==
  /\ \A k \in SourceKeys : authority[k] = "pending"
  /\ authority' \in [ SourceKeys -> { "granted", "refused" } ]
  /\ UNCHANGED released

\* Evidence against the stream arrives after the gate finished.
Withdraw ==
  /\ \E lost \in SUBSET { k \in SourceKeys : authority[k] = "granted" } :
       authority' = [ k \in SourceKeys |->
                        IF k \in lost THEN "refused" ELSE authority[k] ]
  /\ UNCHANGED released

Take(k) ==
  /\ authority[k] = "granted"
  /\ authority' = [ authority EXCEPT ![k] = "taken" ]
  /\ released' = [ released EXCEPT ![k] = @ + 1 ]

Next == Settle \/ Withdraw \/ \E k \in SourceKeys : Take(k)

Spec == Init /\ [][Next]_authorityVars
==============================================================================
