------------------------------ MODULE BatchRelease ------------------------------
(***************************************************************************)
(* What a guarded chat promises of the responses it fetches.  A response   *)
(* offers calls while it is read; they become executable all together and  *)
(* once, in place of whatever was executable before, or never; a granted   *)
(* call runs at most once, with the identifier and the input it had.       *)
(***************************************************************************)
CONSTANTS
  Responses, ToolCallIds, Inputs

VARIABLES
  offered,    \* per response: the calls that were read of it
  outcome,    \* per response: "open", "allowed" or "refused"
  authority,  \* the grants that can be executed now
  executed    \* the grants that were executed

batchVars == << offered, outcome, authority, executed >>

Calls == [ id : ToolCallIds, input : Inputs ]

BatchInit ==
  /\ offered = [ r \in Responses |-> {} ]
  /\ outcome = [ r \in Responses |-> "open" ]
  /\ authority = {}
  /\ executed = {}

Offer(r) ==
  /\ outcome[r] = "open"
  /\ \E calls \in SUBSET Calls : offered' = [ offered EXCEPT ![r] = @ \cup calls ]
  /\ UNCHANGED << outcome, authority, executed >>

\* The whole batch, and only one that has one call for an identifier.
Allow(r) ==
  /\ outcome[r] = "open"
  /\ \A one, other \in offered[r] : one.id = other.id => one = other
  /\ outcome' = [ outcome EXCEPT ![r] = "allowed" ]
  /\ authority' = { [ owner |-> r, id |-> call.id, input |-> call.input ] :
                      call \in offered[r] }
  /\ UNCHANGED << offered, executed >>

Refuse(r) ==
  /\ outcome[r] = "open"
  /\ outcome' = [ outcome EXCEPT ![r] = "refused" ]
  /\ authority' \in { authority, {} }
  /\ UNCHANGED << offered, executed >>

Revoke ==
  /\ authority' = {}
  /\ UNCHANGED << offered, outcome, executed >>

\* The authority goes with the attempt, whether or not the tool then runs.
Execute(grant) ==
  /\ grant \in authority \ executed
  /\ authority' = authority \ { grant }
  /\ executed' \in { executed, executed \cup { grant } }
  /\ UNCHANGED << offered, outcome >>

BatchNext ==
  \/ \E r \in Responses : Offer(r) \/ Allow(r) \/ Refuse(r)
  \/ Revoke
  \/ \E grant \in authority : Execute(grant)

BatchSpec == BatchInit /\ [][BatchNext]_batchVars
================================================================================
