------------------------------ MODULE MCGuardedChat ------------------------------
(***************************************************************************)
(* A guarded chat with two calls, each with its identifier and input, that *)
(* a response brings in one frame or in two, for TLC.                      *)
(***************************************************************************)
EXTENDS GuardedChat

CONSTANTS i1, i2, x, y

First == [ id |-> i1, input |-> x ]
Second == [ id |-> i2, input |-> y ]

OneFrame == { << First, Second >> }
TwoFrames == { << First >>, << Second >> }
===============================================================================
