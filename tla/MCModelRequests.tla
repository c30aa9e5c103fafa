-------------------------- MODULE MCModelRequests --------------------------
(***************************************************************************)
(* Small instances of ModelRequests: who spawned whom.                     *)
(***************************************************************************)
EXTENDS ModelRequests

\* Conversations 2 and 3 are subagents of 1, any other is on its own.
TwoChildren == [c \in 1..N |-> IF c \in {2, 3} THEN 1 ELSE 0]
=============================================================================
