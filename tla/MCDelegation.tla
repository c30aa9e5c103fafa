---------------------------- MODULE MCDelegation ----------------------------
(***************************************************************************)
(* An instance of Delegation for TLC: one parent asks for two writers and a   *)
(* reader, or for one writer; the other for one writer.                    *)
(***************************************************************************)
EXTENDS Delegation

CONSTANTS b1, b2, w1, w2, r1

MCAssigned == [b \in Batches |-> IF b = b1 THEN {{w1, w2, r1}, {w1}} ELSE {{w2}}]
=============================================================================
