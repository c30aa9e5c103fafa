----------------------------- MODULE PermitPool -----------------------------
(***************************************************************************)
(* What a pool of permits promises its users: at most Cap of them hold a   *)
(* permit, nobody waits while one is free, and a permit given back goes to *)
(* whoever has waited longest.  A waiter may give up at any time.  The     *)
(* permit pool of the model requests (model-permits.ts) implements it in   *)
(* ModelRequests, and the approval coordinator of a batch of subagents     *)
(* (approval-coordinator.ts), with one permit, in Delegation.              *)
(***************************************************************************)
EXTENDS Naturals, Sequences, FiniteSets

CONSTANTS Users, Cap

VARIABLES
  holders,  \* who holds a permit
  waiting   \* who waits for one, oldest first

pool == <<holders, waiting>>

Init == holders = {} /\ waiting = <<>>

\* acquire() while a permit is free.
Take(u) ==
  /\ u \notin holders /\ Cardinality(holders) < Cap
  /\ holders' = holders \cup {u} /\ UNCHANGED waiting

\* acquire() while none is.
Join(u) ==
  /\ u \notin holders /\ Cardinality(holders) = Cap
  /\ waiting' = Append(waiting, u) /\ UNCHANGED holders

\* A release that nobody waits for.
Give(u) ==
  /\ u \in holders /\ waiting = <<>>
  /\ holders' = holders \ {u} /\ UNCHANGED waiting

\* A release that somebody waits for: the permit is handed to the oldest.
Hand(u) ==
  /\ u \in holders /\ waiting # <<>>
  /\ holders' = (holders \ {u}) \cup {Head(waiting)} /\ waiting' = Tail(waiting)

\* Waiters give up; those who stay keep their order.
GiveUp ==
  /\ \E n \in 0..Len(waiting) : \E kept \in [1..n -> 1..Len(waiting)] :
       /\ \A i, j \in 1..n : i < j => kept[i] < kept[j]
       /\ waiting' = [j \in 1..n |-> waiting[kept[j]]]
  /\ UNCHANGED holders

\* The process restarts with an empty pool.
Reset == holders' = {} /\ waiting' = <<>>

Next ==
  \/ \E u \in Users : Take(u) \/ Join(u) \/ Give(u) \/ Hand(u)
  \/ GiveUp \/ Reset

Spec == Init /\ [][Next]_pool
=============================================================================
