-------------------------- MODULE DelegationProofs --------------------------
(***************************************************************************)
(* Proofs about Delegation, for every set of batches and children and      *)
(* every length of the lease: sessions of writers never meet (OneSession), *)
(* the clock of a lease stops and starts with the approvals                *)
(* (DeadlineHolds), and the approval coordinator of a batch implements a   *)
(* pool of one permit (CoordinatorImplemented).                            *)
(*                                                                         *)
(* The first invariant (IndInv) follows a batch from the lease it takes to *)
(* the worktrees it creates: from the check of the quarantine until its    *)
(* children begin nothing is unresolved, because only the holder of the    *)
(* lease records artifacts.  What children, timers and the user's          *)
(* decisions do leaves all of it alone, or resolves artifacts (Quiet).     *)
(*                                                                         *)
(* The second (Turns) ties the queue of a batch to what its children do    *)
(* (Line) and the lease to who asks and to the timers (Lease).  Batches    *)
(* share no child (Apart), so a step of one (Moved) owes the invariant for *)
(* that batch only (OneBatch).  A turn is lost or handed on in one way,    *)
(* whether by a decision, by Auto, by a stop or by a deadline (TurnPasses, *)
(* QueueLeft).                                                             *)
(***************************************************************************)
EXTENDS Delegation, SequenceTheorems, FiniteSetTheorems, TLAPS

\* The types of what the argument is about.
Kinds ==
  /\ pc \in [Batches -> {"off", "resolve", "acquire", "preflight", "create",
                         "undo", "children", "integrate"}]
  /\ kids \in [Batches -> SUBSET Kids] /\ trees \in [Batches -> SUBSET Kids]
  /\ holder \in Batches \cup {Nobody}
  /\ artifact \in [Kids -> {"none", "active", "quarantined", "resolved"}]

\* A batch has worktrees only under the lease it took before it looked at the
\* quarantine, and leaves no row that is not of its own children.
Session(b) ==
  /\ pc[b] \in {"off", "resolve", "acquire", "preflight"} => trees[b] = {}
  /\ pc[b] \in {"preflight", "create", "undo"} => holder = b
  /\ pc[b] \in {"create", "undo"} => Unresolved = {}
  /\ trees[b] # {} => holder = b /\ Unresolved \subseteq kids[b]

IndInv == Kinds /\ \A b \in Batches : Session(b)

\* A step that moves no batch and records nothing.
Quiet ==
  /\ UNCHANGED <<pc, kids, trees, holder>>
  /\ artifact' \in [Kids -> {"none", "active", "quarantined", "resolved"}]
  /\ \A c \in Kids : artifact'[c] \in {"active", "quarantined"}
                     => artifact[c] \in {"active", "quarantined"}

LEMMA QuietKeeps ==
  ASSUME IndInv, Quiet
  PROVE  IndInv'
<1>1. Kinds'
  BY DEF IndInv, Kinds, Quiet
<1>2. Unresolved' \subseteq Unresolved
  BY DEF Quiet, Unresolved
<1>3. ASSUME NEW b \in Batches PROVE Session(b)'
  <2>1. Session(b)
    BY DEF IndInv
  <2> QED
    BY <1>2, <2>1 DEF Session, Quiet
<1> QED
  BY <1>1, <1>3 DEF IndInv

\* A child is over: its row, if it has one, is resolved.
LEMMA LeavesQuiet ==
  ASSUME IndInv, NEW b \in Batches, NEW c \in Kids, NEW kept, Leaves(b, c, kept)
  PROVE  /\ artifact' \in [Kids -> {"none", "active", "quarantined", "resolved"}]
         /\ \A k \in Kids : artifact'[k] \in {"active", "quarantined"}
                            => artifact[k] \in {"active", "quarantined"}
BY DEF Leaves, IndInv, Kinds

\* What the user does to a batch at work.
LEMMA UserQuiet ==
  ASSUME IndInv, NEW b \in Batches, SetAuto(b) \/ Stop(b)
  PROVE  Quiet
<1> USE DEF Quiet, IndInv, Kinds
<1>1. CASE SetAuto(b)
  BY <1>1 DEF SetAuto, Settles, durable
<1>2. CASE Stop(b)
  BY <1>2 DEF Stop, Abort, lease, durable
<1> QED
  BY <1>1, <1>2

\* What its children, their gates and their timers do.
LEMMA ChildrenQuiet ==
  ASSUME IndInv, NEW b \in Batches, NEW c \in Kids,
         \/ Gate(b, c) \/ Decide(b, c) \/ TimerFires(b, c) \/ LoopEnds(b, c)
         \/ Collected(b, c) \/ Judged(b, c) \/ Cleaned(b, c)
  PROVE  Quiet
<1> USE DEF Quiet, IndInv, Kinds
<1>1. CASE Gate(b, c)
  BY <1>1 DEF Gate, durable
<1>2. CASE Decide(b, c)
  BY <1>2 DEF Decide, Settles, durable
<1>3. CASE TimerFires(b, c)
  BY <1>3 DEF TimerFires, Abort, lease, durable
<1>4. CASE LoopEnds(b, c)
  <2>1. UNCHANGED <<pc, kids, trees, holder>> /\ (UNCHANGED artifact \/ Leaves(b, c, FALSE))
    BY <1>4 DEF LoopEnds, batch, lease
  <2> QED
    BY <2>1, LeavesQuiet
<1>5. CASE Collected(b, c)
  <2>1. UNCHANGED <<pc, kids, trees, holder>> /\ (UNCHANGED artifact \/ Leaves(b, c, FALSE))
    BY <1>5 DEF Collected, batch, lease
  <2> QED
    BY <2>1, LeavesQuiet
<1>6. CASE Judged(b, c)
  <2>1. UNCHANGED <<pc, kids, trees, holder>> /\ \E kept \in BOOLEAN : Leaves(b, c, kept)
    BY <1>6 DEF Judged, batch, lease
  <2> QED
    BY <2>1, LeavesQuiet
<1>7. CASE Cleaned(b, c)
  BY <1>7 DEF Cleaned, batch, lease
<1> QED
  BY <1>1, <1>2, <1>3, <1>4, <1>5, <1>6, <1>7

\* Time passes, or the user resolves an artifact.
LEMMA RestQuiet ==
  ASSUME IndInv, Tick \/ (\E c \in Kids : Resolve(c)) \/ UNCHANGED vars
  PROVE  Quiet
<1> USE DEF Quiet, IndInv, Kinds
<1>1. CASE Tick
  BY <1>1 DEF Tick, batch, durable
<1>2. CASE UNCHANGED vars
  BY <1>2 DEF vars, batch, lease, durable
<1>3. ASSUME NEW c \in Kids, Resolve(c) PROVE Quiet
  <2>1. UNCHANGED <<pc, kids, trees, holder>>
    BY <1>3 DEF Resolve, batch, lease
  <2>2. \/ UNCHANGED artifact
        \/ \E live \in BOOLEAN :
             artifact' = [artifact EXCEPT ![c] = IF live THEN "resolved" ELSE "none"]
    BY <1>3 DEF Resolve, Settled
  <2> QED
    BY <2>1, <2>2
<1> QED
  BY <1>1, <1>2, <1>3

-----------------------------------------------------------------------------
(* What a batch does by itself.  *)

\* The children begin without writers: no row is written.
LEMMA BeginNone ==
  ASSUME IndInv, NEW b \in Batches, NEW held \in BOOLEAN, Begin(b, {}, held)
  PROVE  pc' = [pc EXCEPT ![b] = "children"] /\ artifact' = artifact
<1>1. artifact' = [c \in Kids |-> IF c \in {} THEN "active" ELSE artifact[c]]
  BY DEF Begin
<1> QED
  BY <1>1 DEF Begin, IndInv, Kinds

\* A step of a batch that has no worktree and records nothing: its place may change, to
\* where it needs the lease only if it has it, and it may give up its own lease.
LEMMA MoveKeeps ==
  ASSUME IndInv, NEW b \in Batches, trees[b] = {}, UNCHANGED <<trees, artifact>>,
         NEW place \in {"off", "resolve", "acquire", "preflight", "create", "children"},
         pc' = [pc EXCEPT ![b] = place], kids' \in [Batches -> SUBSET Kids],
         \A q \in Batches \ {b} : kids'[q] = kids[q],
         holder' \in Batches \cup {Nobody},
         holder' = holder \/ holder = b \/ holder = Nobody,
         place \in {"preflight", "create"} => holder' = b,
         place = "create" => Unresolved = {}
  PROVE  IndInv'
<1>1. Kinds'
  BY DEF IndInv, Kinds
<1>2. Unresolved' = Unresolved
  BY DEF Unresolved
<1>3. Session(b)'
  BY <1>2 DEF IndInv, Kinds, Session
<1>4. ASSUME NEW q \in Batches \ {b} PROVE Session(q)'
  <2>1. Session(q) /\ pc'[q] = pc[q] /\ q # Nobody
    BY DelegationAssumption DEF IndInv, Kinds
  <2> QED
    BY <1>2, <2>1 DEF Session
<1> QED
  BY <1>1, <1>3, <1>4 DEF IndInv

\* From the call to the lease and the check of the quarantine.
LEMMA PrepareStep ==
  ASSUME IndInv, NEW b \in Batches,
         \/ Resolved(b) \/ Acquire(b) \/ Preflight(b)
         \/ \E K \in Assigned[b], on \in BOOLEAN : Spawn(b, K, on)
  PROVE  IndInv'
<1> USE DEF IndInv, Kinds
<1>1. ASSUME NEW K \in Assigned[b], NEW on \in BOOLEAN, Spawn(b, K, on) PROVE IndInv'
  <2>1. /\ trees[b] = {} /\ UNCHANGED <<trees, artifact, holder>>
        /\ pc' = [pc EXCEPT ![b] = "resolve"] /\ kids' = [kids EXCEPT ![b] = K]
    BY <1>1 DEF Spawn, Session, lease, durable
  <2>2. K \in SUBSET Kids
    BY DelegationAssumption
  <2>3. kids' \in [Batches -> SUBSET Kids] /\ \A q \in Batches \ {b} : kids'[q] = kids[q]
    BY <2>1, <2>2
  <2> QED
    BY <2>1, <2>3, MoveKeeps
<1>2. CASE Resolved(b)
  <2>1. trees[b] = {} /\ UNCHANGED <<trees, holder>>
    BY <1>2 DEF Resolved, Session, lease
  <2>2. CASE pc' = [pc EXCEPT ![b] = "off"] /\ kids' = [kids EXCEPT ![b] = {}] /\ UNCHANGED artifact
    <3>1. kids' \in [Batches -> SUBSET Kids] /\ \A q \in Batches \ {b} : kids'[q] = kids[q]
      BY <2>2
    <3> QED
      BY <2>1, <2>2, <3>1, MoveKeeps
  <2>3. CASE pc' = [pc EXCEPT ![b] = "acquire"] /\ UNCHANGED <<kids, artifact>>
    BY <2>1, <2>3, MoveKeeps
  <2>4. CASE Begin(b, {}, FALSE) /\ UNCHANGED kids
    BY <2>1, <2>4, BeginNone, MoveKeeps
  <2> QED
    BY <1>2, <2>2, <2>3, <2>4 DEF Resolved
<1>3. CASE Acquire(b)
  <2>1. trees[b] = {} /\ UNCHANGED <<trees, kids>>
    BY <1>3 DEF Acquire, Session
  <2>2. CASE Begin(b, {}, FALSE) /\ UNCHANGED holder
    BY <2>1, <2>2, BeginNone, MoveKeeps
  <2>3. CASE /\ holder = Nobody /\ holder' = b /\ UNCHANGED artifact
             /\ pc' = [pc EXCEPT ![b] = "preflight"]
    BY <2>1, <2>3, MoveKeeps
  <2> QED
    BY <1>3, <2>2, <2>3 DEF Acquire, lease
<1>4. CASE Preflight(b)
  <2>1. trees[b] = {} /\ holder = b /\ UNCHANGED <<trees, kids>>
    BY <1>4 DEF Preflight, Session
  <2>2. CASE Begin(b, {}, FALSE) /\ holder' = Nobody
    BY <2>1, <2>2, BeginNone, MoveKeeps
  <2>3. CASE /\ Unresolved = {} /\ pc' = [pc EXCEPT ![b] = "create"]
             /\ UNCHANGED <<holder, artifact>>
    BY <2>1, <2>3, MoveKeeps
  <2> QED
    BY <1>4, <2>1, <2>2, <2>3 DEF Preflight, Released, Quarantined, lease
<1> QED
  BY <1>1, <1>2, <1>3, <1>4

\* A writer's worktree is created, or fails to be.
LEMMA CreateStep ==
  ASSUME IndInv, NEW b \in Batches, NEW c \in Writers, Create(b, c)
  PROVE  IndInv'
<1> USE DEF IndInv, Kinds
<1>1. /\ holder = b /\ Unresolved = {} /\ c \in kids[b] /\ UNCHANGED <<kids, holder>>
      /\ b # Nobody
  BY DelegationAssumption DEF Create, Session, lease
<1>2. ASSUME NEW q \in Batches \ {b}
      PROVE  /\ pc[q] \notin {"preflight", "create", "undo"} /\ trees[q] = {}
  BY <1>1 DEF Session
<1> DEFINE T == trees[b] \cup {c}
<1>3. CASE trees' = [trees EXCEPT ![b] = T] /\ UNCHANGED <<pc, artifact>>
  <2>1. Unresolved' = {} /\ Kinds'
    BY <1>1, <1>3 DEF Unresolved, Kids
  <2>2. ASSUME NEW q \in Batches PROVE Session(q)'
    BY <1>1, <1>2, <1>3, <2>1 DEF Session, Create
  <2> QED
    BY <2>1, <2>2
<1>4. CASE /\ trees' = [trees EXCEPT ![b] = T] /\ T = kids[b] \cap Writers
           /\ Begin(b, T, TRUE)
  <2>1. /\ pc' = [pc EXCEPT ![b] = "children"]
        /\ artifact' = [k \in Kids |-> IF k \in T THEN "active" ELSE artifact[k]]
    BY <1>4 DEF Begin
  <2>2. Kinds'
    BY <1>1, <1>4, <2>1 DEF Kids
  <2>3. Unresolved' \subseteq kids[b]
    BY <1>1, <1>4, <2>1 DEF Unresolved
  <2>4. Session(b)'
    BY <1>1, <1>4, <2>1, <2>3 DEF Session
  <2>5. ASSUME NEW q \in Batches \ {b} PROVE Session(q)'
    BY <1>1, <1>2, <1>4, <2>1 DEF Session
  <2> QED
    BY <2>2, <2>4, <2>5
<1>5. CASE pc' = [pc EXCEPT ![b] = "undo"] /\ UNCHANGED <<trees, artifact>>
  <2>1. Unresolved' = {} /\ Kinds'
    BY <1>1, <1>5 DEF Unresolved
  <2>2. ASSUME NEW q \in Batches PROVE Session(q)'
    BY <1>1, <1>2, <1>5, <2>1 DEF Session
  <2> QED
    BY <2>1, <2>2
<1> QED
  BY <1>3, <1>4, <1>5 DEF Create

\* The worktrees are removed again, one by one.
LEMMA UndoStep ==
  ASSUME IndInv, NEW b \in Batches, Undo(b)
  PROVE  IndInv'
<1> USE DEF IndInv, Kinds
<1>1. holder = b /\ Unresolved = {} /\ UNCHANGED kids
  BY DEF Undo, Session
<1>2. ASSUME NEW c \in trees[b], trees' = [trees EXCEPT ![b] = @ \ {c}],
             UNCHANGED <<pc, holder, artifact>>
      PROVE  IndInv'
  <2>1. Kinds' /\ Unresolved' = {}
    BY <1>1, <1>2 DEF Unresolved
  <2>2. ASSUME NEW q \in Batches PROVE Session(q)'
    BY <1>1, <1>2, <2>1 DEF Session, Undo
  <2> QED
    BY <2>1, <2>2
<1>3. CASE /\ trees[b] = {} /\ Begin(b, {}, TRUE) /\ holder' = Nobody
           /\ UNCHANGED trees
  BY <1>1, <1>3, BeginNone, MoveKeeps
<1>4. CASE trees[b] = {} /\ Begin(b, {}, FALSE) /\ holder' = Nobody /\ UNCHANGED trees
  BY <1>1, <1>4, BeginNone, MoveKeeps
<1> QED
  BY <1>1, <1>2, <1>3, <1>4 DEF Undo, Released, lease

\* The branches are staged for integration, or the batch returns.
LEMMA ReturnStep ==
  ASSUME IndInv, NEW b \in Batches, Integrate(b) \/ Returns(b)
  PROVE  IndInv'
<1> USE DEF IndInv, Kinds
<1>1. CASE Integrate(b)
  <2>1. /\ pc' = [pc EXCEPT ![b] = "integrate"] /\ holder = b
        /\ UNCHANGED <<kids, trees, holder, artifact>>
    BY <1>1 DEF Integrate, lease, durable
  <2>2. Kinds' /\ Unresolved' = Unresolved
    BY <2>1 DEF Unresolved
  <2>3. ASSUME NEW q \in Batches PROVE Session(q)'
    BY <2>1, <2>2 DEF Session
  <2> QED
    BY <2>2, <2>3
<1>2. CASE Returns(b)
  <2>1. /\ pc' = [pc EXCEPT ![b] = "off"] /\ kids' = [kids EXCEPT ![b] = {}]
        /\ trees' = [trees EXCEPT ![b] = {}]
        /\ IF holder = b THEN holder' = Nobody ELSE holder' = holder
        /\ artifact' = [c \in Kids |-> IF c \in kids[b] \ Unresolved THEN "none" ELSE artifact[c]]
    BY <1>2 DEF Returns, Released, Forgotten, lease
  <2>2. Kinds'
    BY <2>1
  <2>3. Unresolved' = Unresolved
    BY <2>1 DEF Unresolved
  <2>4. ASSUME NEW q \in Batches PROVE Session(q)'
    <3>1. Session(q)
      OBVIOUS
    <3>2. CASE q = b
      BY <2>1, <3>2 DEF Session
    <3>3. CASE q # b
      BY <2>1, <2>3, <3>1, <3>3 DEF Session
    <3> QED
      BY <3>2, <3>3
  <2> QED
    BY <2>2, <2>4
<1> QED
  BY <1>1, <1>2

\* The app crashes: rows are all that is left of batches.
LEMMA CrashStep ==
  ASSUME IndInv, Crash
  PROVE  IndInv'
<1> USE DEF IndInv, Kinds
<1>1. /\ pc' = [b \in Batches |-> "off"] /\ kids' = [b \in Batches |-> {}]
      /\ trees' = [b \in Batches |-> {}] /\ holder' = Nobody
  BY DEF Crash
<1>2. artifact' \in [Kids -> {"none", "active", "quarantined", "resolved"}]
  BY DEF Crash, Reconciled
<1>3. Kinds' /\ \A b \in Batches : Session(b)'
  BY <1>1, <1>2 DEF Session
<1> QED
  BY <1>3

LEMMA InitInv == Init => IndInv
BY DEF Init, IndInv, Kinds, Session

LEMMA NextInv == IndInv /\ [Next]_vars => IndInv'
<1> SUFFICES ASSUME IndInv, [Next]_vars PROVE IndInv'
  OBVIOUS
<1>1. ASSUME NEW b \in Batches,
             (\E K \in Assigned[b], on \in BOOLEAN : Spawn(b, K, on)) \/ Prepares(b)
      PROVE  IndInv'
  BY <1>1, PrepareStep, CreateStep, UndoStep DEF Prepares
<1>2. ASSUME NEW b \in Batches, Integrate(b) \/ Returns(b) PROVE IndInv'
  BY <1>2, ReturnStep
<1>3. ASSUME NEW b \in Batches, SetAuto(b) \/ Stop(b) PROVE IndInv'
  BY <1>3, UserQuiet, QuietKeeps
<1>4. ASSUME NEW b \in Batches, NEW c \in Kids,
             \/ Gate(b, c) \/ Decide(b, c) \/ TimerFires(b, c) \/ LoopEnds(b, c)
             \/ Collected(b, c) \/ Judged(b, c) \/ Cleaned(b, c)
      PROVE  IndInv'
  BY <1>4, ChildrenQuiet, QuietKeeps
<1>5. CASE Tick \/ (\E c \in Kids : Resolve(c)) \/ UNCHANGED vars
  BY <1>5, RestQuiet, QuietKeeps
<1>6. CASE Crash
  BY <1>6, CrashStep
<1> QED
  BY <1>1, <1>2, <1>3, <1>4, <1>5, <1>6 DEF Next

\* index.ts:3762: wherever writers' worktrees are in use the batch holds the repository's
\* lease, and no row of another session is unresolved; for every set of batches.
THEOREM SessionsExclude == Spec => []OneSession
<1>1. IndInv => OneSession
  BY DEF IndInv, Session, OneSession
<1> QED
  BY <1>1, InitInv, NextInv, PTL DEF Spec

-----------------------------------------------------------------------------
(* Sequences: a child that leaves the queue, that joins it, whose turn it is. *)

\* A child that leaves the queue: those behind it move up.
LEMMA Removed ==
  ASSUME NEW S, NEW q \in Seq(S), NEW c, IsInjective(q)
  PROVE  /\ RemoveFirst(q, c) \in Seq(S) /\ IsInjective(RemoveFirst(q, c))
         /\ Range(RemoveFirst(q, c)) = Range(q) \ {c}
         /\ c \notin Range(q) => RemoveFirst(q, c) = q
         /\ c \in Range(q) => \E i \in 1..Len(q) :
              /\ Len(RemoveFirst(q, c)) = Len(q) - 1
              /\ \A k \in 1..(Len(q) - 1) :
                   RemoveFirst(q, c)[k] = IF k < i THEN q[k] ELSE q[k + 1]
<1>0. /\ Len(q) \in Nat /\ DOMAIN q = 1..Len(q)
      /\ \A k \in 1..Len(q) : q[k] \in S
  BY LenProperties, ElementOfSeq
<1>1. CASE c \notin Range(q)
  <2>1. ~\E i \in 1..Len(q) : q[i] = c
    BY <1>0, <1>1 DEF Range
  <2>2. RemoveFirst(q, c) = q
    BY <2>1 DEF RemoveFirst
  <2> QED BY <1>1, <2>2
<1>2. CASE c \in Range(q)
  <2>1. PICK i \in 1..Len(q) : q[i] = c
    BY <1>0, <1>2 DEF Range
  <2> DEFINE a == SubSeq(q, 1, i - 1)
             d == SubSeq(q, i + 1, Len(q))
             r == a \o d
  <2>2. RemoveFirst(q, c) = r
    <3>1. {j \in 1..Len(q) : q[j] = c} = {i}
      BY <1>0, <2>1 DEF IsInjective
    <3>2. SelectInSeq(q, LAMBDA v : v = c)
            = IF {j \in 1..Len(q) : q[j] = c} # {} THEN Min({j \in 1..Len(q) : q[j] = c}) ELSE 0
      BY DEF SelectInSeq
    <3>3. Min({i}) = i
      BY <2>1 DEF Min
    <3>4. RemoveFirst(q, c) = RemoveAt(q, SelectInSeq(q, LAMBDA v : v = c))
      BY <2>1 DEF RemoveFirst
    <3> QED BY <3>1, <3>2, <3>3, <3>4 DEF RemoveAt
  <2>3. a \in Seq(S) /\ Len(a) = i - 1 /\ \A k \in 1..(i - 1) : a[k] = q[k]
    <3>1. (\A k \in 1..(i - 1) : q[k] \in S) /\ i - 1 \in Int /\ 1 \in Int
      BY <1>0, <2>1
    <3>2. /\ a \in Seq(S)
          /\ Len(a) = IF 1 <= i - 1 THEN i - 1 - 1 + 1 ELSE 0
          /\ \A k \in 1..(i - 1 - 1 + 1) : a[k] = q[1 + k - 1]
      BY <3>1, SubSeqProperties
    <3> QED BY <3>2, <1>0, <2>1
  <2>4. /\ d \in Seq(S) /\ Len(d) = Len(q) - i
        /\ \A k \in 1..(Len(q) - i) : d[k] = q[i + k]
    <3>1. (\A k \in (i + 1)..Len(q) : q[k] \in S) /\ i + 1 \in Int /\ Len(q) \in Int
      BY <1>0, <2>1
    <3>2. /\ d \in Seq(S)
          /\ Len(d) = IF i + 1 <= Len(q) THEN Len(q) - (i + 1) + 1 ELSE 0
          /\ \A k \in 1..(Len(q) - (i + 1) + 1) : d[k] = q[i + 1 + k - 1]
      BY <3>1, SubSeqProperties
    <3> QED BY <3>2, <1>0, <2>1
  <2> HIDE DEF a, d
  <2>5. /\ r \in Seq(S) /\ Len(r) = Len(q) - 1
        /\ \A k \in 1..(Len(q) - 1) : r[k] = IF k < i THEN q[k] ELSE q[k + 1]
    <3>1. /\ r \in Seq(S) /\ Len(r) = Len(a) + Len(d)
          /\ \A k \in 1..(Len(a) + Len(d)) :
               r[k] = IF k <= Len(a) THEN a[k] ELSE d[k - Len(a)]
      BY <2>3, <2>4, ConcatProperties
    <3>2. Len(a) + Len(d) = Len(q) - 1
      BY <1>0, <2>1, <2>3, <2>4
    <3>3. ASSUME NEW k \in 1..(Len(q) - 1)
          PROVE  r[k] = IF k < i THEN q[k] ELSE q[k + 1]
      <4>1. r[k] = IF k <= i - 1 THEN a[k] ELSE d[k - (i - 1)]
        BY <3>1, <3>2, <2>3
      <4>2. CASE k < i
        BY <4>1, <4>2, <1>0, <2>1, <2>3
      <4>3. CASE k >= i
        <5>1. k - (i - 1) \in 1..(Len(q) - i) /\ i + (k - (i - 1)) = k + 1
          BY <4>3, <1>0, <2>1
        <5>2. d[k - (i - 1)] = q[i + (k - (i - 1))]
          BY <5>1, <2>4
        <5>3. r[k] = d[k - (i - 1)] /\ ~(k < i)
          BY <4>1, <4>3, <1>0, <2>1
        <5> QED BY <5>1, <5>2, <5>3
      <4>4. k < i \/ k >= i
        BY <1>0, <2>1
      <4> QED BY <4>2, <4>3, <4>4
    <3> QED BY <3>1, <3>2, <3>3
  <2> HIDE DEF r
  <2>6. DOMAIN r = 1..(Len(q) - 1)
    BY <2>5, LenProperties
  <2>7. IsInjective(r)
    <3>1. ASSUME NEW k \in 1..(Len(q) - 1), NEW l \in 1..(Len(q) - 1), r[k] = r[l], k < l
          PROVE  FALSE
      <4>1. PICK m \in 1..Len(q) : r[k] = q[m] /\ (k < i => m = k) /\ (k >= i => m = k + 1)
        BY <2>1, <2>5
      <4>2. PICK n \in 1..Len(q) : r[l] = q[n] /\ (l < i => n = l) /\ (l >= i => n = l + 1)
        BY <2>1, <2>5
      <4>3. m < n
        BY <3>1, <4>1, <4>2, <2>1
      <4>4. q[m] = q[n]
        BY <3>1, <4>1, <4>2
      <4> QED BY <1>0, <4>3, <4>4 DEF IsInjective
    <3>2. ASSUME NEW k \in DOMAIN r, NEW l \in DOMAIN r, r[k] = r[l]
          PROVE  k = l
      <4>1. /\ k \in 1..(Len(q) - 1) /\ l \in 1..(Len(q) - 1)
            /\ ~(k < l) /\ ~(l < k)
        BY <3>1, <3>2, <2>6
      <4> QED BY <4>1, <2>1
    <3> QED BY <3>2 DEF IsInjective
  <2>8. Range(r) \subseteq Range(q) \ {c}
    BY <1>0, <2>1, <2>5, <2>6 DEF IsInjective, Range
  <2>9. ASSUME NEW k \in 1..Len(q), q[k] # c
        PROVE  q[k] \in Range(r)
    <3>1. CASE k < i
      BY <3>1, <1>0, <2>1, <2>5, <2>6 DEF Range
    <3>2. CASE k > i
      <4>1. k - 1 \in 1..(Len(q) - 1) /\ r[k - 1] = q[k]
        BY <3>2, <1>0, <2>1, <2>5
      <4> QED BY <4>1, <2>6 DEF Range
    <3>3. k # i
      BY <2>1, <2>9
    <3> QED BY <3>1, <3>2, <3>3, <1>0, <2>1
  <2>10. Range(q) \ {c} \subseteq Range(r)
    BY <1>0, <2>9 DEF Range
  <2> QED BY <1>2, <2>2, <2>5, <2>7, <2>8, <2>10
<1> QED BY <1>1, <1>2

\* A child that queues, and one whose turn it is.
LEMMA Queued ==
  ASSUME NEW S, NEW q \in Seq(S), NEW c \in S, IsInjective(q), c \notin Range(q)
  PROVE  /\ Append(q, c) \in Seq(S) /\ IsInjective(Append(q, c))
         /\ Range(Append(q, c)) = Range(q) \cup {c}
<1>0. /\ Len(q) \in Nat /\ DOMAIN q = 1..Len(q) /\ DOMAIN Append(q, c) = 1..Len(q) + 1
      /\ Append(q, c) \in Seq(S)
      /\ \A k \in 1..Len(q) : Append(q, c)[k] = q[k]
      /\ Append(q, c)[Len(q) + 1] = c
  BY LenProperties, AppendProperties
<1> QED BY <1>0 DEF IsInjective, Range

LEMMA Shifted ==
  ASSUME NEW S, NEW q \in Seq(S), IsInjective(q), q # <<>>
  PROVE  /\ Head(q) \in S /\ Head(q) \in Range(q)
         /\ Tail(q) \in Seq(S) /\ IsInjective(Tail(q))
         /\ Range(Tail(q)) = Range(q) \ {Head(q)}
<1>0. /\ Len(q) \in Nat /\ DOMAIN q = 1..Len(q) /\ Len(q) > 0 /\ Head(q) = q[1]
      /\ Tail(q) \in Seq(S) /\ Len(Tail(q)) = Len(q) - 1 /\ DOMAIN Tail(q) = 1..(Len(q) - 1)
      /\ \A k \in 1..(Len(q) - 1) : Tail(q)[k] = q[k + 1]
      /\ \A k \in 1..Len(q) : q[k] \in S
  BY LenProperties, HeadTailProperties, ElementOfSeq, EmptySeq
<1>1. Head(q) \in S /\ Head(q) \in Range(q)
  BY <1>0 DEF Range
<1>2. IsInjective(Tail(q))
  BY <1>0 DEF IsInjective
<1>3. Range(Tail(q)) \subseteq Range(q) \ {Head(q)}
  BY <1>0 DEF IsInjective, Range
<1>4. ASSUME NEW k \in 1..Len(q), q[k] # Head(q) PROVE q[k] \in Range(Tail(q))
  <2>1. k - 1 \in 1..(Len(q) - 1) /\ Tail(q)[k - 1] = q[k]
    BY <1>0, <1>4
  <2> QED BY <1>0, <2>1 DEF Range
<1>5. Range(q) \ {Head(q)} \subseteq Range(Tail(q))
  BY <1>0, <1>4 DEF Range
<1> QED BY <1>0, <1>1, <1>2, <1>3, <1>5

LEMMA NoneQueued ==
  ASSUME NEW S, NEW q \in Seq(S), Range(q) = {}
  PROVE  q = <<>>
<1>1. Len(q) \in Nat /\ DOMAIN q = 1..Len(q)
  BY LenProperties
<1>2. 1 \in 1..Len(q) => q[1] \in Range(q)
  BY <1>1 DEF Range
<1>3. Len(q) = 0
  BY <1>1, <1>2
<1> QED BY <1>3, EmptySeq

-----------------------------------------------------------------------------
(* The queue, the lease and the children of a batch. *)

\* A child that has no part in a batch yet, or none any more.
Rests(c) == state[c] \in {"off", "done"}

\* The queue of a batch names the children that wait to ask, each once; one asks at
\* most; and all of them have come to rest wherever the batch does not wait for them.
Line(b) ==
  /\ queue[b] \in Seq(kids[b]) /\ IsInjective(queue[b])
  /\ \A c \in kids[b] : state[c] = "queued" <=> c \in Range(queue[b])
  /\ \A c, d \in kids[b] : state[c] = "asks" /\ state[d] = "asks" => c = d
  /\ pc[b] # "children" => \A c \in kids[b] : Rests(c)

\* The lease of a batch stands still while one of its children asks, and no timer of
\* theirs is set past its absolute deadline.
Lease(b) ==
  holder = b =>
    /\ pc[b] \notin {"off", "resolve", "acquire"}
    /\ paused <=> \E c \in kids[b] : state[c] = "asks"
    /\ \A c \in kids[b] \cap Timed : timer[c] <= absolute

\* No child has two parents; one that waits or asks has not been told to stop; one
\* that does anything has a parent.
Apart == \A b, q \in Batches : b # q => kids[b] \cap kids[q] = {}

Child(c) ==
  /\ state[c] \in {"queued", "asks"} => ~aborted[c]
  /\ Rests(c) \/ \E b \in Batches : c \in kids[b]

Free == holder = Nobody => ~paused

Turns == /\ \A b \in Batches : Line(b) /\ Lease(b)
         /\ Apart /\ (\A c \in Kids : Child(c)) /\ Free

Inv == IndInv /\ TypeOK /\ Turns

\* A step of one batch.
Moved(b) ==
  /\ \A q \in Batches \ {b} :
       /\ pc'[q] = pc[q] /\ kids'[q] = kids[q] /\ queue'[q] = queue[q]
       /\ kids[q] \cap kids'[b] = {}
  /\ \A c \in Kids \ (kids[b] \cup kids'[b]) :
       state'[c] = state[c] /\ aborted'[c] = aborted[c] /\ timer'[c] = timer[c]
  /\ holder' \in {holder, b, Nobody}
  /\ holder' = holder /\ holder # b => UNCHANGED <<paused, absolute>>

\* What a step of one batch must see to: the other batches keep what they have.
LEMMA OneBatch ==
  ASSUME Inv, NEW b \in Batches, Moved(b), kids' \in [Batches -> SUBSET Kids],
         Line(b)', Lease(b)', Free',
         \A c \in kids'[b] : state'[c] \in {"queued", "asks"} => ~aborted'[c],
         \A c \in kids[b] \ kids'[b] : Rests(c)'
  PROVE  Turns'
<1>0. b # Nobody /\ Nobody \notin Batches /\ kids \in [Batches -> SUBSET Kids]
  BY DelegationAssumption DEF Inv, TypeOK
<1>1. ASSUME NEW q \in Batches \ {b}
      PROVE  /\ pc'[q] = pc[q] /\ kids'[q] = kids[q] /\ queue'[q] = queue[q]
             /\ kids[q] \cap kids'[b] = {} /\ kids[q] \cap kids[b] = {}
             /\ kids[q] \subseteq Kids
             /\ \A c \in kids[q] : /\ state'[c] = state[c] /\ aborted'[c] = aborted[c]
                                   /\ timer'[c] = timer[c]
  <2>1. kids[q] \cap kids[b] = {} /\ kids[q] \subseteq Kids
    BY <1>0 DEF Inv, Turns, Apart
  <2>2. /\ pc'[q] = pc[q] /\ kids'[q] = kids[q] /\ queue'[q] = queue[q]
        /\ kids[q] \cap kids'[b] = {}
    BY DEF Moved
  <2>3. ASSUME NEW c \in kids[q]
        PROVE  state'[c] = state[c] /\ aborted'[c] = aborted[c] /\ timer'[c] = timer[c]
    <3>1. c \in Kids \ (kids[b] \cup kids'[b])
      BY <2>1, <2>2
    <3> QED BY <3>1 DEF Moved
  <2> QED BY <2>1, <2>2, <2>3
<1>2. ASSUME NEW q \in Batches \ {b} PROVE Line(q)' /\ Lease(q)'
  <2>1. Line(q) /\ Lease(q)
    BY DEF Inv, Turns
  <2>2. Line(q)'
    <3>1. queue'[q] \in Seq(kids'[q]) /\ IsInjective(queue'[q])
      BY <1>1, <2>1 DEF Line
    <3>2. /\ \A c \in kids'[q] : state'[c] = "queued" <=> c \in Range(queue'[q])
          /\ \A c, d \in kids'[q] : state'[c] = "asks" /\ state'[d] = "asks" => c = d
      BY <1>1, <2>1 DEF Line
    <3>3. pc'[q] # "children" => \A c \in kids'[q] : Rests(c)'
      BY <1>1, <2>1 DEF Line, Rests
    <3> QED BY <3>1, <3>2, <3>3 DEF Line
  <2>3. Lease(q)'
    <3>1. SUFFICES ASSUME holder' = q
          PROVE /\ pc'[q] \notin {"off", "resolve", "acquire"}
                /\ paused' <=> \E c \in kids'[q] : state'[c] = "asks"
                /\ \A c \in kids'[q] \cap Timed' : timer'[c] <= absolute'
      BY DEF Lease
    <3>2. holder = q /\ UNCHANGED <<paused, absolute>>
      BY <3>1, <1>0 DEF Moved
    <3>3. \A c \in kids[q] : c \in Timed' <=> c \in Timed
      BY <1>1 DEF Timed
    <3> QED BY <1>1, <2>1, <3>2, <3>3 DEF Lease
  <2> QED BY <2>2, <2>3
<1>3. Apart'
  <2>1. ASSUME NEW p \in Batches, NEW q \in Batches, p # q
        PROVE  kids'[p] \cap kids'[q] = {}
    <3>1. CASE p = b
      BY <1>1, <2>1, <3>1
    <3>2. CASE q = b
      BY <1>1, <2>1, <3>2
    <3>3. CASE p # b /\ q # b
      BY <1>1, <2>1, <3>3 DEF Inv, Turns, Apart
    <3> QED BY <3>1, <3>2, <3>3
  <2> QED BY <2>1 DEF Apart
<1>4. ASSUME NEW c \in Kids PROVE Child(c)'
  <2>1. Child(c)
    BY DEF Inv, Turns
  <2>2. CASE c \in kids'[b]
    BY <2>2 DEF Child
  <2>3. CASE c \in kids[b] \ kids'[b]
    BY <2>3 DEF Child, Rests
  <2>4. CASE c \notin kids[b] \cup kids'[b]
    <3>1. state'[c] = state[c] /\ aborted'[c] = aborted[c]
      BY <2>4 DEF Moved
    <3>2. ASSUME NEW q \in Batches, c \in kids[q] PROVE c \in kids'[q]
      BY <1>1, <2>4, <3>2
    <3> QED BY <2>1, <3>1, <3>2 DEF Child, Rests
  <2> QED BY <2>2, <2>3, <2>4
<1> QED BY <1>2, <1>3, <1>4 DEF Turns

\* Nobody waits in the queue of a batch whose children rest.
LEMMA NobodyWaits ==
  ASSUME Inv, NEW b \in Batches, \A c \in kids[b] : state[c] # "queued"
  PROVE  queue[b] = <<>>
<1>1. Line(b)
  BY DEF Inv, Turns
<1>2. \A c \in Range(queue[b]) : c \in kids[b]
  <2>1. \A k \in 1..Len(queue[b]) : queue[b][k] \in kids[b]
    BY <1>1, ElementOfSeq DEF Line
  <2> QED BY <1>1, <2>1, LenProperties DEF Range, Line
<1>3. Range(queue[b]) = {}
  BY <1>1, <1>2 DEF Line
<1> QED BY <1>1, <1>3, NoneQueued DEF Line

LEMMA EmptyQueue ==
  ASSUME Inv, NEW b \in Batches, pc[b] # "children"
  PROVE  queue[b] = <<>> /\ \A c \in kids[b] : Rests(c)
<1>1. \A c \in kids[b] : Rests(c)
  BY DEF Inv, Turns, Line
<1> QED BY <1>1, NobodyWaits DEF Rests

LEMMA NoLine ==
  ASSUME NEW S
  PROVE <<>> \in Seq(S) /\ IsInjective(<<>>) /\ Range(<<>>) = {}
BY DEF IsInjective, Range

\* The times a timer may be set to.
LEMMA Times ==
  ASSUME TypeOK, NEW stands \in BOOLEAN
  PROVE  /\ NextTimeout(stands) \in 0..AbsoluteLimit /\ NextTimeout(stands) <= absolute
         /\ ActiveLimit \in 0..AbsoluteLimit /\ ApprovalLimit \in 0..ApprovalLimit
         /\ 0 \in 0..AbsoluteLimit /\ 0 \in 0..ApprovalLimit /\ 0 \in 0..ActiveLimit
         /\ AbsoluteLimit \in 0..AbsoluteLimit /\ ActiveLimit \in 0..ActiveLimit
<1>1. {ActiveLimit, AbsoluteLimit, ApprovalLimit} \subseteq Nat /\ ActiveLimit <= AbsoluteLimit
  BY DelegationAssumption
<1>2. active \in 0..ActiveLimit /\ absolute \in 0..AbsoluteLimit
  BY DEF TypeOK
<1> QED BY <1>1, <1>2 DEF NextTimeout, Least

-----------------------------------------------------------------------------
(* Turns that end, children that leave the queue. *)

\* A step of one batch that stays where it is, its lease with it.
LEMMA Stays ==
  ASSUME Inv, NEW b \in Batches, UNCHANGED <<pc, kids, holder, absolute>>,
         \A q \in Batches \ {b} : queue'[q] = queue[q],
         \A c \in Kids \ kids[b] :
            state'[c] = state[c] /\ aborted'[c] = aborted[c] /\ timer'[c] = timer[c],
         holder # b => UNCHANGED paused,
         Line(b)', Lease(b)',
         \A c \in kids[b] : state'[c] \in {"queued", "asks"} => ~aborted'[c]
  PROVE  Turns' /\ Moved(b)
<1>1. kids' \in [Batches -> SUBSET Kids] /\ b # Nobody /\ holder \in Batches \cup {Nobody}
  BY DelegationAssumption DEF Inv, TypeOK
<1>2. \A q \in Batches \ {b} : kids[q] \cap kids[b] = {}
  BY DEF Inv, Turns, Apart
<1>3. Moved(b)
  BY <1>1, <1>2 DEF Moved
<1>4. Free'
  BY <1>1 DEF Inv, Turns, Free
<1> QED BY <1>1, <1>3, <1>4, OneBatch

\* What is known of a batch whose child c does something.
LEMMA Attended ==
  ASSUME Inv, NEW b \in Batches, NEW c \in kids[b], ~Rests(c)
  PROVE  pc[b] = "children" /\ c \in Kids
BY DEF Inv, Turns, Line, TypeOK

LEMMA WiderSeq ==
  ASSUME NEW S, NEW T, S \subseteq T, NEW q \in Seq(S)
  PROVE  q \in Seq(T)
<1>1. \A k \in 1..Len(q) : q[k] \in T
  BY ElementOfSeq
<1> QED BY <1>1, IsASeq, LenProperties

\* The queue of one batch is another one.
LEMMA Requeued ==
  ASSUME Inv, NEW b \in Batches, NEW q \in Seq(kids[b]), queue' = [queue EXCEPT ![b] = q]
  PROVE  /\ queue'[b] = q /\ \A p \in Batches \ {b} : queue'[p] = queue[p]
         /\ queue' \in [Batches -> Seq(Kids)]
<1>1. q \in Seq(Kids)
  BY WiderSeq DEF Inv, TypeOK
<1> QED BY <1>1 DEF Inv, TypeOK

\* Children that wait leave the queue, and nobody who asks does.
LEMMA QueueLeft ==
  ASSUME Inv, NEW b \in Batches, NEW G \in SUBSET kids[b], NEW left \in Seq(kids[b]),
         pc[b] = "children", IsInjective(left),
         Range(left) = {k \in kids[b] : state[k] = "queued"} \ G,
         \A k \in G : state[k] # "asks" /\ aborted'[k],
         \A k \in Kids : state'[k] = IF k \in G /\ state[k] = "queued" THEN "runs" ELSE state[k],
         \A k \in Kids \ G : aborted'[k] = aborted[k] /\ timer'[k] = timer[k],
         queue' = [queue EXCEPT ![b] = left],
         UNCHANGED <<pc, kids, holder, absolute, paused>>
  PROVE  Turns' /\ Moved(b) /\ queue' \in [Batches -> Seq(Kids)]
<1>1. /\ queue'[b] = left /\ \A q \in Batches \ {b} : queue'[q] = queue[q]
      /\ queue' \in [Batches -> Seq(Kids)]
  BY Requeued
<1>2. kids[b] \subseteq Kids /\ Line(b) /\ Lease(b)
  BY DEF Inv, Turns, TypeOK
<1>3. \A k \in kids[b] : (state'[k] = "asks" <=> state[k] = "asks")
                          /\ (state'[k] = "queued" <=> state[k] = "queued" /\ k \notin G)
  BY <1>2
<1>4. Line(b)'
  BY <1>1, <1>2, <1>3 DEF Line
<1>5. \A k \in kids[b] : k \in Timed' => k \in Timed /\ k \notin G
  BY <1>2 DEF Timed, Working
<1>6. Lease(b)'
  BY <1>2, <1>3, <1>5 DEF Lease
<1>7. \A c \in kids[b] : state'[c] \in {"queued", "asks"} => ~aborted'[c]
  BY <1>2, <1>3 DEF Inv, Turns, Child
<1>8. \A c \in Kids \ kids[b] :
         state'[c] = state[c] /\ aborted'[c] = aborted[c] /\ timer'[c] = timer[c]
  OBVIOUS
<1> QED BY <1>1, <1>4, <1>6, <1>7, <1>8, Stays

\* Whom a queue names next, and who is left.
LEMMA Turnover ==
  ASSUME NEW S, NEW q \in Seq(S), IsInjective(q)
  PROVE  /\ Behind(q) \in Seq(S) /\ IsInjective(Behind(q))
         /\ Range(Behind(q)) = Range(q) \ NextUp(q) /\ NextUp(q) \subseteq Range(q)
         /\ NextUp(q) \subseteq S
         /\ \A c, d \in NextUp(q) : c = d
<1>1. CASE q = <<>>
  <2>1. NextUp(q) = {} /\ Behind(q) = q
    BY <1>1 DEF NextUp, Behind
  <2> QED BY <2>1
<1>2. CASE q # <<>>
  <2>1. NextUp(q) = {Head(q)} /\ Behind(q) = Tail(q)
    BY <1>2 DEF NextUp, Behind
  <2> QED BY <1>2, <2>1, Shifted
<1> QED BY <1>1, <1>2

\* The one that asks is done with its turn, and whoever else is in G leaves the queue:
\* the first of those left asks.
LEMMA TurnPasses ==
  ASSUME Inv, NEW b \in Batches, NEW G \in SUBSET kids[b], NEW left \in Seq(kids[b]),
         pc[b] = "children", IsInjective(left),
         Range(left) = {k \in kids[b] : state[k] = "queued"} \ G,
         \E k \in G : state[k] = "asks",
         \A k \in Kids : state'[k] = IF k \in NextUp(left) THEN "asks"
              ELSE IF k \in G /\ state[k] \in {"queued", "asks"} THEN "runs" ELSE state[k],
         \A k \in Kids \ G : aborted'[k] = aborted[k],
         \A k \in Kids \ kids[b] : timer'[k] = timer[k],
         \A k \in kids[b] \cap Timed' : holder = b /\ timer'[k] # timer[k] => timer'[k] <= absolute,
         \A k \in kids[b] \cap Timed' : k \in Timed,
         queue' = [queue EXCEPT ![b] = Behind(left)],
         paused' = IF holder = b THEN NextUp(left) # {} ELSE paused,
         UNCHANGED <<pc, kids, holder, absolute>>
  PROVE  Turns' /\ Moved(b) /\ queue' \in [Batches -> Seq(Kids)]
<1>0. /\ Behind(left) \in Seq(kids[b]) /\ IsInjective(Behind(left))
      /\ Range(Behind(left)) = Range(left) \ NextUp(left) /\ NextUp(left) \subseteq Range(left)
      /\ \A c, d \in NextUp(left) : c = d
  BY Turnover
<1>1. /\ queue'[b] = Behind(left) /\ \A q \in Batches \ {b} : queue'[q] = queue[q]
      /\ queue' \in [Batches -> Seq(Kids)]
  BY <1>0, Requeued
<1>2. kids[b] \subseteq Kids /\ Line(b) /\ Lease(b)
  BY DEF Inv, Turns, TypeOK
<1>3. PICK a \in G : state[a] = "asks"
  OBVIOUS
<1>4. \A k \in kids[b] : state[k] = "asks" => k = a
  BY <1>2, <1>3 DEF Line
<1>5. ASSUME NEW k \in kids[b]
      PROVE  /\ state'[k] = "asks" <=> k \in NextUp(left)
             /\ state'[k] = "queued" <=> k \in Range(Behind(left))
  BY <1>0, <1>2, <1>3, <1>4
<1>6. Line(b)'
  BY <1>0, <1>1, <1>5, <1>2 DEF Line
<1>7. Lease(b)'
  <2>1. SUFFICES ASSUME holder = b
        PROVE /\ pc[b] \notin {"off", "resolve", "acquire"}
              /\ paused' <=> \E c \in kids[b] : state'[c] = "asks"
              /\ \A c \in kids[b] \cap Timed' : timer'[c] <= absolute
    BY DEF Lease
  <2>2. paused' <=> \E c \in kids[b] : state'[c] = "asks"
    BY <2>1, <1>0, <1>2, <1>5
  <2>3. \A c \in kids[b] \cap Timed' : timer'[c] <= absolute
    BY <2>1, <1>2 DEF Lease
  <2> QED BY <2>2, <2>3
<1>8. \A c \in kids[b] : state'[c] \in {"queued", "asks"} => ~aborted'[c]
  <2>1. ASSUME NEW c \in kids[b], state'[c] \in {"queued", "asks"} PROVE ~aborted'[c]
    <3>1. c \in Range(left)
      BY <2>1, <1>0, <1>5
    <3>2. state[c] = "queued" /\ c \in Kids \ G
      BY <3>1, <1>2
    <3> QED BY <3>2 DEF Inv, Turns, Child
  <2> QED BY <2>1
<1>9. \A c \in Kids \ kids[b] :
         state'[c] = state[c] /\ aborted'[c] = aborted[c] /\ timer'[c] = timer[c]
  <2>1. ASSUME NEW c \in Kids \ kids[b] PROVE c \notin NextUp(left) /\ c \notin G
    BY <1>0
  <2> QED BY <2>1
<1> QED BY <1>1, <1>2, <1>6, <1>7, <1>8, <1>9, Stays

\* What the step of nobody's turn leaves alone.
LEMMA NoTurn ==
  ASSUME Inv, UNCHANGED <<pc, kids, queue, holder, paused, absolute, state, aborted, timer>>
  PROVE  Turns' /\ (\A b \in Batches : Moved(b)) /\ queue' \in [Batches -> Seq(Kids)]
<1>1. Turns' = Turns
  BY DEF Turns, Line, Lease, Apart, Child, Free, Rests, Timed
<1>2. \A b, q \in Batches : b # q => kids[q] \cap kids[b] = {}
  BY DEF Inv, Turns, Apart
<1> QED BY <1>1, <1>2 DEF Inv, TypeOK, Moved

\* What the invariant says of one batch.
LEMMA OfBatch ==
  ASSUME Inv, NEW b \in Batches
  PROVE  /\ Line(b) /\ Lease(b) /\ kids[b] \subseteq Kids /\ b # Nobody
         /\ Range(queue[b]) = {k \in kids[b] : state[k] = "queued"}
<1>1. Line(b) /\ Lease(b) /\ kids[b] \subseteq Kids /\ b # Nobody
  BY DelegationAssumption DEF Inv, Turns, TypeOK
<1>2. \A k \in Range(queue[b]) : k \in kids[b]
  <2>1. \A k \in 1..Len(queue[b]) : queue[b][k] \in kids[b]
    BY <1>1, ElementOfSeq DEF Line
  <2> QED BY <1>1, <2>1, LenProperties DEF Range, Line
<1> QED BY <1>1, <1>2 DEF Line

\* The turn of c ends: by a decision, or because Auto approves what it asks.
LEMMA SettlesTurns ==
  ASSUME Inv, NEW b \in Batches, NEW c \in kids[b], state[c] = "asks",
         Settles(b, c), UNCHANGED <<pc, kids, aborted>>
  PROVE  Turns' /\ Moved(b) /\ queue' \in [Batches -> Seq(Kids)]
<1> DEFINE left == queue[b]
           up == NextUp(left)
<1>0. /\ Line(b) /\ kids[b] \subseteq Kids
      /\ Range(left) = {k \in kids[b] : state[k] = "queued"}
  BY OfBatch
<1>1. pc[b] = "children"
  BY Attended DEF Rests
<1>2. left \in Seq(kids[b]) /\ IsInjective(left)
  BY <1>0 DEF Line
<1>3. up \subseteq Range(left) /\ up \subseteq kids[b]
  BY <1>2, Turnover
<1>4. /\ state' = [k \in Kids |-> IF k \in up THEN "asks" ELSE IF k = c THEN "runs" ELSE state[k]]
      /\ timer' = [k \in Kids |-> IF holder # b THEN timer[k]
                                  ELSE IF k \in up THEN NextTimeout(TRUE)
                                  ELSE IF k = c THEN NextTimeout(FALSE) ELSE timer[k]]
      /\ paused' = IF holder = b THEN up # {} ELSE paused
      /\ UNCHANGED <<holder, absolute>>
  BY DEF Settles, Answered
<1>5. queue' = [queue EXCEPT ![b] = Behind(left)]
  BY DEF Settles
<1>6. Range(left) = {k \in kids[b] : state[k] = "queued"} \ {c}
  BY <1>0
<1>7. \A k \in Kids : state'[k] = IF k \in up THEN "asks"
         ELSE IF k \in {c} /\ state[k] \in {"queued", "asks"} THEN "runs" ELSE state[k]
  BY <1>4
<1>8. NextTimeout(TRUE) <= absolute /\ NextTimeout(FALSE) <= absolute
  BY Times DEF Inv
<1>9. \A k \in kids[b] \cap Timed' : holder = b /\ timer'[k] # timer[k] => timer'[k] <= absolute
  BY <1>0, <1>4, <1>8
<1>10. \A k \in kids[b] \cap Timed' : k \in Timed
  <2>1. ASSUME NEW k \in kids[b], k \in Timed' PROVE k \in Timed
    <3>1. ~aborted[k] /\ state'[k] \in Working
      BY <2>1 DEF Timed
    <3>2. k \in up => state[k] = "queued"
      BY <1>0, <1>3
    <3> QED BY <3>1, <3>2, <1>0, <1>4 DEF Timed, Working
  <2> QED BY <2>1
<1>11. \A k \in Kids \ kids[b] : timer'[k] = timer[k]
  BY <1>3, <1>4
<1>12. {c} \in SUBSET kids[b] /\ (\E k \in {c} : state[k] = "asks")
       /\ \A k \in Kids \ {c} : aborted'[k] = aborted[k]
  OBVIOUS
<1> HIDE DEF left, up
<1>13. paused' = IF holder = b THEN NextUp(left) # {} ELSE paused
  BY <1>4 DEF up
<1>14. \A k \in Kids : state'[k] = IF k \in NextUp(left) THEN "asks"
         ELSE IF k \in {c} /\ state[k] \in {"queued", "asks"} THEN "runs" ELSE state[k]
  BY <1>7 DEF up
<1>15. UNCHANGED <<pc, kids, holder, absolute>>
  BY <1>4
<1> QED BY <1>1, <1>2, <1>5, <1>6, <1>9, <1>10, <1>11, <1>12, <1>13, <1>14, <1>15, TurnPasses

\* Signals abort: of all that have none aborted yet, or of one.
LEMMA AbortTurns ==
  ASSUME Inv, NEW b \in Batches, NEW S \in SUBSET (kids[b] \cap Timed),
         NEW left \in Seq(kids[b]), IsInjective(left), pc[b] = "children",
         Range(left) = {k \in kids[b] : state[k] = "queued"} \ S,
         Abort(b, S, left), UNCHANGED <<pc, kids>>
  PROVE  Turns' /\ Moved(b) /\ queue' \in [Batches -> Seq(Kids)]
<1> DEFINE asker == {k \in S : state[k] = "asks"}
           up == IF asker = {} THEN {} ELSE NextUp(left)
<1>0. Line(b) /\ kids[b] \subseteq Kids
  BY OfBatch
<1>1. /\ aborted' = [k \in Kids |-> k \in S \/ aborted[k]]
      /\ queue' = [queue EXCEPT ![b] = IF asker = {} THEN left ELSE Behind(left)]
      /\ state' = [k \in Kids |-> IF k \in up THEN "asks"
                     ELSE IF k \in S /\ state[k] \in {"queued", "asks"} THEN "runs" ELSE state[k]]
      /\ timer' = [k \in Kids |-> IF k \in S THEN 0
                     ELSE IF k \in up /\ holder = b THEN NextTimeout(TRUE) ELSE timer[k]]
      /\ paused' = IF asker = {} \/ holder # b THEN paused ELSE up # {}
      /\ UNCHANGED <<holder, absolute>>
  BY DEF Abort
<1>2. S \in SUBSET kids[b] /\ S \subseteq Kids
  BY <1>0
<1>3. CASE asker = {}
  <2>1. up = {} /\ queue' = [queue EXCEPT ![b] = left] /\ UNCHANGED <<pc, kids, holder, absolute, paused>>
    BY <1>1, <1>3
  <2>2. \A k \in S : state[k] # "asks" /\ aborted'[k]
    BY <1>1, <1>2, <1>3
  <2>3. \A k \in Kids : state'[k] = IF k \in S /\ state[k] = "queued" THEN "runs" ELSE state[k]
    BY <1>1, <2>1, <2>2
  <2>4. \A k \in Kids \ S : aborted'[k] = aborted[k] /\ timer'[k] = timer[k]
    BY <1>1, <2>1, <1>3 DEF Inv, TypeOK
  <2> QED BY <1>2, <2>1, <2>2, <2>3, <2>4, QueueLeft
<1>4. CASE asker # {}
  <2>1. /\ up = NextUp(left) /\ queue' = [queue EXCEPT ![b] = Behind(left)]
        /\ paused' = IF holder = b THEN NextUp(left) # {} ELSE paused
        /\ UNCHANGED <<pc, kids, holder, absolute>>
    BY <1>1, <1>4
  <2>2. \E k \in S : state[k] = "asks"
    BY <1>4
  <2>3. \A k \in Kids : state'[k] = IF k \in NextUp(left) THEN "asks"
              ELSE IF k \in S /\ state[k] \in {"queued", "asks"} THEN "runs" ELSE state[k]
    BY <1>1, <2>1
  <2>4. NextUp(left) \subseteq Range(left) /\ NextUp(left) \subseteq kids[b]
    BY Turnover
  <2>5. \A k \in Kids \ S : aborted'[k] = aborted[k]
    BY <1>1 DEF Inv, TypeOK
  <2>6. \A k \in Kids \ kids[b] : timer'[k] = timer[k]
    BY <1>1, <1>2, <2>1, <2>4
  <2>7. NextTimeout(TRUE) <= absolute
    BY Times DEF Inv
  <2>8. ASSUME NEW k \in kids[b] \cap Timed'
        PROVE  (holder = b /\ timer'[k] # timer[k] => timer'[k] <= absolute) /\ k \in Timed
    <3>1. k \in Kids /\ ~aborted'[k] /\ state'[k] \in Working
      BY <1>0 DEF Timed
    <3>2. k \notin S /\ ~aborted[k]
      BY <3>1, <1>1
    <3>3. k \in NextUp(left) => state[k] = "queued"
      BY <2>4
    <3>4. k \in Timed
      BY <3>1, <3>2, <3>3, <2>3 DEF Timed, Working
    <3>5. holder = b /\ timer'[k] # timer[k] => timer'[k] <= absolute
      BY <3>1, <3>2, <1>1, <2>1, <2>7
    <3> QED BY <3>4, <3>5
  <2> HIDE DEF up, asker
  <2> QED BY <1>2, <2>1, <2>2, <2>3, <2>5, <2>6, <2>8, TurnPasses
<1> QED BY <1>3, <1>4

\* The parent's turn is stopped.
LEMMA StopTurns ==
  ASSUME Inv, NEW b \in Batches, Stop(b)
  PROVE  Turns' /\ Moved(b) /\ queue' \in [Batches -> Seq(Kids)]
<1>0. /\ Line(b) /\ Lease(b) /\ kids[b] \subseteq Kids /\ UNCHANGED <<pc, kids>>
  BY OfBatch DEF Stop
<1>1. CASE pc[b] = "children"
  <2> DEFINE S == kids[b] \cap Timed
  <2>1. Abort(b, S, <<>>)
    BY <1>1 DEF Stop
  <2>2. {k \in kids[b] : state[k] = "queued"} \ S = {}
    BY <1>0 DEF Timed, Working, Inv, Turns, Child
  <2> HIDE DEF S
  <2>3. Range(<<>>) = {k \in kids[b] : state[k] = "queued"} \ S
    BY <2>2, NoLine
  <2>4. S \in SUBSET (kids[b] \cap Timed)
    BY DEF S
  <2> QED BY <1>0, <1>1, <2>1, <2>3, <2>4, NoLine, AbortTurns
<1>2. CASE pc[b] # "children"
  <2>1. UNCHANGED <<pc, kids, queue, holder, paused, active, absolute, state, aborted, timer>>
    BY <1>0, <1>2 DEF Stop, lease, child
  <2> QED BY <2>1, NoTurn
<1> QED BY <1>1, <1>2

\* The timer of a child fires.
LEMMA TimerTurns ==
  ASSUME Inv, NEW b \in Batches, NEW c \in Kids, TimerFires(b, c)
  PROVE  Turns' /\ Moved(b) /\ queue' \in [Batches -> Seq(Kids)]
<1>0. /\ Line(b) /\ Lease(b) /\ kids[b] \subseteq Kids /\ UNCHANGED <<pc, kids>>
      /\ Range(queue[b]) = {k \in kids[b] : state[k] = "queued"}
      /\ c \in kids[b] /\ c \in Timed
  BY OfBatch DEF TimerFires
<1>1. pc[b] = "children"
  BY <1>0, Attended DEF Rests, Timed, Working
<1>2. CASE holder # b \/ Overdue
  <2> DEFINE left == RemoveFirst(queue[b], c)
  <2>1. Abort(b, {c}, left)
    BY <1>2 DEF TimerFires
  <2>2. left \in Seq(kids[b]) /\ IsInjective(left) /\ Range(left) = Range(queue[b]) \ {c}
    BY <1>0, Removed DEF Line
  <2> HIDE DEF left
  <2>3. {c} \in SUBSET (kids[b] \cap Timed)
    BY <1>0
  <2>4. Range(left) = {k \in kids[b] : state[k] = "queued"} \ {c}
    BY <1>0, <2>2
  <2> QED BY <1>0, <1>1, <2>1, <2>2, <2>3, <2>4, AbortTurns
<1>3. CASE ~(holder # b \/ Overdue)
  <2>1. /\ timer' = [timer EXCEPT ![c] = NextTimeout(paused)]
        /\ UNCHANGED <<pc, kids, queue, holder, paused, active, absolute, state, aborted>>
    BY <1>0, <1>3 DEF TimerFires, lease
  <2>2. NextTimeout(paused) <= absolute
    BY Times DEF Inv, TypeOK
  <2>3. Timed' = Timed /\ timer \in [Kids -> 0..AbsoluteLimit]
    BY <2>1 DEF Timed, Inv, TypeOK
  <2>4. Line(b)'
    BY <1>0, <2>1 DEF Line, Rests
  <2>5. Lease(b)'
    BY <1>0, <2>1, <2>2, <2>3 DEF Lease
  <2>6. \A k \in kids[b] : state'[k] \in {"queued", "asks"} => ~aborted'[k]
    BY <1>0, <2>1 DEF Inv, Turns, Child
  <2>7. \A k \in Kids \ kids[b] : timer'[k] = timer[k]
    BY <1>0, <2>1, <2>3
  <2>8. queue' \in [Batches -> Seq(Kids)]
    BY <2>1 DEF Inv, TypeOK
  <2> QED BY <2>1, <2>4, <2>5, <2>6, <2>7, <2>8, Stays
<1> QED BY <1>2, <1>3

-----------------------------------------------------------------------------
(* Gates, children that go on, the user. *)

\* A gate: the child waits to ask, or asks.
LEMMA GateTurns ==
  ASSUME Inv, NEW b \in Batches, NEW c \in Kids, Gate(b, c)
  PROVE  Turns' /\ Moved(b) /\ queue' \in [Batches -> Seq(Kids)]
<1>0. /\ Line(b) /\ Lease(b) /\ kids[b] \subseteq Kids
      /\ Range(queue[b]) = {k \in kids[b] : state[k] = "queued"}
      /\ pc[b] = "children" /\ c \in kids[b] /\ state[c] = "runs" /\ ~aborted[c]
      /\ UNCHANGED <<pc, kids, holder, absolute, aborted>>
      /\ state \in [Kids -> Working \cup {"off", "cleanup", "done"}]
      /\ timer \in [Kids -> 0..AbsoluteLimit]
  BY OfBatch DEF Gate, Joins, Inv, TypeOK
<1>1. CASE \E k \in kids[b] : state[k] = "asks"
  <2>1. /\ state' = [state EXCEPT ![c] = "queued"]
        /\ queue' = [queue EXCEPT ![b] = Append(queue[b], c)]
        /\ UNCHANGED <<paused, timer>>
    BY <1>1 DEF Gate, Joins
  <2>2. c \notin Range(queue[b])
    BY <1>0
  <2>3. /\ Append(queue[b], c) \in Seq(kids[b]) /\ IsInjective(Append(queue[b], c))
        /\ Range(Append(queue[b], c)) = Range(queue[b]) \cup {c}
    <3>1. queue[b] \in Seq(kids[b]) /\ IsInjective(queue[b]) /\ c \in kids[b]
      BY <1>0 DEF Line
    <3>2. \A S : \A q \in Seq(S) : IsInjective(q) /\ c \in S /\ c \notin Range(q)
             => /\ Append(q, c) \in Seq(S) /\ IsInjective(Append(q, c))
                /\ Range(Append(q, c)) = Range(q) \cup {c}
      BY Queued
    <3> QED BY <2>2, <3>1, <3>2
  <2>4. /\ queue'[b] = Append(queue[b], c) /\ \A p \in Batches \ {b} : queue'[p] = queue[p]
        /\ queue' \in [Batches -> Seq(Kids)]
    BY <2>1, <2>3, Requeued
  <2>5. Line(b)'
    BY <1>0, <2>1, <2>3, <2>4 DEF Line
  <2>6. \A k \in kids[b] : /\ state'[k] = "asks" <=> state[k] = "asks"
                           /\ k \in Timed' => k \in Timed
    BY <1>0, <2>1 DEF Timed, Working
  <2>7. Lease(b)'
    BY <1>0, <2>1, <2>6 DEF Lease
  <2>8. \A k \in kids[b] : state'[k] \in {"queued", "asks"} => ~aborted'[k]
    BY <1>0, <2>1 DEF Inv, Turns, Child
  <2>9. \A k \in Kids \ kids[b] :
           state'[k] = state[k] /\ aborted'[k] = aborted[k] /\ timer'[k] = timer[k]
    BY <1>0, <2>1
  <2> QED BY <1>0, <2>1, <2>4, <2>5, <2>7, <2>8, <2>9, Stays
<1>2. CASE ~\E k \in kids[b] : state[k] = "asks"
  <2>1. /\ state' = [state EXCEPT ![c] = "asks"] /\ paused' = (paused \/ holder = b)
        /\ timer' = IF holder = b THEN [timer EXCEPT ![c] = NextTimeout(TRUE)] ELSE timer
        /\ queue' = queue
    BY <1>2 DEF Gate, Asks
  <2>2. NextTimeout(TRUE) <= absolute
    BY Times DEF Inv
  <2>3. Line(b)'
    <3>1. \A k \in kids[b] : state'[k] = "queued" <=> k \in Range(queue[b])
      BY <1>0, <2>1 DEF Line
    <3>2. \A k \in kids[b] : state'[k] = "asks" <=> k = c
      BY <1>0, <1>2, <2>1
    <3> QED BY <1>0, <2>1, <3>1, <3>2 DEF Line
  <2>4. Lease(b)'
    <3>1. SUFFICES ASSUME holder = b
          PROVE /\ pc[b] \notin {"off", "resolve", "acquire"}
                /\ paused' <=> \E k \in kids[b] : state'[k] = "asks"
                /\ \A k \in kids[b] \cap Timed' : timer'[k] <= absolute
      BY <1>0 DEF Lease
    <3>2. paused' /\ state'[c] = "asks"
      BY <1>0, <2>1, <3>1
    <3>3. ASSUME NEW k \in kids[b] \cap Timed' PROVE timer'[k] <= absolute
      <4>1. k \in Timed
        BY <1>0, <2>1 DEF Timed, Working
      <4> QED BY <1>0, <2>1, <2>2, <3>1, <4>1 DEF Lease
    <3> QED BY <1>0, <3>2, <3>3
  <2>5. \A k \in kids[b] : state'[k] \in {"queued", "asks"} => ~aborted'[k]
    BY <1>0, <2>1 DEF Inv, Turns, Child
  <2>6. \A k \in Kids \ kids[b] :
           state'[k] = state[k] /\ aborted'[k] = aborted[k] /\ timer'[k] = timer[k]
    BY <1>0, <2>1
  <2>7. queue' \in [Batches -> Seq(Kids)] /\ (holder # b => paused' = paused)
    BY <2>1 DEF Inv, TypeOK
  <2> QED BY <1>0, <2>1, <2>3, <2>4, <2>5, <2>6, <2>7, Stays
<1> QED BY <1>1, <1>2

\* A child goes on, or is over: it neither waits nor asks, before or after.
LEMMA OneChild ==
  ASSUME Inv, NEW b \in Batches, NEW c \in kids[b],
         state[c] \in {"runs", "handback", "verdict", "cleanup"},
         NEW s \in {"handback", "verdict", "cleanup", "done"},
         state[c] = "cleanup" => s = "done",
         state' = [state EXCEPT ![c] = s],
         timer' = timer \/ timer' = [timer EXCEPT ![c] = 0],
         UNCHANGED <<pc, kids, queue, holder, paused, absolute, aborted>>
  PROVE  Turns' /\ Moved(b) /\ queue' \in [Batches -> Seq(Kids)]
<1>0. /\ Line(b) /\ Lease(b) /\ kids[b] \subseteq Kids
      /\ Range(queue[b]) = {k \in kids[b] : state[k] = "queued"}
      /\ state \in [Kids -> Working \cup {"off", "cleanup", "done"}]
      /\ timer \in [Kids -> 0..AbsoluteLimit] /\ absolute \in Nat
  BY OfBatch DEF Inv, TypeOK
<1>1. pc[b] = "children"
  BY Attended DEF Rests
<1>2. \A k \in kids[b] : /\ state'[k] = "asks" <=> state[k] = "asks"
                         /\ state'[k] = "queued" <=> state[k] = "queued"
                         /\ k \in Timed' => k \in Timed /\ timer'[k] <= timer[k]
  BY <1>0 DEF Timed, Working
<1>3. Line(b)'
  BY <1>0, <1>1, <1>2 DEF Line
<1>4. Lease(b)'
  <2>1. \A k \in kids[b] : k \in Timed' /\ timer[k] <= absolute => timer'[k] <= absolute
    BY <1>0, <1>2
  <2> QED BY <1>0, <1>2, <2>1 DEF Lease
<1>5. \A k \in kids[b] : state'[k] \in {"queued", "asks"} => ~aborted'[k]
  BY <1>0, <1>2 DEF Inv, Turns, Child
<1>6. \A k \in Kids \ kids[b] :
         state'[k] = state[k] /\ aborted'[k] = aborted[k] /\ timer'[k] = timer[k]
  BY <1>0
<1>7. queue' \in [Batches -> Seq(Kids)]
  BY DEF Inv, TypeOK
<1> QED BY <1>3, <1>4, <1>5, <1>6, <1>7, Stays

LEMMA ChildTurns ==
  ASSUME Inv, NEW b \in Batches, NEW c \in Kids,
         LoopEnds(b, c) \/ Collected(b, c) \/ Judged(b, c) \/ Cleaned(b, c)
  PROVE  Turns' /\ Moved(b) /\ queue' \in [Batches -> Seq(Kids)]
<1>0. /\ c \in kids[b] /\ UNCHANGED <<pc, kids, queue, holder, paused, absolute, aborted>>
  BY DEF LoopEnds, Collected, Judged, Cleaned, batch, lease
<1>1. ASSUME NEW kept, Leaves(b, c, kept), state[c] \in {"runs", "handback", "verdict"}
      PROVE  Turns' /\ Moved(b) /\ queue' \in [Batches -> Seq(Kids)]
  <2>1. PICK s \in {"cleanup", "done"} : state' = [state EXCEPT ![c] = s]
    BY <1>1 DEF Leaves
  <2>2. timer' = [timer EXCEPT ![c] = 0]
    BY <1>1 DEF Leaves
  <2> QED BY <1>0, <1>1, <2>1, <2>2, OneChild
<1>2. CASE LoopEnds(b, c)
  <2>1. CASE state' = [state EXCEPT ![c] = "handback"] /\ timer' = timer
    BY <1>0, <1>2, <2>1, OneChild DEF LoopEnds
  <2> QED BY <1>1, <1>2, <2>1 DEF LoopEnds
<1>3. CASE Collected(b, c)
  <2>1. CASE state' = [state EXCEPT ![c] = "verdict"] /\ timer' = timer
    BY <1>0, <1>3, <2>1, OneChild DEF Collected
  <2> QED BY <1>1, <1>3, <2>1 DEF Collected
<1>4. CASE Judged(b, c)
  BY <1>1, <1>4 DEF Judged
<1>5. CASE Cleaned(b, c)
  BY <1>0, <1>5, OneChild DEF Cleaned
<1> QED BY <1>2, <1>3, <1>4, <1>5

\* The user decides, or switches Auto.
LEMMA UserTurns ==
  ASSUME Inv, NEW b \in Batches, SetAuto(b) \/ \E c \in Kids : Decide(b, c)
  PROVE  Turns' /\ Moved(b) /\ queue' \in [Batches -> Seq(Kids)]
<1>1. ASSUME NEW c \in Kids, Decide(b, c) PROVE Turns' /\ Moved(b) /\ queue' \in [Batches -> Seq(Kids)]
  BY <1>1, SettlesTurns DEF Decide
<1>2. CASE SetAuto(b)
  <2>1. UNCHANGED <<pc, kids, aborted>>
    BY <1>2 DEF SetAuto
  <2>2. ASSUME NEW c \in kids[b], state[c] = "asks", Settles(b, c)
        PROVE  Turns' /\ Moved(b) /\ queue' \in [Batches -> Seq(Kids)]
    BY <2>1, <2>2, SettlesTurns
  <2>3. CASE UNCHANGED <<state, timer, paused, queue, holder, absolute>>
    BY <2>1, <2>3, NoTurn
  <2> QED BY <1>2, <2>2, <2>3 DEF SetAuto
<1> QED BY <1>1, <1>2

-----------------------------------------------------------------------------
(* The way to the children, the return, time and crashes. *)

\* The children begin, under the lease or without one.
LEMMA BeginTurns ==
  ASSUME Inv, NEW b \in Batches, NEW T \in SUBSET kids[b], NEW held \in BOOLEAN,
         Begin(b, T, held), pc[b] # "children", UNCHANGED <<kids, queue>>,
         \/ UNCHANGED lease /\ (holder # b \/ held)
         \/ holder = b /\ holder' = Nobody /\ ~paused'
  PROVE  Turns' /\ Moved(b) /\ queue' \in [Batches -> Seq(Kids)]
<1>0. /\ Line(b) /\ Lease(b) /\ kids[b] \subseteq Kids /\ b # Nobody
      /\ queue[b] = <<>> /\ pc \in [Batches -> {"off", "resolve", "acquire", "preflight",
                                                 "create", "undo", "children", "integrate"}]
      /\ queue \in [Batches -> Seq(Kids)] /\ kids \in [Batches -> SUBSET Kids]
  BY OfBatch, EmptyQueue DEF Inv, TypeOK
<1> DEFINE R == (kids[b] \cap Readers) \cup T
           left == IF held THEN NextTimeout(paused) ELSE ActiveLimit
<1>1. /\ pc' = [pc EXCEPT ![b] = "children"]
      /\ state' = [c \in Kids |-> IF c \in R THEN "runs"
                                  ELSE IF c \in kids[b] THEN "done" ELSE state[c]]
      /\ aborted' = [c \in Kids |-> IF c \in R THEN stopped[b] ELSE aborted[c]]
      /\ timer' = [c \in Kids |-> IF c \in R THEN left ELSE timer[c]]
  BY DEF Begin
<1>2. R \subseteq kids[b]
  OBVIOUS
<1> HIDE DEF R
<1>3. \A c \in kids[b] : state'[c] = IF c \in R THEN "runs" ELSE "done"
  BY <1>0, <1>1
<1>4. Line(b)'
  <2>1. queue'[b] = <<>> /\ pc'[b] = "children"
    BY <1>0, <1>1
  <2> QED BY <1>3, <2>1, NoLine DEF Line
<1>5. \A c \in Kids \ kids[b] :
         state'[c] = state[c] /\ aborted'[c] = aborted[c] /\ timer'[c] = timer[c]
  BY <1>1, <1>2 DEF Inv, TypeOK
<1>6. Lease(b)'
  <2>1. SUFFICES ASSUME holder' = b
        PROVE /\ pc'[b] \notin {"off", "resolve", "acquire"}
              /\ paused' <=> \E c \in kids'[b] : state'[c] = "asks"
              /\ \A c \in kids'[b] \cap Timed' : timer'[c] <= absolute'
    BY DEF Lease
  <2>2. UNCHANGED lease /\ held
    BY <2>1, <1>0 DEF lease
  <2>3. holder = b /\ UNCHANGED <<paused, absolute>>
    BY <2>1, <2>2 DEF lease
  <2>4. \A c \in kids[b] : state[c] # "asks"
    BY <1>0, EmptyQueue DEF Rests
  <2>5. ~paused'
    BY <1>0, <2>3, <2>4 DEF Lease
  <2>6. paused \in BOOLEAN /\ left = NextTimeout(paused) /\ NextTimeout(paused) <= absolute
    BY <2>2, Times DEF Inv, TypeOK
  <2>7. ASSUME NEW c \in kids[b] \cap Timed' PROVE timer'[c] <= absolute
    <3>1. state'[c] \in Working
      BY DEF Timed
    <3>2. c \in R
      BY <3>1, <1>3 DEF Working
    <3> QED BY <3>2, <1>0, <1>1, <2>6
  <2>8. pc'[b] = "children" /\ ~\E c \in kids[b] : state'[c] = "asks"
    BY <1>0, <1>1, <1>3
  <2> QED BY <2>3, <2>5, <2>7, <2>8
<1>7. Moved(b)
  <2>1. \A q \in Batches \ {b} : pc'[q] = pc[q] /\ kids[q] \cap kids[b] = {}
    BY <1>0, <1>1 DEF Inv, Turns, Apart
  <2>2. holder' \in {holder, b, Nobody}
        /\ (holder' = holder /\ holder # b => UNCHANGED <<paused, absolute>>)
    BY <1>0 DEF lease
  <2> QED BY <1>5, <2>1, <2>2 DEF Moved
<1>8. Free'
  BY <1>0 DEF Free, lease, Inv, Turns
<1>9. \A c \in kids'[b] : state'[c] \in {"queued", "asks"} => ~aborted'[c]
  BY <1>3
<1> QED BY <1>0, <1>4, <1>6, <1>7, <1>8, <1>9, OneBatch

\* A batch that has no children at work moves on; so its queue is empty.
LEMMA MoveTurns ==
  ASSUME Inv, NEW b \in Batches, NEW place, pc' = [pc EXCEPT ![b] = place], place # "children",
         UNCHANGED <<queue, state, aborted, timer>>, \A c \in kids'[b] : Rests(c),
         queue[b] = <<>>,
         kids' \in [Batches -> SUBSET Kids], \A q \in Batches \ {b} : kids'[q] = kids[q],
         \A q \in Batches \ {b} : kids'[b] \cap kids[q] = {},
         \A c \in kids[b] \ kids'[b] : Rests(c),
         \/ UNCHANGED lease /\ (holder = b => place \notin {"off", "resolve", "acquire"})
         \/ holder = Nobody /\ holder' = b /\ ~paused' /\ place = "preflight"
  PROVE  Turns' /\ Moved(b) /\ queue' \in [Batches -> Seq(Kids)]
<1>0. /\ Line(b) /\ Lease(b) /\ kids[b] \subseteq Kids /\ b # Nobody
      /\ pc \in [Batches -> {"off", "resolve", "acquire", "preflight",
                             "create", "undo", "children", "integrate"}]
      /\ queue' \in [Batches -> Seq(Kids)]
  BY OfBatch DEF Inv, TypeOK
<1>1. pc'[b] = place /\ \A q \in Batches \ {b} : pc'[q] = pc[q]
  BY <1>0
<1>2. \A c \in kids'[b] : state'[c] \in {"off", "done"}
  BY DEF Rests
<1>3. Line(b)'
  BY <1>1, <1>2, NoLine DEF Line, Rests
<1>4. \A c \in kids'[b] : c \notin Timed' /\ state'[c] # "asks"
  BY <1>2 DEF Timed, Working
<1>5. Lease(b)'
  <2>1. CASE UNCHANGED lease /\ (holder = b => place \notin {"off", "resolve", "acquire"})
    <3>1. holder = b => ~paused
      <4>1. ASSUME holder = b PROVE ~\E c \in kids[b] : state[c] = "asks"
        <5>1. \A c \in kids[b] : Rests(c)
          BY DEF Rests
        <5> QED BY <5>1 DEF Rests
      <4> QED BY <1>0, <4>1 DEF Lease
    <3> QED BY <2>1, <3>1, <1>1, <1>4 DEF Lease, lease
  <2>2. CASE holder = Nobody /\ holder' = b /\ ~paused' /\ place = "preflight"
    BY <2>2, <1>1, <1>4 DEF Lease
  <2> QED BY <2>1, <2>2
<1>6. Moved(b)
  <2>1. holder' \in {holder, b, Nobody}
        /\ (holder' = holder /\ holder # b => UNCHANGED <<paused, absolute>>)
    BY <1>0 DEF lease
  <2> QED BY <1>1, <2>1 DEF Moved
<1>7. Free'
  BY <1>0 DEF Free, lease, Inv, Turns
<1>8. \A c \in kids[b] \ kids'[b] : Rests(c)'
  BY DEF Rests
<1> QED BY <1>0, <1>2, <1>3, <1>5, <1>6, <1>7, <1>8, OneBatch

\* The call, and the way to its children.
LEMMA PrepareTurns ==
  ASSUME Inv, NEW b \in Batches, Prepares(b) \/ Integrate(b)
         \/ \E K \in Assigned[b], on \in BOOLEAN : Spawn(b, K, on)
  PROVE  Turns' /\ Moved(b) /\ queue' \in [Batches -> Seq(Kids)]
<1>0. /\ Line(b) /\ Lease(b) /\ kids[b] \subseteq Kids /\ b # Nobody
      /\ Session(b) /\ kids \in [Batches -> SUBSET Kids]
      /\ trees[b] \subseteq kids[b]
      /\ \A q \in Batches \ {b} : kids[b] \cap kids[q] = {}
  BY OfBatch DEF Inv, TypeOK, IndInv, Turns, Apart
<1>1. pc[b] # "children" => queue[b] = <<>> /\ \A c \in kids[b] : Rests(c)
  BY EmptyQueue
<1>2. ASSUME NEW K \in Assigned[b], NEW on \in BOOLEAN, Spawn(b, K, on)
      PROVE  Turns' /\ Moved(b) /\ queue' \in [Batches -> Seq(Kids)]
  <2>1. /\ pc[b] = "off" /\ pc' = [pc EXCEPT ![b] = "resolve"] /\ kids' = [kids EXCEPT ![b] = K]
        /\ UNCHANGED <<queue, lease, state, aborted, timer>>
        /\ \A q \in Batches : K \cap kids[q] = {}
    BY <1>2 DEF Spawn, child
  <2>2. K \in SUBSET Kids
    BY DelegationAssumption
  <2>3. \A c \in K : Rests(c)
    BY <2>1, <2>2 DEF Inv, Turns, Child
  <2>4. /\ kids' \in [Batches -> SUBSET Kids] /\ kids'[b] = K
        /\ \A q \in Batches \ {b} : kids'[q] = kids[q]
    BY <1>0, <2>1, <2>2
  <2>5. holder # b
    BY <1>0, <2>1 DEF Lease
  <2> QED BY <1>1, <2>1, <2>3, <2>4, <2>5, MoveTurns
<1>3. CASE Resolved(b)
  <2>1. pc[b] = "resolve" /\ UNCHANGED <<queue, lease>> /\ holder # b
    BY <1>0, <1>3 DEF Resolved, Lease
  <2>2. CASE /\ pc' = [pc EXCEPT ![b] = "off"] /\ kids' = [kids EXCEPT ![b] = {}]
             /\ UNCHANGED child
    <3>1. /\ kids' \in [Batches -> SUBSET Kids] /\ kids'[b] = {}
          /\ \A q \in Batches \ {b} : kids'[q] = kids[q]
      BY <1>0, <2>2
    <3>2. UNCHANGED <<state, aborted, timer>>
      BY <2>2 DEF child
    <3> QED BY <1>1, <2>1, <2>2, <3>1, <3>2, MoveTurns
  <2>3. CASE pc' = [pc EXCEPT ![b] = "acquire"] /\ UNCHANGED <<kids, child>>
    <3>1. UNCHANGED <<state, aborted, timer>>
      BY <2>3 DEF child
    <3> QED BY <1>0, <1>1, <2>1, <2>3, <3>1, MoveTurns
  <2>4. CASE Begin(b, {}, FALSE) /\ UNCHANGED kids
    BY <2>1, <2>4, BeginTurns
  <2> QED BY <1>3, <2>2, <2>3, <2>4 DEF Resolved
<1>4. CASE Acquire(b)
  <2>1. pc[b] = "acquire" /\ UNCHANGED <<queue, kids>> /\ holder # b
    BY <1>0, <1>4 DEF Acquire, Lease
  <2>2. CASE Begin(b, {}, FALSE) /\ UNCHANGED lease
    BY <2>1, <2>2, BeginTurns
  <2>3. CASE /\ holder = Nobody /\ holder' = b /\ paused' = FALSE
             /\ pc' = [pc EXCEPT ![b] = "preflight"] /\ UNCHANGED child
    <3>1. UNCHANGED <<state, aborted, timer>>
      BY <2>3 DEF child
    <3> QED BY <1>0, <1>1, <2>1, <2>3, <3>1, MoveTurns
  <2> QED BY <1>4, <2>2, <2>3 DEF Acquire
<1>5. CASE Preflight(b)
  <2>1. pc[b] = "preflight" /\ UNCHANGED <<queue, kids>> /\ holder = b
    BY <1>0, <1>5 DEF Preflight, Session
  <2>2. CASE Begin(b, {}, FALSE) /\ Released(b)
    BY <2>1, <2>2, BeginTurns DEF Released
  <2>3. CASE pc' = [pc EXCEPT ![b] = "create"] /\ UNCHANGED <<lease, child>>
    <3>1. UNCHANGED <<state, aborted, timer>>
      BY <2>3 DEF child
    <3> QED BY <1>0, <1>1, <2>1, <2>3, <3>1, MoveTurns
  <2> QED BY <1>5, <2>2, <2>3 DEF Preflight
<1>6. ASSUME NEW c \in Writers, Create(b, c)
      PROVE  Turns' /\ Moved(b) /\ queue' \in [Batches -> Seq(Kids)]
  <2>1. /\ pc[b] = "create" /\ UNCHANGED <<queue, kids, lease>> /\ holder = b
        /\ c \in kids[b]
    BY <1>0, <1>6 DEF Create, Session
  <2>2. CASE Begin(b, trees[b] \cup {c}, TRUE)
    BY <1>0, <2>1, <2>2, BeginTurns
  <2>3. CASE UNCHANGED <<pc, child>>
    BY <2>1, <2>3, NoTurn DEF lease, child
  <2>4. CASE pc' = [pc EXCEPT ![b] = "undo"] /\ UNCHANGED child
    <3>1. UNCHANGED <<state, aborted, timer>>
      BY <2>4 DEF child
    <3> QED BY <1>0, <1>1, <2>1, <2>4, <3>1, MoveTurns
  <2> QED BY <1>6, <2>2, <2>3, <2>4 DEF Create
<1>7. CASE Undo(b)
  <2>1. pc[b] = "undo" /\ UNCHANGED <<queue, kids>> /\ holder = b
    BY <1>0, <1>7 DEF Undo, Session
  <2>2. CASE Begin(b, {}, FALSE) /\ Released(b)
    BY <2>1, <2>2, BeginTurns DEF Released
  <2>3. CASE UNCHANGED <<pc, lease, child>>
    BY <2>1, <2>3, NoTurn DEF lease, child
  <2> QED BY <1>7, <2>2, <2>3 DEF Undo
<1>8. CASE Integrate(b)
  <2>1. /\ pc' = [pc EXCEPT ![b] = "integrate"] /\ UNCHANGED <<queue, kids, lease>>
        /\ UNCHANGED <<state, aborted, timer>> /\ \A c \in kids[b] : state[c] = "done"
    BY <1>8 DEF Integrate, Joined, child
  <2>2. queue[b] = <<>> /\ \A c \in kids[b] : Rests(c)
    BY <2>1, NobodyWaits DEF Rests
  <2> QED BY <1>0, <2>1, <2>2, MoveTurns
<1> QED BY <1>2, <1>3, <1>4, <1>5, <1>6, <1>7, <1>8 DEF Prepares

\* The batch returns.
LEMMA ReturnTurns ==
  ASSUME Inv, NEW b \in Batches, Returns(b)
  PROVE  Turns' /\ Moved(b) /\ queue' \in [Batches -> Seq(Kids)]
<1>0. /\ Line(b) /\ kids[b] \subseteq Kids /\ b # Nobody /\ Nobody \notin Batches
      /\ kids \in [Batches -> SUBSET Kids] /\ holder \in Batches \cup {Nobody}
      /\ pc \in [Batches -> {"off", "resolve", "acquire", "preflight",
                             "create", "undo", "children", "integrate"}]
      /\ timer' = timer /\ queue' = queue /\ queue' \in [Batches -> Seq(Kids)]
  BY OfBatch, DelegationAssumption DEF Inv, TypeOK, Returns
<1>1. \A c \in kids[b] : Rests(c)
  BY EmptyQueue DEF Returns, Joined, Rests
<1>2. queue[b] = <<>>
  BY <1>1, NobodyWaits DEF Rests
<1>3. /\ pc' = [pc EXCEPT ![b] = "off"] /\ kids' = [kids EXCEPT ![b] = {}]
      /\ state' = [c \in Kids |-> IF c \in kids[b] THEN "off" ELSE state[c]]
      /\ aborted' = [c \in Kids |-> c \notin kids[b] /\ aborted[c]]
      /\ IF holder = b THEN holder' = Nobody /\ paused' = FALSE ELSE UNCHANGED lease
  BY DEF Returns, Released
<1>4. /\ kids' \in [Batches -> SUBSET Kids] /\ kids'[b] = {} /\ holder' # b
      /\ \A q \in Batches \ {b} : kids'[q] = kids[q] /\ pc'[q] = pc[q]
  BY <1>0, <1>3 DEF lease
<1>5. Line(b)' /\ Lease(b)'
  BY <1>0, <1>2, <1>4, NoLine DEF Line, Lease
<1>6. \A c \in Kids \ kids[b] : state'[c] = state[c] /\ aborted'[c] = aborted[c]
  BY <1>3 DEF Inv, TypeOK
<1>7. holder' \in {holder, b, Nobody}
      /\ (holder' = holder /\ holder # b => UNCHANGED <<paused, absolute>>)
  BY <1>3 DEF lease
<1>8. Moved(b)
  BY <1>0, <1>4, <1>6, <1>7 DEF Moved
<1>9. Free'
  BY <1>3 DEF Free, lease, Inv, Turns
<1>10. \A c \in kids[b] \ kids'[b] : Rests(c)'
  BY <1>0, <1>3 DEF Rests
<1> QED BY <1>0, <1>4, <1>5, <1>8, <1>9, <1>10, OneBatch

\* Time passes: for the deadline and the timers alike.
LEMMA TickTurns ==
  ASSUME Inv, Tick
  PROVE  Turns' /\ queue' \in [Batches -> Seq(Kids)]
<1>0. /\ UNCHANGED <<pc, kids, queue, holder, paused, state, aborted>>
      /\ timer' = [c \in Kids |-> IF c \in Timed THEN timer[c] - 1 ELSE timer[c]]
      /\ absolute' = IF absolute > 0 THEN absolute - 1 ELSE 0
      /\ \A c \in Timed : timer[c] > 0
      /\ timer \in [Kids -> 0..AbsoluteLimit] /\ absolute \in 0..AbsoluteLimit
      /\ AbsoluteLimit \in Nat
  BY DelegationAssumption DEF Tick, batch, Inv, TypeOK
<1>1. Timed' = Timed /\ Timed \subseteq Kids
  BY <1>0 DEF Timed
<1>2. ASSUME NEW b \in Batches PROVE Line(b)' /\ Lease(b)'
  <2>1. Line(b) /\ Lease(b)
    BY OfBatch
  <2>2. Line(b)'
    BY <1>0, <2>1 DEF Line, Rests
  <2>3. \A c \in kids[b] \cap Timed : timer[c] <= absolute => timer'[c] <= absolute'
    BY <1>0, <1>1
  <2>4. Lease(b)'
    BY <1>0, <1>1, <2>1, <2>3 DEF Lease
  <2> QED BY <2>2, <2>4
<1>3. Apart' /\ Free' /\ \A c \in Kids : Child(c)'
  BY <1>0 DEF Inv, Turns, Apart, Free, Child, Rests
<1> QED BY <1>0, <1>2, <1>3 DEF Turns, Inv, TypeOK

LEMMA CrashTurns ==
  ASSUME Inv, Crash
  PROVE  Turns' /\ queue' \in [Batches -> Seq(Kids)]
<1>0. /\ pc' = [b \in Batches |-> "off"] /\ kids' = [b \in Batches |-> {}]
      /\ queue' = [b \in Batches |-> <<>>] /\ holder' = Nobody /\ paused' = FALSE
      /\ state' = [c \in Kids |-> "off"] /\ Nobody \notin Batches
  BY DelegationAssumption DEF Crash
<1>1. ASSUME NEW b \in Batches PROVE Line(b)' /\ Lease(b)'
  BY <1>0, NoLine DEF Line, Lease
<1>2. Apart' /\ Free' /\ \A c \in Kids : Child(c)'
  BY <1>0 DEF Apart, Free, Child, Rests
<1> QED BY <1>0, <1>1, <1>2, NoLine DEF Turns

-----------------------------------------------------------------------------
(* Types, and the invariant. *)

\* The type invariant, in three parts: what of it neither Kinds nor the queues give.
BookTypes ==
  /\ trees \in [Batches -> SUBSET Writers]
  /\ auto \in [Batches -> BOOLEAN] /\ relayed \in [Batches -> BOOLEAN]
  /\ stopped \in [Batches -> BOOLEAN]
  /\ \A b \in Batches : trees[b] \subseteq kids[b]
  /\ worktree \in [Kids -> BOOLEAN] /\ branch \in [Kids -> BOOLEAN]

ClockTypes ==
  paused \in BOOLEAN /\ active \in 0..ActiveLimit /\ absolute \in 0..AbsoluteLimit

ChildTypes ==
  /\ state \in [Kids -> Working \cup {"off", "cleanup", "done"}]
  /\ aborted \in [Kids -> BOOLEAN] /\ keep \in [Kids -> BOOLEAN]
  /\ timer \in [Kids -> 0..AbsoluteLimit] /\ patience \in [Kids -> 0..ApprovalLimit]

Types == BookTypes /\ ClockTypes /\ ChildTypes

LEMMA TypeParts ==
  Kinds /\ Types /\ (\A b \in Batches : Line(b)) /\ queue \in [Batches -> Seq(Kids)] => TypeOK
BY DEF Kinds, Types, BookTypes, ClockTypes, ChildTypes, Line, TypeOK

LEMMA TypesHold ==
  ASSUME TypeOK
  PROVE  Types /\ kids \in [Batches -> SUBSET Kids] /\ holder \in Batches \cup {Nobody}
BY DEF Types, BookTypes, ClockTypes, ChildTypes, TypeOK

\* What a lease is set to, and whether it stands.
LEMMA ReleasedTypes ==
  ASSUME Types, NEW b \in Batches, Released(b) PROVE ClockTypes'
<1>1. 0 \in 0..ActiveLimit /\ 0 \in 0..AbsoluteLimit
  BY DelegationAssumption
<1> QED BY <1>1 DEF Types, ClockTypes, Released, lease

LEMMA BeginTypes ==
  ASSUME TypeOK, NEW b \in Batches, NEW T \in SUBSET kids[b], NEW held \in BOOLEAN, Begin(b, T, held)
  PROVE  ChildTypes' /\ stopped' \in [Batches -> BOOLEAN]
<1> DEFINE left == IF held THEN NextTimeout(paused) ELSE ActiveLimit
<1>1. left \in 0..AbsoluteLimit
  BY Times DEF TypeOK
<1>2. ChildTypes
  BY TypesHold DEF Types
<1>3. stopped \in [Batches -> BOOLEAN]
  BY DEF TypeOK
<1> HIDE DEF left
<1>4. timer' \in [Kids -> 0..AbsoluteLimit]
  <2>1. timer' = [c \in Kids |-> IF c \in (kids[b] \cap Readers) \cup T THEN left ELSE timer[c]]
    BY DEF Begin, left
  <2> QED BY <1>1, <1>2, <2>1 DEF ChildTypes
<1>5. /\ state' \in [Kids -> Working \cup {"off", "cleanup", "done"}]
      /\ aborted' \in [Kids -> BOOLEAN]
  BY <1>2, <1>3 DEF Begin, ChildTypes, Working
<1>6. UNCHANGED <<keep, patience>> /\ stopped' = [stopped EXCEPT ![b] = FALSE]
  BY DEF Begin
<1> QED BY <1>2, <1>3, <1>4, <1>5, <1>6 DEF ChildTypes

\* The turn is given back, signals abort.
LEMMA AnsweredTypes ==
  ASSUME TypeOK, NEW b \in Batches, NEW c \in Kids, Settles(b, c), UNCHANGED <<aborted, keep>>
  PROVE  ClockTypes' /\ ChildTypes'
<1>1. ClockTypes /\ ChildTypes
  BY TypesHold DEF Types
<1>2. /\ NextTimeout(TRUE) \in 0..AbsoluteLimit /\ NextTimeout(FALSE) \in 0..AbsoluteLimit
      /\ ApprovalLimit \in 0..ApprovalLimit /\ 0 \in 0..ApprovalLimit
  BY Times
<1> DEFINE up == NextUp(queue[b])
<1>3. Answered(b, c, up) /\ UNCHANGED <<holder, active, absolute>>
  BY DEF Settles
<1> HIDE DEF up
<1>4. ClockTypes'
  BY <1>1, <1>3 DEF Answered, ClockTypes
<1>5. state' \in [Kids -> Working \cup {"off", "cleanup", "done"}]
  BY <1>1, <1>3 DEF Answered, ChildTypes, Working
<1>6. timer' \in [Kids -> 0..AbsoluteLimit]
  BY <1>1, <1>2, <1>3 DEF Answered, ChildTypes
<1>7. patience' \in [Kids -> 0..ApprovalLimit]
  BY <1>1, <1>2, <1>3 DEF Answered, ChildTypes
<1> QED BY <1>1, <1>4, <1>5, <1>6, <1>7 DEF ChildTypes

LEMMA AbortTypes ==
  ASSUME TypeOK, NEW b \in Batches, NEW S, NEW left, Abort(b, S, left)
  PROVE  ClockTypes' /\ ChildTypes'
<1>1. ClockTypes /\ ChildTypes
  BY TypesHold DEF Types
<1>2. /\ NextTimeout(TRUE) \in 0..AbsoluteLimit /\ 0 \in 0..AbsoluteLimit
      /\ ApprovalLimit \in 0..ApprovalLimit /\ 0 \in 0..ApprovalLimit
  BY Times
<1> DEFINE asker == {k \in S : state[k] = "asks"}
           up == IF asker = {} THEN {} ELSE NextUp(left)
<1>3. /\ aborted' = [k \in Kids |-> k \in S \/ aborted[k]]
      /\ state' = [k \in Kids |-> IF k \in up THEN "asks"
                     ELSE IF k \in S /\ state[k] \in {"queued", "asks"} THEN "runs" ELSE state[k]]
      /\ patience' = [k \in Kids |-> IF k \in up THEN ApprovalLimit
                                     ELSE IF k \in S THEN 0 ELSE patience[k]]
      /\ timer' = [k \in Kids |-> IF k \in S THEN 0
                     ELSE IF k \in up /\ holder = b THEN NextTimeout(TRUE) ELSE timer[k]]
      /\ paused' = IF asker = {} \/ holder # b THEN paused ELSE up # {}
      /\ UNCHANGED <<holder, active, absolute, keep>>
  BY DEF Abort
<1> HIDE DEF asker, up
<1>4. ClockTypes'
  BY <1>1, <1>3 DEF ClockTypes
<1>5. aborted' \in [Kids -> BOOLEAN]
  BY <1>1, <1>3 DEF ChildTypes
<1>6. state' \in [Kids -> Working \cup {"off", "cleanup", "done"}]
  BY <1>1, <1>3 DEF ChildTypes, Working
<1>7. timer' \in [Kids -> 0..AbsoluteLimit]
  BY <1>1, <1>2, <1>3 DEF ChildTypes
<1>8. patience' \in [Kids -> 0..ApprovalLimit]
  BY <1>1, <1>2, <1>3 DEF ChildTypes
<1> QED BY <1>1, <1>3, <1>4, <1>5, <1>6, <1>7, <1>8 DEF ChildTypes

\* The way to the children.
LEMMA PrepareTypes ==
  ASSUME Inv, NEW b \in Batches, Prepares(b) \/ Integrate(b)
         \/ \E K \in Assigned[b], on \in BOOLEAN : Spawn(b, K, on)
  PROVE  Types'
<1>0. /\ TypeOK /\ Types /\ kids \in [Batches -> SUBSET Kids] /\ Session(b)
      /\ ClockTypes /\ ChildTypes /\ BookTypes
  BY TypesHold DEF Inv, IndInv, Types
<1>00. {} \in SUBSET kids[b]
  OBVIOUS
<1>1. ASSUME NEW K \in Assigned[b], NEW on \in BOOLEAN, Spawn(b, K, on) PROVE Types'
  <2>1. trees[b] = {}
    BY <1>0, <1>1 DEF Spawn, Session
  <2> QED BY <1>0, <1>1, <2>1
       DEF Spawn, Types, BookTypes, ClockTypes, ChildTypes, lease, child, durable
<1>2. CASE Resolved(b)
  <2>1. trees[b] = {} /\ UNCHANGED <<trees, lease, worktree, branch>>
    BY <1>0, <1>2 DEF Resolved, Session
  <2>2. CASE UNCHANGED child
    BY <1>0, <1>2, <2>1, <2>2 DEF Resolved, Begin, Types, BookTypes, ClockTypes, ChildTypes, lease, child
  <2>3. CASE Begin(b, {}, FALSE) /\ UNCHANGED <<kids, auto, relayed>>
    BY <1>0, <1>00, <2>1, <2>3, BeginTypes DEF Types, BookTypes, ClockTypes, lease
  <2> QED BY <1>2, <2>2, <2>3 DEF Resolved
<1>3. CASE Acquire(b)
  <2>1. UNCHANGED <<kids, auto, relayed, trees, worktree, branch>>
    BY <1>3 DEF Acquire
  <2>2. CASE Begin(b, {}, FALSE) /\ UNCHANGED lease
    BY <1>0, <1>00, <2>1, <2>2, BeginTypes DEF Types, BookTypes, ClockTypes, lease
  <2>3. CASE /\ paused' = FALSE /\ active' = ActiveLimit /\ absolute' = AbsoluteLimit
             /\ UNCHANGED <<stopped, child>>
    BY <1>0, <2>1, <2>3, Times DEF Types, BookTypes, ClockTypes, ChildTypes, child
  <2> QED BY <1>3, <2>2, <2>3 DEF Acquire
<1>4. CASE Preflight(b)
  <2>1. UNCHANGED <<kids, auto, relayed, trees, worktree, branch>>
    BY <1>4 DEF Preflight
  <2>2. CASE Begin(b, {}, FALSE) /\ Released(b)
    BY <1>0, <1>00, <2>1, <2>2, BeginTypes, ReleasedTypes DEF Types, BookTypes
  <2>3. CASE UNCHANGED <<lease, stopped, child>>
    BY <1>0, <2>1, <2>3 DEF Types, BookTypes, ClockTypes, ChildTypes, lease, child
  <2> QED BY <1>4, <2>2, <2>3 DEF Preflight
<1>5. ASSUME NEW c \in Writers, Create(b, c) PROVE Types'
  <2>1. /\ UNCHANGED <<kids, auto, relayed, lease>> /\ c \in kids[b] \cap Writers
        /\ worktree' \in [Kids -> BOOLEAN] /\ branch' \in [Kids -> BOOLEAN]
        /\ trees' \in [Batches -> SUBSET Writers] /\ \A q \in Batches : trees'[q] \subseteq kids[q]
    <3>1. UNCHANGED <<kids, auto, relayed, lease>> /\ c \in kids[b] \cap Writers
      BY <1>5 DEF Create
    <3>2. CASE trees' = [trees EXCEPT ![b] = trees[b] \cup {c}]
               /\ worktree' = [worktree EXCEPT ![c] = TRUE] /\ branch' = [branch EXCEPT ![c] = TRUE]
      BY <1>0, <3>1, <3>2 DEF BookTypes
    <3>3. ASSUME trees' = trees, NEW added \in BOOLEAN,
                 worktree' = [worktree EXCEPT ![c] = added], branch' = [branch EXCEPT ![c] = added]
          PROVE  /\ worktree' \in [Kids -> BOOLEAN] /\ branch' \in [Kids -> BOOLEAN]
                 /\ trees' \in [Batches -> SUBSET Writers]
                 /\ \A q \in Batches : trees'[q] \subseteq kids[q]
      BY <1>0, <3>3 DEF BookTypes
    <3> QED BY <1>5, <3>1, <3>2, <3>3 DEF Create
  <2>2. CASE Begin(b, trees[b] \cup {c}, TRUE)
    <3>1. trees[b] \cup {c} \in SUBSET kids[b]
      BY <1>0, <2>1 DEF BookTypes
    <3> QED BY <1>0, <2>1, <2>2, <3>1, BeginTypes DEF Types, BookTypes, ClockTypes, lease
  <2>3. CASE UNCHANGED <<stopped, child>>
    BY <1>0, <2>1, <2>3 DEF Types, BookTypes, ClockTypes, ChildTypes, lease, child
  <2> QED BY <1>5, <2>2, <2>3 DEF Create
<1>6. CASE Undo(b)
  <2>1. UNCHANGED <<kids, auto, relayed>>
    BY <1>6 DEF Undo
  <2>2. CASE Begin(b, {}, FALSE) /\ Released(b) /\ UNCHANGED <<trees, worktree, branch>>
    BY <1>0, <1>00, <2>1, <2>2, BeginTypes, ReleasedTypes DEF Types, BookTypes
  <2>3. ASSUME NEW c \in trees[b],
               trees' = [trees EXCEPT ![b] = @ \ {c}],
               worktree' = [worktree EXCEPT ![c] = FALSE], branch' = [branch EXCEPT ![c] = FALSE],
               UNCHANGED <<stopped, lease, child>>
        PROVE  Types'
    BY <1>0, <2>1, <2>3 DEF Types, BookTypes, ClockTypes, ChildTypes, lease, child
  <2> QED BY <1>6, <2>2, <2>3 DEF Undo
<1>7. CASE Integrate(b)
  BY <1>0, <1>7 DEF Integrate, Types, BookTypes, ClockTypes, ChildTypes, lease, child, durable
<1> QED BY <1>1, <1>2, <1>3, <1>4, <1>5, <1>6, <1>7 DEF Prepares

\* What the children, the user and the parent do.
LEMMA WorkTypes ==
  ASSUME Inv, NEW b \in Batches,
         \/ SetAuto(b) \/ Stop(b) \/ Returns(b)
         \/ \E c \in Kids : \/ Gate(b, c) \/ Decide(b, c) \/ TimerFires(b, c) \/ LoopEnds(b, c)
                            \/ Collected(b, c) \/ Judged(b, c) \/ Cleaned(b, c)
  PROVE  Types'
<1>0. /\ TypeOK /\ Types /\ kids \in [Batches -> SUBSET Kids]
      /\ ClockTypes /\ ChildTypes /\ BookTypes
  BY TypesHold DEF Inv, Types
<1>1. CASE SetAuto(b)
  <2>1. /\ BookTypes' /\ UNCHANGED <<aborted, keep>>
    BY <1>0, <1>1 DEF SetAuto, BookTypes, durable
  <2>2. ASSUME NEW c \in kids[b], Settles(b, c) PROVE ClockTypes' /\ ChildTypes'
    BY <1>0, <2>1, <2>2, AnsweredTypes
  <2>3. CASE UNCHANGED <<state, patience, timer, paused, active, absolute>>
    BY <1>0, <2>1, <2>3 DEF Types, ClockTypes, ChildTypes
  <2> QED BY <1>1, <2>1, <2>2, <2>3 DEF SetAuto, Types
<1>2. CASE Stop(b)
  <2>1. BookTypes'
    BY <1>0, <1>2 DEF Stop, BookTypes, durable
  <2>2. CASE Abort(b, kids[b] \cap Timed, <<>>)
    BY <1>0, <2>1, <2>2, AbortTypes DEF Types
  <2>3. CASE UNCHANGED <<lease, child>>
    BY <1>0, <2>1, <2>3 DEF Types, ClockTypes, ChildTypes, lease, child
  <2> QED BY <1>2, <2>2, <2>3 DEF Stop
<1>3. CASE Returns(b)
  <2>1. /\ trees' = [trees EXCEPT ![b] = {}] /\ kids' = [kids EXCEPT ![b] = {}]
        /\ auto' = [auto EXCEPT ![b] = FALSE] /\ relayed' = [relayed EXCEPT ![b] = FALSE]
        /\ UNCHANGED <<stopped, timer, patience>>
        /\ state' = [c \in Kids |-> IF c \in kids[b] THEN "off" ELSE state[c]]
        /\ aborted' = [c \in Kids |-> c \notin kids[b] /\ aborted[c]]
        /\ keep' = [c \in Kids |-> c \notin kids[b] /\ keep[c]]
        /\ worktree' \in [Kids -> BOOLEAN] /\ branch' \in [Kids -> BOOLEAN] /\ Released(b)
    BY <1>3, <1>0 DEF Returns, Forgotten, BookTypes
  <2>2. BookTypes'
    BY <1>0, <2>1 DEF BookTypes
  <2>3. ChildTypes'
    BY <1>0, <2>1 DEF ChildTypes
  <2> QED BY <1>0, <2>1, <2>2, <2>3, ReleasedTypes DEF Types
<1>4. ASSUME NEW c \in Kids, Gate(b, c) PROVE Types'
  <2>1. BookTypes' /\ UNCHANGED <<active, absolute, aborted, keep>>
    BY <1>0, <1>4 DEF Gate, Joins, BookTypes, durable
  <2>2. CASE state' = [state EXCEPT ![c] = "queued"] /\ UNCHANGED <<paused, patience, timer>>
    BY <1>0, <2>1, <2>2 DEF Types, ClockTypes, ChildTypes, Working
  <2>3. CASE Asks(b, c)
    <3>1. /\ state' = [state EXCEPT ![c] = "asks"] /\ paused' \in BOOLEAN
          /\ patience' = [patience EXCEPT ![c] = ApprovalLimit]
          /\ timer' = timer \/ timer' = [timer EXCEPT ![c] = NextTimeout(TRUE)]
      BY <1>0, <2>3 DEF Asks, ClockTypes
    <3>2. NextTimeout(TRUE) \in 0..AbsoluteLimit /\ ApprovalLimit \in 0..ApprovalLimit
      BY <1>0, Times
    <3> QED BY <1>0, <2>1, <3>1, <3>2 DEF Types, ClockTypes, ChildTypes, Working
  <2> QED BY <1>4, <2>2, <2>3 DEF Gate, Joins
<1>5. ASSUME NEW c \in Kids, Decide(b, c) PROVE Types'
  <2>1. BookTypes' /\ UNCHANGED <<aborted, keep>> /\ Settles(b, c)
    BY <1>0, <1>5 DEF Decide, BookTypes, durable
  <2> QED BY <1>0, <2>1, AnsweredTypes DEF Types
<1>6. ASSUME NEW c \in Kids, TimerFires(b, c) PROVE Types'
  <2>1. BookTypes'
    BY <1>0, <1>6 DEF TimerFires, BookTypes, durable
  <2>2. CASE Abort(b, {c}, RemoveFirst(queue[b], c))
    BY <1>0, <2>1, <2>2, AbortTypes DEF Types
  <2>3. CASE /\ timer' = [timer EXCEPT ![c] = NextTimeout(paused)]
             /\ UNCHANGED <<lease, state, aborted, keep, patience>>
    <3>1. NextTimeout(paused) \in 0..AbsoluteLimit
      BY <1>0, Times DEF ClockTypes
    <3> QED BY <1>0, <2>1, <2>3, <3>1 DEF Types, ClockTypes, ChildTypes, lease
  <2> QED BY <1>6, <2>2, <2>3 DEF TimerFires
<1>7. ASSUME NEW c \in Kids, LoopEnds(b, c) \/ Collected(b, c) \/ Judged(b, c) PROVE Types'
  <2>1. UNCHANGED <<batch, lease, aborted, patience, worktree, branch>>
    BY <1>7 DEF LoopEnds, Collected, Judged
  <2>2. CASE UNCHANGED <<timer, keep>> /\ \E s \in {"handback", "verdict"} : state' = [state EXCEPT ![c] = s]
    BY <1>0, <2>1, <2>2 DEF Types, BookTypes, ClockTypes, ChildTypes, Working, batch, lease
  <2>3. ASSUME NEW kept \in BOOLEAN, Leaves(b, c, kept) PROVE Types'
    <3>1. /\ timer' = [timer EXCEPT ![c] = 0] /\ keep' = [keep EXCEPT ![c] = kept]
          /\ \E s \in {"cleanup", "done"} : state' = [state EXCEPT ![c] = s]
      BY <2>3 DEF Leaves
    <3>2. 0 \in 0..AbsoluteLimit
      BY <1>0, Times
    <3> QED BY <1>0, <2>1, <3>1, <3>2 DEF Types, BookTypes, ClockTypes, ChildTypes, batch, lease
  <2> QED BY <1>7, <2>2, <2>3 DEF LoopEnds, Collected, Judged
<1>8. ASSUME NEW c \in Kids, Cleaned(b, c) PROVE Types'
  BY <1>0, <1>8 DEF Cleaned, Types, BookTypes, ClockTypes, ChildTypes, batch, lease
<1> QED BY <1>1, <1>2, <1>3, <1>4, <1>5, <1>6, <1>7, <1>8

LEMMA RestTypes ==
  ASSUME Inv, Tick \/ (\E c \in Kids : Resolve(c)) \/ Crash \/ UNCHANGED vars
  PROVE  Types'
<1>0. /\ TypeOK /\ Types /\ ClockTypes /\ ChildTypes /\ BookTypes
      /\ ActiveLimit \in Nat /\ AbsoluteLimit \in Nat /\ ApprovalLimit \in Nat
  BY TypesHold, DelegationAssumption DEF Inv, Types
<1>1. CASE Tick
  <2>1. /\ UNCHANGED <<batch, holder, paused, state, aborted, keep, durable>>
        /\ \A c \in Timed : timer[c] > 0 /\ (state[c] = "asks" => patience[c] > 0)
        /\ timer' = [c \in Kids |-> IF c \in Timed THEN timer[c] - 1 ELSE timer[c]]
        /\ patience' = [c \in Kids |-> IF state[c] = "asks" THEN patience[c] - 1 ELSE patience[c]]
        /\ absolute' = IF absolute > 0 THEN absolute - 1 ELSE 0
        /\ active' = IF active > 0 /\ ~paused THEN active - 1 ELSE active
    BY <1>1 DEF Tick
  <2>2. \A c \in Kids : state[c] = "asks" => c \in Timed
    BY DEF Timed, Working, Inv, Turns, Child
  <2>3. timer' \in [Kids -> 0..AbsoluteLimit] /\ patience' \in [Kids -> 0..ApprovalLimit]
    BY <1>0, <2>1, <2>2 DEF ChildTypes
  <2>4. ClockTypes'
    BY <1>0, <2>1 DEF ClockTypes
  <2> QED BY <1>0, <2>1, <2>3, <2>4 DEF Types, ChildTypes, BookTypes, batch, durable
<1>2. ASSUME NEW c \in Kids, Resolve(c) PROVE Types'
  <2>1. /\ worktree' \in [Kids -> BOOLEAN] /\ branch' \in [Kids -> BOOLEAN]
        /\ UNCHANGED <<batch, lease, child>>
    BY <1>0, <1>2 DEF Resolve, Settled, BookTypes
  <2> QED BY <1>0, <2>1 DEF Types, BookTypes, ClockTypes, ChildTypes, batch, lease, child
<1>3. CASE Crash
  <2>1. worktree' \in [Kids -> BOOLEAN] /\ branch' \in [Kids -> BOOLEAN]
    BY <1>0, <1>3 DEF Crash, BookTypes
  <2>2. /\ trees' = [b \in Batches |-> {}] /\ auto' = [b \in Batches |-> FALSE]
        /\ relayed' = [b \in Batches |-> FALSE] /\ stopped' = [b \in Batches |-> FALSE]
        /\ paused' = FALSE /\ active' = 0 /\ absolute' = 0
        /\ state' = [c \in Kids |-> "off"] /\ aborted' = [c \in Kids |-> FALSE]
        /\ keep' = [c \in Kids |-> FALSE] /\ timer' = [c \in Kids |-> 0]
        /\ patience' = [c \in Kids |-> 0]
    BY <1>3 DEF Crash
  <2>3. /\ 0 \in 0..ActiveLimit /\ 0 \in 0..AbsoluteLimit /\ 0 \in 0..ApprovalLimit
    BY <1>0
  <2>4. BookTypes'
    BY <2>1, <2>2 DEF BookTypes
  <2>5. ClockTypes' /\ ChildTypes'
    BY <2>2, <2>3 DEF ClockTypes, ChildTypes
  <2> QED BY <2>4, <2>5 DEF Types
<1>4. CASE UNCHANGED vars
  BY <1>0, <1>4 DEF vars, Types, BookTypes, ClockTypes, ChildTypes, batch, lease, child, durable
<1> QED BY <1>1, <1>2, <1>3, <1>4

LEMMA InitTurns == Init => Inv
<1> SUFFICES ASSUME Init PROVE Inv
  OBVIOUS
<1>0. IndInv /\ Kinds
  BY InitInv DEF IndInv
<1>1. /\ pc = [b \in Batches |-> "off"] /\ kids = [b \in Batches |-> {}]
      /\ queue = [b \in Batches |-> <<>>] /\ holder = Nobody /\ paused = FALSE
      /\ state = [c \in Kids |-> "off"] /\ Nobody \notin Batches
  BY DelegationAssumption DEF Init
<1>2. ASSUME NEW b \in Batches PROVE Line(b) /\ Lease(b)
  BY <1>1, NoLine DEF Line, Lease
<1>3. Turns
  BY <1>1, <1>2 DEF Turns, Apart, Free, Child, Rests
<1>4. Types
  <2>1. 0 \in 0..ActiveLimit /\ 0 \in 0..AbsoluteLimit /\ 0 \in 0..ApprovalLimit
    BY DelegationAssumption
  <2> QED BY <2>1 DEF Init, Types, BookTypes, ClockTypes, ChildTypes
<1>5. queue \in [Batches -> Seq(Kids)]
  BY <1>1, NoLine
<1> QED BY <1>0, <1>3, <1>4, <1>5, TypeParts DEF Inv, Turns

LEMMA NextTurns == Inv /\ [Next]_vars => Inv'
<1> SUFFICES ASSUME Inv, [Next]_vars PROVE Inv'
  OBVIOUS
<1>1. IndInv'
  BY NextInv DEF Inv
<1>2. Turns' /\ queue' \in [Batches -> Seq(Kids)] /\ Types'
  <2>1. ASSUME NEW b \in Batches, Prepares(b) \/ Integrate(b)
               \/ \E K \in Assigned[b], on \in BOOLEAN : Spawn(b, K, on)
        PROVE  Turns' /\ queue' \in [Batches -> Seq(Kids)] /\ Types'
    BY <2>1, PrepareTurns, PrepareTypes
  <2>2. ASSUME NEW b \in Batches, SetAuto(b) \/ Stop(b) \/ Returns(b)
        PROVE  Turns' /\ queue' \in [Batches -> Seq(Kids)] /\ Types'
    BY <2>2, UserTurns, StopTurns, ReturnTurns, WorkTypes
  <2>3. ASSUME NEW b \in Batches, NEW c \in Kids,
               \/ Gate(b, c) \/ Decide(b, c) \/ TimerFires(b, c) \/ LoopEnds(b, c)
               \/ Collected(b, c) \/ Judged(b, c) \/ Cleaned(b, c)
        PROVE  Turns' /\ queue' \in [Batches -> Seq(Kids)] /\ Types'
    <3>1. Types'
      BY <2>3, WorkTypes
    <3>2. Turns' /\ queue' \in [Batches -> Seq(Kids)]
      BY <2>3, GateTurns, UserTurns, TimerTurns, ChildTurns
    <3> QED BY <3>1, <3>2
  <2>4. CASE Tick \/ Crash \/ (\E c \in Kids : Resolve(c)) \/ UNCHANGED vars
    <3>1. Types'
      BY <2>4, RestTypes
    <3>2. CASE (\E c \in Kids : Resolve(c)) \/ UNCHANGED vars
      <4>1. UNCHANGED <<pc, kids, queue, holder, paused, absolute, state, aborted, timer>>
        BY <3>2 DEF Resolve, vars, batch, lease, child
      <4> QED BY <3>1, <4>1, NoTurn
    <3> QED BY <2>4, <3>1, <3>2, TickTurns, CrashTurns
  <2> QED BY <2>1, <2>2, <2>3, <2>4 DEF Next
<1>3. TypeOK'
  <2>1. Kinds' /\ \A b \in Batches : Line(b)'
    BY <1>1, <1>2 DEF IndInv, Turns
  <2> QED BY <1>2, <2>1
       DEF Kinds, Types, BookTypes, ClockTypes, ChildTypes, Line, TypeOK
<1> QED BY <1>1, <1>2, <1>3 DEF Inv

LEMMA InvHolds == Spec => []Inv
<1> QED BY InitTurns, NextTurns, PTL DEF Spec

\* Every variable has its type, the queues those of the batches' children among them, and
\* no timer or patience is below zero or past its limit; for every set of batches.
THEOREM TypeCorrect == Spec => []TypeOK
<1>1. Inv => TypeOK
  BY DEF Inv
<1> QED BY <1>1, InvHolds, PTL

\* index.ts:3945: the lease stands still exactly while a child of its batch asks, and no
\* timer is set past its absolute deadline, however many children ask and are stopped.
THEOREM DeadlineTheorem == Spec => []DeadlineHolds
<1>1. Inv => DeadlineHolds
  <2> SUFFICES ASSUME Inv PROVE DeadlineHolds
    OBVIOUS
  <2>1. \A b \in Batches : Lease(b)
    BY DEF Inv, Turns
  <2>2. holder \in Batches \cup {Nobody} /\ (holder = Nobody => ~paused) /\ Nobody \notin Batches
    BY DelegationAssumption DEF Inv, TypeOK, Turns, Free
  <2> QED BY <2>1, <2>2 DEF Lease, DeadlineHolds
<1> QED BY <1>1, InvHolds, PTL

-----------------------------------------------------------------------------
(* The coordinator is a pool of one permit. *)

\* Who holds the permit of the coordinator.
Askers == {c \in kids[One] : state[c] = "asks"}

Coord == UNCHANGED Coordinator!pool \/ Coordinator!Next

LEMMA OneIsBatch == One \in Batches
BY DelegationAssumption DEF One

LEMMA SameCardinality ==
  \A S : Coordinator!Cardinality(S) = Cardinality(S)
BY DEF Cardinality, IsFiniteSet, Coordinator!Cardinality, Coordinator!IsFiniteSet

LEMMA CoordSame ==
  ASSUME Askers' = Askers, queue'[One] = queue[One]
  PROVE  Coord
BY DEF Coord, Coordinator!pool, Askers

\* At most one asks; and it is known who.
LEMMA OneAsks ==
  ASSUME Inv, NEW c \in kids[One], state[c] = "asks"
  PROVE  Askers = {c} /\ c \in Kids
<1>1. Line(One) /\ kids[One] \subseteq Kids
  BY OneIsBatch, OfBatch
<1> QED BY <1>1 DEF Line, Askers

\* Another batch moves.
LEMMA OtherCoord ==
  ASSUME Inv, NEW b \in Batches \ {One}, Moved(b)
  PROVE  Coord
<1>1. One \in Batches \ {b} /\ kids[One] \subseteq Kids
  BY OneIsBatch, OfBatch
<1>2. kids'[One] = kids[One] /\ queue'[One] = queue[One] /\ kids[One] \cap kids'[b] = {}
  BY <1>1 DEF Moved
<1>3. kids[One] \cap kids[b] = {}
  BY <1>1 DEF Inv, Turns, Apart
<1>4. \A c \in kids[One] : state'[c] = state[c]
  BY <1>1, <1>2, <1>3 DEF Moved
<1> QED BY <1>2, <1>4, CoordSame DEF Askers

\* The turn of c ends and the first of the queue asks.
LEMMA HandedOn ==
  ASSUME Inv, NEW c \in kids[One], state[c] = "asks",
         kids' = kids, queue'[One] = Behind(queue[One]),
         \A k \in Kids : state'[k] = IF k \in NextUp(queue[One]) THEN "asks"
                                     ELSE IF k = c THEN "runs" ELSE state[k]
  PROVE  Coord
<1>1. /\ Line(One) /\ kids[One] \subseteq Kids /\ Askers = {c} /\ c \in Kids
      /\ Range(queue[One]) = {k \in kids[One] : state[k] = "queued"}
      /\ queue[One] \in Seq(kids[One]) /\ IsInjective(queue[One])
  BY OneIsBatch, OfBatch, OneAsks DEF Line
<1>2. NextUp(queue[One]) \subseteq kids[One]
  BY <1>1, Turnover
<1>3. Askers' = NextUp(queue[One])
  <2>1. Askers' \subseteq NextUp(queue[One])
    <3>1. \A k \in kids[One] : state'[k] = "asks" /\ k \notin NextUp(queue[One]) => k = c /\ FALSE
      BY <1>1 DEF Askers
    <3> QED BY <3>1 DEF Askers
  <2>2. NextUp(queue[One]) \subseteq Askers'
    BY <1>1, <1>2 DEF Askers
  <2> QED BY <2>1, <2>2
<1>4. CASE queue[One] = <<>>
  <2>1. Askers' = {} /\ queue'[One] = queue[One]
    BY <1>3, <1>4 DEF NextUp, Behind
  <2>2. Coordinator!Give(c)
    BY <1>1, <1>4, <2>1 DEF Coordinator!Give, Askers
  <2> QED BY <1>1, <2>2 DEF Coord, Coordinator!Next
<1>5. CASE queue[One] # <<>>
  <2>1. Askers' = (Askers \ {c}) \cup {Head(queue[One])} /\ queue'[One] = Tail(queue[One])
    BY <1>1, <1>3, <1>5 DEF NextUp, Behind
  <2>2. Coordinator!Hand(c)
    BY <1>1, <1>5, <2>1 DEF Coordinator!Hand, Askers
  <2> QED BY <1>1, <2>2 DEF Coord, Coordinator!Next
<1> QED BY <1>4, <1>5

LEMMA SettlesCoord ==
  ASSUME Inv, NEW c \in kids[One], state[c] = "asks", Settles(One, c), kids' = kids
  PROVE  Coord
<1>1. queue \in [Batches -> Seq(Kids)] /\ One \in Batches
  BY OneIsBatch DEF Inv, TypeOK
<1>2. queue'[One] = Behind(queue[One])
  BY <1>1 DEF Settles
<1>3. \A k \in Kids : state'[k] = IF k \in NextUp(queue[One]) THEN "asks"
                                  ELSE IF k = c THEN "runs" ELSE state[k]
  BY DEF Settles, Answered
<1> QED BY <1>2, <1>3, HandedOn

\* A gate: the child asks, or waits to ask.
LEMMA GateCoord ==
  ASSUME Inv, NEW c \in Kids, Gate(One, c)
  PROVE  Coord
<1>1. /\ kids[One] \subseteq Kids /\ c \in kids[One] /\ state[c] = "runs" /\ kids' = kids
      /\ queue \in [Batches -> Seq(Kids)] /\ One \in Batches
      /\ state \in [Kids -> Working \cup {"off", "cleanup", "done"}]
      /\ c \notin Askers
  BY OneIsBatch, OfBatch DEF Gate, Joins, Inv, TypeOK, Askers
<1>2. CASE Askers = {}
  <2>1. state' = [state EXCEPT ![c] = "asks"] /\ UNCHANGED queue
    BY <1>2 DEF Gate, Joins, Asks, Askers
  <2>2. Askers' = Askers \cup {c}
    BY <1>1, <2>1 DEF Askers
  <2>3. Cardinality({}) = 0
    BY FS_EmptySet
  <2>4. Coordinator!Cardinality(Askers) < 1
    BY <1>2, <2>3, SameCardinality
  <2>5. Coordinator!Take(c)
    BY <1>1, <2>1, <2>2, <2>4 DEF Coordinator!Take, Askers
  <2> QED BY <2>5 DEF Coord, Coordinator!Next
<1>3. CASE Askers # {}
  <2>1. state' = [state EXCEPT ![c] = "queued"] /\ queue' = [queue EXCEPT ![One] = Append(@, c)]
    BY <1>3 DEF Gate, Joins, Askers
  <2>2. Askers' = Askers
    BY <1>1, <2>1 DEF Askers
  <2>3. PICK a \in kids[One] : state[a] = "asks"
    BY <1>3 DEF Askers
  <2>4. Askers = {a} /\ Cardinality({a}) = 1
    BY <2>3, OneAsks, FS_Singleton
  <2>5. Coordinator!Cardinality(Askers) = 1
    BY <2>4, SameCardinality
  <2>6. queue'[One] = Append(queue[One], c)
    BY <1>1, <2>1
  <2>7. Coordinator!Join(c)
    BY <1>1, <2>2, <2>5, <2>6 DEF Coordinator!Join, Askers
  <2> QED BY <2>7 DEF Coord, Coordinator!Next
<1> QED BY <1>2, <1>3

\* The parent is stopped: nobody asks any more, nobody waits.
LEMMA StopCoord ==
  ASSUME Inv, Stop(One)
  PROVE  Coord
<1>1. /\ kids[One] \subseteq Kids /\ kids' = kids /\ Line(One)
      /\ queue \in [Batches -> Seq(Kids)] /\ One \in Batches
  BY OneIsBatch, OfBatch DEF Stop, Inv, TypeOK
<1>2. CASE pc[One] # "children"
  BY <1>1, <1>2, CoordSame DEF Stop, child, Askers
<1>3. CASE pc[One] = "children"
  <2> DEFINE S == kids[One] \cap Timed
  <2>1. Abort(One, S, <<>>)
    BY <1>3 DEF Stop
  <2>2. NextUp(<<>>) = {} /\ Behind(<<>>) = <<>>
    BY DEF NextUp, Behind
  <2>3. queue'[One] = <<>>
    BY <1>1, <2>1, <2>2 DEF Abort
  <2>4. \A k \in Kids : state'[k] = IF k \in S /\ state[k] \in {"queued", "asks"} THEN "runs" ELSE state[k]
    BY <2>1, <2>2 DEF Abort
  <2>5. \A k \in kids[One] : state[k] = "asks" => k \in S
    BY <1>1 DEF Timed, Working, Inv, Turns, Child
  <2>6. Askers' = {}
    BY <1>1, <2>4, <2>5 DEF Askers
  <2>7. Coordinator!Reset
    BY <2>3, <2>6 DEF Coordinator!Reset, Askers
  <2> QED BY <2>7 DEF Coord, Coordinator!Next
<1> QED BY <1>2, <1>3

\* A timer fires: of the one that asks, of one that waits, of any other.
LEMMA TimerCoord ==
  ASSUME Inv, NEW c \in Kids, TimerFires(One, c)
  PROVE  Coord
<1> DEFINE q == queue[One]
           left == RemoveFirst(q, c)
<1>1. /\ kids[One] \subseteq Kids /\ kids' = kids /\ Line(One)
      /\ queue \in [Batches -> Seq(Kids)] /\ One \in Batches /\ c \in kids[One]
      /\ Range(q) = {k \in kids[One] : state[k] = "queued"}
      /\ q \in Seq(kids[One]) /\ IsInjective(q)
  BY OneIsBatch, OfBatch DEF TimerFires, Inv, TypeOK, Line
<1>2. CASE ~(holder # One \/ Overdue)
  BY <1>1, <1>2, CoordSame DEF TimerFires, Askers
<1>3. CASE (holder # One \/ Overdue) /\ state[c] = "asks"
  <2>1. Abort(One, {c}, left)
    BY <1>3 DEF TimerFires
  <2>2. left = q
    BY <1>1, <1>3, Removed
  <2> HIDE DEF left
  <2>3. {k \in {c} : state[k] = "asks"} = {c}
    BY <1>3
  <2>4. queue'[One] = Behind(q)
    BY <1>1, <2>1, <2>2, <2>3 DEF Abort
  <2>5. \A k \in Kids : state'[k] = IF k \in NextUp(q) THEN "asks"
                                    ELSE IF k = c THEN "runs" ELSE state[k]
    BY <1>3, <2>1, <2>2, <2>3 DEF Abort
  <2> QED BY <1>1, <1>3, <2>4, <2>5, HandedOn
<1>4. CASE (holder # One \/ Overdue) /\ state[c] # "asks"
  <2>1. Abort(One, {c}, left)
    BY <1>4 DEF TimerFires
  <2>2. /\ left \in Seq(kids[One])
        /\ c \notin Range(q) => left = q
        /\ c \in Range(q) => \E i \in 1..Len(q) :
              /\ Len(left) = Len(q) - 1
              /\ \A k \in 1..(Len(q) - 1) : left[k] = IF k < i THEN q[k] ELSE q[k + 1]
    <3>1. q \in Seq(kids[One]) /\ IsInjective(q)
      BY <1>1
    <3> HIDE DEF q
    <3>2. left \in Seq(kids[One]) /\ (c \notin Range(q) => left = q)
      BY <3>1, Removed
    <3>3. c \in Range(q) => \E i \in 1..Len(q) :
              /\ Len(left) = Len(q) - 1
              /\ \A k \in 1..(Len(q) - 1) : left[k] = IF k < i THEN q[k] ELSE q[k + 1]
      BY <3>1, Removed
    <3> QED BY <3>2, <3>3
  <2> HIDE DEF left
  <2>3. {k \in {c} : state[k] = "asks"} = {}
    BY <1>4
  <2>4. queue'[One] = left
    BY <1>1, <2>1, <2>3 DEF Abort
  <2>5. \A k \in Kids : state'[k] = IF k = c /\ state[k] = "queued" THEN "runs" ELSE state[k]
    BY <1>4, <2>1, <2>3 DEF Abort
  <2>6. Askers' = Askers
    BY <1>1, <2>5 DEF Askers
  <2>7. CASE c \notin Range(q)
    BY <2>2, <2>4, <2>6, <2>7, CoordSame
  <2>8. CASE c \in Range(q)
    <3>1. PICK i \in 1..Len(q) :
              /\ Len(left) = Len(q) - 1
              /\ \A k \in 1..(Len(q) - 1) : left[k] = IF k < i THEN q[k] ELSE q[k + 1]
      BY <2>2, <2>8
    <3> DEFINE n == Len(q) - 1
               kept == [k \in 1..n |-> IF k < i THEN k ELSE k + 1]
    <3>2. Len(q) \in Nat /\ Len(q) >= 1 /\ n \in 0..Len(q)
      BY <1>1, <3>1, LenProperties
    <3>3. kept \in [1..n -> 1..Len(q)] /\ \A j, k \in 1..n : j < k => kept[j] < kept[k]
      BY <3>1, <3>2
    <3>4. left = [k \in 1..n |-> left[k]]
      BY <2>2, <3>1, LenProperties
    <3>5. left = [k \in 1..n |-> q[kept[k]]]
      BY <3>1, <3>4
    <3> HIDE DEF n, kept
    <3>6. Coordinator!GiveUp
      BY <3>2, <3>3, <3>5, <2>4, <2>6 DEF Coordinator!GiveUp, Askers
    <3> QED BY <3>6 DEF Coord, Coordinator!Next
  <2> QED BY <2>7, <2>8
<1> QED BY <1>2, <1>3, <1>4

\* Nobody of the batch asks, before or after.
LEMMA NobodyAsks ==
  ASSUME Inv, queue' = queue, Apart', \A q \in Batches \ {One} : kids'[q] = kids[q],
         \A c \in Kids : state'[c] = "asks" => state[c] = "asks",
         \A c \in kids[One] : state[c] # "asks", kids'[One] \subseteq Kids
  PROVE  Coord
<1>1. Askers = {}
  BY DEF Askers
<1>2. ASSUME NEW c \in kids'[One], state'[c] = "asks" PROVE FALSE
  <2>1. c \in Kids /\ state[c] = "asks"
    BY <1>2
  <2>2. PICK q \in Batches : c \in kids[q]
    BY <2>1 DEF Inv, Turns, Child, Rests
  <2>3. q # One
    BY <2>1, <2>2
  <2>4. c \in kids'[q]
    BY <2>2, <2>3
  <2> QED BY <1>2, <2>3, <2>4, OneIsBatch DEF Apart
<1>3. Askers' = {}
  BY <1>2 DEF Askers
<1> QED BY <1>1, <1>3, CoordSame

LEMMA PrepareCoord ==
  ASSUME Inv, NEW b \in Batches, Prepares(b) \/ Integrate(b) \/ Returns(b)
         \/ \E K \in Assigned[b], on \in BOOLEAN : Spawn(b, K, on)
  PROVE  Coord
<1>1. Turns' /\ Moved(b) /\ Types'
  BY PrepareTurns, ReturnTurns, PrepareTypes, WorkTypes
<1>2. CASE b # One
  BY <1>1, <1>2, OtherCoord
<1>3. CASE b = One
  <2>1. queue' = queue
    BY DEF Prepares, Resolved, Acquire, Preflight, Create, Undo, Integrate, Returns, Spawn
  <2>2. \A c \in kids[b] : state[c] # "asks"
    <3>1. pc[b] # "children" \/ \A c \in kids[b] : state[c] = "done"
      BY DEF Prepares, Resolved, Acquire, Preflight, Create, Undo, Integrate, Returns, Spawn, Joined
    <3> QED BY <3>1, EmptyQueue DEF Rests
  <2>3. \A c \in Kids : state'[c] = "asks" => state[c] = "asks"
    <3>1. ASSUME NEW T, NEW held, Begin(b, T, held)
          PROVE  \A c \in Kids : state'[c] = "asks" => state[c] = "asks"
      BY <3>1 DEF Begin
    <3>2. CASE Prepares(b)
      <4>1. UNCHANGED child \/ \E T, held : Begin(b, T, held)
        BY <3>2 DEF Prepares, Resolved, Acquire, Preflight, Create, Undo
      <4> QED BY <3>1, <4>1 DEF child
    <3>3. CASE Integrate(b) \/ \E K \in Assigned[b], on \in BOOLEAN : Spawn(b, K, on)
      BY <3>3 DEF Integrate, Spawn, child
    <3>4. CASE Returns(b)
      BY <3>4 DEF Returns
    <3> QED BY <3>2, <3>3, <3>4
  <2>4. kids'[One] \subseteq Kids
    BY NextTurns, <1>3 DEF Next, Inv, TypeOK
  <2>5. Apart' /\ \A q \in Batches \ {One} : kids'[q] = kids[q]
    BY <1>1, <1>3 DEF Turns, Moved
  <2> QED BY <1>3, <2>1, <2>2, <2>3, <2>4, <2>5, NobodyAsks
<1> QED BY <1>2, <1>3

\* What the children, the user and the parent do.
LEMMA WorkCoord ==
  ASSUME Inv, NEW b \in Batches,
         \/ SetAuto(b) \/ Stop(b)
         \/ \E c \in Kids : \/ Gate(b, c) \/ Decide(b, c) \/ TimerFires(b, c) \/ LoopEnds(b, c)
                            \/ Collected(b, c) \/ Judged(b, c) \/ Cleaned(b, c)
  PROVE  Coord
<1>1. Moved(b)
  BY UserTurns, StopTurns, GateTurns, TimerTurns, ChildTurns
<1>2. CASE b # One
  BY <1>1, <1>2, OtherCoord
<1>3. CASE b = One
  <2>1. CASE SetAuto(One)
    <3>1. kids' = kids
      BY <2>1 DEF SetAuto
    <3>2. CASE UNCHANGED <<state, queue>>
      BY <3>1, <3>2, CoordSame DEF Askers
    <3> QED BY <2>1, <3>1, <3>2, SettlesCoord DEF SetAuto
  <2>2. ASSUME NEW c \in Kids, Decide(One, c) PROVE Coord
    BY <2>2, SettlesCoord DEF Decide
  <2>3. ASSUME NEW c \in Kids,
               LoopEnds(One, c) \/ Collected(One, c) \/ Judged(One, c) \/ Cleaned(One, c)
        PROVE  Coord
    <3>1. /\ c \in kids[One] /\ state[c] \in {"runs", "handback", "verdict", "cleanup"}
          /\ UNCHANGED <<kids, queue>>
      BY <2>3 DEF LoopEnds, Collected, Judged, Cleaned, batch
    <3>2. \E s \in {"handback", "verdict", "cleanup", "done"} : state' = [state EXCEPT ![c] = s]
      BY <2>3 DEF LoopEnds, Collected, Judged, Cleaned, Leaves
    <3>3. state \in [Kids -> Working \cup {"off", "cleanup", "done"}] /\ kids[One] \subseteq Kids
      BY OneIsBatch, OfBatch DEF Inv, TypeOK
    <3>4. Askers' = Askers
      BY <3>1, <3>2, <3>3 DEF Askers
    <3> QED BY <3>1, <3>4, CoordSame
  <2> QED BY <1>3, <2>1, <2>2, <2>3, GateCoord, StopCoord, TimerCoord
<1> QED BY <1>2, <1>3

LEMMA RestCoord ==
  ASSUME Inv, Tick \/ (\E c \in Kids : Resolve(c)) \/ Crash \/ UNCHANGED vars
  PROVE  Coord
<1>1. CASE Tick \/ (\E c \in Kids : Resolve(c)) \/ UNCHANGED vars
  <2>1. UNCHANGED <<kids, queue, state>>
    BY <1>1 DEF Tick, Resolve, vars, batch, child
  <2> QED BY <2>1, CoordSame DEF Askers
<1>2. CASE Crash
  <2>1. kids' = [b \in Batches |-> {}] /\ queue' = [b \in Batches |-> <<>>]
    BY <1>2 DEF Crash
  <2>2. Coordinator!Reset
    BY <2>1, OneIsBatch DEF Coordinator!Reset
  <2> QED BY <2>2 DEF Coord, Coordinator!Next
<1> QED BY <1>1, <1>2

\* approval-coordinator.ts: the children of a batch ask one at a time and in the order they
\* came, and none waits while nobody asks: the coordinator implements a pool of one permit,
\* whoever is stopped, times out or is answered; for every set of children.
THEOREM CoordinatorTheorem == Spec => CoordinatorImplemented
<1>1. Init => Coordinator!Init
  BY OneIsBatch DEF Init, Coordinator!Init
<1>2. Inv /\ [Next]_vars => [Coordinator!Next]_Coordinator!pool
  <2> SUFFICES ASSUME Inv, [Next]_vars PROVE Coord
    BY DEF Coord
  <2> QED BY PrepareCoord, WorkCoord, RestCoord DEF Next
<1> QED BY <1>1, <1>2, InvHolds, PTL DEF Spec, CoordinatorImplemented, Coordinator!Spec
=============================================================================
