----------------------------- MODULE Delegation -----------------------------
(***************************************************************************)
(* Batches of subagents (spawnSubagentBatch() of agent/index.ts with       *)
(* agent/subagents/*.ts): the writers of a batch work in worktrees of      *)
(* their own under the repository's delegation lease; the batch's children *)
(* ask the user one at a time; the lease's active time stands still while  *)
(* one asks, its absolute time does not; the parent is stopped, its Auto   *)
(* flag flips, the app crashes, and what a crash leaves is quarantined     *)
(* until the user resolves it.                                             *)
(*                                                                         *)
(* One repository.  An action goes from one await to the next.  Time is    *)
(* the time that is left, in ticks: of the lease, of the timer of a child, *)
(* of an approval.  What a child does between two gates is left out.       *)
(***************************************************************************)
EXTENDS Naturals, Sequences, FiniteSets, SequencesExt

CONSTANTS
  Batches,        \* calls of spawn_subagents, each by a parent of its own
  Writers,        \* children with access "write"
  Readers,        \* children with access "read"
  Assigned,       \* Assigned[b]: the sets of children b may ask for
  ActiveLimit,    \* REPOSITORY_LEASE_ACTIVE_TIMEOUT_MS (30 minutes)
  AbsoluteLimit,  \* REPOSITORY_LEASE_ABSOLUTE_TIMEOUT_MS (90 minutes)
  ApprovalLimit,  \* CHILD_APPROVAL_TIMEOUT_MS (10 minutes)
  Nobody

Kids == Writers \cup Readers

ASSUME DelegationAssumption ==
  /\ {ActiveLimit, AbsoluteLimit, ApprovalLimit} \subseteq Nat \ {0}
  /\ ActiveLimit <= AbsoluteLimit
  /\ Writers \cap Readers = {} /\ Assigned \in [Batches -> SUBSET ((SUBSET Kids) \ {{}})]
  /\ Batches # {} /\ Nobody \notin Batches

VARIABLES
  pc,        \* pc[b]: what the batch awaits
  kids,      \* kids[b]: the children it was asked for
  auto,      \* auto[b]: the parent's Auto flag
  relayed,   \* relayed[b]: the flag the batch's children follow
  stopped,   \* stopped[b]: the parent's signal was aborted before the children began
  trees,     \* trees[b]: the writers whose worktrees the batch has created
  queue,     \* queue[b]: the children that wait to ask
  holder,    \* the batch that holds the lease
  paused,    \* the lease's active time stands still
  active,    \* active time the lease has left
  absolute,  \* absolute time it has left
  state,     \* state[c]: what the child does
  aborted,   \* aborted[c]: its signal is aborted
  keep,      \* keep[c]: preserveBranch
  timer,     \* timer[c]: time until its timer fires
  patience,  \* patience[c]: time until the approval it asks for is denied
  artifact,  \* artifact[c]: its row in subagent_artifacts (durable)
  worktree,  \* worktree[c]: its worktree is on disk (durable)
  branch     \* branch[c]: its branch is in the repository (durable)

batch == <<pc, kids, auto, relayed, stopped, trees, queue>>
lease == <<holder, paused, active, absolute>>
child == <<state, aborted, keep, timer, patience>>
durable == <<artifact, worktree, branch>>
vars == <<batch, lease, child, durable>>

Least(m, n) == IF m < n THEN m ELSE n

Working == {"runs", "queued", "asks", "handback", "verdict"}

\* The children whose timers are set and whose signals are not aborted.
Timed == {c \in Kids : state[c] \in Working /\ ~aborted[c]}

Unresolved == {c \in Kids : artifact[c] \in {"active", "quarantined"}}

TypeOK ==
  /\ pc \in [Batches -> {"off", "resolve", "acquire", "preflight", "create",
                         "undo", "children", "integrate"}]
  /\ kids \in [Batches -> SUBSET Kids] /\ trees \in [Batches -> SUBSET Writers]
  /\ auto \in [Batches -> BOOLEAN] /\ relayed \in [Batches -> BOOLEAN]
  /\ stopped \in [Batches -> BOOLEAN] /\ queue \in [Batches -> Seq(Kids)]
  /\ \A b \in Batches : queue[b] \in Seq(kids[b]) /\ trees[b] \subseteq kids[b]
  /\ holder \in Batches \cup {Nobody} /\ paused \in BOOLEAN
  /\ active \in 0..ActiveLimit /\ absolute \in 0..AbsoluteLimit
  /\ state \in [Kids -> Working \cup {"off", "cleanup", "done"}]
  /\ aborted \in [Kids -> BOOLEAN] /\ keep \in [Kids -> BOOLEAN]
  /\ timer \in [Kids -> 0..AbsoluteLimit] /\ patience \in [Kids -> 0..ApprovalLimit]
  /\ artifact \in [Kids -> {"none", "active", "quarantined", "resolved"}]
  /\ worktree \in [Kids -> BOOLEAN] /\ branch \in [Kids -> BOOLEAN]

Init ==
  /\ pc = [b \in Batches |-> "off"] /\ kids = [b \in Batches |-> {}]
  /\ auto = [b \in Batches |-> FALSE] /\ relayed = [b \in Batches |-> FALSE]
  /\ stopped = [b \in Batches |-> FALSE]
  /\ trees = [b \in Batches |-> {}] /\ queue = [b \in Batches |-> <<>>]
  /\ holder = Nobody /\ paused = FALSE /\ active = 0 /\ absolute = 0
  /\ state = [c \in Kids |-> "off"] /\ aborted = [c \in Kids |-> FALSE]
  /\ keep = [c \in Kids |-> FALSE] /\ timer = [c \in Kids |-> 0]
  /\ patience = [c \in Kids |-> 0]
  /\ artifact = [c \in Kids |-> "none"] /\ worktree = [c \in Kids |-> FALSE]
  /\ branch = [c \in Kids |-> FALSE]

-----------------------------------------------------------------------------
(* The lease and its timers. *)

\* Mutant: an approval gives the child a new absolute time.
MutNextTimeout(stands) == IF stands THEN AbsoluteLimit ELSE Least(active, absolute)

\* Mutant: the deadlines are added up.
MutDeadlines(stands) == IF stands THEN absolute ELSE active + absolute

\* nextTimeoutMs(), while the lease stands still or not.
NextTimeout(stands) == IF stands THEN absolute ELSE Least(active, absolute)

\* timeoutKind() names a deadline that has passed.
Overdue == absolute = 0 \/ (~paused /\ active = 0)

\* release(): the token is that of the batch, or nothing happens.
Released(b) ==
  IF holder = b
  THEN holder' = Nobody /\ paused' = FALSE /\ active' = 0 /\ absolute' = 0
  ELSE UNCHANGED lease

-----------------------------------------------------------------------------
(* From the call to the children. *)

\* spawn_subagents, by a parent with Auto on or off: the flag is read, then the
\* assignments are resolved.  The children are new ones.
Spawn(b, K, on) ==
  /\ pc[b] = "off"
  /\ K \cap Unresolved = {}
  /\ \A other \in Batches : K \cap kids[other] = {}
  /\ pc' = [pc EXCEPT ![b] = "resolve"] /\ kids' = [kids EXCEPT ![b] = K]
  /\ auto' = [auto EXCEPT ![b] = on] /\ relayed' = [relayed EXCEPT ![b] = on]
  /\ UNCHANGED <<stopped, trees, queue, lease, child, durable>>

\* What is kept of the children of S is forgotten, the rows not resolved aside.
Forgotten(S) ==
  /\ artifact' = [c \in Kids |-> IF c \in S \ Unresolved THEN "none" ELSE artifact[c]]
  /\ worktree' = [c \in Kids |-> c \notin S \ Unresolved /\ worktree[c]]
  /\ branch' = [c \in Kids |-> c \notin S \ Unresolved /\ branch[c]]

\* runChild() of every assignment up to its first await: writers that have no
\* worktree have failed; artifacts are recorded, timers set, signals chained.
Begin(b, T, held) ==
  LET R == (kids[b] \cap Readers) \cup T
      left == IF held THEN NextTimeout(paused) ELSE ActiveLimit
  IN /\ pc' = [pc EXCEPT ![b] = "children"]
     /\ state' = [c \in Kids |-> IF c \in R THEN "runs"
                                 ELSE IF c \in kids[b] THEN "done" ELSE state[c]]
     /\ aborted' = [c \in Kids |-> IF c \in R THEN stopped[b] ELSE aborted[c]]
     /\ timer' = [c \in Kids |-> IF c \in R THEN left ELSE timer[c]]
     /\ artifact' = [c \in Kids |-> IF c \in T THEN "active" ELSE artifact[c]]
     /\ stopped' = [stopped EXCEPT ![b] = FALSE]
     /\ UNCHANGED <<keep, patience>>

\* The assignments are resolved, or one names an agent that may not be spawned.
Resolved(b) ==
  /\ pc[b] = "resolve"
  /\ \/ /\ pc' = [pc EXCEPT ![b] = "off"] /\ kids' = [kids EXCEPT ![b] = {}]
        /\ auto' = [auto EXCEPT ![b] = FALSE] /\ relayed' = [relayed EXCEPT ![b] = FALSE]
        /\ stopped' = [stopped EXCEPT ![b] = FALSE]
        /\ UNCHANGED <<child, artifact>>
     \/ /\ kids[b] \cap Writers # {} /\ pc' = [pc EXCEPT ![b] = "acquire"]
        /\ UNCHANGED <<kids, auto, relayed, stopped, child, artifact>>
     \/ /\ kids[b] \cap Writers = {} /\ Begin(b, {}, FALSE)
        /\ UNCHANGED <<kids, auto, relayed>>
  /\ UNCHANGED <<trees, queue, lease, worktree, branch>>

\* acquire(): the repository is busy (or there is none), or it is the batch's.
Acquire(b) ==
  /\ pc[b] = "acquire"
  /\ \/ Begin(b, {}, FALSE) /\ UNCHANGED lease
     \/ /\ holder = Nobody
        /\ holder' = b /\ paused' = FALSE
        /\ active' = ActiveLimit /\ absolute' = AbsoluteLimit
        /\ pc' = [pc EXCEPT ![b] = "preflight"] /\ UNCHANGED <<stopped, child, artifact>>
  /\ UNCHANGED <<kids, auto, relayed, trees, queue, worktree, branch>>

\* Mutant: the artifacts that block are those whose worktrees are on disk.
MutQuarantined == \E c \in Unresolved : worktree[c] /\ artifact[c] = "active"

\* listSubagentArtifacts(): writers that were interrupted await review.
Quarantined == Unresolved # {}

\* preflightWriterRepository() and the check of the quarantine.
Preflight(b) ==
  /\ pc[b] = "preflight"
  /\ \/ Begin(b, {}, FALSE) /\ Released(b)
     \/ /\ ~Quarantined /\ pc' = [pc EXCEPT ![b] = "create"]
        /\ UNCHANGED <<lease, stopped, child, artifact>>
  /\ UNCHANGED <<kids, auto, relayed, trees, queue, worktree, branch>>

\* createWriterWorktree() of the next writer; with the last the children begin.
\* One that fails may have added the worktree: the marker is written after it.
Create(b, c) ==
  /\ pc[b] = "create" /\ c \in (kids[b] \cap Writers) \ trees[b]
  /\ \/ LET T == trees[b] \cup {c}
        IN /\ trees' = [trees EXCEPT ![b] = T] /\ worktree' = [worktree EXCEPT ![c] = TRUE]
           /\ branch' = [branch EXCEPT ![c] = TRUE]
           /\ IF T = kids[b] \cap Writers THEN Begin(b, T, TRUE)
              ELSE UNCHANGED <<pc, stopped, child, artifact>>
     \/ /\ pc' = [pc EXCEPT ![b] = "undo"]
        /\ \E added \in BOOLEAN : worktree' = [worktree EXCEPT ![c] = added]
                                    /\ branch' = [branch EXCEPT ![c] = added]
        /\ UNCHANGED <<trees, stopped, child, artifact>>
  /\ UNCHANGED <<kids, auto, relayed, queue, lease>>

\* removeWriterWorktree() of one that was created; after the last the lease goes
\* and the children begin without writers.
Undo(b) ==
  /\ pc[b] = "undo"
  /\ \/ \E c \in trees[b] :
          /\ trees' = [trees EXCEPT ![b] = @ \ {c}]
          /\ worktree' = [worktree EXCEPT ![c] = FALSE]
          /\ branch' = [branch EXCEPT ![c] = FALSE]
          /\ UNCHANGED <<pc, stopped, lease, child, artifact>>
     \/ trees[b] = {} /\ Begin(b, {}, FALSE) /\ Released(b)
        /\ UNCHANGED <<trees, worktree, branch>>
  /\ UNCHANGED <<kids, auto, relayed, queue>>

-----------------------------------------------------------------------------
(* Children that ask. *)

\* Mutant: the last to come is the first to ask.
MutJoins(q, c) == <<c>> \o q

\* acquire() while another asks: the child goes to the end of the queue.
Joins(q, c) == Append(q, c)

\* Mutant: a turn that is given back is nobody's until another child comes.
MutNextUp(q) == {}

\* advance(): whom the coordinator admits when its turn is given back, and who
\* is left behind.
NextUp(q) == IF q = <<>> THEN {} ELSE {Head(q)}
Behind(q) == IF NextUp(q) = {} THEN q ELSE Tail(q)

\* onApprovalWaitingChange(true): the lease stands still, the asker's timer is
\* set anew.  A batch without a lease has none to pause.
Asks(b, c) ==
  /\ state' = [state EXCEPT ![c] = "asks"]
  /\ patience' = [patience EXCEPT ![c] = ApprovalLimit]
  /\ paused' = (paused \/ holder = b)
  /\ timer' = IF holder = b THEN [timer EXCEPT ![c] = NextTimeout(TRUE)] ELSE timer

\* The approval of c settles: the lease's time goes on, the turn is given back,
\* and the next child asks at once.
Answered(b, c, up) ==
  /\ state' = [k \in Kids |-> IF k \in up THEN "asks" ELSE IF k = c THEN "runs" ELSE state[k]]
  /\ patience' = [k \in Kids |-> IF k \in up THEN ApprovalLimit
                                 ELSE IF k = c THEN 0 ELSE patience[k]]
  /\ timer' = [k \in Kids |-> IF holder # b THEN timer[k]
                              ELSE IF k \in up THEN NextTimeout(TRUE)
                              ELSE IF k = c THEN NextTimeout(FALSE) ELSE timer[k]]
  /\ paused' = IF holder = b THEN up # {} ELSE paused

\* The gate of a call that needs approval: Auto is looked at, then the child
\* waits for its turn to ask.
Gate(b, c) ==
  /\ pc[b] = "children" /\ c \in kids[b] /\ state[c] = "runs"
  /\ ~aborted[c] /\ ~relayed[b]
  /\ IF \E k \in kids[b] : state[k] = "asks"
     THEN /\ state' = [state EXCEPT ![c] = "queued"]
          /\ queue' = [queue EXCEPT ![b] = Joins(@, c)] /\ UNCHANGED <<paused, patience, timer>>
     ELSE Asks(b, c) /\ UNCHANGED queue
  /\ UNCHANGED <<pc, kids, auto, relayed, stopped, trees, holder, active, absolute,
                 aborted, keep, durable>>

\* The turn of c ends: whoever is next in the queue asks.
Settles(b, c) ==
  /\ Answered(b, c, NextUp(queue[b]))
  /\ queue' = [queue EXCEPT ![b] = Behind(@)]
  /\ UNCHANGED <<holder, active, absolute>>

\* The user decides, or the approval has waited CHILD_APPROVAL_TIMEOUT_MS.
Decide(b, c) ==
  /\ c \in kids[b] /\ state[c] = "asks" /\ Settles(b, c)
  /\ UNCHANGED <<pc, kids, auto, relayed, stopped, trees, aborted, keep, durable>>

\* setAutoMode() of the parent: the children follow once the batch has
\* subscribed, and the one that asks is approved.
SetAuto(b) ==
  /\ pc[b] # "off"
  /\ auto' = [auto EXCEPT ![b] = ~auto[b]]
  /\ relayed' = [relayed EXCEPT ![b] = IF pc[b] = "resolve" THEN @ ELSE ~auto[b]]
  /\ IF ~auto[b] /\ pc[b] = "children" /\ \E c \in kids[b] : state[c] = "asks"
     THEN \E c \in kids[b] : state[c] = "asks" /\ Settles(b, c)
     ELSE UNCHANGED <<state, patience, timer, paused, queue, holder, active, absolute>>
  /\ UNCHANGED <<pc, kids, stopped, trees, aborted, keep, durable>>

-----------------------------------------------------------------------------
(* Children that are stopped, and that end. *)

\* The signals of S abort: those that wait to ask leave the queue, the one that
\* asks gives its turn to the first of those left.  Timers are not set again.
Abort(b, S, left) ==
  LET asker == {k \in S : state[k] = "asks"}
      up == IF asker = {} THEN {} ELSE NextUp(left)
  IN /\ aborted' = [k \in Kids |-> k \in S \/ aborted[k]]
     /\ queue' = [queue EXCEPT ![b] = IF asker = {} THEN left ELSE Behind(left)]
     /\ state' = [k \in Kids |-> IF k \in up THEN "asks"
                     ELSE IF k \in S /\ state[k] \in {"queued", "asks"} THEN "runs" ELSE state[k]]
     /\ patience' = [k \in Kids |-> IF k \in up THEN ApprovalLimit
                                    ELSE IF k \in S THEN 0 ELSE patience[k]]
     /\ timer' = [k \in Kids |-> IF k \in S THEN 0
                     ELSE IF k \in up /\ holder = b THEN NextTimeout(TRUE) ELSE timer[k]]
     /\ paused' = IF asker = {} \/ holder # b THEN paused ELSE up # {}
     /\ UNCHANGED <<holder, active, absolute, keep>>

\* The parent's turn is stopped: all children it waits for, those that queue too.
Stop(b) ==
  /\ pc[b] \notin {"off", "integrate"}
  /\ IF pc[b] = "children" THEN Abort(b, kids[b] \cap Timed, <<>>) /\ UNCHANGED stopped
     ELSE stopped' = [stopped EXCEPT ![b] = TRUE] /\ UNCHANGED <<queue, lease, child>>
  /\ UNCHANGED <<pc, kids, auto, relayed, trees, durable>>

\* The timer of c fires: a deadline of the lease has passed, or it is set again;
\* without a lease it was the active time of the child itself.
TimerFires(b, c) ==
  /\ c \in kids[b] \cap Timed /\ timer[c] = 0
  /\ IF holder # b \/ Overdue THEN Abort(b, {c}, RemoveFirst(queue[b], c))
     ELSE /\ timer' = [timer EXCEPT ![c] = NextTimeout(paused)]
          /\ UNCHANGED <<queue, lease, state, aborted, keep, patience>>
  /\ UNCHANGED <<pc, kids, auto, relayed, stopped, trees, durable>>

\* The child is over: its timer is cleared and its artifact, if any, resolved.
Leaves(b, c, kept) ==
  /\ state' = [state EXCEPT ![c] = IF c \in trees[b] THEN "cleanup" ELSE "done"]
  /\ timer' = [timer EXCEPT ![c] = 0] /\ keep' = [keep EXCEPT ![c] = kept]
  /\ artifact' = [artifact EXCEPT ![c] = IF c \in trees[b] THEN "resolved" ELSE @]

\* runAgentLoop() of the child returns: with an answer, or stopped or failed.
LoopEnds(b, c) ==
  /\ c \in kids[b] /\ state[c] = "runs"
  /\ \/ /\ ~aborted[c] /\ c \in trees[b]
        /\ state' = [state EXCEPT ![c] = "handback"] /\ UNCHANGED <<timer, keep, artifact>>
     \/ Leaves(b, c, FALSE)
  /\ UNCHANGED <<batch, lease, aborted, patience, worktree, branch>>

\* collectWriterHandback(): from the worktree, which must be clean and ahead.
Collected(b, c) ==
  /\ c \in kids[b] /\ state[c] = "handback"
  /\ \/ /\ worktree[c]
        /\ state' = [state EXCEPT ![c] = "verdict"] /\ UNCHANGED <<timer, keep, artifact>>
     \/ Leaves(b, c, FALSE)
  /\ UNCHANGED <<batch, lease, aborted, patience, worktree, branch>>

\* mergeability(): whatever merge-tree says, the child has completed and its branch
\* is preserved; when git does not even tell its version it has failed.
Judged(b, c) ==
  /\ c \in kids[b] /\ state[c] = "verdict"
  /\ \E kept \in BOOLEAN : Leaves(b, c, kept)
  /\ UNCHANGED <<batch, lease, aborted, patience, worktree, branch>>

\* removeWriterWorktree() of a child that is over.
Cleaned(b, c) ==
  /\ c \in kids[b] /\ state[c] = "cleanup"
  /\ state' = [state EXCEPT ![c] = "done"]
  /\ worktree' = [worktree EXCEPT ![c] = FALSE]
  /\ branch' = [branch EXCEPT ![c] = @ /\ keep[c]]
  /\ UNCHANGED <<batch, lease, aborted, keep, timer, patience, artifact>>

\* Every child is over; the branches may be staged for integration first.
Joined(b) ==
  /\ pc[b] = "children" /\ \A c \in kids[b] : state[c] = "done"

Integrate(b) ==
  /\ Joined(b) /\ holder = b /\ \E c \in kids[b] : keep[c]
  /\ pc' = [pc EXCEPT ![b] = "integrate"]
  /\ UNCHANGED <<kids, auto, relayed, stopped, trees, queue, lease, child, durable>>

\* The batch returns: the lease is released, the parent's flag no longer followed.
Returns(b) ==
  /\ Joined(b) \/ pc[b] = "integrate"
  /\ Released(b)
  /\ pc' = [pc EXCEPT ![b] = "off"] /\ kids' = [kids EXCEPT ![b] = {}]
  /\ trees' = [trees EXCEPT ![b] = {}]
  /\ state' = [c \in Kids |-> IF c \in kids[b] THEN "off" ELSE state[c]]
  /\ aborted' = [c \in Kids |-> c \notin kids[b] /\ aborted[c]]
  /\ keep' = [c \in Kids |-> c \notin kids[b] /\ keep[c]]
  /\ auto' = [auto EXCEPT ![b] = FALSE] /\ relayed' = [relayed EXCEPT ![b] = FALSE]
  /\ Forgotten(kids[b])
  /\ UNCHANGED <<stopped, queue, timer, patience>>

-----------------------------------------------------------------------------
(* Time, the user's cleanup, and crashes. *)

Tick ==
  /\ \A c \in Timed : timer[c] > 0 /\ (state[c] = "asks" => patience[c] > 0)
  /\ Timed # {} \/ absolute > 0
  /\ timer' = [c \in Kids |-> IF c \in Timed THEN timer[c] - 1 ELSE timer[c]]
  /\ patience' = [c \in Kids |-> IF state[c] = "asks" THEN patience[c] - 1 ELSE patience[c]]
  /\ absolute' = IF absolute > 0 THEN absolute - 1 ELSE 0
  /\ active' = IF active > 0 /\ ~paused THEN active - 1 ELSE active
  /\ UNCHANGED <<batch, holder, paused, state, aborted, keep, durable>>

\* The record of c is resolved; what is on disk of no batch's child is forgotten.
Settled(c, tree, kept) ==
  LET live == \E b \in Batches : c \in kids[b]
  IN /\ artifact' = [artifact EXCEPT ![c] = IF live THEN "resolved" ELSE "none"]
     /\ worktree' = [worktree EXCEPT ![c] = live /\ tree]
     /\ branch' = [branch EXCEPT ![c] = live /\ kept]

\* resolveQuarantinedArtifact(), on the user's word: of any artifact that is not
\* resolved.  Without its marker, which goes with the worktree or is unreadable,
\* only the record is.  With it the worktree goes, then the branch if the user says
\* so; git that fails to delete it leaves the record, and no marker, behind.
Resolve(c) ==
  /\ c \in Unresolved
  /\ \/ Settled(c, worktree[c], branch[c])
     \/ worktree[c] /\ \E kept \in BOOLEAN : Settled(c, FALSE, branch[c] /\ kept)
     \/ /\ worktree[c]
        /\ worktree' = [worktree EXCEPT ![c] = FALSE] /\ UNCHANGED <<artifact, branch>>
  /\ UNCHANGED <<batch, lease, child>>

\* reconcileActiveSubagentArtifact(), where no container can be cleaned up.
Reconciled(c) == IF artifact[c] = "active" THEN "quarantined" ELSE artifact[c]

\* The app crashes and starts: leases and batches were in memory; writers in
\* containers that can be removed are resolved, their branches kept.  What no row
\* records is forgotten.
Crash ==
  /\ \E S \in SUBSET {c \in Kids : artifact[c] = "active"} :
       LET on == Unresolved \ S
       IN /\ artifact' = [c \in Kids |-> IF c \in on THEN Reconciled(c) ELSE "none"]
          /\ worktree' = [c \in Kids |-> c \in on /\ worktree[c]]
          /\ branch' = [c \in Kids |-> c \in on /\ branch[c]]
  /\ pc' = [b \in Batches |-> "off"] /\ kids' = [b \in Batches |-> {}]
  /\ auto' = [b \in Batches |-> FALSE] /\ relayed' = [b \in Batches |-> FALSE]
  /\ stopped' = [b \in Batches |-> FALSE]
  /\ trees' = [b \in Batches |-> {}] /\ queue' = [b \in Batches |-> <<>>]
  /\ holder' = Nobody /\ paused' = FALSE /\ active' = 0 /\ absolute' = 0
  /\ state' = [c \in Kids |-> "off"] /\ aborted' = [c \in Kids |-> FALSE]
  /\ keep' = [c \in Kids |-> FALSE] /\ timer' = [c \in Kids |-> 0]
  /\ patience' = [c \in Kids |-> 0]

Prepares(b) ==
  Resolved(b) \/ Acquire(b) \/ Preflight(b) \/ Undo(b) \/ (\E c \in Writers : Create(b, c))

Next ==
  \/ \E b \in Batches :
       \/ \E K \in Assigned[b], on \in BOOLEAN : Spawn(b, K, on)
       \/ Prepares(b) \/ SetAuto(b) \/ Stop(b) \/ Integrate(b) \/ Returns(b)
       \/ \E c \in Kids : \/ Gate(b, c) \/ Decide(b, c) \/ TimerFires(b, c)
                          \/ LoopEnds(b, c) \/ Collected(b, c) \/ Judged(b, c)
                          \/ Cleaned(b, c)
  \/ \E c \in Kids : Resolve(c)
  \/ Tick \/ Crash

\* What a batch does by itself: git commands end, timers fire, a loop that is told to
\* stop does, and an approval nobody answers times out.  Nobody has to answer, and no
\* child has to come to an end of its own accord.
Unattended(b) ==
  \/ Prepares(b) \/ Returns(b)
  \/ \E c \in Kids : \/ TimerFires(b, c) \/ Collected(b, c) \/ Judged(b, c) \/ Cleaned(b, c)
                     \/ aborted[c] /\ LoopEnds(b, c)
                     \/ patience[c] = 0 /\ Decide(b, c)

Spec == Init /\ [][Next]_vars

\* What is said of one batch is said of all: they are alike.
One == CHOOSE b \in Batches : TRUE

\* Where a timer runs time passes: no behaviour has infinitely many steps in no time.
TimePasses == []<><<Tick>>_vars \/ []<>(Timed = {} /\ absolute = 0)

\* What the batch does by itself is not put off for ever; of the others nothing is
\* asked but that time may pass.
FairSpec == Spec /\ TimePasses /\ WF_vars(Unattended(One))

-----------------------------------------------------------------------------
(* Properties. *)

\* Wherever writers' worktrees are in use the batch holds the repository's
\* lease, and nothing another session left behind is unresolved: batches of
\* writers never meet, crashes and cleanups included (index.ts 3762-3806,
\* 4051-4055, quarantine.ts).
OneSession ==
  \A b \in Batches : trees[b] # {} => holder = b /\ Unresolved \subseteq kids[b]

\* The lease's active time stands still exactly while a child of the batch asks,
\* and no timer of a child is set past the absolute deadline: however often
\* children ask, they are told to stop in time (index.ts 3870-3890, 3944-3952).
DeadlineHolds ==
  /\ paused <=> \E b \in Batches : holder = b /\ \E c \in kids[b] : state[c] = "asks"
  /\ \A b \in Batches : holder = b => \A c \in kids[b] \cap Timed : timer[c] <= absolute

Coordinator == INSTANCE PermitPool WITH
  Users <- Kids, Cap <- 1,
  holders <- {c \in kids[One] : state[c] = "asks"}, waiting <- queue[One]

\* The children of a batch ask one at a time and in the order they came, and none
\* waits while nobody asks, whoever is stopped (approval-coordinator.ts).
CoordinatorImplemented == Coordinator!Spec

\* A batch returns, again and again, if nobody ever answers and no child ever ends by
\* itself: the parent that waits for it is not left hanging (index.ts 3870-3890, 2469).
BatchEnds == []<>(pc[One] = "off")
=============================================================================
