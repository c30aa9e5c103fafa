------------------------ MODULE ModelRequestsProofs ------------------------
(***************************************************************************)
(* Proofs about ModelRequests, for every number of conversations, permits  *)
(* and attempts.  The properties of the pool need the tree of runs: a loop *)
(* that runs belongs to a running run, and a subagent runs only inside the *)
(* tool calls of its parent, so a run never begins where a loop is queued. *)
(***************************************************************************)
EXTENDS ModelRequests, FiniteSetTheorems, TLAPS

Rows == [status : {"none", "in_progress", "exhausted", "overflow", "completed"},
         used : 0..MaxAttempts, late : BOOLEAN]
Loops == Holding \cup {"off", "asking", "queued", "tools", "waiting", "cut"}
Runs == Resting \cup {"none", "queued", "running", "retry"}
Holders == {c \in Convs : loop[c] \in Holding}

\* The types the pool and the budgets need.
PoolType == active \in 0..Cap /\ queue \in Seq(Convs)
LoopType ==
  /\ loop \in [Convs -> Loops] /\ name \in [Convs -> Names]
  /\ row \in [Convs -> [Names -> Rows]] /\ sent \in [Convs -> [Names -> 0..MaxAttempts]]
RestType ==
  /\ run \in [Convs -> Runs] /\ spent \in [Convs -> BOOLEAN]
  /\ stopping \in [Convs -> BOOLEAN]
  /\ rounds \in 0..MaxRounds /\ starts \in 0..MaxStarts /\ crashes \in 0..MaxCrashes

\* A loop runs in a running run, a subagent in the tool calls of its parent.
Tree ==
  /\ \A c \in Convs : loop[c] # "off" => run[c] = "running"
  /\ \A c \in Convs : loop[c] # "off" /\ Parent[c] # 0 => loop[Parent[c]] = "tools"

\* Attempts are counted before they are made: a waiter has one to spend.
Spent(n, b) ==
  /\ n <= b.used
  /\ b.status = "none" => b.used = 0
Budgets ==
  \A c \in Convs : /\ \A n \in Names : Spent(sent[c][n], row[c][n])
                   /\ loop[c] = "queued" => sent[c][name[c]] < Current(c).used

Inv == PoolType /\ LoopType /\ RestType /\ Tree /\ Budgets /\ NoStrandedWaiter /\ PermitsHold

LEMMA TypeParts == TypeOK <=> PoolType /\ LoopType /\ RestType
BY DEF TypeOK, PoolType, LoopType, RestType, Rows, Loops, Runs

-----------------------------------------------------------------------------
(* The pool. *)

LEMMA HoldersFinite == IsFiniteSet(Holders) /\ Cardinality(Holders) \in Nat
<1>1. IsFiniteSet(Convs)
  BY FS_Interval, BoundsAssumption DEF Convs
<1> QED BY <1>1, FS_Subset, FS_CardinalityType DEF Holders

\* drain() serves the oldest waiter after a release, if there is one.
LEMMA ServedLemma ==
  ASSUME PoolType, NoStrandedWaiter, active >= 1
  PROVE  /\ queue = <<>> => Served = 0 /\ Granted = {}
         /\ queue # <<>> => Served = 1 /\ Granted = {queue[1]} /\ Len(queue) >= 1
<1>1. /\ Len(queue) \in Nat /\ (queue = <<>> <=> Len(queue) = 0)
      /\ active \in Nat /\ Cap \in Nat
  BY BoundsAssumption DEF PoolType
<1>2. CASE queue = <<>>
  <2>1. Served = 0 BY <1>1, <1>2, BoundsAssumption DEF Served, PoolType
  <2> QED BY <2>1, <1>2 DEF Granted
<1>3. CASE queue # <<>>
  <2>1. active = Cap BY <1>3 DEF NoStrandedWaiter
  <2>2. Cap - (active - 1) = 1 BY <1>1, <2>1
  <2>3. Len(queue) >= 1 BY <1>1, <1>3
  <2>4. Served = 1 BY <1>1, <2>2, <2>3 DEF Served
  <2>5. 1..Served = {1} BY <2>4
  <2> QED BY <2>3, <2>4, <2>5, <1>3 DEF Granted
<1> QED BY <1>2, <1>3

\* What a step that leaves holders and waiters alone leaves of the pool.
LEMMA PoolSame ==
  ASSUME NoStrandedWaiter, PermitsHold, UNCHANGED pool,
         \A d \in Convs : loop'[d] \in Holding <=> loop[d] \in Holding,
         \A d \in Convs : loop'[d] = "queued" <=> loop[d] = "queued"
  PROVE  NoStrandedWaiter' /\ PermitsHold'
<1>1. {c \in Convs : loop'[c] \in Holding} = {c \in Convs : loop[c] \in Holding}
  OBVIOUS
<1>2. PermitsHold' BY <1>1 DEF PermitsHold, pool
<1>3. NoStrandedWaiter' BY DEF NoStrandedWaiter, pool
<1> QED BY <1>2, <1>3

\* A release hands the permit to the oldest waiter, or puts it back.
LEMMA ReleaseLemma ==
  ASSUME Inv, NEW c \in Convs, loop[c] \in Holding,
         NEW next \in Loops \ (Holding \cup {"queued"}), NEW n \in Names, NEW rows \in [Names -> Rows],
         Release(c, next, n, rows)
  PROVE  /\ PoolType' /\ NoStrandedWaiter' /\ PermitsHold'
         /\ queue = <<>> => Holders' = Holders \ {c} /\ queue' = queue
         /\ queue # <<>> => Holders' = (Holders \ {c}) \cup {Head(queue)} /\ queue' = Tail(queue)
<1> USE BoundsAssumption DEF Inv, PoolType
<1>h. c \in Holders /\ Holders' = {d \in Convs : loop'[d] \in Holding}
  BY DEF Holders
<1>f. IsFiniteSet(Holders) /\ Cardinality(Holders) \in Nat /\ active = Cardinality(Holders)
  BY HoldersFinite DEF PermitsHold, Holders
<1>p. active >= 1
  BY <1>h, <1>f, FS_EmptySet
<1>l. \A d \in Convs : loop'[d] = IF d = c THEN next ELSE IF d \in Granted THEN "sending" ELSE loop[d]
  BY DEF Release
<1>n. next \notin Holding /\ next # "queued" /\ loop[c] # "queued" /\ "sending" \in Holding
  BY DEF Holding
<1>r. IsFiniteSet(Holders \ {c}) /\ Cardinality(Holders \ {c}) = active - 1
  BY <1>h, <1>f, FS_RemoveElement
<1>1. CASE queue = <<>>
  <2>1. Served = 0 /\ Granted = {} BY <1>p, <1>1, ServedLemma
  <2>2. active' = active - 1 /\ queue' = <<>> BY <2>1, <1>1, <1>p DEF Release
  <2>3. Holders' = Holders \ {c} BY <2>1, <1>h, <1>l, <1>n DEF Holders
  <2>c. Cardinality(Holders') = active - 1 BY <2>3, <1>r
  <2>4. PermitsHold' BY <2>2, <2>c, <1>p DEF PermitsHold, Holders
  <2>5. \A d \in Convs : loop'[d] # "queued"
    BY <2>1, <1>1, <1>l, <1>n DEF NoStrandedWaiter
  <2>6. NoStrandedWaiter' BY <2>2, <2>5 DEF NoStrandedWaiter
  <2> QED BY <2>2, <2>3, <2>4, <2>6, <1>p, <1>1
<1>2. CASE queue # <<>>
  <2> DEFINE q == queue[1]
  <2>1. Served = 1 /\ Granted = {q} /\ Len(queue) >= 1 BY <1>p, <1>2, ServedLemma
  <2>2. active' = active /\ queue' = Tail(queue)
    BY <2>1 DEF Release
  <2>3. /\ q \in Convs /\ Len(queue) \in Nat /\ queue' \in Seq(Convs)
        /\ Len(queue') = Len(queue) - 1
        /\ \A i \in 1..Len(queue') : queue'[i] = queue[i + 1]
    BY <2>1, <2>2
  <2>4. loop[q] = "queued" /\ q # c /\ q \notin Holders
    BY <2>1, <2>3, <1>n DEF NoStrandedWaiter, Holders, Holding
  <2>5. Holders' = (Holders \ {c}) \cup {q}
    BY <2>1, <2>3, <2>4, <1>h, <1>l, <1>n DEF Holders
  <2>6. Cardinality(Holders') = active
    <3> DEFINE rest == Holders \ {c}
    <3>1. IsFiniteSet(rest) /\ Cardinality(rest) = active - 1 /\ q \notin rest
      BY <1>r, <2>4
    <3> HIDE DEF rest
    <3>2. Cardinality(rest \cup {q}) = (active - 1) + 1
      BY <3>1, FS_AddElement
    <3> QED BY <3>2, <2>5 DEF rest
  <2>7. PermitsHold' BY <2>2, <2>6 DEF PermitsHold, Holders
  <2>8. \A d \in Convs : loop'[d] = "queued" <=> loop[d] = "queued" /\ d # q
    BY <2>1, <2>4, <1>l, <1>n
  <2>9. \A d \in Convs : (\E i \in 1..Len(queue') : queue'[i] = d)
                         <=> (\E i \in 1..Len(queue) : queue[i] = d) /\ d # q
    <3> TAKE d \in Convs
    <3>1. ASSUME NEW i \in 1..Len(queue'), queue'[i] = d
          PROVE  (\E k \in 1..Len(queue) : queue[k] = d) /\ d # q
      <4>1. i + 1 \in 1..Len(queue) /\ queue[i + 1] = d /\ i + 1 # 1 /\ 1 \in 1..Len(queue)
        BY <3>1, <2>1, <2>3
      <4> QED BY <4>1 DEF NoStrandedWaiter
    <3>2. ASSUME NEW i \in 1..Len(queue), queue[i] = d, d # q
          PROVE  \E k \in 1..Len(queue') : queue'[k] = d
      <4>1. i - 1 \in 1..Len(queue') /\ queue'[i - 1] = d
        BY <3>2, <2>3
      <4> QED BY <4>1
    <3> QED BY <3>1, <3>2
  <2>10. \A i, j \in 1..Len(queue') : queue'[i] = queue'[j] => i = j
    <3> TAKE i, j \in 1..Len(queue')
    <3>1. i + 1 \in 1..Len(queue) /\ j + 1 \in 1..Len(queue) BY <2>3
    <3> QED BY <3>1, <2>3 DEF NoStrandedWaiter
  <2>11. active' = Cap BY <2>2, <1>2 DEF NoStrandedWaiter
  <2>12. NoStrandedWaiter'
    BY <2>8, <2>9, <2>10, <2>11 DEF NoStrandedWaiter
  <2>13. Head(queue) = q BY <2>1
  <2> QED BY <2>2, <2>3, <2>5, <2>7, <2>12, <2>13, <1>2
<1> QED BY <1>1, <1>2

\* Whoever a release serves was waiting, and has an attempt to spend.
LEMMA GrantedWaits ==
  ASSUME Inv, NEW c \in Convs, loop[c] \in Holding
  PROVE  \A d \in Granted : /\ d \in Convs /\ loop[d] = "queued" /\ sent[d][name[d]] < Current(d).used
                            /\ \E i \in 1..Len(queue) : queue[i] = d /\ i = 1
<1>1. IsFiniteSet(Holders) /\ c \in Holders /\ active = Cardinality(Holders)
  BY HoldersFinite DEF Inv, PermitsHold, Holders
<1>2. active >= 1
  BY <1>1, HoldersFinite, FS_EmptySet
<1>3. PoolType /\ NoStrandedWaiter BY DEF Inv
<1>4. CASE queue = <<>> BY <1>2, <1>3, <1>4, ServedLemma
<1>5. CASE queue # <<>>
  <2>1. Granted = {queue[1]} /\ 1 \in 1..Len(queue) BY <1>2, <1>3, <1>5, ServedLemma DEF PoolType
  <2>2. queue[1] \in Convs BY <1>3, <2>1 DEF PoolType
  <2>3. loop[queue[1]] = "queued" BY <1>3, <2>1, <2>2 DEF NoStrandedWaiter
  <2> QED BY <2>1, <2>2, <2>3 DEF Inv, Budgets
<1> QED BY <1>4, <1>5

\* Rows that c's loop may go on with.
Fits(c, rows) ==
  /\ rows \in [Names -> Rows]
  /\ \A n \in Names : Spent(IF rows = NoRows THEN 0 ELSE sent[c][n], rows[n])

LEMMA ReleaseLoops ==
  ASSUME Inv, NEW c \in Convs, loop[c] \in Holding,
         NEW next \in Loops \ (Holding \cup {"queued"}), NEW n \in Names, NEW rows, Fits(c, rows),
         Release(c, next, n, rows)
  PROVE  LoopType' /\ Budgets'
<1>1. \A d \in Granted : d \in Convs /\ loop[d] = "queued" /\ sent[d][name[d]] < Current(d).used
  BY GrantedWaits
<1>2. \A d \in Convs : /\ row[d] \in [Names -> Rows] /\ sent[d] \in [Names -> 0..MaxAttempts]
                       /\ name[d] \in Names /\ loop[d] \in Loops
  BY DEF Inv, LoopType
<1>3. \A b \in Rows : b.used \in 0..MaxAttempts BY DEF Rows
<1>4. "sending" \in Loops /\ "sending" # "queued" BY DEF Loops, Holding
<1>6. \A d \in Convs : /\ row'[d] = IF d = c THEN rows ELSE row[d]
                       /\ name'[d] = IF d = c THEN n ELSE name[d]
  BY DEF Inv, LoopType, Release
<1>8. NoneSent \in [Names -> 0..MaxAttempts] /\ \A k \in Names : NoneSent[k] = 0
  BY BoundsAssumption DEF NoneSent
<1>9. ASSUME NEW d \in Convs, d # c, d \in Granted
      PROVE  /\ sent'[d] \in [Names -> 0..MaxAttempts]
             /\ \A k \in Names : sent'[d][k] = IF k = name[d] THEN sent[d][k] + 1 ELSE sent[d][k]
  <2>1. sent'[d] = [sent[d] EXCEPT ![name[d]] = sent[d][name[d]] + 1] BY <1>9 DEF Release
  <2>2. Current(d).used \in 0..MaxAttempts /\ sent[d][name[d]] \in 0..MaxAttempts
    BY <1>2, <1>3 DEF Current
  <2>3. sent[d][name[d]] + 1 \in 0..MaxAttempts BY <1>1, <1>9, <2>2, BoundsAssumption
  <2> QED BY <1>2, <2>1, <2>3
<1>5. LoopType'
  <2>1. \A d \in Convs : loop'[d] \in Loops BY <1>2, <1>4 DEF Release
  <2>2. ASSUME NEW d \in Convs PROVE sent'[d] \in [Names -> 0..MaxAttempts]
    <3>1. CASE d = c BY <1>2, <1>8, <3>1 DEF Release
    <3>2. CASE d # c /\ d \in Granted BY <1>9, <3>2
    <3>3. CASE d # c /\ d \notin Granted BY <1>2, <3>3 DEF Release
    <3> QED BY <3>1, <3>2, <3>3
  <2>3. row' \in [Convs -> [Names -> Rows]] /\ name' \in [Convs -> Names]
    BY DEF Inv, LoopType, Release, Fits
  <2>4. loop' \in [Convs -> Loops] BY <2>1 DEF Release
  <2>5. sent' \in [Convs -> [Names -> 0..MaxAttempts]] BY <2>2 DEF Release
  <2> QED BY <2>3, <2>4, <2>5 DEF LoopType
<1>7. ASSUME NEW d \in Convs
      PROVE  /\ \A k \in Names : Spent(sent'[d][k], row'[d][k])
             /\ loop'[d] = "queued" => sent'[d][name'[d]] < row'[d][name'[d]].used
  <2>1. CASE d = c
    <3>1. \A k \in Names : sent'[c][k] = IF rows = NoRows THEN 0 ELSE sent[c][k]
      BY <1>8, <2>1 DEF Release
    <3>2. loop'[d] # "queued" BY <2>1 DEF Release
    <3> QED BY <2>1, <3>1, <3>2, <1>6 DEF Fits
  <2>2. CASE d # c /\ d \in Granted
    <3>1. loop'[d] = "sending" /\ row'[d] = row[d] BY <2>2, <1>6 DEF Release
    <3>2. ASSUME NEW k \in Names PROVE Spent(sent'[d][k], row'[d][k])
      <4>1. Spent(sent[d][k], row[d][k]) BY DEF Inv, Budgets
      <4>2. row[d][k].used \in 0..MaxAttempts /\ sent[d][k] \in 0..MaxAttempts BY <1>2, <1>3
      <4>3. CASE k = name[d]
        <5>1. sent'[d][k] = sent[d][k] + 1 /\ sent[d][k] < row[d][k].used
          BY <1>1, <1>9, <2>2, <4>3 DEF Current
        <5> QED BY <3>1, <4>1, <4>2, <5>1, BoundsAssumption DEF Spent
      <4>4. CASE k # name[d] BY <1>9, <2>2, <3>1, <4>1, <4>4
      <4> QED BY <4>3, <4>4
    <3> QED BY <3>1, <3>2, <1>4
  <2>3. CASE d # c /\ d \notin Granted
    <3>1. sent'[d] = sent[d] /\ loop'[d] = loop[d] /\ row'[d] = row[d] /\ name'[d] = name[d]
      BY <2>3, <1>6 DEF Release
    <3> QED BY <3>1 DEF Inv, Budgets, Current
  <2> QED BY <2>1, <2>2, <2>3
<1> QED BY <1>5, <1>7 DEF Budgets, Current

LEMMA GoesLemma ==
  ASSUME Inv, NEW c \in Convs, loop[c] # "queued",
         NEW next \in Loops \ {"queued"}, loop[c] \in Holding <=> next \in Holding,
         NEW n \in Names, NEW rows, Fits(c, rows), Goes(c, next, n, rows)
  PROVE  PoolType' /\ LoopType' /\ Budgets' /\ NoStrandedWaiter' /\ PermitsHold'
<1>1. \A d \in Convs : /\ loop'[d] = IF d = c THEN next ELSE loop[d]
                       /\ row'[d] = IF d = c THEN rows ELSE row[d]
                       /\ name'[d] = IF d = c THEN n ELSE name[d]
                       /\ sent'[d] = IF d = c THEN IF rows = NoRows THEN NoneSent ELSE sent[c] ELSE sent[d]
  BY DEF Goes, Inv, LoopType
<1>6. NoneSent \in [Names -> 0..MaxAttempts] /\ \A k \in Names : NoneSent[k] = 0
  BY BoundsAssumption DEF NoneSent
<1>2. LoopType'
  <2>1. \A d \in Convs : sent'[d] \in [Names -> 0..MaxAttempts]
    BY <1>1, <1>6 DEF Inv, LoopType
  <2>2. /\ loop' \in [Convs -> Loops] /\ row' \in [Convs -> [Names -> Rows]]
        /\ name' \in [Convs -> Names]
    BY DEF Goes, Inv, LoopType, Fits
  <2>3. sent' \in [Convs -> [Names -> 0..MaxAttempts]] BY <2>1 DEF Goes, Inv, LoopType
  <2> QED BY <2>2, <2>3 DEF LoopType
<1>3. Budgets'
  <2> SUFFICES ASSUME NEW d \in Convs
               PROVE  /\ \A k \in Names : Spent(sent'[d][k], row'[d][k])
                      /\ loop'[d] = "queued" => sent'[d][name'[d]] < row'[d][name'[d]].used
    BY DEF Budgets, Current
  <2>1. CASE d = c BY <1>1, <1>6, <2>1 DEF Fits
  <2>2. CASE d # c BY <1>1, <2>2 DEF Inv, Budgets, Current
  <2> QED BY <2>1, <2>2
<1>4. PoolType' BY DEF Goes, pool, Inv, PoolType
<1>5. NoStrandedWaiter' /\ PermitsHold'
  <2>1. \A d \in Convs : /\ loop'[d] \in Holding <=> loop[d] \in Holding
                         /\ loop'[d] = "queued" <=> loop[d] = "queued"
    BY <1>1
  <2>2. NoStrandedWaiter /\ PermitsHold /\ UNCHANGED pool BY DEF Inv, Goes
  <2> QED BY <2>1, <2>2, PoolSame
<1> QED BY <1>2, <1>3, <1>4, <1>5

\* Waiters of D that leave the queue leave it in order.
LEMMA LeaveLemma ==
  ASSUME Inv, NEW D, Leave(D), active' = active,
         \A d \in Convs : loop'[d] \in Holding <=> loop[d] \in Holding,
         \A d \in Convs : loop'[d] = "queued" <=> loop[d] = "queued" /\ d \notin D
  PROVE  PoolType' /\ NoStrandedWaiter' /\ PermitsHold'
<1>0. PICK n \in 0..Len(queue) : \E kept \in [1..n -> 1..Len(queue)] :
        /\ \A i, j \in 1..n : i < j => kept[i] < kept[j]
        /\ \A i \in 1..Len(queue) : queue[i] \notin D <=> \E j \in 1..n : kept[j] = i
        /\ queue' = [j \in 1..n |-> queue[kept[j]]]
  BY DEF Leave
<1>1. PICK kept \in [1..n -> 1..Len(queue)] :
        /\ \A i, j \in 1..n : i < j => kept[i] < kept[j]
        /\ \A i \in 1..Len(queue) : queue[i] \notin D <=> \E j \in 1..n : kept[j] = i
        /\ queue' = [j \in 1..n |-> queue[kept[j]]]
  BY <1>0
<1>2. queue \in Seq(Convs) /\ Len(queue) \in Nat /\ n \in Nat BY DEF Inv, PoolType
<1>3. \A j \in 1..n : kept[j] \in 1..Len(queue) /\ queue'[j] = queue[kept[j]]
  BY <1>1
<1>4. queue' \in Seq(Convs) /\ Len(queue') = n
  <2>1. \A j \in 1..n : queue[kept[j]] \in Convs BY <1>2, <1>3
  <2> QED BY <1>1, <1>2, <2>1
<1>5. PoolType' BY <1>4 DEF PoolType, Inv
<1>6. PermitsHold'
  <2>1. {d \in Convs : loop'[d] \in Holding} = {d \in Convs : loop[d] \in Holding} OBVIOUS
  <2> QED BY <2>1 DEF PermitsHold, Inv
<1>7. \A d \in Convs : loop'[d] = "queued" <=> \E j \in 1..Len(queue') : queue'[j] = d
  <2> TAKE d \in Convs
  <2>1. ASSUME loop[d] = "queued", d \notin D PROVE \E j \in 1..n : queue'[j] = d
    <3>1. PICK i \in 1..Len(queue) : queue[i] = d BY <2>1 DEF Inv, NoStrandedWaiter
    <3>2. PICK j \in 1..n : kept[j] = i BY <3>1, <2>1, <1>1
    <3> QED BY <3>1, <3>2, <1>3
  <2>2. ASSUME NEW j \in 1..n, queue'[j] = d PROVE loop[d] = "queued" /\ d \notin D
    <3>1. kept[j] \in 1..Len(queue) /\ queue[kept[j]] = d BY <2>2, <1>3
    <3> QED BY <3>1, <1>1 DEF Inv, NoStrandedWaiter
  <2> QED BY <2>1, <2>2, <1>4
<1>8. \A i, j \in 1..Len(queue') : queue'[i] = queue'[j] => i = j
  <2> SUFFICES ASSUME NEW i \in 1..n, NEW j \in 1..n, queue'[i] = queue'[j] PROVE i = j
    BY <1>4
  <2>0. \A k, l \in 1..Len(queue) : queue[k] = queue[l] => k = l
    BY DEF Inv, NoStrandedWaiter
  <2>1. kept[i] = kept[j]
    <3>1. /\ kept[i] \in 1..Len(queue) /\ queue'[i] = queue[kept[i]]
          /\ kept[j] \in 1..Len(queue) /\ queue'[j] = queue[kept[j]]
      BY <1>3
    <3>2. queue[kept[i]] = queue[kept[j]]
      BY <3>1
    <3> QED BY <2>0, <3>1, <3>2, Zenon
  <2>2. kept[i] \in Nat /\ kept[j] \in Nat BY <1>2, <1>3
  <2>3. ~(i < j) /\ ~(j < i) BY <2>1, <2>2, <1>1
  <2> QED BY <2>3, <1>2
<1>9. queue' # <<>> => active' = Cap
  <2>1. ASSUME queue' # <<>> PROVE queue # <<>>
    <3>1. n # 0 BY <2>1, <1>4, <1>2
    <3>2. kept[1] \in 1..Len(queue) BY <3>1, <1>2, <1>3
    <3> QED BY <3>2, <1>2
  <2> QED BY <2>1 DEF Inv, NoStrandedWaiter
<1> QED BY <1>5, <1>6, <1>7, <1>8, <1>9 DEF NoStrandedWaiter

-----------------------------------------------------------------------------
(* The tree of runs and the types outside the pool. *)

\* A step of one loop keeps the tree, unless it leaves `tools` too early.
LEMMA TreeStep ==
  ASSUME Tree, NEW c \in Convs,
         \A d \in Convs \ {c} :
           /\ run'[d] = run[d]
           /\ loop'[d] # loop[d] => loop[d] \notin {"off", "tools"} /\ loop'[d] # "off",
         loop'[c] # "off" => /\ run'[c] = "running"
                             /\ Parent[c] # 0 => loop[Parent[c]] = "tools",
         loop'[c] # "tools" => \A d \in Convs : Parent[d] = c => loop'[d] = "off"
  PROVE  Tree'
<1>1. ASSUME NEW d \in Convs, loop'[d] # "off" PROVE run'[d] = "running"
  <2>1. CASE d = c BY <1>1, <2>1
  <2>2. CASE d # c BY <1>1, <2>2 DEF Tree
  <2> QED BY <2>1, <2>2
<1>2. ASSUME NEW d \in Convs, loop'[d] # "off", Parent[d] # 0
      PROVE  loop'[Parent[d]] = "tools"
  <2>1. Parent[d] \in Convs /\ Parent[d] # d
    BY <1>2, ParentAssumption, BoundsAssumption DEF Convs
  <2>2. CASE Parent[d] = c BY <1>2, <2>2
  <2>3. CASE Parent[d] # c
    <3>1. loop[Parent[d]] = "tools"
      <4>1. CASE d = c BY <1>2, <4>1
      <4>2. CASE d # c BY <1>2, <4>2 DEF Tree
      <4> QED BY <4>1, <4>2
    <3> QED BY <3>1, <2>1, <2>3
  <2> QED BY <2>2, <2>3
<1> QED BY <1>1, <1>2 DEF Tree

\* Outside its tool calls, a loop has no subagent that runs.
LEMMA NoKids ==
  ASSUME Tree, NEW c \in Convs, loop[c] # "tools"
  PROVE  \A d \in Convs : Parent[d] = c => loop[d] = "off"
<1>1. c # 0 BY BoundsAssumption DEF Convs
<1> QED BY <1>1 DEF Tree

\* What a step of c alone, or a release by c, does to the tree.
LEMMA TreeOne ==
  ASSUME Tree, NEW c \in Convs, loop[c] # "off",
         loop[c] = "tools" => \A d \in Convs : Parent[d] = c => loop[d] = "off",
         \A d \in Convs \ {c} :
           /\ run'[d] = run[d]
           /\ loop'[d] = loop[d] \/ (loop[d] = "queued" /\ loop'[d] = "sending"),
         loop'[c] # "off" => run'[c] = "running"
  PROVE  Tree'
<1>1. \A d \in Convs : Parent[d] = c => loop[d] = "off" BY NoKids
<1>2. \A d \in Convs : Parent[d] = c => d # c BY ParentAssumption, BoundsAssumption DEF Convs
<1>3. \A d \in Convs : Parent[d] = c => loop'[d] = "off" BY <1>1, <1>2
<1>4. Parent[c] # 0 => loop[Parent[c]] = "tools" BY DEF Tree
<1> QED BY <1>3, <1>4, TreeStep

LEMMA TreeRelease ==
  ASSUME Inv, NEW c \in Convs, loop[c] \in Holding, NEW next, NEW n, NEW rows,
         Release(c, next, n, rows), next # "off" => run'[c] = "running",
         \A d \in Convs \ {c} : run'[d] = run[d]
  PROVE  Tree'
<1>1. \A d \in Granted : d \in Convs /\ loop[d] = "queued" BY GrantedWaits
<1>2. \A d \in Convs : loop'[d] = IF d = c THEN next ELSE IF d \in Granted THEN "sending" ELSE loop[d]
  BY DEF Release
<1>3. Tree /\ loop[c] # "off" /\ loop[c] # "tools" BY DEF Inv, Holding
<1> QED BY <1>1, <1>2, <1>3, TreeOne

LEMMA TreeGoes ==
  ASSUME Inv, NEW c \in Convs, loop[c] # "off",
         loop[c] = "tools" => \A d \in Kids(c) : loop[d] = "off",
         NEW next, NEW n, NEW rows, Goes(c, next, n, rows), next # "off" => run'[c] = "running",
         \A d \in Convs \ {c} : run'[d] = run[d]
  PROVE  Tree'
<1>1. \A d \in Convs : loop'[d] = IF d = c THEN next ELSE loop[d]
  BY DEF Goes, Inv, LoopType
<1>2. Tree BY DEF Inv
<1> QED BY <1>1, <1>2, TreeOne DEF Kids

LEMMA RestSettles ==
  ASSUME RestType, NEW c \in Convs, NEW result \in Runs, Settles(c, result)
  PROVE  /\ run' \in [Convs -> Runs] /\ stopping' \in [Convs -> BOOLEAN]
         /\ run'[c] = result /\ \A d \in Convs \ {c} : run'[d] = run[d]
BY DEF Settles, RestType

LEMMA NoRowsFit ==
  ASSUME NEW c \in Convs
  PROVE  Fits(c, NoRows) /\ 0 \in Names /\ NoneSent \in [Names -> 0..MaxAttempts]
BY BoundsAssumption DEF Fits, Spent, NoRow, NoRows, NoneSent, Names, Rows

-----------------------------------------------------------------------------
(* The actions, one lemma for those that take the same way. *)

Pooled == PoolType /\ LoopType /\ Budgets /\ NoStrandedWaiter /\ PermitsHold

\* A loop that ends its run, with or without a permit to give back.
LEMMA EndsLemma ==
  ASSUME Inv, NEW c \in Convs, NEW result \in Runs, Settles(c, result),
         loop[c] \notin {"off", "queued"},
         loop[c] = "tools" => \A d \in Kids(c) : loop[d] = "off",
         IF loop[c] \in Holding THEN Release(c, "off", 0, NoRows) ELSE Goes(c, "off", 0, NoRows),
         spent' \in [Convs -> BOOLEAN], UNCHANGED counters
  PROVE  Inv'
<1>1. "off" \in Loops \ (Holding \cup {"queued"}) /\ "off" \in Loops \ {"queued"}
  BY DEF Loops, Holding
<1>2. Fits(c, NoRows) /\ NoRows \in [Names -> Rows] /\ 0 \in Names BY NoRowsFit DEF Fits
<1>3. CASE loop[c] \in Holding
  <2>1. Release(c, "off", 0, NoRows) BY <1>3
  <2>2. Pooled' BY <1>1, <1>2, <1>3, <2>1, ReleaseLemma, ReleaseLoops DEF Pooled
  <2>3. Tree' BY <1>3, <2>1, RestSettles, TreeRelease DEF Inv
  <2>4. RestType' BY <2>1, RestSettles DEF Inv, RestType, counters, Release
  <2> QED BY <2>2, <2>3, <2>4 DEF Inv, Pooled
<1>4. CASE loop[c] \notin Holding
  <2>1. Goes(c, "off", 0, NoRows) BY <1>4
  <2>2. Pooled' BY <1>1, <1>2, <1>4, <2>1, GoesLemma DEF Pooled, Holding
  <2>3. Tree' BY <2>1, RestSettles, TreeGoes DEF Inv
  <2>4. RestType' BY <2>1, RestSettles DEF Inv, RestType, counters, Goes
  <2> QED BY <2>2, <2>3, <2>4 DEF Inv, Pooled
<1> QED BY <1>3, <1>4

\* A loop that gives its permit back and goes on.
LEMMA GivesLemma ==
  ASSUME Inv, NEW c \in Convs, loop[c] \in Holding,
         NEW next \in Loops \ (Holding \cup {"queued", "off"}), NEW n \in Names, NEW rows, Fits(c, rows),
         Release(c, next, n, rows), UNCHANGED <<run, stopping, starts, crashes>>,
         spent' \in [Convs -> BOOLEAN], rounds' \in 0..MaxRounds
  PROVE  Inv'
<1>1. rows \in [Names -> Rows] BY DEF Fits
<1>2. Pooled' BY <1>1, ReleaseLemma, ReleaseLoops DEF Pooled
<1>3. run'[c] = "running" BY DEF Inv, Tree, Holding
<1>4. Tree' BY <1>3, TreeRelease
<1>5. RestType' BY DEF Inv, RestType, Release
<1> QED BY <1>2, <1>4, <1>5 DEF Inv, Pooled

\* A loop that goes on without giving a permit back.
LEMMA GoesOnLemma ==
  ASSUME Inv, NEW c \in Convs, loop[c] \notin {"off", "queued"},
         loop[c] = "tools" => \A d \in Kids(c) : loop[d] = "off",
         NEW next \in Loops \ {"queued", "off"}, loop[c] \in Holding <=> next \in Holding,
         NEW n \in Names, NEW rows, Fits(c, rows),
         Goes(c, next, n, rows), UNCHANGED <<run, spent, stopping, counters>>
  PROVE  Inv'
<1>1. Pooled' BY GoesLemma DEF Pooled
<1>2. run'[c] = "running" BY DEF Inv, Tree
<1>3. Tree' BY <1>2, TreeGoes
<1>4. RestType' BY DEF Inv, RestType, Goes, counters
<1> QED BY <1>1, <1>3, <1>4 DEF Inv, Pooled

\* acquire().
LEMMA AttemptLemma ==
  ASSUME Inv, NEW c \in Convs, Attempt(c)
  PROVE  Inv'
<1> DEFINE m == name[c]
           b == Consumed(row[c][m])
<1>1. /\ loop[c] = "asking" /\ b.status = "in_progress"
      /\ row' = [row EXCEPT ![c][m] = b] /\ name' = name
      /\ UNCHANGED <<run, spent, stopping, counters>>
  BY DEF Attempt, Current
<1>2. /\ m \in Names /\ row[c][m] \in Rows /\ Spent(sent[c][m], row[c][m])
      /\ sent[c][m] \in 0..MaxAttempts /\ sent[c] \in [Names -> 0..MaxAttempts]
  BY DEF Inv, LoopType, Budgets
<1>3. b \in Rows /\ Spent(sent[c][m], b) /\ sent[c][m] + 1 <= b.used
  BY <1>1, <1>2, BoundsAssumption DEF Consumed, Rows, Spent
<1> HIDE DEF b
<1>4. /\ row' \in [Convs -> [Names -> Rows]]
      /\ \A d \in Convs, k \in Names : row'[d][k] = IF d = c /\ k = m THEN b ELSE row[d][k]
  BY <1>1, <1>2, <1>3 DEF Inv, LoopType
<1> HIDE DEF m
<1>m. m = name[c] BY DEF m
<1>d. \A d \in Convs : name[d] \in Names BY DEF Inv, LoopType
<1>5. RestType'
  BY <1>1 DEF Inv, RestType, counters
<1>6. \E next \in {"cut", "sending", "queued"} : loop' = [loop EXCEPT ![c] = next]
  BY DEF Attempt
<1>7. /\ loop' \in [Convs -> Loops] /\ loop'[c] \in {"cut", "sending", "queued"}
      /\ \A d \in Convs \ {c} : loop'[d] = loop[d]
  BY <1>6 DEF Inv, LoopType, Loops, Holding
<1>8. Tree'
  <2>1. run[c] = "running" /\ Tree BY <1>1 DEF Inv, Tree
  <2> QED BY <1>1, <1>7, <2>1, TreeOne
<1>n. active \in Nat /\ Cap \in Nat /\ b.used \in Nat /\ sent[c][m] \in Nat
  BY <1>2, <1>3, BoundsAssumption DEF Inv, PoolType, Rows
<1>9. CASE stopping[c]
  <2>1. loop' = [loop EXCEPT ![c] = "cut"] /\ UNCHANGED <<pool, sent>>
    BY <1>9 DEF Attempt
  <2>2. \A d \in Convs : loop'[d] = IF d = c THEN "cut" ELSE loop[d] BY <2>1 DEF Inv, LoopType
  <2>3. NoStrandedWaiter' /\ PermitsHold'
    BY <1>1, <2>1, <2>2, PoolSame DEF Inv, Holding
  <2>4. Budgets' BY <1>1, <1>3, <1>4, <1>d, <2>1, <2>2 DEF Inv, Budgets, Current
  <2>5. PoolType' /\ LoopType' BY <1>1, <1>4, <1>7, <2>1 DEF Inv, PoolType, LoopType, pool
  <2> QED BY <1>5, <1>8, <2>3, <2>4, <2>5 DEF Inv
<1>10. CASE ~stopping[c] /\ active < Cap
  <2>1. /\ loop' = [loop EXCEPT ![c] = "sending"] /\ active' = active + 1
        /\ sent' = [sent EXCEPT ![c][m] = sent[c][m] + 1] /\ queue' = queue
    BY <1>m, <1>n, <1>10 DEF Attempt
  <2>2. \A d \in Convs : loop'[d] = IF d = c THEN "sending" ELSE loop[d] BY <2>1 DEF Inv, LoopType
  <2>3. Holders' = Holders \cup {c} /\ c \notin Holders
    BY <1>1, <2>2 DEF Holders, Holding
  <2>4. Cardinality(Holders') = Cardinality(Holders) + 1
    BY <2>3, HoldersFinite, FS_AddElement
  <2>5. active \in Nat /\ Cap \in Nat /\ active = Cardinality(Holders) /\ active' <= Cap
    BY <1>10, <2>1, BoundsAssumption DEF Inv, PoolType, PermitsHold, Holders
  <2>6. PermitsHold' BY <2>1, <2>4, <2>5 DEF PermitsHold, Holders
  <2>7. PoolType' BY <2>1, <2>5 DEF Inv, PoolType
  <2>8. queue = <<>> BY <1>10, <2>5 DEF Inv, NoStrandedWaiter
  <2>9. NoStrandedWaiter' BY <1>1, <2>1, <2>2, <2>8 DEF Inv, NoStrandedWaiter
  <2>10. \A d \in Convs, k \in Names :
           sent'[d][k] = IF d = c /\ k = m THEN sent[c][m] + 1 ELSE sent[d][k]
    BY <1>2, <2>1 DEF Inv, LoopType
  <2>11. b.used \in 0..MaxAttempts BY <1>3 DEF Rows
  <2>12. sent[c][m] + 1 \in 0..MaxAttempts BY <1>2, <1>3, <2>11, BoundsAssumption
  <2>13. LoopType' BY <1>1, <1>2, <1>4, <1>7, <2>1, <2>12 DEF Inv, LoopType
  <2>14. Budgets'
    <3>1. \A d \in Convs, k \in Names : Spent(sent'[d][k], row'[d][k])
      BY <1>3, <1>4, <2>10 DEF Inv, Budgets, Spent
    <3>2. ASSUME NEW d \in Convs, loop'[d] = "queued"
          PROVE  sent'[d][name'[d]] < row'[d][name'[d]].used
      <4>1. d # c /\ loop[d] = "queued" BY <2>2, <3>2
      <4> QED BY <1>1, <1>4, <1>d, <2>10, <4>1 DEF Inv, Budgets, Current
    <3> QED BY <3>1, <3>2 DEF Budgets, Current
  <2> QED BY <1>5, <1>8, <2>6, <2>7, <2>9, <2>13, <2>14 DEF Inv
<1>11. CASE ~stopping[c] /\ active >= Cap
  <2>1. loop' = [loop EXCEPT ![c] = "queued"] /\ queue' = Append(queue, c)
        /\ UNCHANGED <<active, sent>>
    BY <1>n, <1>11 DEF Attempt
  <2>2. \A d \in Convs : loop'[d] = IF d = c THEN "queued" ELSE loop[d] BY <2>1 DEF Inv, LoopType
  <2>3. /\ Len(queue) \in Nat /\ queue' \in Seq(Convs) /\ Len(queue') = Len(queue) + 1
        /\ queue'[Len(queue) + 1] = c /\ \A i \in 1..Len(queue) : queue'[i] = queue[i]
    BY <2>1 DEF Inv, PoolType
  <2>4. PoolType' /\ LoopType' BY <1>1, <1>4, <1>7, <2>1, <2>3 DEF Inv, PoolType, LoopType
  <2>5. Budgets'
    <3>1. sent[c][m] < b.used BY <1>3, <1>n
    <3> QED BY <1>1, <1>2, <1>3, <1>4, <1>d, <1>m, <2>1, <2>2, <3>1 DEF Inv, Budgets, Current
  <2>6. {d \in Convs : loop'[d] \in Holding} = {d \in Convs : loop[d] \in Holding}
    BY <1>1, <2>2 DEF Holding
  <2>7. PermitsHold' BY <2>1, <2>6 DEF Inv, PermitsHold
  <2>8. \A i \in 1..Len(queue) : queue[i] # c BY <1>1 DEF Inv, NoStrandedWaiter
  <2>9. \A d \in Convs : loop'[d] = "queued" <=> \E i \in 1..Len(queue') : queue'[i] = d
    <3> TAKE d \in Convs
    <3>1. CASE d = c BY <2>2, <2>3, <3>1
    <3>2. CASE d # c
      <4>1. ASSUME NEW i \in 1..Len(queue'), queue'[i] = d PROVE \E j \in 1..Len(queue) : queue[j] = d
        <5>1. i \in 1..Len(queue) BY <2>3, <3>2, <4>1
        <5> QED BY <5>1, <2>3, <4>1
      <4>2. ASSUME NEW i \in 1..Len(queue), queue[i] = d PROVE \E j \in 1..Len(queue') : queue'[j] = d
        <5>1. i \in 1..Len(queue') /\ queue'[i] = d BY <2>3, <4>2
        <5> QED BY <5>1
      <4>3. loop[d] = "queued" <=> \E i \in 1..Len(queue) : queue[i] = d
        BY DEF Inv, NoStrandedWaiter
      <4> QED BY <2>2, <3>2, <4>1, <4>2, <4>3
    <3> QED BY <3>1, <3>2
  <2>10. \A i, j \in 1..Len(queue') : queue'[i] = queue'[j] => i = j
    <3> TAKE i, j \in 1..Len(queue')
    <3>1. CASE i \in 1..Len(queue) /\ j \in 1..Len(queue)
      BY <2>3, <3>1 DEF Inv, NoStrandedWaiter
    <3>2. CASE i = Len(queue) + 1 \/ j = Len(queue) + 1
      BY <2>3, <2>8, <3>2
    <3> QED BY <2>3, <3>1, <3>2
  <2>11. active' = Cap BY <1>11, <2>1, BoundsAssumption DEF Inv, PoolType
  <2>12. NoStrandedWaiter' BY <2>9, <2>10, <2>11 DEF NoStrandedWaiter
  <2> QED BY <1>5, <1>8, <2>4, <2>5, <2>7, <2>12 DEF Inv
<1>12. ~stopping[c] => active < Cap \/ active >= Cap
  BY BoundsAssumption DEF Inv, PoolType
<1> QED BY <1>9, <1>10, <1>11, <1>12

\* Waiters that leave: a timeout or a stop.
LEMMA SlotTimeoutLemma ==
  ASSUME Inv, NEW c \in Convs, SlotTimeout(c)
  PROVE  Inv'
<1>1. /\ loop[c] = "queued" /\ Leave({c}) /\ active' = active
      /\ loop' = [loop EXCEPT ![c] = "off"] /\ name' = [name EXCEPT ![c] = 0]
      /\ row' = [row EXCEPT ![c] = NoRows] /\ sent' = [sent EXCEPT ![c] = NoneSent]
      /\ Settles(c, "failed")
      /\ spent' = [spent EXCEPT ![c] = TRUE] /\ UNCHANGED counters
  BY DEF SlotTimeout
<1>2. \A d \in Convs : /\ loop'[d] = IF d = c THEN "off" ELSE loop[d]
                       /\ row'[d] = IF d = c THEN NoRows ELSE row[d]
                       /\ name'[d] = IF d = c THEN 0 ELSE name[d]
                       /\ sent'[d] = IF d = c THEN NoneSent ELSE sent[d]
  BY <1>1 DEF Inv, LoopType
<1>3. PoolType' /\ NoStrandedWaiter' /\ PermitsHold'
  BY <1>1, <1>2, LeaveLemma DEF Holding
<1>4. Fits(c, NoRows) /\ 0 \in Names /\ NoneSent \in [Names -> 0..MaxAttempts] BY NoRowsFit
<1>5. LoopType' BY <1>1, <1>4 DEF Inv, LoopType, Fits, Loops
<1>6. Budgets'
  <2>1. \A k \in Names : NoneSent[k] = 0 BY DEF NoneSent
  <2>2. ASSUME NEW d \in Convs
        PROVE  /\ \A k \in Names : Spent(sent'[d][k], row'[d][k])
               /\ loop'[d] = "queued" => sent'[d][name'[d]] < row'[d][name'[d]].used
    <3>1. CASE d = c BY <1>2, <1>4, <2>1, <3>1 DEF Fits
    <3>2. CASE d # c BY <1>2, <3>2 DEF Inv, Budgets, Current
    <3> QED BY <3>1, <3>2
  <2> QED BY <2>2 DEF Budgets, Current
<1>7. "failed" \in Runs BY DEF Runs, Resting
<1>8. RestType' BY <1>1, <1>7, RestSettles DEF Inv, RestType, counters
<1>9. Tree' BY <1>1, <1>2, <1>7, RestSettles, TreeOne DEF Inv
<1> QED BY <1>3, <1>5, <1>6, <1>8, <1>9 DEF Inv

LEMMA StopLemma ==
  ASSUME Inv, NEW c \in Convs, Stop(c)
  PROVE  Inv'
<1> DEFINE down == {d \in Below(c) : loop[d] # "off"}
<1>1. /\ Leave(down) /\ active' = active
      /\ stopping' = [d \in Convs |-> stopping[d] \/ d \in down]
      /\ loop' = [d \in Convs |-> IF d \in down /\ loop[d] = "queued" THEN "cut" ELSE loop[d]]
      /\ UNCHANGED <<run, row, name, spent, counters, sent>>
  BY DEF Stop
<1>2. \A d \in Convs : /\ loop'[d] \in Holding <=> loop[d] \in Holding
                       /\ loop'[d] = "queued" <=> loop[d] = "queued" /\ d \notin down
                       /\ loop'[d] = "off" <=> loop[d] = "off"
                       /\ loop'[d] = "tools" <=> loop[d] = "tools"
                       /\ loop'[d] \in Loops
  BY <1>1 DEF Inv, LoopType, Loops, Holding
<1>3. PoolType' /\ NoStrandedWaiter' /\ PermitsHold'
  BY <1>1, <1>2, LeaveLemma
<1>4. LoopType' BY <1>1, <1>2 DEF Inv, LoopType
<1>5. Budgets' BY <1>1, <1>2 DEF Inv, Budgets, Current
<1>6. RestType' BY <1>1 DEF Inv, RestType, counters
<1>7. Tree'
  <2>1. \A d \in Convs : Parent[d] # 0 => Parent[d] \in Convs
    BY ParentAssumption, BoundsAssumption DEF Convs
  <2> QED BY <1>1, <1>2, <2>1 DEF Inv, Tree
<1> QED BY <1>3, <1>4, <1>5, <1>6, <1>7 DEF Inv

LEMMA SpawnLemma ==
  ASSUME Inv, NEW c \in Convs, Spawn(c)
  PROVE  Inv'
<1>1. /\ loop[c] = "tools" /\ \A d \in Kids(c) : run[d] = "none"
      /\ loop' = [d \in Convs |-> IF d \in Kids(c) THEN "asking" ELSE loop[d]]
      /\ run' = [d \in Convs |-> IF d \in Kids(c) THEN "running" ELSE run[d]]
      /\ UNCHANGED <<row, name, spent, pool, stopping, counters, sent>>
  BY DEF Spawn
<1>2. \A d \in Kids(c) : d \in Convs /\ Parent[d] = c /\ loop[d] = "off"
  BY <1>1 DEF Inv, Tree, Kids
<1>3. \A d \in Convs : /\ loop'[d] \in Holding <=> loop[d] \in Holding
                       /\ loop'[d] = "queued" <=> loop[d] = "queued"
                       /\ loop'[d] \in Loops
  BY <1>1, <1>2 DEF Inv, LoopType, Loops, Holding
<1>4. NoStrandedWaiter' /\ PermitsHold' BY <1>1, <1>3, PoolSame DEF Inv
<1>5. PoolType' /\ LoopType' BY <1>1, <1>3 DEF Inv, PoolType, LoopType, pool
<1>6. Budgets' BY <1>1, <1>3 DEF Inv, Budgets, Current
<1>7. RestType' BY <1>1 DEF Inv, RestType, Runs, counters
<1>8. Tree'
  <2>1. \A d \in Convs : Parent[d] # 0 => Parent[d] \in Convs
    BY ParentAssumption, BoundsAssumption DEF Convs
  <2>2. \A d \in Convs : loop[d] = "tools" => loop'[d] = "tools" BY <1>1, <1>2
  <2>3. ASSUME NEW d \in Convs, loop'[d] # "off"
        PROVE  run'[d] = "running" /\ (Parent[d] # 0 => loop[Parent[d]] = "tools")
    BY <1>1, <1>2, <2>3 DEF Inv, Tree
  <2> QED BY <2>1, <2>2, <2>3 DEF Tree
<1> QED BY <1>4, <1>5, <1>6, <1>7, <1>8 DEF Inv

\* A run that begins where no loop runs.
LEMMA BeginsLemma ==
  ASSUME Inv, NEW c \in Convs, Top(c), run[c] # "running", NEW n \in Names, NEW rows, Fits(c, rows),
         Goes(c, "asking", n, rows),
         run' = [d \in Convs |-> IF d = c THEN "running" ELSE IF d \in Kids(c) THEN "none" ELSE run[d]],
         Begins, UNCHANGED <<spent, stopping>>
  PROVE  Inv'
<1>1. loop[c] = "off" BY DEF Inv, Tree
<1>2. "asking" \in Loops \ {"queued"} /\ "asking" \notin Holding /\ "off" \notin Holding
  BY DEF Loops, Holding
<1>3. Pooled' BY <1>1, <1>2, GoesLemma DEF Pooled
<1>4. RestType'
  <2>1. starts' \in 0..MaxStarts BY BoundsAssumption DEF Begins, Inv, RestType
  <2>2. run' \in [Convs -> Runs] BY DEF Inv, RestType, Runs
  <2>3. UNCHANGED <<spent, stopping, rounds, crashes>> BY DEF Goes, Begins
  <2> QED BY <2>1, <2>2, <2>3 DEF Inv, RestType
<1>5. Tree'
  <2>1. \A d \in Convs : loop'[d] = IF d = c THEN "asking" ELSE loop[d]
    BY DEF Goes, Inv, LoopType
  <2>2. \A d \in Kids(c) : loop[d] = "off" BY <1>1, NoKids DEF Inv, Kids
  <2>3. Parent[c] = 0 BY DEF Top
  <2>4. ASSUME NEW d \in Convs, loop'[d] # "off" PROVE run'[d] = "running"
    BY <2>1, <2>2, <2>4 DEF Inv, Tree
  <2>5. ASSUME NEW d \in Convs, loop'[d] # "off", Parent[d] # 0 PROVE loop'[Parent[d]] = "tools"
    <3>1. d # c /\ loop[Parent[d]] = "tools" BY <2>1, <2>3, <2>5 DEF Inv, Tree
    <3>2. Parent[d] \in Convs /\ Parent[d] # c
      BY <1>1, <2>5, <3>1, ParentAssumption, BoundsAssumption DEF Convs
    <3> QED BY <2>1, <3>1, <3>2
  <2> QED BY <2>4, <2>5 DEF Tree
<1> QED BY <1>3, <1>4, <1>5 DEF Inv, Pooled

\* The steps that move no loop.
LEMMA RowsLemma ==
  ASSUME Inv, UNCHANGED <<loop, name, pool, sent, stopping, counters, spent>>,
         row' \in [Convs -> [Names -> Rows]], run' \in [Convs -> Runs],
         \A d \in Convs, k \in Names :
           /\ row'[d][k].used = row[d][k].used
           /\ row'[d][k].status = "none" => row[d][k].status = "none",
         \A d \in Convs : run'[d] # run[d] => run[d] # "running"
  PROVE  Inv'
<1>1. NoStrandedWaiter' /\ PermitsHold' BY PoolSame DEF Inv
<1>2. PoolType' /\ LoopType' /\ RestType' BY DEF Inv, PoolType, LoopType, RestType, pool, counters
<1>3. Budgets'
  <2>1. ASSUME NEW d \in Convs
        PROVE  /\ \A k \in Names : Spent(sent'[d][k], row'[d][k])
               /\ loop'[d] = "queued" => sent'[d][name'[d]] < row'[d][name'[d]].used
    <3>1. name[d] \in Names /\ sent' = sent /\ name' = name /\ loop' = loop
      BY DEF Inv, LoopType
    <3>2. /\ \A k \in Names : Spent(sent[d][k], row[d][k])
          /\ loop[d] = "queued" => sent[d][name[d]] < row[d][name[d]].used
      BY DEF Inv, Budgets, Current
    <3> QED BY <3>1, <3>2 DEF Spent
  <2> QED BY <2>1 DEF Budgets, Current
<1>4. Tree' BY DEF Inv, Tree
<1> QED BY <1>1, <1>2, <1>3, <1>4 DEF Inv

LEMMA CrashLemma ==
  ASSUME Inv, Crash
  PROVE  Inv'
<1>1. \A d \in Convs : loop'[d] = "off" BY DEF Crash
<1>2. Holders' = {} BY <1>1 DEF Holders, Holding
<1>3. PermitsHold'
  <2>1. Cardinality(Holders') = 0 BY <1>2, FS_EmptySet
  <2> QED BY <2>1, BoundsAssumption DEF PermitsHold, Holders, Crash
<1>4. NoStrandedWaiter' BY <1>1 DEF NoStrandedWaiter, Crash
<1>5. /\ NoRows \in [Names -> Rows] /\ 0 \in Names /\ NoneSent \in [Names -> 0..MaxAttempts]
      /\ \A k \in Names : Spent(NoneSent[k], NoRows[k])
  BY BoundsAssumption DEF NoRow, NoRows, NoneSent, Names, Rows, Spent
<1>6. PoolType' /\ LoopType'
  BY <1>5, BoundsAssumption DEF Crash, Inv, PoolType, LoopType, Loops
<1>7. Budgets' BY <1>1, <1>5 DEF Crash, Inv, Budgets
<1>8. RestType'
  <2>1. crashes' \in 0..MaxCrashes BY BoundsAssumption DEF Crash, Inv, RestType
  <2>2. run' \in [Convs -> Runs] BY DEF Crash, Inv, RestType, Runs, Resting
  <2> QED BY <2>1, <2>2 DEF Crash, Inv, RestType
<1>9. Tree' BY <1>1 DEF Tree
<1> QED BY <1>3, <1>4, <1>6, <1>7, <1>8, <1>9 DEF Inv

-----------------------------------------------------------------------------
(* The invariant. *)

LEMMA InitInv == Init => Inv
<1> SUFFICES ASSUME Init PROVE Inv OBVIOUS
<1>1. /\ NoRows \in [Names -> Rows] /\ 0 \in Names /\ NoneSent \in [Names -> 0..MaxAttempts]
      /\ \A k \in Names : Spent(NoneSent[k], NoRows[k])
  BY BoundsAssumption DEF NoRow, NoRows, NoneSent, Names, Rows, Spent
<1>2. PoolType /\ LoopType /\ RestType
  BY <1>1, BoundsAssumption DEF Init, PoolType, LoopType, RestType, Loops, Runs, Resting
<1>3. Tree /\ Budgets BY <1>1 DEF Init, Tree, Budgets
<1>4. Holders = {} BY DEF Init, Holders, Holding
<1>5. Cardinality(Holders) = 0 BY <1>4, FS_EmptySet
<1>6. PermitsHold BY <1>5, BoundsAssumption DEF PermitsHold, Holders, Init
<1>7. NoStrandedWaiter BY DEF NoStrandedWaiter, Init
<1> QED BY <1>2, <1>3, <1>6, <1>7 DEF Inv

LEMMA NextInv ==
  ASSUME Inv, Next
  PROVE  Inv'
<1>b. \A d \in Convs : /\ spent[d] \in BOOLEAN /\ name[d] \in Names /\ row[d] \in [Names -> Rows]
                       /\ sent[d] \in [Names -> 0..MaxAttempts]
                       /\ \A k \in Names : Spent(sent[d][k], row[d][k])
  BY DEF Inv, RestType, LoopType, Budgets
<1>s. /\ \A d \in Convs : [spent EXCEPT ![d] = TRUE] \in [Convs -> BOOLEAN]
      /\ spent \in [Convs -> BOOLEAN] /\ rounds \in 0..MaxRounds
      /\ rounds < MaxRounds => rounds + 1 \in 0..MaxRounds
  BY BoundsAssumption DEF Inv, RestType
<1>r. {"stopped", "failed", "done", "retry"} \subseteq Runs BY DEF Runs, Resting
<1>l. /\ {"tools", "waiting", "asking"} \subseteq Loops \ (Holding \cup {"queued", "off"})
      /\ "backoff" \in Loops \ {"queued", "off"} /\ {"sending", "backoff"} \subseteq Holding
      /\ \A x \in Holding : x \notin {"off", "queued", "tools", "asking", "waiting"}
  BY DEF Loops, Holding
<1>f. \A d \in Convs : /\ Fits(d, NoRows) /\ Fits(d, row[d]) /\ 0 \in Names
                       /\ \A status \in {"completed", "exhausted", "overflow"} :
                            Fits(d, [row[d] EXCEPT ![name[d]].status = status])
  <2> TAKE d \in Convs
  <2>1. Fits(d, NoRows) /\ 0 \in Names BY NoRowsFit
  <2>2. /\ row[d] \in [Names -> Rows] /\ name[d] \in Names
        /\ \A k \in Names : Spent(sent[d][k], row[d][k]) /\ 0 <= row[d][k].used
    BY <1>b DEF Rows
  <2>3. Fits(d, row[d]) BY <2>1, <2>2 DEF Fits
  <2>4. ASSUME NEW status \in {"completed", "exhausted", "overflow"}
        PROVE  Fits(d, [row[d] EXCEPT ![name[d]].status = status])
    <3> DEFINE new == [row[d] EXCEPT ![name[d]].status = status]
    <3>1. new \in [Names -> Rows] BY <2>2 DEF Rows
    <3>2. new[name[d]].status = status BY <2>2 DEF Rows
    <3>3. NoRows[name[d]].status = "none" BY <2>2 DEF NoRows, NoRow
    <3>4. new # NoRows BY <3>2, <3>3
    <3>5. \A k \in Names : /\ new[k].used = row[d][k].used
                           /\ new[k].status = "none" => row[d][k].status = "none"
      BY <2>2 DEF Rows
    <3>6. \A k \in Names : Spent(sent[d][k], new[k]) BY <2>2, <3>5 DEF Spent
    <3> HIDE DEF new
    <3>7. Fits(d, new) BY <3>1, <3>4, <3>6 DEF Fits
    <3> QED BY <3>7 DEF new
  <2> QED BY <2>1, <2>3, <2>4
<1>1. ASSUME NEW c \in Convs, Refused(c) PROVE Inv'
  <2>1. spent' \in [Convs -> BOOLEAN]
    <3>1. (spent[c] \/ Consumed(Current(c)).status = "exhausted") \in BOOLEAN OBVIOUS
    <3> QED BY <1>1, <1>s, <3>1 DEF Refused
  <2>2. PICK result \in Runs : Settles(c, result) BY <1>1, <1>r DEF Refused
  <2> QED BY <1>1, <1>l, <2>1, <2>2, EndsLemma DEF Refused, Holding
<1>2. ASSUME NEW c \in Convs, Attempt(c) PROVE Inv' BY <1>2, AttemptLemma
<1>3. ASSUME NEW c \in Convs, SlotTimeout(c) PROVE Inv' BY <1>3, SlotTimeoutLemma
<1>4. ASSUME NEW c \in Convs, Answer(c) PROVE Inv'
  BY <1>4, <1>l, <1>r, <1>s, EndsLemma DEF Answer
<1>0. ASSUME NEW c \in Convs, Recompact(c) PROVE Inv'
  <2>1. name[c] + 1 \in Names BY <1>0, <1>b, BoundsAssumption DEF Recompact, Names
  <2> QED BY <1>0, <1>l, <1>f, <2>1, GoesOnLemma DEF Recompact, Holding
<1>5. ASSUME NEW c \in Convs, Calls(c) PROVE Inv'
  BY <1>5, <1>l, <1>s, <1>f, GivesLemma DEF Calls
<1>6. ASSUME NEW c \in Convs, CommandWait(c) PROVE Inv'
  <2>1. name[c] \in Names BY <1>b
  <2> QED BY <1>6, <1>l, <1>s, <1>f, <2>1, GivesLemma DEF CommandWait
<1>7. ASSUME NEW c \in Convs, Backoff(c) PROVE Inv'
  BY <1>7, <1>l, <1>b, <1>f, GoesOnLemma DEF Backoff
<1>8. ASSUME NEW c \in Convs, Exhaust(c) PROVE Inv'
  <2>1. PICK result \in Runs : Settles(c, result) BY <1>8, <1>r DEF Exhaust
  <2> QED BY <1>8, <1>l, <1>s, <2>1, EndsLemma DEF Exhaust
<1>9. ASSUME NEW c \in Convs, Fatal(c) PROVE Inv'
  BY <1>9, <1>l, <1>r, <1>s, EndsLemma DEF Fatal
<1>10. ASSUME NEW c \in Convs, Reissue(c) PROVE Inv'
  <2>1. name[c] + 1 \in Names BY <1>10, <1>b, BoundsAssumption DEF Reissue, Names
  <2>2. PICK cause \in {"exhausted", "overflow"} :
          Release(c, "asking", name[c] + 1, [row[c] EXCEPT ![name[c]].status = cause])
    BY <1>10 DEF Reissue
  <2>3. Fits(c, [row[c] EXCEPT ![name[c]].status = cause]) BY <1>f
  <2> QED BY <1>10, <1>l, <1>s, <2>1, <2>2, <2>3, GivesLemma DEF Reissue
<1>11. ASSUME NEW c \in Convs, Wake(c) PROVE Inv'
  BY <1>11, <1>l, <1>b, <1>s, <1>f, GivesLemma DEF Wake, counters
<1>12. ASSUME NEW c \in Convs, Spawn(c) PROVE Inv' BY <1>12, SpawnLemma
<1>13. ASSUME NEW c \in Convs, ToolsDone(c) PROVE Inv'
  BY <1>13, <1>l, <1>f, GoesOnLemma DEF ToolsDone
<1>14. ASSUME NEW c \in Convs, Told(c) PROVE Inv'
  BY <1>14, <1>l, <1>f, GoesOnLemma DEF Told
<1>15. ASSUME NEW c \in Convs, Expire(c) PROVE Inv'
  <2>0. PICK n \in Names : row' = [row EXCEPT ![c][n].late = TRUE] BY <1>15 DEF Expire
  <2>1. row' \in [Convs -> [Names -> Rows]]
    <3>0. row[c][n] \in Rows BY <1>b
    <3>1. [row[c][n] EXCEPT !.late = TRUE] \in Rows BY <3>0 DEF Rows
    <3>2. row' = [row EXCEPT ![c] = [row[c] EXCEPT ![n] = [row[c][n] EXCEPT !.late = TRUE]]]
      BY <2>0 DEF Inv, LoopType
    <3> QED BY <1>b, <3>1, <3>2 DEF Inv, LoopType
  <2>2. \A d \in Convs, k \in Names : /\ row'[d][k].used = row[d][k].used
                                     /\ row'[d][k].status = row[d][k].status
    BY <2>0, <1>b DEF Inv, LoopType, Rows
  <2> QED BY <1>15, <2>1, <2>2, RowsLemma DEF Expire, Inv, RestType
<1>16. ASSUME NEW c \in Convs, Stop(c) PROVE Inv' BY <1>16, StopLemma
<1>17. ASSUME NEW c \in Convs, StoppedEnds(c) PROVE Inv'
  <2>1. Settles(c, "stopped") /\ UNCHANGED <<spent, counters>> BY <1>17 DEF StoppedEnds
  <2> QED BY <1>17, <1>r, <1>s, <2>1, EndsLemma DEF StoppedEnds
<1>18. ASSUME NEW c \in Convs, Ask(c) PROVE Inv'
  BY <1>18, <1>f, BeginsLemma DEF Ask, Resting
<1>19. ASSUME NEW c \in Convs, Requeue(c) PROVE Inv'
  <2>1. run' \in [Convs -> Runs] BY <1>19 DEF Requeue, Inv, RestType, Runs
  <2>2. \A d \in Convs : run'[d] # run[d] => run[d] # "running"
    BY <1>19 DEF Requeue, Inv, RestType
  <2> QED BY <1>19, <2>1, <2>2, RowsLemma DEF Requeue, Inv, RestType, LoopType
<1>20. ASSUME NEW c \in Convs, Restart(c) PROVE Inv'
  <2>1. run' \in [Convs -> Runs]
    BY <1>20 DEF Restart, Inv, RestType, Runs
  <2>2. \A d \in Convs : run'[d] # run[d] => run[d] # "running"
    BY <1>20 DEF Restart, Inv, RestType
  <2>3. LinkedRow \in Rows /\ LinkedRow.used = 0 /\ LinkedRow.status = "in_progress"
    BY BoundsAssumption DEF Rows, LinkedRow
  <2>9. NoRow.used = 0 /\ NoRow.status = "none" BY DEF NoRow
  <2>6. 0 \in Names BY <1>f
  <2>4. \A d \in Convs, k \in Names :
          row'[d][k] = row[d][k] \/ (row[d][k] = NoRow /\ row'[d][k] = LinkedRow)
    BY <1>20, <2>6 DEF Restart, Inv, LoopType
  <2>5. row' \in [Convs -> [Names -> Rows]]
    BY <1>20, <1>b, <2>3, <2>6 DEF Restart, Inv, LoopType
  <2> QED BY <1>20, <2>1, <2>2, <2>3, <2>9, <2>4, <2>5, RowsLemma DEF Restart
<1>21. ASSUME NEW c \in Convs, Launch(c) PROVE Inv'
  <2>1. Goes(c, "asking", name[c], row[c])
    <3>1. ASSUME row[c] = NoRows PROVE sent[c] = NoneSent
      <4>1. \A k \in Names : sent[c][k] <= 0 /\ sent[c][k] \in 0..MaxAttempts
        BY <1>b, <3>1 DEF Spent, NoRow, NoRows
      <4>2. \A k \in Names : sent[c][k] = 0 BY <4>1, BoundsAssumption
      <4> QED BY <1>b, <4>2 DEF NoneSent
    <3>4. name = [name EXCEPT ![c] = name[c]] BY DEF Inv, LoopType
    <3>2. sent = [sent EXCEPT ![c] = IF row[c] = NoRows THEN NoneSent ELSE sent[c]]
      BY <3>1 DEF Inv, LoopType
    <3>3. row = [row EXCEPT ![c] = row[c]] BY DEF Inv, LoopType
    <3> QED BY <1>21, <3>2, <3>3, <3>4 DEF Launch, Goes
  <2> QED BY <1>21, <1>b, <1>f, <2>1, BeginsLemma DEF Launch
<1>22. ASSUME Crash PROVE Inv' BY <1>22, CrashLemma
<1> QED
  BY <1>0, <1>1, <1>2, <1>3, <1>4, <1>5, <1>6, <1>7, <1>8, <1>9, <1>10, <1>11, <1>12, <1>13,
     <1>14, <1>15, <1>16, <1>17, <1>18, <1>19, <1>20, <1>21, <1>22 DEF Next

-----------------------------------------------------------------------------
(* The theorems. *)

LEMMA InvStays == Inv /\ [Next]_vars => Inv'
<1> SUFFICES ASSUME Inv, [Next]_vars PROVE Inv' OBVIOUS
<1>1. CASE Next BY <1>1, NextInv
<1>2. CASE UNCHANGED vars
  BY <1>2 DEF vars, counters, Inv, PoolType, LoopType, RestType, Tree, Budgets, NoStrandedWaiter,
              PermitsHold, Current
<1> QED BY <1>1, <1>2

\* Each variable keeps its type: the permits, the budgets and the counters of
\* the bounds their ranges.
THEOREM TypeCorrect == Spec => []TypeOK
<1>1. Inv => TypeOK
  BY DEF Inv, PoolType, LoopType, RestType, TypeOK, Rows, Loops, Runs
<1> QED BY <1>1, InitInv, InvStays, PTL DEF Spec

\* For every number of conversations and permits: the permits out are the
\* requests in flight or in a backoff, never more than Cap.
THEOREM PermitsHoldTheorem == Spec => []PermitsHold
<1>1. Inv => PermitsHold BY DEF Inv
<1> QED BY <1>1, InitInv, InvStays, PTL DEF Spec

\* Whoever waits is in the queue, once, and only while no permit is free.
THEOREM NoStrandedWaiterTheorem == Spec => []NoStrandedWaiter
<1>1. Inv => NoStrandedWaiter BY DEF Inv
<1> QED BY <1>1, InitInv, InvStays, PTL DEF Spec

\* Across crashes, resumptions and restarts no logical round is sent more often
\* than its budgets allow, each name of it by the durable row of the name.
THEOREM AttemptsHoldTheorem == Spec => []AttemptsHold
<1>1. Inv => AttemptsHold
  BY DEF Inv, LoopType, Budgets, Spent, Rows, AttemptsHold
<1> QED BY <1>1, InitInv, InvStays, PTL DEF Spec

\* Only a release serves a waiter, and it serves the oldest.
LEMMA ServesOldest ==
  ASSUME Inv, [Next]_vars, NEW j \in 1..Len(queue), loop'[queue[j]] = "sending"
  PROVE  j = 1
<1> DEFINE d == queue[j]
<1>1. d \in Convs /\ loop[d] = "queued" /\ 1 \in 1..Len(queue)
  <2>1. Len(queue) \in Nat /\ d \in Convs BY DEF Inv, PoolType
  <2> QED BY <2>1 DEF Inv, NoStrandedWaiter
<1>2. ASSUME NEW c \in Convs, NEW next, NEW n, NEW rows, loop[c] \in Holding, Release(c, next, n, rows)
      PROVE  j = 1
  <2>1. d \in Granted BY <1>1, <1>2 DEF Release, Holding
  <2>2. queue[1] = d BY <1>2, <2>1, GrantedWaits
  <2> QED BY <1>1, <2>2 DEF Inv, NoStrandedWaiter
<1>3. ASSUME NEW c \in Convs, NEW next, NEW n, NEW rows, loop[c] # "queued", Goes(c, next, n, rows)
      PROVE  loop'[d] # "sending"
  BY <1>1, <1>3 DEF Goes, Inv, LoopType
<1>h. "sending" \in Holding /\ "backoff" \in Holding /\ d \in Convs BY <1>1 DEF Holding
<1>5. ASSUME NEW c \in Convs,
             Refused(c) \/ Recompact(c) \/ Backoff(c) \/ ToolsDone(c) \/ Told(c) \/ Ask(c) \/ StoppedEnds(c)
      PROVE  j = 1
  <2>1. loop[c] # "queued"
    <3>1. Ask(c) => loop[c] = "off" BY DEF Inv, Tree, Ask, Resting
    <3> QED BY <1>5, <3>1 DEF Refused, Recompact, Backoff, ToolsDone, Told, StoppedEnds
  <2>2. \/ \E next, n, rows : Goes(c, next, n, rows)
        \/ \E next, n, rows : loop[c] \in Holding /\ Release(c, next, n, rows)
    BY <1>5 DEF Refused, Recompact, Backoff, ToolsDone, Told, Ask, StoppedEnds
  <2> QED BY <1>2, <1>3, <2>1, <2>2
<1>6. ASSUME NEW c \in Convs,
             Answer(c) \/ Calls(c) \/ CommandWait(c) \/ Exhaust(c) \/ Fatal(c) \/ Reissue(c) \/ Wake(c)
      PROVE  j = 1
  <2>1. \E next, n, rows : loop[c] \in Holding /\ Release(c, next, n, rows)
    BY <1>6, <1>h DEF Answer, Calls, CommandWait, Exhaust, Fatal, Reissue, Wake
  <2> QED BY <1>2, <2>1
<1>7. ASSUME NEW c \in Convs,
             \/ Attempt(c) \/ SlotTimeout(c) \/ Spawn(c) \/ Expire(c) \/ Stop(c)
             \/ Requeue(c) \/ Restart(c) \/ Launch(c)
      PROVE  loop'[d] # "sending"
  <2>1. CASE Attempt(c)
    <3>1. loop[c] = "asking" /\ \A e \in Convs \ {c} : loop'[e] = loop[e]
      BY <2>1 DEF Attempt, Inv, LoopType
    <3> QED BY <1>1, <3>1
  <2>2. CASE SlotTimeout(c) BY <1>1, <2>2 DEF SlotTimeout, Inv, LoopType
  <2>3. CASE Spawn(c) BY <1>1, <2>3 DEF Spawn
  <2>4. CASE Stop(c) BY <1>1, <2>4 DEF Stop
  <2>5. CASE Launch(c) BY <1>1, <2>5 DEF Launch, Inv, LoopType
  <2>6. CASE Expire(c) \/ Requeue(c) \/ Restart(c)
    BY <1>1, <2>6 DEF Expire, Requeue, Restart
  <2> QED BY <1>7, <2>1, <2>2, <2>3, <2>4, <2>5, <2>6
<1>8. Crash => loop'[d] # "sending" BY <1>1 DEF Crash
<1>9. UNCHANGED vars => loop'[d] # "sending" BY <1>1 DEF vars
<1> QED BY <1>5, <1>6, <1>7, <1>8, <1>9 DEF Next

\* The pool is first come, first served: no waiter is passed by one behind it.
THEOREM NoOvertakingTheorem == Spec => NoOvertaking
<1>1. Inv /\ [Next]_vars =>
        [\A i, j \in 1..Len(queue) :
           i < j /\ loop'[queue[j]] = "sending" => loop'[queue[i]] # "queued"]_vars
  <2> SUFFICES ASSUME Inv, [Next]_vars, NEW i \in 1..Len(queue), NEW j \in 1..Len(queue),
                      i < j, loop'[queue[j]] = "sending"
               PROVE  FALSE
    OBVIOUS
  <2>1. j = 1 BY ServesOldest
  <2> QED BY <2>1 DEF Inv, PoolType
<1> QED BY <1>1, InitInv, InvStays, PTL DEF Spec, NoOvertaking

-----------------------------------------------------------------------------
(* The pool as its users see it. *)

\* Holders and waiters stay as they are.
PoolStays == Holders' = Holders /\ queue' = queue

LEMMA StaysPool == PoolStays => UNCHANGED Pool!pool
BY DEF PoolStays, Holders, Pool!pool

\* The instance has its own copy of the definitions of FiniteSets.
LEMMA SameCardinality == Pool!Cardinality(Holders) = Cardinality(Holders)
BY DEF Cardinality, IsFiniteSet, Pool!Cardinality, Pool!IsFiniteSet

LEMMA ReleasePool ==
  ASSUME Inv, NEW c \in Convs, loop[c] \in Holding,
         NEW next \in Loops \ (Holding \cup {"queued"}), NEW n \in Names, NEW rows \in [Names -> Rows],
         Release(c, next, n, rows)
  PROVE  Pool!Next
<1>1. /\ c \in Holders
      /\ queue = <<>> => Holders' = Holders \ {c} /\ queue' = queue
      /\ queue # <<>> => Holders' = (Holders \ {c}) \cup {Head(queue)} /\ queue' = Tail(queue)
  BY ReleaseLemma DEF Holders
<1>2. CASE queue = <<>>
  <2>1. Pool!Give(c) BY <1>1, <1>2 DEF Pool!Give, Holders
  <2> QED BY <2>1 DEF Pool!Next
<1>3. CASE queue # <<>>
  <2>1. Pool!Hand(c) BY <1>1, <1>3 DEF Pool!Hand, Holders
  <2> QED BY <2>1 DEF Pool!Next
<1> QED BY <1>2, <1>3

LEMMA GoesPool ==
  ASSUME Inv, NEW c \in Convs, NEW next, loop[c] \in Holding <=> next \in Holding,
         NEW n, NEW rows, Goes(c, next, n, rows)
  PROVE  PoolStays
BY DEF Goes, pool, PoolStays, Holders, Inv, LoopType

LEMMA LeavePool ==
  ASSUME NEW D, Leave(D), Holders' = Holders
  PROVE  Pool!Next
<1>1. PICK n \in 0..Len(queue) : \E kept \in [1..n -> 1..Len(queue)] :
        /\ \A i, j \in 1..n : i < j => kept[i] < kept[j]
        /\ queue' = [j \in 1..n |-> queue[kept[j]]]
  BY DEF Leave
<1>2. Pool!GiveUp BY <1>1 DEF Pool!GiveUp, Holders
<1> QED BY <1>2 DEF Pool!Next

LEMMA AttemptPool ==
  ASSUME Inv, NEW c \in Convs, Attempt(c)
  PROVE  PoolStays \/ Pool!Next
<1>1. loop[c] = "asking" /\ c \notin Holders BY DEF Attempt, Holders, Holding
<1>2. active = Cardinality(Holders) /\ active <= Cap /\ active \in Nat /\ Cap \in Nat
  BY BoundsAssumption DEF Inv, PoolType, PermitsHold, Holders
<1>3. CASE stopping[c]
  BY <1>1, <1>3 DEF Attempt, PoolStays, Holders, Holding, pool, Inv, LoopType
<1>4. CASE ~stopping[c] /\ active < Cap
  <2>1. loop' = [loop EXCEPT ![c] = "sending"] /\ queue' = queue
    BY <1>2, <1>4 DEF Attempt
  <2>2. Holders' = Holders \cup {c} BY <1>1, <2>1 DEF Holders, Holding, Inv, LoopType
  <2>3. Pool!Take(c) BY <1>1, <1>2, <1>4, <2>1, <2>2, SameCardinality DEF Pool!Take, Holders
  <2> QED BY <2>3 DEF Pool!Next
<1>5. CASE ~stopping[c] /\ active >= Cap
  <2>1. loop' = [loop EXCEPT ![c] = "queued"] /\ queue' = Append(queue, c)
    BY <1>2, <1>5 DEF Attempt
  <2>2. Holders' = Holders BY <1>1, <2>1 DEF Holders, Holding, Inv, LoopType
  <2>3. Cardinality(Holders) = Cap BY <1>2, <1>5
  <2>4. Pool!Join(c) BY <1>1, <2>1, <2>2, <2>3, SameCardinality DEF Pool!Join, Holders
  <2> QED BY <2>4 DEF Pool!Next
<1> QED BY <1>2, <1>3, <1>4, <1>5

\* Each step is a step of the abstract pool, or one that it does not see.
LEMMA StepPool ==
  ASSUME Inv, [Next]_vars
  PROVE  PoolStays \/ Pool!Next
<1>l. /\ {"tools", "waiting", "asking", "off"} \subseteq Loops \ (Holding \cup {"queued"})
      /\ {"sending", "backoff"} \subseteq Holding
  BY DEF Loops, Holding
<1>f. \A d \in Convs :
        /\ NoRows \in [Names -> Rows] /\ row[d] \in [Names -> Rows]
        /\ 0 \in Names /\ name[d] \in Names /\ (name[d] < MaxIssues => name[d] + 1 \in Names)
        /\ \A status \in {"completed", "exhausted", "overflow"} :
             [row[d] EXCEPT ![name[d]].status = status] \in [Names -> Rows]
  <2> TAKE d \in Convs
  <2>1. NoRows \in [Names -> Rows] /\ 0 \in Names BY NoRowsFit DEF Fits
  <2>2. row[d] \in [Names -> Rows] /\ name[d] \in Names BY DEF Inv, LoopType
  <2>3. name[d] < MaxIssues => name[d] + 1 \in Names BY <2>2, BoundsAssumption DEF Names
  <2>4. ASSUME NEW status \in {"completed", "exhausted", "overflow"}
        PROVE  [row[d] EXCEPT ![name[d]].status = status] \in [Names -> Rows]
    BY <2>2 DEF Rows
  <2> QED BY <2>1, <2>2, <2>3, <2>4
<1>1. ASSUME NEW c \in Convs,
             Answer(c) \/ Calls(c) \/ CommandWait(c) \/ Exhaust(c) \/ Fatal(c) \/ Reissue(c) \/ Wake(c)
      PROVE  Pool!Next
  <2>1. loop[c] \in Holding
    BY <1>1, <1>l DEF Answer, Calls, CommandWait, Exhaust, Fatal, Reissue, Wake
  <2>2. \E next \in {"tools", "waiting", "asking", "off"} : \E n \in Names, rows \in [Names -> Rows] :
          Release(c, next, n, rows)
    BY <1>1, <1>f DEF Answer, Calls, CommandWait, Exhaust, Fatal, Reissue, Wake
  <2> QED BY <2>1, <2>2, <1>l, ReleasePool
<1>2. ASSUME NEW c \in Convs, Refused(c) \/ Recompact(c) \/ Backoff(c) \/ ToolsDone(c) \/ Told(c) \/ Ask(c)
      PROVE  PoolStays
  <2>1. Ask(c) => loop[c] = "off" BY DEF Inv, Tree, Ask, Resting
  <2>2. \E next, n, rows : Goes(c, next, n, rows) /\ (loop[c] \in Holding <=> next \in Holding)
    BY <1>2, <2>1, <1>l DEF Refused, Recompact, Backoff, ToolsDone, Told, Ask, Holding
  <2> QED BY <2>2, GoesPool
<1>3. ASSUME NEW c \in Convs, StoppedEnds(c) PROVE PoolStays \/ Pool!Next
  <2>1. CASE loop[c] \in Holding
    BY <1>3, <2>1, <1>l, <1>f, ReleasePool DEF StoppedEnds
  <2>2. CASE loop[c] \notin Holding
    BY <1>3, <2>2, <1>l, GoesPool DEF StoppedEnds
  <2> QED BY <2>1, <2>2
<1>4. ASSUME NEW c \in Convs, Attempt(c) PROVE PoolStays \/ Pool!Next BY <1>4, AttemptPool
<1>5. ASSUME NEW c \in Convs, SlotTimeout(c) PROVE Pool!Next
  <2>1. Holders' = Holders BY <1>5 DEF SlotTimeout, Holders, Holding, Inv, LoopType
  <2> QED BY <1>5, <2>1, LeavePool DEF SlotTimeout
<1>6. ASSUME NEW c \in Convs, Stop(c) PROVE Pool!Next
  <2>1. Holders' = Holders BY <1>6 DEF Stop, Holders, Holding
  <2>2. Leave({d \in Below(c) : loop[d] # "off"}) BY <1>6 DEF Stop
  <2> QED BY <2>1, <2>2, LeavePool
<1>7. ASSUME NEW c \in Convs, Spawn(c) PROVE PoolStays
  <2>1. \A d \in Kids(c) : d \in Convs /\ loop[d] = "off"
    BY <1>7 DEF Inv, Tree, Kids, Spawn
  <2> QED BY <1>7, <2>1 DEF Spawn, PoolStays, Holders, Holding, pool
<1>8. ASSUME NEW c \in Convs, Expire(c) \/ Requeue(c) \/ Restart(c) PROVE PoolStays
  BY <1>8 DEF Expire, Requeue, Restart, PoolStays, Holders, pool
<1>9. ASSUME NEW c \in Convs, Launch(c) PROVE PoolStays
  <2>1. loop[c] = "off" BY <1>9 DEF Launch, Inv, Tree
  <2> QED BY <1>9, <2>1 DEF Launch, PoolStays, Holders, Holding, pool, Inv, LoopType
<1>10. ASSUME Crash PROVE Pool!Next
  <2>1. Holders' = {} /\ queue' = <<>> BY <1>10 DEF Crash, Holders, Holding
  <2>2. Pool!Reset BY <2>1 DEF Pool!Reset, Holders
  <2> QED BY <2>2 DEF Pool!Next
<1>11. UNCHANGED vars => PoolStays BY DEF vars, PoolStays, Holders
<1> QED
  BY <1>1, <1>2, <1>3, <1>4, <1>5, <1>6, <1>7, <1>8, <1>9, <1>10, <1>11 DEF Next

\* The loops, with their failures, stops and crashes, use a bounded pool that
\* serves first come, first served: each step maps to a step of PermitPool.
THEOREM PoolTheorem == Spec => PoolImplemented
<1>1. Init => Pool!Init
  BY DEF Init, Pool!Init, Holding
<1>2. Inv /\ [Next]_vars => [Pool!Next]_Pool!pool
  BY StepPool, StaysPool
<1> QED BY <1>1, <1>2, InitInv, InvStays, PTL DEF Spec, PoolImplemented, Pool!Spec

=============================================================================
