-------------------------- MODULE TaskRunnerProofs --------------------------
(***************************************************************************)
(* TLAPS proofs about TaskRunner, for every number of tasks, assignment of *)
(* conversations, lanes and kinds, and every bound.  IInv is inductive; the *)
(* safety properties follow from it.                                       *)
(***************************************************************************)
EXTENDS TaskRunner, FiniteSetTheorems, SequenceTheorems, TLAPS

(***************************************************************************)
(* What the handlers leave true besides the properties: who drives a task  *)
(* agrees with its row, a dead process holds nothing, and a task that      *)
(* waits for its turn has no side effect of unknown outcome.               *)
(***************************************************************************)
DriverRow ==
  \A t \in Queued \cup Running \cup backoff :
    status[t] \in {"queued", "running", "waiting_for_approval"}

DeadHoldsNothing ==
  /\ app = "down" => queue = <<>> /\ backoff = {} /\ Running = {}
  /\ \A t \in Tasks : run[t] = "off" => gate[t] = NoGate

FreshEffects ==
  \A t \in Tasks : status[t] \in {"absent", "queued"} => effect[t] = "none"

Driven == /\ OneDriver
          /\ DriverRow
          /\ DeadHoldsNothing
          /\ FreshEffects
          /\ NoLostTask
          /\ NoBlindRerun

IInv == TypeOK /\ Driven

-----------------------------------------------------------------------------
\* Removing an id keeps the order of a queue without repetitions.
LEMMA WithoutLemma ==
  ASSUME NEW S, NEW q \in Seq(S), NEW t, NoRepeat(q)
  PROVE  /\ Without(q, t) \in Seq(S)
         /\ NoRepeat(Without(q, t))
         /\ Elems(Without(q, t)) = Elems(q) \ {t}
<1>1. CASE t \notin Elems(q)
  BY <1>1 DEF Without
<1>2. CASE t \in Elems(q)
  <2>0. /\ Len(q) \in Nat /\ DOMAIN q = 1..Len(q)
        /\ \A k \in 1..Len(q) : q[k] \in S
    BY LenProperties, ElementOfSeq
  <2> DEFINE i == CHOOSE i \in DOMAIN q : q[i] = t
  <2>1. i \in 1..Len(q) /\ q[i] = t
    BY <1>2, <2>0 DEF Elems
  <2> HIDE DEF i
  <2> DEFINE a == SubSeq(q, 1, i - 1)
             b == SubSeq(q, i + 1, Len(q))
             r == a \o b
  <2>2. a \in Seq(S) /\ Len(a) = i - 1 /\ \A k \in 1..(i - 1) : a[k] = q[k]
    <3>1. \A k \in 1..(i - 1) : q[k] \in S
      BY <2>0, <2>1
    <3>2. i - 1 \in Int /\ 1 \in Int
      BY <2>0, <2>1
    <3>3. /\ a \in Seq(S)
          /\ Len(a) = IF 1 <= i - 1 THEN i - 1 - 1 + 1 ELSE 0
          /\ \A k \in 1..(i - 1 - 1 + 1) : a[k] = q[1 + k - 1]
      BY <3>1, <3>2, SubSeqProperties
    <3> QED BY <3>3, <2>0, <2>1
  <2>3. /\ b \in Seq(S) /\ Len(b) = Len(q) - i
        /\ \A k \in 1..(Len(q) - i) : b[k] = q[i + k]
    <3>1. \A k \in (i + 1)..Len(q) : q[k] \in S
      BY <2>0, <2>1
    <3>2. i + 1 \in Int /\ Len(q) \in Int
      BY <2>0, <2>1
    <3>3. /\ b \in Seq(S)
          /\ Len(b) = IF i + 1 <= Len(q) THEN Len(q) - (i + 1) + 1 ELSE 0
          /\ \A k \in 1..(Len(q) - (i + 1) + 1) : b[k] = q[i + 1 + k - 1]
      BY <3>1, <3>2, SubSeqProperties
    <3> QED BY <3>3, <2>0, <2>1
  <2> HIDE DEF a, b
  <2>4. /\ r \in Seq(S) /\ Len(r) = Len(q) - 1
        /\ \A k \in 1..(Len(q) - 1) : r[k] = IF k < i THEN q[k] ELSE q[k + 1]
    <3>1. /\ r \in Seq(S) /\ Len(r) = Len(a) + Len(b)
          /\ \A k \in 1..(Len(a) + Len(b)) :
               r[k] = IF k <= Len(a) THEN a[k] ELSE b[k - Len(a)]
      BY <2>2, <2>3, ConcatProperties
    <3>2. Len(a) + Len(b) = Len(q) - 1
      BY <2>0, <2>1, <2>2, <2>3
    <3>3. ASSUME NEW k \in 1..(Len(q) - 1)
          PROVE  r[k] = IF k < i THEN q[k] ELSE q[k + 1]
      <4>1. r[k] = IF k <= i - 1 THEN a[k] ELSE b[k - (i - 1)]
        BY <3>1, <3>2, <2>2
      <4>2. CASE k < i
        BY <4>1, <4>2, <2>0, <2>1, <2>2
      <4>3. CASE k >= i
        <5>1. k - (i - 1) \in 1..(Len(q) - i) /\ i + (k - (i - 1)) = k + 1
          BY <4>3, <2>0, <2>1
        <5>2. b[k - (i - 1)] = q[i + (k - (i - 1))]
          BY <5>1, <2>3
        <5>3. r[k] = b[k - (i - 1)] /\ ~(k < i)
          BY <4>1, <4>3, <2>0, <2>1
        <5> QED BY <5>1, <5>2, <5>3
      <4>4. k < i \/ k >= i
        BY <2>0, <2>1
      <4> QED BY <4>2, <4>3, <4>4
    <3> QED BY <3>1, <3>2, <3>3
  <2>5. Without(q, t) = r
    BY <1>2 DEF Without, i, a, b
  <2> HIDE DEF r
  <2>6. DOMAIN r = 1..(Len(q) - 1)
    BY <2>4, LenProperties
  <2>7. NoRepeat(r)
    BY <2>0, <2>1, <2>4, <2>6, NoRepeat(q) DEF NoRepeat
  <2>8. Elems(r) \subseteq Elems(q) \ {t}
    BY <2>0, <2>1, <2>4, <2>6 DEF NoRepeat, Elems
  <2>9. ASSUME NEW k \in 1..Len(q), q[k] # t
        PROVE  q[k] \in Elems(r)
    <3>1. CASE k < i
      BY <3>1, <2>0, <2>1, <2>4, <2>6 DEF Elems
    <3>2. CASE k > i
      <4>1. k - 1 \in 1..(Len(q) - 1) /\ r[k - 1] = q[k]
        BY <3>2, <2>0, <2>1, <2>4
      <4> QED BY <4>1, <2>6 DEF Elems
    <3>3. k # i
      BY <2>1, <2>9
    <3>4. k < i \/ k > i
      BY <3>3, <2>0, <2>1
    <3> QED BY <3>1, <3>2, <3>4
  <2>10. Elems(q) \ {t} \subseteq Elems(r)
    BY <2>0, <2>9 DEF Elems
  <2> QED BY <2>4, <2>5, <2>7, <2>8, <2>10
<1> QED BY <1>1, <1>2

\* Appending a new id.
LEMMA AppendLemma ==
  ASSUME NEW S, NEW q \in Seq(S), NEW t \in S
  PROVE  /\ Append(q, t) \in Seq(S)
         /\ Elems(Append(q, t)) = Elems(q) \cup {t}
         /\ NoRepeat(q) /\ t \notin Elems(q) => NoRepeat(Append(q, t))
<1>0. /\ Len(q) \in Nat /\ DOMAIN q = 1..Len(q)
  BY LenProperties
<1>1. /\ Append(q, t) \in Seq(S) /\ DOMAIN Append(q, t) = 1..(Len(q) + 1)
      /\ \A k \in 1..(Len(q) + 1) :
           Append(q, t)[k] = IF k <= Len(q) THEN q[k] ELSE t
  BY <1>0
<1>2. Elems(Append(q, t)) = Elems(q) \cup {t}
  BY <1>0, <1>1 DEF Elems
<1>3. NoRepeat(q) /\ t \notin Elems(q) => NoRepeat(Append(q, t))
  BY <1>0, <1>1 DEF Elems, NoRepeat
<1> QED BY <1>1, <1>2, <1>3

\* Pushing an id that may be there already.
LEMMA PushOnceLemma ==
  ASSUME NEW S, NEW q \in Seq(S), NEW t \in S, NoRepeat(q)
  PROVE  /\ PushOnce(q, t) \in Seq(S)
         /\ NoRepeat(PushOnce(q, t))
         /\ Elems(PushOnce(q, t)) = Elems(q) \cup {t}
BY AppendLemma DEF PushOnce

\* The queue that seed() builds holds each of its rows once.
LEMMA OldestFirstLemma ==
  ASSUME NEW S \in SUBSET Tasks, NEW q \in OldestFirst(S)
  PROVE  q \in Seq(Tasks) /\ NoRepeat(q) /\ Elems(q) = S
<1>1. IsFiniteSet(Tasks)
  BY ConstantsAssumption, FS_Interval DEF Tasks
<1>2. Cardinality(S) \in Nat
  BY <1>1, FS_Subset, FS_CardinalityType
<1>3. q \in [1..Cardinality(S) -> S] /\ Elems(q) = S
      /\ \A i, j \in DOMAIN q : i < j => q[i] < q[j]
  BY DEF OldestFirst
<1>4. q \in Seq(Tasks)
  <2>1. q \in [1..Cardinality(S) -> Tasks]
    BY <1>3
  <2> QED BY <2>1, <1>2
<1>5. NoRepeat(q)
  <2>1. \A i \in DOMAIN q : i \in Int /\ q[i] \in Int
    <3>1. \A i \in DOMAIN q : i \in Int /\ q[i] \in S
      BY <1>2, <1>3
    <3>2. Tasks \subseteq Int
      BY ConstantsAssumption DEF Tasks
    <3> QED BY <3>1, <3>2
  <2>2. \A i, j \in DOMAIN q : i < j \/ j < i \/ i = j
    BY <2>1
  <2> QED BY <1>3, <2>1, <2>2 DEF NoRepeat
<1> QED BY <1>3, <1>4, <1>5

\* The process starts with nothing in memory and no row in flight.
LEMMA InitIInv == Init => IInv
<1> SUFFICES ASSUME Init PROVE IInv
  OBVIOUS
<1>1. TypeOK
  <2>1. status \in [Tasks -> Statuses \cup {"absent"}]
    BY DEF Init, Statuses
  <2>2. /\ attempts \in [Tasks -> 0..(MaxAttempts - 1)]
        /\ asked \in [Tasks -> 0..MaxAsks] /\ launches \in [Tasks -> Nat]
        /\ crashes \in 0..MaxCrashes /\ resets \in 0..MaxResets
    BY ConstantsAssumption DEF Init
  <2>3. /\ run \in [Tasks -> {"off", "live"} \cup Reasons]
        /\ gate \in [Tasks -> Gates] /\ queue \in Seq(Tasks)
    BY DEF Init, Gates
  <2> QED BY <2>1, <2>2, <2>3 DEF Init, TypeOK
<1>2. Queued = {} /\ Running = {}
  BY DEF Init, Queued, Elems, Running
<1>3. OneDriver /\ DriverRow /\ DeadHoldsNothing /\ FreshEffects
  BY <1>2 DEF Init, OneDriver, NoRepeat, DriverRow, DeadHoldsNothing, FreshEffects
<1> QED BY <1>1, <1>2, <1>3 DEF IInv, Driven, Init, NoLostTask, NoBlindRerun

-----------------------------------------------------------------------------
\* Every step keeps the types.  The queue is the one that takes the lemmas.
LEMMA QueueType ==
  ASSUME TypeOK, NoRepeat(queue), [Next]_vars
  PROVE  queue' \in Seq(Tasks)
<1> USE DEF TypeOK
<1>0. CASE UNCHANGED queue
  BY <1>0
<1>1. ASSUME NEW t \in Tasks, queue' = Without(queue, t)
      PROVE  queue' \in Seq(Tasks)
  BY <1>1, WithoutLemma
<1>2. ASSUME NEW t \in Tasks, queue' = PushOnce(queue, t)
      PROVE  queue' \in Seq(Tasks)
  BY <1>2, PushOnceLemma
<1>3. CASE Boot
  BY <1>3, OldestFirstLemma DEF Boot, Seeds
<1>4. CASE Launch
  <2>1. PICK i \in DOMAIN queue : queue' = Without(queue, queue[i])
    BY <1>4 DEF Launch
  <2>2. queue[i] \in Tasks
    BY <2>1
  <2> QED BY <1>1, <2>1, <2>2
<1>5. CASE PumpResume \/ PumpPark \/ Stop
  BY <1>5, <1>0 DEF PumpResume, PumpPark, Stop
<1>6. CASE Crash
  BY <1>6 DEF Crash
<1>7. ASSUME NEW t \in Tasks, User(t)
      PROVE  queue' \in Seq(Tasks)
  <2>1. CASE Enqueue(t)
    BY <2>1, AppendLemma DEF Enqueue
  <2>2. CASE Pause(t)
    BY <2>2, <1>0, <1>1 DEF Pause
  <2>3. CASE Cancel(t)
    BY <2>3, <1>1 DEF Cancel
  <2>4. CASE Resume(t) \/ Restart(t)
    BY <2>4, <1>2 DEF Resume, Restart, Requeue
  <2>5. ASSUME NEW r \in 1..MaxAsks, Decide(t, r)
        PROVE  queue' \in Seq(Tasks)
    BY <2>5, <1>0 DEF Decide
  <2> QED BY <1>7, <2>1, <2>2, <2>3, <2>4, <2>5 DEF User
<1>8. ASSUME NEW t \in Tasks, Loop(t)
      PROVE  queue' \in Seq(Tasks)
  <2>1. CASE BackoffFires(t)
    BY <2>1, <1>2 DEF BackoffFires
  <2>2. CASE UNCHANGED queue
    BY <2>2
  <2> QED BY <1>8, <2>1, <2>2 DEF Loop, OpenGate, LapseGate, ToolStart, ToolEnd,
        LoopEnds, EndShutdown, EndPaused, EndStopped, EndRetry, EndFailed,
        EndThrown, EndCompleted
<1> QED BY <1>0, <1>3, <1>4, <1>5, <1>6, <1>7, <1>8 DEF Next, Process, vars

\* An abort keeps the types of the runs and the gates.
LEMMA AbortType ==
  ASSUME TypeOK, NEW t \in Tasks, NEW reason \in Reasons, Abort(t, reason)
  PROVE  run' \in [Tasks -> {"off", "live"} \cup Reasons] /\ gate' \in [Tasks -> Gates]
BY DEF Abort, Gates, TypeOK, Reasons

\* The other variables, action by action.
LEMMA TypeStep ==
  ASSUME TypeOK, NoRepeat(queue), [Next]_vars
  PROVE  TypeOK'
<1>0. queue' \in Seq(Tasks)
  BY QueueType
<1> USE ConstantsAssumption, <1>0 DEF TypeOK, Statuses, Reasons
<1>1. CASE UNCHANGED vars
  BY <1>1 DEF vars
<1>2. CASE Boot
  BY <1>2 DEF Boot, Reconciled
<1>3. CASE PumpResume \/ PumpPark
  BY <1>3 DEF PumpResume, PumpPark, durable
<1>4. CASE Launch
  <2>1. PICK i \in DOMAIN queue :
          /\ run' = [run EXCEPT ![queue[i]] = "live"]
          /\ status' = [status EXCEPT ![queue[i]] = "running"]
          /\ launches' = [launches EXCEPT ![queue[i]] = @ + 1]
    BY <1>4 DEF Launch
  <2>2. queue[i] \in Tasks
    OBVIOUS
  <2>3. /\ run' \in [Tasks -> {"off", "live"} \cup Reasons]
        /\ status' \in [Tasks -> Statuses \cup {"absent"}]
    BY <2>1, <2>2
  <2>4. launches' \in [Tasks -> Nat]
    BY <2>1, <2>2
  <2> QED BY <1>4, <2>3, <2>4 DEF Launch
<1>5. CASE Stop
  BY <1>5 DEF Stop, Wakeup, durable
<1>6. CASE Crash
  <2>1. /\ run' \in [Tasks -> {"off", "live"} \cup Reasons]
        /\ gate' \in [Tasks -> Gates] /\ backoff' \in SUBSET Tasks
    BY <1>6 DEF Crash, Gates
  <2>2. crashes' \in 0..MaxCrashes
    BY <1>6 DEF Crash
  <2> QED BY <1>6, <2>1, <2>2 DEF Crash, durable
<1>7. ASSUME NEW t \in Tasks, Enqueue(t)
      PROVE  TypeOK'
  BY <1>7 DEF Enqueue, Wakeup
<1>8. ASSUME NEW t \in Tasks, Pause(t)
      PROVE  TypeOK'
  <2>1. CASE t \in Running
    <3>1. Abort(t, "pause") /\ status' = status /\ backoff' \in SUBSET Tasks
      BY <1>8, <2>1 DEF Pause
    <3>2. run' \in [Tasks -> {"off", "live"} \cup Reasons] /\ gate' \in [Tasks -> Gates]
      BY <3>1, AbortType
    <3> QED BY <1>8, <3>1, <3>2 DEF Pause, NoWakeup
  <2>2. CASE t \notin Running
    <3>1. /\ run' = run /\ gate' = gate /\ backoff' \in SUBSET Tasks
          /\ status' \in {status, [status EXCEPT ![t] = "paused"]}
      BY <1>8, <2>2 DEF Pause
    <3>2. status' \in [Tasks -> Statuses \cup {"absent"}]
      BY <3>1
    <3> QED BY <1>8, <3>1, <3>2 DEF Pause, NoWakeup
  <2> QED BY <2>1, <2>2
<1>9. ASSUME NEW t \in Tasks, Cancel(t)
      PROVE  TypeOK'
  <2>1. CASE t \in Running
    <3>1. Abort(t, "cancel") /\ status' = status /\ backoff' \in SUBSET Tasks
      BY <1>9, <2>1 DEF Cancel
    <3>2. run' \in [Tasks -> {"off", "live"} \cup Reasons] /\ gate' \in [Tasks -> Gates]
      BY <3>1, AbortType
    <3> QED BY <1>9, <3>1, <3>2 DEF Cancel, NoWakeup
  <2>2. CASE t \notin Running
    <3>1. /\ run' = run /\ gate' = gate /\ backoff' \in SUBSET Tasks
          /\ status' \in {status, [status EXCEPT ![t] = "cancelled"]}
      BY <1>9, <2>2 DEF Cancel
    <3>2. status' \in [Tasks -> Statuses \cup {"absent"}]
      BY <3>1
    <3> QED BY <1>9, <3>1, <3>2 DEF Cancel, NoWakeup
  <2> QED BY <2>1, <2>2
<1>10. ASSUME NEW t \in Tasks, Resume(t) \/ Restart(t)
       PROVE  TypeOK'
  <2>1. Requeue(t)
    BY <1>10 DEF Resume, Restart
  <2>2. /\ status' \in [Tasks -> Statuses \cup {"absent"}]
        /\ attempts' \in [Tasks -> 0..(MaxAttempts - 1)]
        /\ launches' \in [Tasks -> Nat]
    BY <2>1 DEF Requeue
  <2>3. resets' \in 0..MaxResets
    BY <2>1 DEF Requeue
  <2> QED BY <2>1, <2>2, <2>3 DEF Requeue, Wakeup
<1>11. ASSUME NEW t \in Tasks, NEW r \in 1..MaxAsks, Decide(t, r)
       PROVE  TypeOK'
  BY <1>11 DEF Decide, MarkRunning, Settled, Gates, NoWakeup
<1>12. ASSUME NEW t \in Tasks, NEW kind \in {"approval", "question"}, OpenGate(t, kind)
       PROVE  TypeOK'
  <2>1. asked[t] + 1 \in 1..MaxAsks
    BY <1>12 DEF OpenGate
  <2> QED BY <1>12, <2>1 DEF OpenGate, Gates, NoWakeup
<1>13. ASSUME NEW t \in Tasks, LapseGate(t)
       PROVE  TypeOK'
  BY <1>13 DEF LapseGate, Gates, NoWakeup, durable
<1>14. ASSUME NEW t \in Tasks, NEW o \in {"none", "unknown"}, ToolStart(t) \/ ToolEnd(t, o)
       PROVE  TypeOK'
  <2>1. effect' \in [Tasks -> {"none", "started", "unknown"}]
    BY <1>14 DEF ToolStart, ToolEnd
  <2> QED BY <1>14, <2>1 DEF ToolStart, ToolEnd, NoWakeup
<1>15. ASSUME NEW t \in Tasks, LoopEnds(t)
       PROVE  TypeOK'
  <2>1. RunEnds(t)
    BY <1>15 DEF LoopEnds, EndShutdown, EndPaused, EndStopped, EndRetry,
          EndFailed, EndThrown, EndCompleted
  <2>2. /\ run' \in [Tasks -> {"off", "live"} \cup Reasons]
        /\ gate' \in [Tasks -> Gates]
        /\ effect' \in [Tasks -> {"none", "started", "unknown"}]
        /\ pump' \in {"off", "parked", "woken", "draining"}
        /\ wakeQueued' \in BOOLEAN
    BY <2>1 DEF RunEnds, Wakeup, Gates
  <2>3. CASE EndRetry(t)
    <3>1. attempts[t] + 1 \in 0..(MaxAttempts - 1)
      BY <2>3 DEF EndRetry, RetryLeft
    <3> QED BY <2>2, <2>3, <3>1 DEF EndRetry
  <2>4. CASE ~EndRetry(t)
    BY <1>15, <2>2, <2>4 DEF LoopEnds, EndShutdown, EndPaused, EndStopped,
          EndFailed, EndThrown, EndCompleted
  <2> QED BY <2>3, <2>4
<1>16. ASSUME NEW t \in Tasks, BackoffFires(t)
       PROVE  TypeOK'
  BY <1>16 DEF BackoffFires, Wakeup, durable
<1> QED
  BY <1>1, <1>2, <1>3, <1>4, <1>5, <1>6, <1>7, <1>8, <1>9, <1>10, <1>11, <1>12,
     <1>13, <1>14, <1>15, <1>16 DEF Next, Process, User, Loop

-----------------------------------------------------------------------------
(***************************************************************************)
(* The three ways a handler edits the queue, and what they do to Queued.   *)
(***************************************************************************)
LEMMA QueueSame ==
  ASSUME NoRepeat(queue), UNCHANGED queue
  PROVE  Queued' = Queued /\ NoRepeat(queue)'
BY DEF Queued, Elems, NoRepeat

LEMMA QueueWithout ==
  ASSUME queue \in Seq(Tasks), NoRepeat(queue), NEW t \in Tasks,
         queue' = Without(queue, t)
  PROVE  Queued' = Queued \ {t} /\ NoRepeat(queue)'
<1>1. NoRepeat(queue') /\ Elems(queue') = Elems(queue) \ {t}
  BY WithoutLemma
<1> QED BY <1>1 DEF Queued, NoRepeat, Elems

LEMMA QueuePush ==
  ASSUME queue \in Seq(Tasks), NoRepeat(queue), NEW t \in Tasks,
         queue' = PushOnce(queue, t)
  PROVE  Queued' = Queued \cup {t} /\ NoRepeat(queue)'
<1>1. NoRepeat(queue') /\ Elems(queue') = Elems(queue) \cup {t}
  BY PushOnceLemma
<1> QED BY <1>1 DEF Queued, NoRepeat, Elems

\* An abort takes nobody out of `running`.
LEMMA AbortFrame ==
  ASSUME TypeOK, NEW t \in Tasks, NEW reason \in Reasons, Abort(t, reason),
         \A u \in Tasks : run[u] = "off" => gate[u] = NoGate
  PROVE  /\ Running' = Running
         /\ \A u \in Tasks : run'[u] = "off" => gate'[u] = NoGate
<1>1. \A u \in Tasks : run'[u] = "off" <=> run[u] = "off"
  BY DEF Abort, TypeOK, Reasons
<1>2. \A u \in Tasks : gate'[u] \in {gate[u], NoGate}
  BY DEF Abort, TypeOK
<1> QED BY <1>1, <1>2 DEF Running

\* The end of a run takes its task, and no other, out of `running`.
LEMMA RunEndsFrame ==
  ASSUME TypeOK, NEW t \in Tasks, RunEnds(t),
         \A u \in Tasks : run[u] = "off" => gate[u] = NoGate
  PROVE  /\ Running' = Running \ {t}
         /\ \A u \in Tasks : run'[u] = "off" => gate'[u] = NoGate
         /\ \A u \in Tasks : effect'[u] = effect[u] \/ (u = t /\ effect[u] = "started")
<1>1. \A u \in Tasks : run'[u] = IF u = t THEN "off" ELSE run[u]
  BY DEF RunEnds, TypeOK
<1>2. \A u \in Tasks : gate'[u] = IF u = t THEN NoGate ELSE gate[u]
  BY DEF RunEnds, TypeOK
<1>3. \A u \in Tasks : effect'[u] = effect[u] \/ (u = t /\ effect[u] = "started")
  BY DEF RunEnds, TypeOK
<1> QED BY <1>1, <1>2, <1>3 DEF Running

\* Whoever drives, drives a task.
LEMMA QueuedTasks ==
  ASSUME TypeOK PROVE Queued \cup Running \cup backoff \subseteq Tasks
<1>1. \A i \in DOMAIN queue : queue[i] \in Tasks
  BY DEF TypeOK
<1> QED BY <1>1 DEF TypeOK, Queued, Elems, Running

\* The process's own steps.
LEMMA DrivenProcess ==
  ASSUME IInv, Process
  PROVE  Driven'
<1>0. queue \in Seq(Tasks)
  BY DEF IInv, TypeOK
<1>tasks. Queued \cup Running \cup backoff \subseteq Tasks
  BY QueuedTasks DEF IInv
<1> USE <1>tasks DEF IInv, Driven, OneDriver
<1>1. CASE Boot
  <2>1. Queued' = Seeds /\ NoRepeat(queue)'
    <3>1. queue' \in OldestFirst(Seeds) /\ Seeds \in SUBSET Tasks
      BY <1>1 DEF Boot, Seeds
    <3>2. NoRepeat(queue') /\ Elems(queue') = Seeds
      BY <3>1, OldestFirstLemma
    <3> QED BY <3>2 DEF Queued, NoRepeat, Elems
  <2>2. Running' = {} /\ backoff' = {}
    BY <1>1 DEF Boot, DeadHoldsNothing, Running
  <2>3. \A t \in Tasks : status'[t] = Reconciled(t) /\ effect'[t] = effect[t]
    BY <1>1 DEF Boot
  <2>4. FreshEffects'
    BY <2>3 DEF FreshEffects, Reconciled, Resumable
  <2>5. \A t \in Tasks : t \in Queued' <=> status'[t] = "queued"
    BY <2>1, <2>3 DEF Seeds
  <2>6. DeadHoldsNothing'
    BY <1>1 DEF Boot, DeadHoldsNothing
  <2>7. Queued' \subseteq Tasks
    BY <2>1 DEF Seeds
  <2> QED BY <2>1, <2>2, <2>4, <2>5, <2>6, <2>7
        DEF DriverRow, NoLostTask, NoBlindRerun, FreshEffects
<1>2. CASE PumpResume \/ PumpPark
  <2>1. Queued' = Queued /\ NoRepeat(queue)'
    BY <1>2, QueueSame DEF PumpResume, PumpPark
  <2>2. UNCHANGED <<durable, app, run, gate, backoff, queue>>
    BY <1>2 DEF PumpResume, PumpPark
  <2> QED BY <2>1, <2>2 DEF durable, Running, DriverRow, DeadHoldsNothing,
        FreshEffects, NoLostTask, NoBlindRerun
<1>3. CASE Launch
  <2>1. PICK i \in DOMAIN queue :
          /\ queue' = Without(queue, queue[i])
          /\ run' = [run EXCEPT ![queue[i]] = "live"]
          /\ status' = [status EXCEPT ![queue[i]] = "running"]
    BY <1>3 DEF Launch
  <2> DEFINE t == queue[i]
  <2>2. t \in Tasks /\ t \in Queued
    BY <1>0 DEF Queued, Elems
  <2> HIDE DEF t
  <2>3. Queued' = Queued \ {t} /\ NoRepeat(queue)'
    BY <1>0, <2>1, <2>2, QueueWithout DEF t
  <2>4. /\ \A u \in Tasks : run'[u] = IF u = t THEN "live" ELSE run[u]
        /\ \A u \in Tasks : status'[u] = IF u = t THEN "running" ELSE status[u]
    BY <2>1, <2>2 DEF TypeOK, t
  <2>5. Running' = Running \cup {t}
    BY <2>2, <2>4 DEF Running
  <2>6. UNCHANGED <<app, effect, gate, backoff>>
    BY <1>3 DEF Launch
  <2>7. app # "down"
    BY <2>1 DEF DeadHoldsNothing
  <2> QED BY <2>2, <2>3, <2>4, <2>5, <2>6, <2>7 DEF DriverRow, DeadHoldsNothing,
        FreshEffects, NoLostTask, NoBlindRerun
<1>4. CASE Stop
  <2>1. Queued' = Queued /\ NoRepeat(queue)'
    BY <1>4, QueueSame DEF Stop
  <2>2. \A t \in Tasks : run'[t] = IF run[t] = "live" THEN "shutdown" ELSE run[t]
    BY <1>4 DEF Stop
  <2>3. Running' = Running
    BY <2>2 DEF Running
  <2>4. app' = "stopping" /\ backoff' = {} /\ UNCHANGED <<durable, gate>>
    BY <1>4 DEF Stop
  <2> QED BY <2>1, <2>2, <2>3, <2>4 DEF durable, DriverRow, DeadHoldsNothing,
        FreshEffects, NoLostTask, NoBlindRerun
<1>5. CASE Crash
  <2>1. queue' = <<>> /\ Queued' = {} /\ NoRepeat(queue)'
    BY <1>5 DEF Crash, Queued, Elems, NoRepeat
  <2>2. /\ backoff' = {} /\ Running' = {} /\ app' = "down"
        /\ \A t \in Tasks : gate'[t] = NoGate
    BY <1>5 DEF Crash, Running
  <2>3. UNCHANGED <<status, effect>>
    BY <1>5 DEF Crash, durable
  <2> QED BY <2>1, <2>2, <2>3 DEF DriverRow, DeadHoldsNothing, FreshEffects,
        NoLostTask, NoBlindRerun
<1> QED BY <1>1, <1>2, <1>3, <1>4, <1>5 DEF Process

\* The user's handlers.
LEMMA DrivenUser ==
  ASSUME IInv, NEW t \in Tasks, User(t)
  PROVE  Driven'
<1>0. queue \in Seq(Tasks)
  BY DEF IInv, TypeOK
<1>tasks. Queued \cup Running \cup backoff \subseteq Tasks
  BY QueuedTasks DEF IInv
<1> USE <1>tasks DEF IInv, Driven, OneDriver
<1>1. CASE Enqueue(t)
  <2>1. status[t] = "absent" /\ t \notin Queued \cup Running \cup backoff
    BY <1>1 DEF Enqueue, DriverRow
  <2>2. Queued' = Queued \cup {t} /\ NoRepeat(queue)'
    <3>1. queue' = PushOnce(queue, t)
      BY <1>1, <2>1 DEF Enqueue, PushOnce, Queued
    <3> QED BY <1>0, <3>1, QueuePush
  <2>3. \A u \in Tasks : status'[u] = IF u = t THEN "queued" ELSE status[u]
    BY <1>1 DEF Enqueue, TypeOK
  <2>4. UNCHANGED <<app, effect, run, gate, backoff>> /\ app = "up"
    BY <1>1 DEF Enqueue, Idle
  <2>5. Running' = Running
    BY <2>4 DEF Running
  <2> QED BY <2>1, <2>2, <2>3, <2>4, <2>5 DEF DriverRow, DeadHoldsNothing,
        FreshEffects, NoLostTask, NoBlindRerun
<1>2. CASE Pause(t) /\ t \in Running
  <2>1. Abort(t, "pause") /\ UNCHANGED <<status, queue, backoff, app, effect>> /\ app = "up"
    BY <1>2 DEF Pause, Idle
  <2>2. Queued' = Queued /\ NoRepeat(queue)'
    BY <2>1, QueueSame
  <2>3. Running' = Running /\ \A u \in Tasks : run'[u] = "off" => gate'[u] = NoGate
    BY <2>1, AbortFrame DEF Reasons, DeadHoldsNothing
  <2> QED BY <2>1, <2>2, <2>3 DEF DriverRow, DeadHoldsNothing, FreshEffects,
        NoLostTask, NoBlindRerun
<1>3. CASE Pause(t) /\ t \notin Running
  <2>1. /\ queue' = Without(queue, t) /\ backoff' = backoff \ {t}
        /\ UNCHANGED <<run, gate, app, effect>> /\ app = "up"
    BY <1>3 DEF Pause, Idle
  <2>2. Queued' = Queued \ {t} /\ NoRepeat(queue)' /\ Running' = Running
    BY <1>0, <2>1, QueueWithout DEF Running
  <2>3. \A u \in Tasks :
          status'[u] = IF u = t /\ status[u] \in {"queued", "running"}
                       THEN "paused" ELSE status[u]
    BY <1>3 DEF Pause, TypeOK
  <2> QED BY <1>3, <2>1, <2>2, <2>3 DEF DriverRow, DeadHoldsNothing, FreshEffects,
        NoLostTask, NoBlindRerun
<1>4. CASE Cancel(t) /\ t \in Running
  <2>1. /\ Abort(t, "cancel") /\ UNCHANGED <<status, app, effect>> /\ app = "up"
        /\ queue' = Without(queue, t) /\ backoff' = backoff \ {t}
    BY <1>4 DEF Cancel, Idle
  <2>2. Queued' = Queued \ {t} /\ NoRepeat(queue)'
    BY <1>0, <2>1, QueueWithout
  <2>3. Running' = Running /\ \A u \in Tasks : run'[u] = "off" => gate'[u] = NoGate
    BY <2>1, AbortFrame DEF Reasons, DeadHoldsNothing
  <2> QED BY <1>4, <2>1, <2>2, <2>3 DEF DriverRow, DeadHoldsNothing, FreshEffects,
        NoLostTask, NoBlindRerun
<1>5. CASE Cancel(t) /\ t \notin Running
  <2>1. /\ queue' = Without(queue, t) /\ backoff' = backoff \ {t}
        /\ UNCHANGED <<run, gate, app, effect>> /\ app = "up"
    BY <1>5 DEF Cancel, Idle
  <2>2. Queued' = Queued \ {t} /\ NoRepeat(queue)' /\ Running' = Running
    BY <1>0, <2>1, QueueWithout DEF Running
  <2>3. \A u \in Tasks :
          status'[u] = IF u = t /\ (t \in backoff \/ status[u] \in {"queued", "interrupted"})
                       THEN "cancelled" ELSE status[u]
    BY <1>5 DEF Cancel, TypeOK
  <2> QED BY <1>5, <2>1, <2>2, <2>3 DEF DriverRow, DeadHoldsNothing, FreshEffects,
        NoLostTask, NoBlindRerun
<1>6. CASE Resume(t) \/ Restart(t)
  <2>1. /\ status[t] \in {"interrupted", "paused", "failed"}
        /\ effect[t] = "none" /\ app = "up" /\ Requeue(t)
    BY <1>6 DEF Resume, Restart, EffectsKnown, Idle
  <2>2. t \notin Queued \cup Running \cup backoff
    BY <2>1 DEF DriverRow
  <2>3. /\ queue' = PushOnce(queue, t) /\ UNCHANGED <<run, gate, app, effect, backoff>>
        /\ \A u \in Tasks : status'[u] = IF u = t THEN "queued" ELSE status[u]
    BY <2>1 DEF Requeue, TypeOK
  <2>4. Queued' = Queued \cup {t} /\ NoRepeat(queue)' /\ Running' = Running
    BY <1>0, <2>3, QueuePush DEF Running
  <2> QED BY <2>1, <2>2, <2>3, <2>4 DEF DriverRow, DeadHoldsNothing, FreshEffects,
        NoLostTask, NoBlindRerun
<1>7. ASSUME NEW r \in 1..MaxAsks, Decide(t, r)
      PROVE  Driven'
  <2>1. UNCHANGED <<queue, run, app, effect, backoff>>
    BY <1>7 DEF Decide
  <2>2. Queued' = Queued /\ NoRepeat(queue)' /\ Running' = Running
    BY <2>1, QueueSame DEF Running
  <2>3. \A u \in Tasks :
          status'[u] = IF u = t /\ status[u] = "waiting_for_approval"
                       THEN "running" ELSE status[u]
    BY <1>7 DEF Decide, MarkRunning, TypeOK
  <2>4. \A u \in Tasks : gate'[u] \in {gate[u], NoGate}
    BY <1>7 DEF Decide, TypeOK
  <2> QED BY <2>1, <2>2, <2>3, <2>4 DEF DriverRow, DeadHoldsNothing, FreshEffects,
        NoLostTask, NoBlindRerun
<1> QED BY <1>1, <1>2, <1>3, <1>4, <1>5, <1>6, <1>7 DEF User

\* A task's own loop, its end and its retry timer.
LEMMA DrivenLoop ==
  ASSUME IInv, NEW t \in Tasks, Loop(t)
  PROVE  Driven'
<1>0. queue \in Seq(Tasks)
  BY DEF IInv, TypeOK
<1>tasks. Queued \cup Running \cup backoff \subseteq Tasks
  BY QueuedTasks DEF IInv
<1> USE <1>tasks DEF IInv, Driven, OneDriver
<1>1. ASSUME NEW kind \in {"approval", "question"}, OpenGate(t, kind)
      PROVE  Driven'
  <2>1. UNCHANGED <<queue, run, app, effect, backoff>> /\ run[t] = "live"
    BY <1>1 DEF OpenGate
  <2>2. Queued' = Queued /\ NoRepeat(queue)' /\ Running' = Running /\ t \in Running
    BY <2>1, QueueSame DEF Running
  <2>3. \A u \in Tasks :
          status'[u] = IF u = t THEN "waiting_for_approval" ELSE status[u]
    BY <1>1 DEF OpenGate, TypeOK
  <2>4. \A u \in Tasks : u # t => gate'[u] = gate[u]
    BY <1>1 DEF OpenGate, TypeOK
  <2>5. DeadHoldsNothing'
    BY <2>1, <2>2, <2>4 DEF DeadHoldsNothing
  <2> QED BY <2>1, <2>2, <2>3, <2>5 DEF DriverRow, FreshEffects,
        NoLostTask, NoBlindRerun
<1>2. CASE LapseGate(t)
  <2>1. UNCHANGED <<queue, run, app, status, effect, backoff>>
    BY <1>2 DEF LapseGate, durable
  <2>2. Queued' = Queued /\ NoRepeat(queue)' /\ Running' = Running
    BY <2>1, QueueSame DEF Running
  <2>3. \A u \in Tasks : gate'[u] \in {gate[u], NoGate}
    BY <1>2 DEF LapseGate, TypeOK
  <2> QED BY <2>1, <2>2, <2>3 DEF DriverRow, DeadHoldsNothing, FreshEffects,
        NoLostTask, NoBlindRerun
<1>3. ASSUME NEW o \in {"none", "unknown"}, ToolStart(t) \/ ToolEnd(t, o)
      PROVE  Driven'
  <2>1. UNCHANGED <<queue, run, app, status, gate, backoff>> /\ run[t] = "live" /\ app = "up"
    BY <1>3 DEF ToolStart, ToolEnd, Idle
  <2>2. Queued' = Queued /\ NoRepeat(queue)' /\ Running' = Running /\ t \in Running
    BY <2>1, QueueSame DEF Running
  <2>3. \A u \in Tasks : u # t => effect'[u] = effect[u]
    BY <1>3 DEF ToolStart, ToolEnd, TypeOK
  <2>4. status[t] \notin {"queued", "absent"}
    BY <2>1, <2>2 DEF DriverRow, NoLostTask
  <2> QED BY <2>1, <2>2, <2>3, <2>4 DEF DriverRow, DeadHoldsNothing, FreshEffects,
        NoLostTask, NoBlindRerun
<1>4. CASE LoopEnds(t)
  <2>1. /\ RunEnds(t) /\ run[t] # "off" /\ app # "down"
        /\ UNCHANGED <<queue, app>>
    BY <1>4 DEF LoopEnds, EndShutdown, EndPaused, EndStopped, EndRetry, EndFailed,
          EndThrown, EndCompleted, CanReturn, ReturnsResult
  <2>2. Queued' = Queued /\ NoRepeat(queue)' /\ t \in Running
    BY <2>1, QueueSame DEF Running
  <2>3. /\ Running' = Running \ {t}
        /\ \A u \in Tasks : run'[u] = "off" => gate'[u] = NoGate
        /\ \A u \in Tasks : effect'[u] = effect[u] \/ (u = t /\ effect[u] = "started")
    BY <2>1, RunEndsFrame DEF DeadHoldsNothing
  <2>4. \A u \in Tasks :
          \/ status'[u] = status[u]
          \/ u = t /\ status'[u] \in {"paused", "cancelled", "failed", "completed"}
    BY <1>4 DEF LoopEnds, EndShutdown, EndPaused, EndStopped, EndRetry, EndFailed,
          EndThrown, EndCompleted, TypeOK
  <2>5. \/ backoff' = backoff
        \/ backoff' = backoff \cup {t} /\ effect[t] = "none" /\ UNCHANGED status
    BY <1>4 DEF LoopEnds, EndShutdown, EndPaused, EndStopped, EndRetry, EndFailed,
          EndThrown, EndCompleted
  <2>6. NoBlindRerun'
    BY <2>2, <2>3, <2>5 DEF NoBlindRerun
  <2>7. DriverRow'
    BY <2>2, <2>3, <2>4, <2>5 DEF DriverRow
  <2>8. FreshEffects'
    BY <2>3, <2>4 DEF FreshEffects
  <2>9. NoLostTask'
    BY <2>1, <2>2, <2>4 DEF NoLostTask
  <2>10. DeadHoldsNothing' /\ OneDriver'
    BY <2>1, <2>2, <2>3, <2>5 DEF DeadHoldsNothing
  <2> QED BY <2>6, <2>7, <2>8, <2>9, <2>10
<1>5. CASE BackoffFires(t)
  <2>1. /\ t \in backoff /\ backoff' = backoff \ {t} /\ queue' = PushOnce(queue, t)
        /\ UNCHANGED <<app, status, effect, run, gate>> /\ app = "up"
    BY <1>5 DEF BackoffFires, durable, Idle
  <2>2. Queued' = Queued \cup {t} /\ NoRepeat(queue)' /\ Running' = Running
    BY <1>0, <2>1, QueuePush DEF Running
  <2> QED BY <2>1, <2>2 DEF DriverRow, DeadHoldsNothing, FreshEffects,
        NoLostTask, NoBlindRerun
<1> QED BY <1>1, <1>2, <1>3, <1>4, <1>5 DEF Loop

\* IInv is inductive.
LEMMA NextIInv == IInv /\ [Next]_vars => IInv'
<1> SUFFICES ASSUME IInv, [Next]_vars PROVE IInv'
  OBVIOUS
<1>1. TypeOK'
  BY TypeStep DEF IInv, Driven, OneDriver
<1>2. CASE Next
  BY <1>1, <1>2, DrivenProcess, DrivenUser, DrivenLoop DEF Next, IInv
<1>3. CASE UNCHANGED vars
  <2>1. Queued' = Queued /\ NoRepeat(queue)' /\ Running' = Running
    BY <1>3, QueueSame DEF vars, IInv, Driven, OneDriver, Running
  <2> QED BY <1>1, <1>3, <2>1 DEF vars, IInv, Driven, OneDriver, DriverRow,
        DeadHoldsNothing, FreshEffects, NoLostTask, NoBlindRerun
<1> QED BY <1>2, <1>3

\* The inductive invariant holds in every behaviour.
LEMMA SpecIInv == Spec => []IInv
<1> QED BY InitIInv, NextIInv, PTL DEF Spec

-----------------------------------------------------------------------------
\* Types are preserved for every instance.
THEOREM TypeCorrect == Spec => []TypeOK
<1>1. IInv => TypeOK
  BY DEF IInv
<1> QED BY <1>1, SpecIInv, PTL

\* queue, running and backoffTimers of runner.ts never share a task and the
\* queue never repeats one, whatever the order of its nine handlers.
THEOREM OneDriverTheorem == Spec => []OneDriver
<1>1. IInv => OneDriver
  BY DEF IInv, Driven
<1> QED BY <1>1, SpecIInv, PTL

\* A queued row is in the queue of the running process.
THEOREM NoLostTaskTheorem == Spec => []NoLostTask
<1>1. IInv => NoLostTask
  BY DEF IInv, Driven
<1> QED BY <1>1, SpecIInv, PTL

\* A row at rest has no driver.
THEOREM RestIsRestTheorem == Spec => []RestIsRest
<1>1. IInv => RestIsRest
  BY DEF IInv, Driven, DriverRow, RestIsRest
<1> QED BY <1>1, SpecIInv, PTL

\* The three together: whichever handler edits rows, queue, runs and timers, in whatever
\* order, they agree on who drives a task.
THEOREM DriversHoldTheorem == Spec => []DriversHold
<1>1. OneDriver /\ NoLostTask /\ RestIsRest => DriversHold
  BY DEF DriversHold
<1> QED BY <1>1, OneDriverTheorem, NoLostTaskTheorem, RestIsRestTheorem, PTL

\* No task with a side effect of unknown outcome waits to run again.
THEOREM NoBlindRerunTheorem == Spec => []NoBlindRerun
<1>1. IInv => NoBlindRerun
  BY DEF IInv, Driven
<1> QED BY <1>1, SpecIInv, PTL

\* Finished rows do not move: a loop that ends, a timer, a launch only move rows
\* in flight, because IInv ties the driver to the row.
LEMMA StepFinished ==
  ASSUME IInv, [Next]_vars, NEW t \in Tasks,
         status[t] \in {"cancelled", "completed", "failed"}
  PROVE  status'[t] = status[t] \/ (status[t] = "failed" /\ status'[t] = "queued")
<1>0. t \notin Queued \cup Running \cup backoff
  BY DEF IInv, Driven, DriverRow
<1>1. CASE Process
  <2>1. CASE Boot
    BY <2>1 DEF Boot, Reconciled
  <2>2. CASE Launch
    <3>1. PICK i \in DOMAIN queue : status' = [status EXCEPT ![queue[i]] = "running"]
      BY <2>2 DEF Launch
    <3>2. queue[i] # t
      BY <1>0 DEF Queued, Elems
    <3> QED BY <3>1, <3>2 DEF IInv, TypeOK
  <2> QED BY <1>1, <2>1, <2>2 DEF Process, PumpResume, PumpPark, Stop, Crash, durable
<1>2. ASSUME NEW u \in Tasks, User(u)
      PROVE  status'[t] = status[t] \/ (status[t] = "failed" /\ status'[t] = "queued")
  <2>1. CASE Enqueue(u)
    BY <2>1 DEF Enqueue, IInv, TypeOK
  <2>2. CASE Pause(u)
    BY <2>2 DEF Pause, IInv, TypeOK
  <2>3. CASE Cancel(u)
    BY <1>0, <2>3 DEF Cancel, IInv, TypeOK
  <2>4. CASE Resume(u) \/ Restart(u)
    BY <2>4 DEF Resume, Restart, Requeue, IInv, TypeOK
  <2>5. CASE \E r \in 1..MaxAsks : Decide(u, r)
    BY <2>5 DEF Decide, MarkRunning, IInv, TypeOK
  <2> QED BY <1>2, <2>1, <2>2, <2>3, <2>4, <2>5 DEF User
<1>3. ASSUME NEW u \in Tasks, Loop(u)
      PROVE  status'[t] = status[t]
  <2>1. CASE u = t
    <3>1. run[t] = "off" /\ t \notin backoff
      BY <1>0 DEF Running
    <3> QED BY <1>3, <2>1, <3>1 DEF Loop, OpenGate, LapseGate, ToolStart, ToolEnd,
          LoopEnds, BackoffFires, EndShutdown, EndPaused, EndStopped, EndRetry,
          EndFailed, EndThrown, EndCompleted, CanReturn, ReturnsResult, durable
  <2>2. CASE u # t
    BY <1>3, <2>2 DEF Loop, OpenGate, LapseGate, ToolStart, ToolEnd, LoopEnds,
          BackoffFires, EndShutdown, EndPaused, EndStopped, EndRetry, EndFailed,
          EndThrown, EndCompleted, durable, IInv, TypeOK
  <2> QED BY <2>1, <2>2
<1>4. CASE UNCHANGED vars
  BY <1>4 DEF vars
<1> QED BY <1>1, <1>2, <1>3, <1>4 DEF Next

\* A completed or cancelled row is final, a failed one only goes back to the queue.
THEOREM FinishedIsFinalTheorem == Spec => FinishedIsFinal
<1> DEFINE Final == \A t \in Tasks :
              /\ status[t] \in Terminal => status'[t] = status[t]
              /\ status[t] = "failed" => status'[t] \in {"failed", "queued"}
<1>1. IInv /\ [Next]_vars => [Final]_vars
  BY StepFinished DEF Terminal
<1> QED BY <1>1, SpecIInv, PTL DEF Spec, FinishedIsFinal

-----------------------------------------------------------------------------
(***************************************************************************)
(* The caps.  Only a launch adds to `running`; a retry moves a task from   *)
(* `running` to the timers.                                                *)
(***************************************************************************)
LEMMA OnlyLaunchAdds ==
  ASSUME IInv, [Next]_vars, ~Launch
  PROVE  Running' \subseteq Running /\ backoff' \subseteq Running \cup backoff
<1> USE DEF IInv, TypeOK
<1>1. CASE Process
  BY <1>1 DEF Process, Boot, PumpResume, PumpPark, Stop, Crash, Running
<1>2. ASSUME NEW t \in Tasks, User(t)
      PROVE  Running' \subseteq Running /\ backoff' \subseteq backoff
  <2>1. CASE UNCHANGED run /\ backoff' \subseteq backoff
    BY <2>1 DEF Running
  <2>2. ASSUME NEW reason \in Reasons, Abort(t, reason), backoff' \subseteq backoff
        PROVE  Running' \subseteq Running /\ backoff' \subseteq backoff
    BY <2>2, AbortFrame DEF Driven, DeadHoldsNothing
  <2>3. CASE Pause(t)
    BY <2>1, <2>2, <2>3 DEF Pause, Reasons
  <2>4. CASE Cancel(t)
    BY <2>1, <2>2, <2>4 DEF Cancel, Reasons
  <2> QED BY <1>2, <2>1, <2>3, <2>4 DEF User, Enqueue, Resume, Restart, Requeue, Decide
<1>3. ASSUME NEW t \in Tasks, Loop(t)
      PROVE  Running' \subseteq Running /\ backoff' \subseteq Running \cup backoff
  <2>1. CASE LoopEnds(t)
    <3>1. RunEnds(t) /\ run[t] # "off" /\ backoff' \subseteq backoff \cup {t}
      BY <2>1 DEF LoopEnds, EndShutdown, EndPaused, EndStopped, EndRetry, EndFailed,
            EndThrown, EndCompleted, CanReturn, ReturnsResult
    <3>2. Running' = Running \ {t}
      BY <3>1, RunEndsFrame DEF Driven, DeadHoldsNothing
    <3> QED BY <3>1, <3>2 DEF Running
  <2>2. CASE ~LoopEnds(t)
    BY <1>3, <2>2 DEF Loop, OpenGate, LapseGate, ToolStart, ToolEnd, BackoffFires, Running
  <2> QED BY <2>1, <2>2
<1>4. CASE UNCHANGED vars
  BY <1>4 DEF vars, Running
<1> QED BY <1>1, <1>2, <1>3, <1>4 DEF Next, Process

\* A launch adds one task, which takeNext() found runnable under the cap.
LEMMA LaunchAdds ==
  ASSUME IInv, Launch
  PROVE  \E t \in Tasks \ Running :
           Running' = Running \cup {t} /\ Runnable(t) /\ CapFree /\ UNCHANGED backoff
<1>1. PICK i \in DOMAIN queue :
        IsNext(i) /\ run' = [run EXCEPT ![queue[i]] = "live"]
  BY DEF Launch
<1>2. queue[i] \in Tasks /\ queue[i] \in Queued
  BY DEF IInv, TypeOK, Queued, Elems
<1>3. queue[i] \notin Running
  BY <1>2 DEF IInv, Driven, OneDriver
<1>4. \A u \in Tasks : run'[u] = IF u = queue[i] THEN "live" ELSE run[u]
  BY <1>1, <1>2 DEF IInv, TypeOK
<1>5. Running' = Running \cup {queue[i]}
  BY <1>2, <1>4 DEF Running
<1>6. Runnable(queue[i]) /\ CapFree /\ UNCHANGED backoff
  BY <1>1 DEF IsNext, Launch
<1> QED BY <1>2, <1>3, <1>5, <1>6

\* A set stays within a cap when it shrinks, and when it grows by one below it.
LEMMA CapLemma ==
  ASSUME NEW S, IsFiniteSet(S), NEW cap \in Nat, Cardinality(S) <= cap
  PROVE  /\ \A T \in SUBSET S : Cardinality(T) <= cap
         /\ \A x : Cardinality(S) < cap => Cardinality(S \cup {x}) <= cap
<1>1. \A T \in SUBSET S : Cardinality(T) <= cap
  <2> SUFFICES ASSUME NEW T \in SUBSET S PROVE Cardinality(T) <= cap
    OBVIOUS
  <2>1. Cardinality(T) \in Nat /\ Cardinality(S) \in Nat /\ Cardinality(T) <= Cardinality(S)
    BY FS_Subset, FS_CardinalityType
  <2> QED BY <2>1
<1>2. ASSUME NEW x, Cardinality(S) < cap
      PROVE  Cardinality(S \cup {x}) <= cap
  <2>1. Cardinality(S) \in Nat
    BY FS_CardinalityType
  <2>2. Cardinality(S \cup {x}) \in {Cardinality(S), Cardinality(S) + 1}
    BY FS_AddElement
  <2> QED BY <1>2, <2>1, <2>2
<1> QED BY <1>1, <1>2

\* The lane and concurrency caps hold in every step.
LEMMA LanesStep == IInv /\ LanesHold /\ [Next]_vars => LanesHold'
<1> SUFFICES ASSUME IInv, LanesHold, [Next]_vars PROVE LanesHold'
  OBVIOUS
<1> DEFINE InLane(l) == {t \in Running : Lane[t] = l}
<1>0. /\ IsFiniteSet(Running) /\ Concurrency \in Nat
      /\ \A l \in Lanes : LaneSlots[l] \in Nat /\ IsFiniteSet(InLane(l))
  <2>1. IsFiniteSet(Tasks) /\ Running \subseteq Tasks
    BY ConstantsAssumption, FS_Interval DEF Tasks, Running
  <2>2. IsFiniteSet(Running)
    BY <2>1, FS_Subset
  <2>3. ASSUME NEW l \in Lanes PROVE IsFiniteSet(InLane(l))
    BY <2>2, FS_Subset
  <2> QED BY <2>2, <2>3, ConstantsAssumption
<1>1. CASE ~Launch
  <2>1. Running' \subseteq Running /\ \A l \in Lanes : InLane(l)' \subseteq InLane(l)
    BY <1>1, OnlyLaunchAdds
  <2>2. Cardinality(Running') <= Concurrency
    BY <1>0, <2>1, CapLemma DEF LanesHold
  <2>3. ASSUME NEW l \in Lanes
        PROVE  Cardinality(InLane(l)') <= LaneSlots[l]
    BY <1>0, <2>1, CapLemma DEF LanesHold
  <2> QED BY <2>2, <2>3 DEF LanesHold
<1>2. CASE Launch
  <2>1. PICK t \in Tasks : Running' = Running \cup {t} /\ Runnable(t) /\ CapFree
    BY <1>2, LaunchAdds
  <2>2. Cardinality(Running') <= Concurrency
    BY <1>0, <2>1, CapLemma DEF LanesHold, CapFree
  <2>3. ASSUME NEW l \in Lanes
        PROVE  Cardinality(InLane(l)') <= LaneSlots[l]
    <3>1. CASE Lane[t] = l
      <4>1. InLane(l)' = InLane(l) \cup {t}
        BY <2>1, <3>1
      <4>2. Cardinality(InLane(l)) < LaneSlots[l]
        BY <2>1, <3>1 DEF Runnable, LaneFree
      <4> QED BY <1>0, <4>1, <4>2, CapLemma DEF LanesHold
    <3>2. CASE Lane[t] # l
      <4>1. InLane(l)' = InLane(l)
        BY <2>1, <3>2
      <4> QED BY <4>1 DEF LanesHold
    <3> QED BY <3>1, <3>2
  <2> QED BY <2>2, <2>3 DEF LanesHold
<1> QED BY <1>1, <1>2

\* No lane takes more slots than it has, and all of them no more than the cap.
THEOREM LanesHoldTheorem == Spec => []LanesHold
<1>1. Init => LanesHold
  <2> SUFFICES ASSUME Init PROVE LanesHold
    OBVIOUS
  <2>1. Running = {} /\ \A l \in Lanes : {t \in Running : Lane[t] = l} = {}
    BY DEF Init, Running
  <2>2. Cardinality({}) = 0
    BY FS_EmptySet
  <2> QED BY <2>1, <2>2, ConstantsAssumption DEF LanesHold
<1> QED BY <1>1, LanesStep, SpecIInv, PTL DEF Spec

\* Two tasks of a conversation never run or back off together.
THEOREM OneTaskPerConversationTheorem == Spec => []OneTaskPerConversation
<1>1. Init => OneTaskPerConversation
  BY DEF Init, Running, OneTaskPerConversation
<1>2. IInv /\ OneTaskPerConversation /\ [Next]_vars => OneTaskPerConversation'
  <2> SUFFICES ASSUME IInv, OneTaskPerConversation, [Next]_vars
               PROVE  OneTaskPerConversation'
    OBVIOUS
  <2>1. CASE ~Launch
    BY <2>1, OnlyLaunchAdds DEF OneTaskPerConversation
  <2>2. CASE Launch
    <3>1. PICK t \in Tasks :
            Running' = Running \cup {t} /\ Runnable(t) /\ UNCHANGED backoff
      BY <2>2, LaunchAdds
    <3>2. \A u \in Running \cup backoff : Conv[u] # Conv[t]
      BY <3>1 DEF Runnable, BusyConvs
    <3> QED BY <3>1, <3>2 DEF OneTaskPerConversation
  <2> QED BY <2>1, <2>2
<1> QED BY <1>1, <1>2, SpecIInv, PTL DEF Spec

-----------------------------------------------------------------------------
(***************************************************************************)
(* The gate and its durable row.                                           *)
(***************************************************************************)
LEMMA GateStep ==
  ASSUME IInv, OpenGateHasRow, [Next]_vars
  PROVE  OpenGateHasRow'
<1> USE DEF IInv, TypeOK
<1>0. \A u \in Tasks : run[u] = "off" => gate[u].kind # "approval"
  BY DEF Driven, DeadHoldsNothing, NoGate
<1>1. CASE Boot
  <2>1. \A u \in Tasks : run'[u] = "off"
    BY <1>1 DEF Boot, Driven, DeadHoldsNothing, Running
  <2> QED BY <2>1 DEF OpenGateHasRow
<1>2. CASE PumpResume \/ PumpPark
  BY <1>2 DEF PumpResume, PumpPark, durable, OpenGateHasRow
<1>3. CASE Launch
  <2>1. PICK i \in DOMAIN queue : run' = [run EXCEPT ![queue[i]] = "live"]
    BY <1>3 DEF Launch
  <2>2. run[queue[i]] = "off"
    BY DEF Driven, OneDriver, Queued, Elems, Running
  <2>3. UNCHANGED <<gate, pending>> /\ \A u \in Tasks : run'[u] = "live" => run[u] \in {"live", "off"}
    BY <1>3, <2>1, <2>2 DEF Launch
  <2> QED BY <1>0, <2>3 DEF OpenGateHasRow
<1>4. CASE Stop \/ Crash
  BY <1>4 DEF Stop, Crash, durable, OpenGateHasRow
<1>5. ASSUME NEW t \in Tasks, User(t)
      PROVE  OpenGateHasRow'
  <2>1. ASSUME NEW reason \in Reasons, Abort(t, reason), UNCHANGED pending
        PROVE  OpenGateHasRow'
    BY <2>1 DEF Abort, Reasons, OpenGateHasRow, NoGate
  <2>2. CASE UNCHANGED <<run, gate, pending>>
    BY <2>2 DEF OpenGateHasRow
  <2>3. ASSUME NEW r \in 1..MaxAsks, Decide(t, r)
        PROVE  OpenGateHasRow'
    <3>1. /\ gate' = [gate EXCEPT ![t] = IF @.id = r THEN NoGate ELSE @]
          /\ pending' = [pending EXCEPT ![t] = pending[t] \ {r}] /\ run' = run
      BY <2>3 DEF Decide, Settled
    <3> QED BY <3>1 DEF OpenGateHasRow, NoGate
  <2>4. CASE Pause(t)
    BY <2>1, <2>2, <2>4 DEF Pause, Reasons
  <2>5. CASE Cancel(t)
    BY <2>1, <2>2, <2>5 DEF Cancel, Reasons
  <2> QED BY <1>5, <2>2, <2>3, <2>4, <2>5 DEF User, Enqueue, Resume, Restart, Requeue
<1>6. ASSUME NEW t \in Tasks, Loop(t)
      PROVE  OpenGateHasRow'
  <2>1. ASSUME NEW kind \in {"approval", "question"}, OpenGate(t, kind)
        PROVE  OpenGateHasRow'
    <3>1. /\ gate' = [gate EXCEPT ![t] = [kind |-> kind, id |-> asked[t] + 1]]
          /\ run' = run
          /\ kind = "approval" =>
               pending' = [pending EXCEPT ![t] = pending[t] \cup {asked[t] + 1}]
          /\ kind # "approval" => pending' = pending
      BY <2>1 DEF OpenGate
    <3>2. CASE kind = "approval"
      BY <3>1, <3>2 DEF OpenGateHasRow
    <3>3. CASE kind # "approval"
      BY <3>1, <3>3 DEF OpenGateHasRow
    <3> QED BY <3>2, <3>3
  <2>2. CASE LapseGate(t)
    BY <2>2 DEF LapseGate, durable, OpenGateHasRow, NoGate
  <2>3. CASE LoopEnds(t)
    <3>1. /\ RunEnds(t)
          /\ \A u \in Tasks : pending'[u] = pending[u] \/ u = t
      BY <2>3 DEF LoopEnds, EndShutdown, EndPaused, EndStopped, EndRetry, EndFailed,
            EndThrown, EndCompleted
    <3>2. \A u \in Tasks : u # t => run'[u] = run[u] /\ gate'[u] = gate[u]
      BY <3>1 DEF RunEnds
    <3>3. run'[t] = "off"
      BY <3>1 DEF RunEnds
    <3> QED BY <3>1, <3>2, <3>3 DEF OpenGateHasRow
  <2>4. CASE UNCHANGED <<run, gate, pending>>
    BY <2>4 DEF OpenGateHasRow
  <2> QED BY <1>6, <2>1, <2>2, <2>3, <2>4 DEF Loop, ToolStart, ToolEnd, BackoffFires, durable
<1>7. CASE UNCHANGED vars
  BY <1>7 DEF vars, OpenGateHasRow
<1> QED BY <1>1, <1>2, <1>3, <1>4, <1>5, <1>6, <1>7 DEF Next, Process

\* Whatever else is decided, the open gate of a live run keeps its pending row.
THEOREM OpenGateHasRowTheorem == Spec => []OpenGateHasRow
<1>1. Init => OpenGateHasRow
  BY DEF Init, OpenGateHasRow, NoGate
<1> QED BY <1>1, GateStep, SpecIInv, PTL DEF Spec

-----------------------------------------------------------------------------
(***************************************************************************)
(* The retry budget across crashes.  A task that runs has spent one launch *)
(* more than its attempts; a retry pays for it with an attempt, a crash    *)
(* with itself.                                                            *)
(***************************************************************************)
Waits(t) == app = "down" \/ t \in Queued \cup backoff \/ status[t] \in {"absent", "queued"}

RetryInv ==
  \A t \in Tasks :
    /\ launches[t] <= attempts[t] + crashes + 1
    /\ Waits(t) => launches[t] <= attempts[t] + crashes

\* RetryInv is preserved: per task, by what the step does to its launches.
LEMMA RetryStep ==
  ASSUME IInv, RetryInv, [Next]_vars
  PROVE  RetryInv'
<1> USE DEF IInv
<1>0. \A u \in Tasks : launches[u] \in Nat /\ attempts[u] \in Nat
  BY DEF TypeOK
<1>00. crashes \in Nat /\ queue \in Seq(Tasks) /\ NoRepeat(queue)
  BY DEF TypeOK, Driven, OneDriver
<1>tasks. Queued \cup Running \cup backoff \subseteq Tasks
  BY QueuedTasks
<1>same. ASSUME UNCHANGED <<launches, attempts, crashes>>,
                \A u \in Tasks : Waits(u)' => Waits(u)
         PROVE  RetryInv'
  BY <1>same DEF RetryInv
<1>1. CASE Boot
  BY <1>1, <1>same DEF Boot, Waits
<1>2. CASE PumpResume \/ PumpPark \/ Stop
  <2>1. UNCHANGED <<launches, attempts, crashes, status>> /\ Queued' = Queued
        /\ backoff' \subseteq backoff /\ (app' = "down" => app = "down")
    BY <1>2, <1>00, QueueSame DEF PumpResume, PumpPark, Stop, durable
  <2> QED BY <2>1, <1>same DEF Waits
<1>3. CASE Launch
  <2>1. /\ \A i \in DOMAIN queue : queue[i] \in Tasks
        /\ queue # <<>>
    BY <1>3, <1>00 DEF Launch
  <2>2. PICK t \in Tasks :
          /\ t \in Queued
          /\ queue' = Without(queue, t)
          /\ status' = [status EXCEPT ![t] = "running"]
          /\ launches' = [launches EXCEPT ![t] = @ + 1]
    BY <1>3, <2>1 DEF Launch, Queued, Elems
  <2>3. Queued' = Queued \ {t}
    BY <1>00, <2>2, QueueWithout
  <2>4. /\ \A u \in Tasks : launches'[u] = IF u = t THEN launches[u] + 1 ELSE launches[u]
        /\ \A u \in Tasks : status'[u] = IF u = t THEN "running" ELSE status[u]
    BY <2>2 DEF TypeOK
  <2>5. UNCHANGED <<attempts, crashes, backoff, app>> /\ app # "down"
    BY <1>3, <2>1 DEF Launch, Driven, DeadHoldsNothing
  <2>6. t \notin backoff
    BY <2>2 DEF Driven, OneDriver
  <2>7. ~Waits(t)' /\ Waits(t)
    BY <2>2, <2>3, <2>4, <2>5, <2>6 DEF Waits
  <2>8. \A u \in Tasks : u # t /\ Waits(u)' => Waits(u)
    BY <2>3, <2>4, <2>5 DEF Waits
  <2> QED BY <1>0, <1>00, <2>4, <2>5, <2>7, <2>8 DEF RetryInv
<1>4. CASE Crash
  BY <1>0, <1>00, <1>4 DEF Crash, durable, RetryInv
<1>5. ASSUME NEW t \in Tasks, User(t)
      PROVE  RetryInv'
  <2>1. CASE Enqueue(t)
    <3>1. Queued' = Queued \cup {t} /\ UNCHANGED <<launches, attempts, crashes, app, backoff>>
      BY <1>00, <2>1, AppendLemma DEF Enqueue, Queued, Elems
    <3>2. status[t] = "absent" /\ \A u \in Tasks : u # t => status'[u] = status[u]
      BY <2>1 DEF Enqueue, TypeOK
    <3>3. \A u \in Tasks : Waits(u)' => Waits(u)
      BY <3>1, <3>2 DEF Waits
    <3> QED BY <1>same, <3>1, <3>3
  <2>2. CASE Pause(t) \/ Cancel(t)
    <3>1. Queued' \subseteq Queued
      BY <1>00, <2>2, QueueWithout, QueueSame DEF Pause, Cancel
    <3>2. UNCHANGED <<launches, attempts, crashes, app>> /\ backoff' \subseteq backoff
      BY <2>2 DEF Pause, Cancel
    <3>3. \A u \in Tasks : status'[u] \in {status[u], "paused", "cancelled"}
      BY <2>2 DEF Pause, Cancel, TypeOK
    <3>4. \A u \in Tasks : Waits(u)' => Waits(u)
      BY <3>1, <3>2, <3>3 DEF Waits
    <3> QED BY <1>same, <3>2, <3>4
  <2>3. CASE Resume(t) \/ Restart(t)
    <3>1. Requeue(t)
      BY <2>3 DEF Resume, Restart
    <3>2. Queued' = Queued \cup {t}
      BY <1>00, <3>1, QueuePush DEF Requeue
    <3>3. /\ \A u \in Tasks : launches'[u] = IF u = t THEN 0 ELSE launches[u]
          /\ \A u \in Tasks : attempts'[u] = IF u = t THEN 0 ELSE attempts[u]
          /\ \A u \in Tasks : u # t => status'[u] = status[u]
          /\ UNCHANGED <<crashes, app, backoff>>
      BY <3>1 DEF Requeue, TypeOK
    <3>4. \A u \in Tasks : u # t /\ Waits(u)' => Waits(u)
      BY <3>2, <3>3 DEF Waits
    <3> QED BY <1>0, <1>00, <3>3, <3>4 DEF RetryInv
  <2>4. ASSUME NEW r \in 1..MaxAsks, Decide(t, r)
        PROVE  RetryInv'
    <3>1. UNCHANGED <<launches, attempts, crashes, app, backoff>> /\ Queued' = Queued
      BY <1>00, <2>4, QueueSame DEF Decide
    <3>2. \A u \in Tasks : status'[u] \in {status[u], "running"}
      BY <2>4 DEF Decide, MarkRunning, TypeOK
    <3>3. \A u \in Tasks : Waits(u)' => Waits(u)
      BY <3>1, <3>2 DEF Waits
    <3> QED BY <1>same, <3>1, <3>3
  <2> QED BY <1>5, <2>1, <2>2, <2>3, <2>4 DEF User
<1>6. ASSUME NEW t \in Tasks, Loop(t)
      PROVE  RetryInv'
  <2>1. CASE EndRetry(t)
    <3>1. /\ UNCHANGED <<launches, status, crashes, app>> /\ Queued' = Queued
          /\ backoff' = backoff \cup {t}
      BY <1>00, <2>1, QueueSame DEF EndRetry
    <3>2. \A u \in Tasks : attempts'[u] = IF u = t THEN attempts[u] + 1 ELSE attempts[u]
      BY <2>1 DEF EndRetry, TypeOK
    <3>3. \A u \in Tasks : u # t /\ Waits(u)' => Waits(u)
      BY <3>1 DEF Waits
    <3> QED BY <1>0, <1>00, <3>1, <3>2, <3>3 DEF RetryInv
  <2>2. CASE BackoffFires(t)
    <3>1. /\ UNCHANGED <<launches, attempts, status, crashes, app>> /\ t \in backoff
          /\ queue' = PushOnce(queue, t) /\ backoff' = backoff \ {t}
      BY <2>2 DEF BackoffFires, durable
    <3>2. Queued' = Queued \cup {t}
      BY <1>00, <3>1, QueuePush
    <3>3. \A u \in Tasks : Waits(u)' => Waits(u)
      BY <3>1, <3>2 DEF Waits
    <3> QED BY <1>same, <3>1, <3>3
  <2>3. CASE ~EndRetry(t) /\ ~BackoffFires(t)
    <3>1. UNCHANGED <<launches, attempts, crashes, app, backoff, queue>>
      BY <1>6, <2>3 DEF Loop, OpenGate, LapseGate, ToolStart, ToolEnd, LoopEnds,
            EndShutdown, EndPaused, EndStopped, EndFailed, EndThrown, EndCompleted, durable
    <3>2. \A u \in Tasks : status'[u] \in {"absent", "queued"} => status'[u] = status[u]
      BY <1>6, <2>3 DEF Loop, OpenGate, LapseGate, ToolStart, ToolEnd, LoopEnds,
            EndShutdown, EndPaused, EndStopped, EndFailed, EndThrown, EndCompleted,
            durable, TypeOK
    <3>3. Queued' = Queued
      BY <1>00, <3>1, QueueSame
    <3>4. \A u \in Tasks : Waits(u)' => Waits(u)
      BY <3>1, <3>2, <3>3 DEF Waits
    <3> QED BY <1>same, <3>1, <3>4
  <2> QED BY <2>1, <2>2, <2>3
<1>7. CASE UNCHANGED vars
  BY <1>7 DEF vars, RetryInv, Waits, Queued, Elems
<1> QED BY <1>1, <1>2, <1>3, <1>4, <1>5, <1>6, <1>7 DEF Next, Process

\* Between two user-driven starts a task runs at most MaxAttempts times, plus
\* once per crash it was recovered from.
THEOREM RetriesBoundedTheorem == Spec => []RetriesBounded
<1>1. Init => RetryInv
  BY DEF Init, RetryInv
<1>2. IInv /\ RetryInv => RetriesBounded
  <2> SUFFICES ASSUME IInv, RetryInv, NEW t \in Tasks
               PROVE  launches[t] <= MaxAttempts + crashes
    BY DEF RetriesBounded
  <2>1. /\ launches[t] \in Nat /\ attempts[t] \in 0..(MaxAttempts - 1)
        /\ crashes \in Nat /\ MaxAttempts \in Nat
    BY ConstantsAssumption DEF IInv, TypeOK
  <2> QED BY <2>1 DEF RetryInv
<1> QED BY <1>1, <1>2, RetryStep, SpecIInv, PTL DEF Spec

-----------------------------------------------------------------------------
(***************************************************************************)
(* The sleep of the pump.  A handler either wakes it, or adds nothing to   *)
(* the queue and frees no slot and nobody's conversation but the sibling's. *)
(***************************************************************************)
LEMMA WakeupWakes == Wakeup => pump' # "parked"
BY DEF Wakeup

\* While the pump sleeps, runs stay, the queue shrinks, and a timer that is
\* cleared was of a task that is not queued.
LEMMA SleepFrame ==
  ASSUME PumpNeverOversleeps, app = "up", pump = "parked",
         Running' = Running, Queued' \subseteq Queued,
         \A u \in backoff \ backoff' : u \notin Queued',
         Running \cup backoff \subseteq Tasks
  PROVE  PumpNeverOversleeps'
<1> SUFFICES ASSUME CapFree', NEW t \in Queued', Runnable(t)',
                    \A u \in Tasks \ {t} : Conv[u] # Conv[t]
             PROVE  FALSE
  BY DEF PumpNeverOversleeps
<1>1. CapFree /\ LaneFree(Lane[t])
  BY DEF CapFree, Runnable, LaneFree
<1>2. t \notin Running \cup backoff
  BY DEF Runnable, BusyConvs
<1>3. Conv[t] \notin BusyConvs
  BY <1>2 DEF BusyConvs
<1> QED
  BY <1>1, <1>3 DEF PumpNeverOversleeps, Runnable

\* Every handler keeps it.
LEMMA SleepStep == IInv /\ PumpNeverOversleeps /\ [Next]_vars => PumpNeverOversleeps'
<1> SUFFICES ASSUME IInv, PumpNeverOversleeps, [Next]_vars, app' = "up", pump' = "parked"
             PROVE  PumpNeverOversleeps'
  BY DEF PumpNeverOversleeps
<1> USE DEF IInv, Driven
<1>0. /\ queue \in Seq(Tasks) /\ NoRepeat(queue)
      /\ Running \cup backoff \subseteq Tasks
  BY QueuedTasks DEF OneDriver, TypeOK
<1>1. CASE Process
  <2>1. CASE PumpPark
    <3>1. ~HasWork /\ UNCHANGED <<queue, run, backoff>>
      BY <2>1 DEF PumpPark
    <3>2. Running' = Running /\ Queued' = Queued
      BY <3>1 DEF Running, Queued
    <3>3. CapFree' <=> CapFree
      BY <3>2 DEF CapFree
    <3>4. ASSUME NEW t \in Queued, CapFree PROVE ~Runnable(t)'
      <4>1. ~Runnable(t)
        BY <3>1, <3>4 DEF HasWork, Queued, Elems
      <4>2. BusyConvs' = BusyConvs
        BY <3>1, <3>2 DEF BusyConvs
      <4>3. LaneFree(Lane[t])' <=> LaneFree(Lane[t])
        BY <3>2 DEF LaneFree
      <4> QED BY <4>1, <4>2, <4>3 DEF Runnable
    <3> QED
      BY <3>2, <3>3, <3>4 DEF PumpNeverOversleeps
  <2> QED BY <1>1, <2>1 DEF Process, Boot, PumpResume, Launch, Stop, Crash
<1>2. ASSUME NEW t \in Tasks, User(t)
      PROVE  PumpNeverOversleeps'
  <2>1. CASE Enqueue(t) \/ Resume(t) \/ Restart(t)
    BY <2>1, WakeupWakes DEF Enqueue, Resume, Restart, Requeue
  <2>2. ASSUME Pause(t) \/ Cancel(t)
        PROVE  PumpNeverOversleeps'
    <3>1. app = "up" /\ pump = "parked"
      BY <2>2 DEF Pause, Cancel, Idle, NoWakeup
    <3>2. Running' = Running
      <4>1. CASE UNCHANGED run
        BY <4>1 DEF Running
      <4>2. CASE Abort(t, "pause") \/ Abort(t, "cancel")
        BY <4>2, AbortFrame DEF DeadHoldsNothing, Reasons
      <4> QED BY <2>2, <4>1, <4>2 DEF Pause, Cancel
    <3>3. \/ UNCHANGED <<queue, backoff>>
          \/ queue' = Without(queue, t) /\ backoff' = backoff \ {t}
      BY <2>2 DEF Pause, Cancel
    <3>4. Queued' \subseteq Queued /\ \A u \in backoff \ backoff' : u \notin Queued'
      BY <1>0, <3>3, QueueSame, QueueWithout
    <3> QED BY <1>0, <3>1, <3>2, <3>4, SleepFrame
  <2>3. ASSUME NEW r \in 1..MaxAsks, Decide(t, r)
        PROVE  PumpNeverOversleeps'
    <3>1. app = "up" /\ pump = "parked" /\ UNCHANGED <<run, queue, backoff>>
      BY <2>3 DEF Decide, Idle, NoWakeup
    <3> QED BY <1>0, <3>1, SleepFrame DEF Running, Queued
  <2> QED BY <1>2, <2>1, <2>2, <2>3 DEF User
<1>3. ASSUME NEW t \in Tasks, Loop(t)
      PROVE  PumpNeverOversleeps'
  <2>1. CASE LoopEnds(t) \/ BackoffFires(t)
    BY <2>1, WakeupWakes DEF LoopEnds, EndShutdown, EndPaused, EndStopped, EndRetry, EndFailed,
       EndThrown, EndCompleted, RunEnds, BackoffFires
  <2>2. CASE ~(LoopEnds(t) \/ BackoffFires(t))
    <3>1. app = "up" /\ pump = "parked" /\ UNCHANGED <<run, queue, backoff>>
      BY <1>3, <2>2 DEF Loop, OpenGate, LapseGate, ToolStart, ToolEnd, Idle, NoWakeup
    <3> QED BY <1>0, <3>1, SleepFrame DEF Running, Queued
  <2> QED BY <2>1, <2>2
<1>4. CASE UNCHANGED vars
  <2>1. app = "up" /\ pump = "parked" /\ UNCHANGED <<run, queue, backoff>>
    BY <1>4 DEF vars
  <2> QED BY <1>0, <2>1, SleepFrame DEF Running, Queued
<1> QED BY <1>1, <1>2, <1>3, <1>4 DEF Next

\* No wakeup is lost: while the pump sleeps below the cap, every task it could
\* launch shares its conversation with another.
THEOREM PumpNeverOversleepsTheorem == Spec => []PumpNeverOversleeps
<1>1. Init => PumpNeverOversleeps
  BY DEF Init, PumpNeverOversleeps
<1> QED BY <1>1, SleepStep, SpecIInv, PTL DEF Spec

-----------------------------------------------------------------------------
(***************************************************************************)
(* A quit.  Once the runner stopped, nothing launches and every run it     *)
(* aborted is a shutdown, unless the user had aborted it before.           *)
(***************************************************************************)
Stopped ==
  /\ pump = "draining" => app = "up"
  /\ app = "stopping" => \A t \in Tasks : run[t] # "live"

\* Stopped is inductive.
LEMMA StoppedStep ==
  ASSUME IInv, Stopped, [Next]_vars
  PROVE  Stopped'
<1> USE DEF IInv, TypeOK, Stopped
<1>1. CASE Process
  BY <1>1 DEF Process, Boot, PumpResume, Launch, PumpPark, Stop, Crash, Wakeup, Idle
<1>2. ASSUME NEW t \in Tasks, User(t)
      PROVE  Stopped'
  BY <1>2 DEF User, Enqueue, Pause, Cancel, Resume, Restart, Requeue, Decide, Idle,
     Wakeup, NoWakeup
<1>3. ASSUME NEW t \in Tasks, LoopEnds(t)
      PROVE  Stopped'
  <2>1. RunEnds(t) /\ UNCHANGED app /\ pump # "draining"
    BY <1>3 DEF LoopEnds, EndShutdown, EndPaused, EndStopped, EndRetry, EndFailed,
          EndThrown, EndCompleted, CanReturn, ReturnsResult
  <2>2. pump' # "draining" /\ \A u \in Tasks : run'[u] \in {run[u], "off"}
    BY <2>1 DEF RunEnds, Wakeup
  <2> QED BY <2>1, <2>2
<1>4. ASSUME NEW t \in Tasks, Loop(t), ~LoopEnds(t)
      PROVE  Stopped'
  BY <1>4 DEF Loop, OpenGate, LapseGate, ToolStart, ToolEnd, BackoffFires, Idle,
     Wakeup, NoWakeup
<1>5. CASE UNCHANGED vars
  BY <1>5 DEF vars
<1> QED BY <1>1, <1>2, <1>3, <1>4, <1>5 DEF Next

\* A quit settles no row: runOne() returns early for a shutdown.
THEOREM QuitSettlesNothingTheorem == Spec => QuitSettlesNothing
<1> DEFINE Quiet ==
      \A t \in Tasks : app = "stopping" /\ run[t] \notin {"pause", "cancel"}
                         => status'[t] = status[t]
<1>1. Init => Stopped
  BY DEF Init, Stopped
<1>2. IInv /\ Stopped /\ [Next]_vars => [Quiet]_vars
  <2> SUFFICES ASSUME IInv, Stopped, Next, app = "stopping", NEW t \in Tasks,
                      run[t] \notin {"pause", "cancel"}
               PROVE  status'[t] = status[t]
    BY DEF Quiet
  <2> USE DEF IInv, TypeOK, Stopped
  <2>1. CASE Process
    BY <2>1 DEF Process, Boot, PumpResume, Launch, PumpPark, Stop, Crash, Idle, durable
  <2>2. ASSUME NEW u \in Tasks, User(u)
        PROVE  status'[t] = status[t]
    BY <2>2 DEF User, Enqueue, Pause, Cancel, Resume, Restart, Decide, Idle
  <2>3. ASSUME NEW u \in Tasks, Loop(u)
        PROVE  status'[t] = status[t]
    <3>1. CASE u = t
      BY <2>3, <3>1 DEF Loop, OpenGate, LapseGate, ToolStart, ToolEnd, BackoffFires,
         LoopEnds, EndShutdown, EndPaused, EndStopped, EndRetry, EndFailed, EndThrown,
         EndCompleted, CanReturn, ReturnsResult, Idle, durable
    <3>2. CASE u # t
      BY <2>3, <3>2 DEF Loop, OpenGate, LapseGate, ToolStart, ToolEnd, BackoffFires,
         LoopEnds, EndShutdown, EndPaused, EndStopped, EndRetry, EndFailed, EndThrown,
         EndCompleted, Idle, durable
    <3> QED BY <3>1, <3>2
  <2> QED BY <2>1, <2>2, <2>3 DEF Next
<1> QED BY <1>1, <1>2, StoppedStep, SpecIInv, PTL DEF Spec, QuitSettlesNothing
=============================================================================
