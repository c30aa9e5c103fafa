----------------------------- MODULE TaskRunner -----------------------------
(***************************************************************************)
(* The durable task runner of src/main/tasks/runner.ts: task rows in the   *)
(* database, a FIFO queue with lanes drained by one pump, runs that stop   *)
(* at approval gates, retries with backoff, pause, cancel, resume,         *)
(* restart, and the crash or quit of the process followed by a new boot.   *)
(*                                                                         *)
(* JavaScript runs one handler at a time: every action is one handler up   *)
(* to its next await.  The one handler of several steps is the pump, whose *)
(* inner loop launches a task per step; while it drains, nothing else runs *)
(* (pump = "draining" disables every other action).                        *)
(*                                                                         *)
(* Tasks are numbered in the order their rows are created (created_at), so *)
(* the kind of a task is a constant of its number.                         *)
(***************************************************************************)
EXTENDS Integers, FiniteSets, Sequences

CONSTANTS
  N,            \* how many task rows are ever created
  Conv,         \* the worker conversation of a task
  Lane,         \* the lane of a task's kind
  LaneSlots,    \* how many tasks of a lane may run at once
  Concurrency,  \* the cap across lanes
  MaxAttempts,  \* runs per retry budget (BackoffConfig.maxAttempts)
  Agents,       \* tasks of a kind without an executor: agent turns
  AutoResume,   \* tasks of a kind that resumes by itself at boot
  MaxAsks,      \* bound: gates one task ever opens
  MaxCrashes,   \* bound: how often the process dies
  MaxResets     \* bound: how often the user resumes or restarts

Tasks == 1..N
Lanes == DOMAIN LaneSlots

ASSUME ConstantsAssumption ==
  /\ N \in Nat
  /\ DOMAIN Conv = Tasks
  /\ Lane \in [Tasks -> Lanes]
  /\ LaneSlots \in [Lanes -> Nat]
  /\ Concurrency \in Nat
  /\ MaxAttempts \in Nat \ {0}
  /\ Agents \subseteq Tasks
  /\ AutoResume \subseteq Tasks
  /\ MaxAsks \in Nat /\ MaxCrashes \in Nat /\ MaxResets \in Nat

Statuses == {"queued", "running", "waiting_for_approval", "paused",
             "cancelled", "completed", "failed", "interrupted"}
Terminal == {"cancelled", "completed"}
\* Why a run was aborted: AbortController keeps the first reason it was given.
Reasons  == {"pause", "cancel", "shutdown"}
NoGate   == [kind |-> "none", id |-> 0]
Gates    == {NoGate} \cup [kind : {"approval", "question"}, id : 1..MaxAsks]

VARIABLES
  \* durable
  status,      \* tasks.status, "absent" before the row exists
  attempts,    \* "attempt" events since the last "retry_budget_reset"
  pending,     \* request ids of the task's `pending` approvals rows
  effect,      \* side-effecting tool call: "none", "started" or "unknown"
  asked,       \* how many gates the task has opened: its last request id
  \* the process
  app,         \* "down", "up" or "stopping" (stop() ran)
  pump,        \* "off", "parked", "woken" or "draining"
  wakeQueued,  \* a wakeup that found no parked pump
  queue,       \* pending task ids
  run,         \* "off", or a task in `running`: "live" or the abort reason
  gate,        \* the in-memory gate the task's loop awaits
  backoff,     \* tasks with a retry timer
  \* history
  launches,    \* runs since the last user-driven start of the task
  crashes,
  resets

durable == <<status, attempts, pending, effect, asked>>
vars == <<status, attempts, pending, effect, asked, app, pump, wakeQueued,
          queue, run, gate, backoff, launches, crashes, resets>>

-----------------------------------------------------------------------------
Elems(q) == {q[i] : i \in DOMAIN q}
NoRepeat(q) == \A i, j \in DOMAIN q : q[i] = q[j] => i = j

Queued == Elems(queue)
Running == {t \in Tasks : run[t] # "off"}
Aborted(t) == run[t] \in Reasons
Rows == {t \in Tasks : status[t] # "absent"}

\* A handler may start: the process runs and the pump is not mid-drain.
Idle == app = "up" /\ pump # "draining"

\* queue.filter(id => id # t), for a queue that holds an id at most once.
Without(q, t) ==
  IF t \in Elems(q)
  THEN LET i == CHOOSE i \in DOMAIN q : q[i] = t
       IN  SubSeq(q, 1, i - 1) \o SubSeq(q, i + 1, Len(q))
  ELSE q

\* if (!queue.includes(t)) queue.push(t)
PushOnce(q, t) ==
  IF t \in Elems(q) THEN q ELSE Append(q, t)

\* wakeup(): wake the parked pump, or remember the wake.
Wakeup ==
  IF pump = "parked"
  THEN pump' = "woken" /\ UNCHANGED wakeQueued
  ELSE wakeQueued' = TRUE /\ UNCHANGED pump

NoWakeup == UNCHANGED <<pump, wakeQueued>>

-----------------------------------------------------------------------------
\* takeNext(): a conversation with a running or backing-off task is busy.
MutBusyConvs == {Conv[t] : t \in Running}
BusyConvs == {Conv[t] : t \in Running \cup backoff}

MutOneLane(l) == Cardinality(Running) < LaneSlots[l]
LaneFree(l) == Cardinality({t \in Running : Lane[t] = l}) < LaneSlots[l]

Runnable(t) == Conv[t] \notin BusyConvs /\ LaneFree(Lane[t])

CapFree == Cardinality(Running) < Concurrency

\* The position takeNext() picks: the first runnable one.
IsNext(i) == /\ Runnable(queue[i])
             /\ \A j \in DOMAIN queue : j < i => ~Runnable(queue[j])

HasWork == CapFree /\ \E i \in DOMAIN queue : Runnable(queue[i])

-----------------------------------------------------------------------------
\* Rows may wait from an earlier session: a process starts with any of them.
Init ==
  /\ \E n \in 0..N : status = [t \in Tasks |-> IF t <= n THEN "queued" ELSE "absent"]
  /\ attempts = [t \in Tasks |-> 0]
  /\ pending = [t \in Tasks |-> {}]
  /\ effect = [t \in Tasks |-> "none"]
  /\ asked = [t \in Tasks |-> 0]
  /\ app = "down" /\ pump = "off" /\ wakeQueued = FALSE
  /\ queue = <<>> /\ backoff = {}
  /\ run = [t \in Tasks |-> "off"]
  /\ gate = [t \in Tasks |-> NoGate]
  /\ launches = [t \in Tasks |-> 0]
  /\ crashes = 0 /\ resets = 0

(***************************************************************************)
(* start(): reconcile() the rows a dead process left mid-flight, seed() the *)
(* queue with the queued rows, oldest first, and start the pump.           *)
(***************************************************************************)
Resumable(t) == t \in AutoResume /\ effect[t] = "none"

Reconciled(t) ==
  IF status[t] \in {"running", "waiting_for_approval"}
  THEN IF Resumable(t) THEN "queued" ELSE "interrupted"
  ELSE status[t]

\* The rows seed() finds, after reconcile() requeued some.
Seeds == {t \in Tasks : Reconciled(t) = "queued"}

\* The increasing sequence of the elements of S: listTasks(..).reverse().
OldestFirst(S) ==
  {q \in [1..Cardinality(S) -> S] :
     /\ \A i, j \in DOMAIN q : i < j => q[i] < q[j]
     /\ Elems(q) = S}

Boot ==
  /\ app = "down"
  /\ app' = "up" /\ pump' = "draining"
  /\ status' = [t \in Tasks |-> Reconciled(t)]
  /\ pending' = [t \in Tasks |->
                   IF status[t] = "waiting_for_approval" THEN {} ELSE pending[t]]
  /\ queue' \in OldestFirst(Seeds)
  /\ UNCHANGED <<attempts, effect, asked, wakeQueued, run, gate, backoff,
                 launches, crashes, resets>>

\* enqueue() / enqueueKind(): the row of a new task, in a conversation forked
\* for it, and its place in the queue.
Enqueue(t) ==
  /\ Idle
  /\ status[t] = "absent" /\ \A u \in Tasks : u < t => status[u] # "absent"
  /\ \A u \in Rows : Conv[u] # Conv[t]
  /\ status' = [status EXCEPT ![t] = "queued"]
  /\ queue' = Append(queue, t)
  /\ Wakeup
  /\ UNCHANGED <<attempts, pending, effect, asked, app, run, gate, backoff,
                 launches, crashes, resets>>

-----------------------------------------------------------------------------
\* The parked pump was woken; its loop ends when the runner was stopped.
PumpResume ==
  /\ pump = "woken"
  /\ pump' = IF app = "up" THEN "draining" ELSE "off"
  /\ UNCHANGED <<durable, app, wakeQueued, queue, run, gate, backoff, launches,
                 crashes, resets>>

\* One round of the pump's inner loop: takeNext() and runOne() up to its await.
Launch ==
  /\ pump = "draining" /\ CapFree
  /\ \E i \in DOMAIN queue :
       LET t == queue[i] IN
       /\ IsNext(i)
       /\ queue' = Without(queue, t)
       /\ run' = [run EXCEPT ![t] = "live"]
       /\ status' = [status EXCEPT ![t] = "running"]
       /\ launches' = [launches EXCEPT ![t] = @ + 1]
  /\ UNCHANGED <<attempts, pending, effect, asked, app, pump, wakeQueued, gate,
                 backoff, crashes, resets>>

\* Nothing more to launch: go round again for a remembered wake, else sleep.
PumpPark ==
  /\ pump = "draining" /\ ~HasWork
  /\ IF wakeQueued
     THEN wakeQueued' = FALSE /\ UNCHANGED pump
     ELSE pump' = "parked" /\ UNCHANGED wakeQueued
  /\ UNCHANGED <<durable, app, queue, run, gate, backoff, launches, crashes,
                 resets>>

-----------------------------------------------------------------------------
\* The loop of an agent task reaches a gate: an approval writes its row.
OpenGate(t, kind) ==
  /\ Idle /\ t \in Agents
  /\ run[t] = "live" /\ gate[t] = NoGate /\ effect[t] = "none"
  /\ asked[t] < MaxAsks
  /\ asked' = [asked EXCEPT ![t] = @ + 1]
  /\ gate' = [gate EXCEPT ![t] = [kind |-> kind, id |-> asked[t] + 1]]
  /\ pending' = IF kind = "approval"
                THEN [pending EXCEPT ![t] = @ \cup {asked[t] + 1}] ELSE pending
  /\ status' = [status EXCEPT ![t] = "waiting_for_approval"]
  /\ NoWakeup
  /\ UNCHANGED <<attempts, effect, app, queue, run, backoff, launches, crashes,
                 resets>>

\* settleApprovals(taskId, .., requestId): only the row of that request.
MutSettled(t, r) == {}
Settled(t, r) == pending[t] \ {r}

\* markRunning(): only a waiting row moves.
MarkRunning(t) ==
  status' = [status EXCEPT ![t] = IF @ = "waiting_for_approval" THEN "running" ELSE @]

\* task:approve, task:deny and task:answer for a request the panel shows, the
\* open one or a stale one: release the gate that has this id, settle its row
\* and reflect it in the status.
Decide(t, r) ==
  /\ Idle /\ r <= asked[t]
  /\ gate' = [gate EXCEPT ![t] = IF @.id = r THEN NoGate ELSE @]
  /\ pending' = [pending EXCEPT ![t] = Settled(t, r)]
  /\ MarkRunning(t)
  /\ NoWakeup
  /\ UNCHANGED <<attempts, effect, asked, app, queue, run, backoff, launches,
                 crashes, resets>>

\* A gate ends without the user: a child's approval timed out, or its child
\* was stopped.  Nobody tells the runner.
LapseGate(t) ==
  /\ Idle /\ gate[t] # NoGate
  /\ gate' = [gate EXCEPT ![t] = NoGate]
  /\ NoWakeup
  /\ UNCHANGED <<durable, app, queue, run, backoff, launches, crashes, resets>>

\* A side-effecting tool call of the loop starts, and settles or loses its
\* outcome (deadline).
ToolStart(t) ==
  /\ Idle /\ t \in Agents
  /\ run[t] = "live" /\ gate[t] = NoGate /\ effect[t] = "none"
  /\ effect' = [effect EXCEPT ![t] = "started"]
  /\ NoWakeup
  /\ UNCHANGED <<status, attempts, pending, asked, app, queue, run, gate,
                 backoff, launches, crashes, resets>>

ToolEnd(t, outcome) ==
  /\ Idle /\ effect[t] = "started" /\ run[t] = "live"
  /\ effect' = [effect EXCEPT ![t] = outcome]
  /\ NoWakeup
  /\ UNCHANGED <<status, attempts, pending, asked, app, queue, run, gate,
                 backoff, launches, crashes, resets>>

-----------------------------------------------------------------------------
(***************************************************************************)
(* The end of runOne.  The result of the loop was decided before an await  *)
(* (its cleanup), so an abort may come after it: a run aborted late still  *)
(* returns content or an error.                                            *)
(***************************************************************************)
CanReturn(t) ==
  /\ app # "down" /\ pump # "draining"
  /\ run[t] # "off"
  /\ gate[t] = NoGate \/ run[t] = "shutdown"
  /\ effect[t] = "started" => Aborted(t)

\* finally { running.delete; inflight.delete; wakeup() }.  A call the abort cut
\* off keeps an unknown outcome.
MutRunEnds(t) ==
  /\ run' = [run EXCEPT ![t] = "off"]
  /\ gate' = [gate EXCEPT ![t] = NoGate]
  /\ effect' = [effect EXCEPT ![t] = IF @ = "started" THEN "unknown" ELSE @]
  /\ NoWakeup
RunEnds(t) ==
  /\ run' = [run EXCEPT ![t] = "off"]
  /\ gate' = [gate EXCEPT ![t] = NoGate]
  /\ effect' = [effect EXCEPT ![t] = IF @ = "started" THEN "unknown" ELSE @]
  /\ Wakeup

\* A quit leaves the row for the next boot.
EndShutdown(t) ==
  /\ CanReturn(t) /\ run[t] = "shutdown"
  /\ RunEnds(t)
  /\ UNCHANGED <<status, attempts, pending, asked, app, queue, backoff,
                 launches, crashes, resets>>

\* A paused run settles to paused whatever it returned.
EndPaused(t) ==
  /\ CanReturn(t) /\ run[t] = "pause"
  /\ RunEnds(t)
  /\ status' = [status EXCEPT ![t] = "paused"]
  /\ UNCHANGED <<attempts, pending, asked, app, queue, backoff, launches,
                 crashes, resets>>

\* {stopped: true}: only an aborted loop returns it.
MutEndStopped(t) ==
  /\ CanReturn(t) /\ run[t] \in {"cancel", "shutdown"}
  /\ RunEnds(t)
  /\ status' = [status EXCEPT ![t] = "cancelled"]
  /\ pending' = [pending EXCEPT ![t] = {}]
  /\ UNCHANGED <<attempts, asked, app, queue, backoff, launches, crashes, resets>>
EndStopped(t) ==
  /\ CanReturn(t) /\ run[t] = "cancel"
  /\ RunEnds(t)
  /\ status' = [status EXCEPT ![t] = "cancelled"]
  /\ pending' = [pending EXCEPT ![t] = {}]
  /\ UNCHANGED <<attempts, asked, app, queue, backoff, launches, crashes, resets>>

\* The result of a run nobody aborted, or aborted after its result was decided.
ReturnsResult(t) == CanReturn(t) /\ run[t] \in {"live", "cancel"} /\ gate[t] = NoGate

MutRetryLeft(t) == attempts[t] < MaxAttempts
RetryLeft(t) == attempts[t] + 1 < MaxAttempts

\* settleError(.., retryable = true) with budget left: the row stays as it is.
EndRetry(t) ==
  /\ ReturnsResult(t) /\ effect[t] = "none" /\ RetryLeft(t)
  /\ RunEnds(t)
  /\ attempts' = [attempts EXCEPT ![t] = @ + 1]
  /\ backoff' = backoff \cup {t}
  /\ UNCHANGED <<status, pending, asked, app, queue, launches, crashes, resets>>

\* settleError() without a retry: a deterministic error, a blocked handoff, an
\* unknown tool outcome, or the last attempt.
EndFailed(t) ==
  /\ ReturnsResult(t)
  /\ RunEnds(t)
  /\ status' = [status EXCEPT ![t] = "failed"]
  /\ UNCHANGED <<attempts, pending, asked, app, queue, backoff, launches,
                 crashes, resets>>

\* An unexpected throw, e.g. of the handoff parser: pending rows are swept.
EndThrown(t) ==
  /\ ReturnsResult(t) /\ effect[t] = "none"
  /\ RunEnds(t)
  /\ status' = [status EXCEPT ![t] = "failed"]
  /\ pending' = [pending EXCEPT ![t] = {}]
  /\ UNCHANGED <<attempts, asked, app, queue, backoff, launches, crashes, resets>>

EndCompleted(t) ==
  /\ ReturnsResult(t) /\ effect[t] = "none"
  /\ RunEnds(t)
  /\ status' = [status EXCEPT ![t] = "completed"]
  /\ UNCHANGED <<attempts, pending, asked, app, queue, backoff, launches,
                 crashes, resets>>

\* The retry timer of settleError.
BackoffFires(t) ==
  /\ Idle /\ t \in backoff
  /\ backoff' = backoff \ {t}
  /\ queue' = PushOnce(queue, t)
  /\ Wakeup
  /\ UNCHANGED <<durable, app, run, gate, launches, crashes, resets>>

-----------------------------------------------------------------------------
\* controller.abort(reason): the first reason stays; a user's abort denies the
\* gate the loop is parked on.
MutAbort(t, reason) ==
  /\ run' = [run EXCEPT ![t] = IF @ = "live" THEN reason ELSE @]
  /\ UNCHANGED gate
Abort(t, reason) ==
  /\ run' = [run EXCEPT ![t] = IF @ = "live" THEN reason ELSE @]
  /\ gate' = [gate EXCEPT ![t] = NoGate]

\* pause(): abort a running task; else clear its timer, drop it from the queue
\* and mark its row.
MutPause(t) ==
  /\ Idle
  /\ IF t \in Running
     THEN Abort(t, "pause") /\ UNCHANGED <<status, queue>>
     ELSE /\ queue' = Without(queue, t)
          /\ status' = [status EXCEPT ![t] =
                          IF @ \in {"queued", "running"} THEN "paused" ELSE @]
          /\ UNCHANGED <<run, gate>>
  /\ NoWakeup
  /\ UNCHANGED <<attempts, pending, effect, asked, app, backoff, launches,
                 crashes, resets>>
Pause(t) ==
  /\ Idle
  /\ IF t \in Running
     THEN Abort(t, "pause") /\ UNCHANGED <<status, queue, backoff>>
     ELSE /\ backoff' = backoff \ {t}
          /\ queue' = Without(queue, t)
          /\ status' = [status EXCEPT ![t] =
                          IF @ \in {"queued", "running"} THEN "paused" ELSE @]
          /\ UNCHANGED <<run, gate>>
  /\ NoWakeup
  /\ UNCHANGED <<attempts, pending, effect, asked, app, launches, crashes, resets>>

\* cancel(): a backing-off task settles at once, a running one is aborted, a
\* pending row is marked.
Cancel(t) ==
  /\ Idle
  /\ queue' = Without(queue, t)
  /\ backoff' = backoff \ {t}
  /\ IF t \in Running
     THEN Abort(t, "cancel") /\ UNCHANGED status
     ELSE /\ UNCHANGED <<run, gate>>
          /\ status' = [status EXCEPT ![t] =
               IF t \in backoff \/ @ \in {"queued", "interrupted"} THEN "cancelled" ELSE @]
  /\ NoWakeup
  /\ UNCHANGED <<attempts, pending, effect, asked, app, launches, crashes, resets>>

\* A fresh retry budget and a place in the queue, on the user's demand.
Requeue(t) ==
  /\ attempts' = [attempts EXCEPT ![t] = 0]
  /\ launches' = [launches EXCEPT ![t] = 0]
  /\ status' = [status EXCEPT ![t] = "queued"]
  /\ queue' = PushOnce(queue, t)
  /\ Wakeup
  /\ resets < MaxResets /\ resets' = resets + 1
  /\ UNCHANGED <<pending, effect, asked, app, run, gate, backoff, crashes>>

\* resume() and restart() throw while a side effect's outcome is unknown.
MutEffectsKnown(t) == effect[t] # "unknown"
EffectsKnown(t) == effect[t] = "none"

Resume(t) ==
  /\ Idle /\ status[t] \in {"interrupted", "paused"} /\ EffectsKnown(t)
  /\ Requeue(t)

Restart(t) ==
  /\ Idle /\ status[t] = "failed" /\ EffectsKnown(t)
  /\ Requeue(t)

\* stop() on will-quit.
Stop ==
  /\ Idle
  /\ app' = "stopping"
  /\ backoff' = {}
  /\ run' = [t \in Tasks |-> IF run[t] = "live" THEN "shutdown" ELSE run[t]]
  /\ Wakeup
  /\ UNCHANGED <<durable, queue, gate, launches, crashes, resets>>

\* The process dies, in any state: only the database is left.
Crash ==
  /\ app # "down" /\ crashes < MaxCrashes
  /\ crashes' = crashes + 1
  /\ app' = "down" /\ pump' = "off" /\ wakeQueued' = FALSE
  /\ queue' = <<>> /\ backoff' = {}
  /\ run' = [t \in Tasks |-> "off"]
  /\ gate' = [t \in Tasks |-> NoGate]
  /\ UNCHANGED <<durable, launches, resets>>

-----------------------------------------------------------------------------
LoopEnds(t) ==
  \/ EndShutdown(t) \/ EndPaused(t) \/ EndStopped(t) \/ EndRetry(t)
  \/ EndFailed(t) \/ EndThrown(t) \/ EndCompleted(t)

User(t) ==
  \/ Enqueue(t) \/ Pause(t) \/ Cancel(t) \/ Resume(t) \/ Restart(t)
  \/ \E r \in 1..MaxAsks : Decide(t, r)

Loop(t) ==
  \/ \E kind \in {"approval", "question"} : OpenGate(t, kind)
  \/ LapseGate(t) \/ ToolStart(t)
  \/ \E outcome \in {"none", "unknown"} : ToolEnd(t, outcome)
  \/ LoopEnds(t) \/ BackoffFires(t)

Process == Boot \/ PumpResume \/ Launch \/ PumpPark \/ Stop \/ Crash

Next == Process \/ \E t \in Tasks : User(t) \/ Loop(t)

Spec == Init /\ [][Next]_vars

(***************************************************************************)
(* Fairness: the event loop runs what is ready (the pump, timers, a boot   *)
(* once the app is started again), and a loop that is not parked on a gate  *)
(* ends: model requests and tools have deadlines, an abort unwinds it.     *)
(* Nothing makes the user decide a gate.                                   *)
(***************************************************************************)
FairSpec ==
  /\ Spec
  /\ WF_vars(PumpResume \/ Launch \/ PumpPark)
  /\ \A t \in Tasks : WF_vars(BackoffFires(t) \/ LoopEnds(t))

-----------------------------------------------------------------------------
(***************************************************************************)
(* Type invariant of the rows, the queue, the pump and the runs.           *)
(***************************************************************************)
TypeOK ==
  /\ status \in [Tasks -> Statuses \cup {"absent"}]
  /\ attempts \in [Tasks -> 0..(MaxAttempts - 1)]
  /\ pending \in [Tasks -> SUBSET (1..MaxAsks)]
  /\ effect \in [Tasks -> {"none", "started", "unknown"}]
  /\ asked \in [Tasks -> 0..MaxAsks]
  /\ app \in {"down", "up", "stopping"}
  /\ pump \in {"off", "parked", "woken", "draining"}
  /\ wakeQueued \in BOOLEAN
  /\ queue \in Seq(Tasks)
  /\ run \in [Tasks -> {"off", "live"} \cup Reasons]
  /\ gate \in [Tasks -> Gates]
  /\ backoff \in SUBSET Tasks
  /\ launches \in [Tasks -> Nat]
  /\ crashes \in 0..MaxCrashes
  /\ resets \in 0..MaxResets

\* A task has one driver: its id is in the queue once, or it runs, or it backs
\* off, never two of these (runner.ts: queue, running and backoffTimers are
\* edited by nine handlers).
OneDriver ==
  /\ NoRepeat(queue)
  /\ Queued \cap Running = {} /\ Queued \cap backoff = {}
  /\ Running \cap backoff = {}

\* No lane exceeds its slots and the runner its cap, whatever is woken,
\* resumed or retried between two drains of the pump.
LanesHold ==
  /\ \A l \in Lanes : Cardinality({t \in Running : Lane[t] = l}) <= LaneSlots[l]
  /\ Cardinality(Running) <= Concurrency

\* Two tasks of one conversation never interleave: while one runs or backs off
\* between two tries, no other runs or backs off on its conversation.
OneTaskPerConversation ==
  \A t, u \in Running \cup backoff : Conv[t] = Conv[u] => t = u

\* A row that says queued is in the queue of a running process: no handler
\* loses a task until the next boot.
NoLostTask ==
  app = "up" => \A t \in Tasks : status[t] = "queued" => t \in Queued

\* A row that says completed, failed, paused, cancelled or interrupted has no
\* driver: nothing will run it behind the user's back.
RestIsRest ==
  \A t \in Tasks :
    status[t] \in {"cancelled", "completed", "failed", "paused", "interrupted"}
      => t \notin Queued \cup Running \cup backoff

\* Rows, queue, runs and timers agree on who drives a task: nobody drives it
\* twice, none is lost, and a task at rest stays at rest.
DriversHold == OneDriver /\ NoLostTask /\ RestIsRest

\* A task whose side-effecting call has an unknown outcome, or was cut off by a
\* crash, is never run again: not by resume, restart, auto-resume or a retry.
NoBlindRerun == \A t \in Queued \cup backoff : effect[t] = "none"

\* The pump never sleeps while a queued task could run: no wakeup is lost
\* between the drain of the queue and the park.  It is said of a task alone in
\* its conversation: cancelling or pausing a task that backs off
\* (runner.ts:648-654, 670-686) does not wake the pump for its sibling.
PumpNeverOversleeps ==
  app = "up" /\ pump = "parked" /\ CapFree =>
    \A t \in Queued : (\A u \in Tasks \ {t} : Conv[u] # Conv[t]) => ~Runnable(t)

\* The gate a task waits at keeps its pending row until that request is
\* decided, whatever was decided about an older request.
OpenGateHasRow ==
  \A t \in Tasks : gate[t].kind = "approval" /\ run[t] = "live"
                     => gate[t].id \in pending[t]

\* A transient failure is retried within one budget over any number of
\* crashes: between two user-driven starts a task runs at most MaxAttempts
\* times, plus once per crash that auto-resume recovered from.
RetriesBounded ==
  \A t \in Tasks : launches[t] <= MaxAttempts + crashes

\* A quit settles nothing: the row of a run the quit aborted stays in flight,
\* for the next boot to reconcile, whatever its loop still returns.
QuitSettlesNothing ==
  [][\A t \in Tasks :
       app = "stopping" /\ run[t] \notin {"pause", "cancel"}
         => status'[t] = status[t]]_vars

\* A finished row stays as it is, and a failed one only goes back to the queue
\* (late decisions, pauses and cancels arrive for finished tasks).
FinishedIsFinal ==
  [][\A t \in Tasks :
       /\ status[t] \in Terminal => status'[t] = status[t]
       /\ status[t] = "failed" => status'[t] \in {"failed", "queued"}]_vars

\* A running process that lanes do not starve: a queued task of a lane without
\* agent tasks, which are the ones that wait for the user, and alone in its
\* conversation, starts or is taken out of the queue, however long other lanes
\* wait at gates.
LaneIsolation ==
  \A t \in Tasks :
    (\A u \in Agents : Lane[u] # Lane[t]) /\ (\A u \in Tasks \ {t} : Conv[u] # Conv[t]) =>
      ((app = "up" /\ t \in Queued) ~> (app # "up" \/ t \notin Queued))

\* An abort settles: a paused or cancelled run ends even if it was parked on a
\* gate nobody will answer.
AbortSettles ==
  \A t \in Tasks : Aborted(t) ~> run[t] = "off"
=============================================================================
