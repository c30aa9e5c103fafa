----------------------------- MODULE IndexWatch -----------------------------
(***************************************************************************)
(* When the index of a workspace is built: the watcher that asks for runs  *)
(* (index/watcher.ts), ensureRunning() that enqueues and links them        *)
(* (index/service.ts), the user's controls (ipc/index-handlers.ts) and the *)
(* life cycle the task runner gives index tasks (tasks/runner.ts: one      *)
(* background slot, queued again at boot).  What a run does to the rows is *)
(* IndexFiles; here it ends by itself, or at the signal.                   *)
(*                                                                         *)
(* What the watch of git sees refreshes one metadata row: it is left out,  *)
(* but that a watch waits for git while it sees files already is not.  The *)
(* priorities are left out.                                                *)
(***************************************************************************)
EXTENDS Naturals, FiniteSets

CONSTANTS
  Tasks,  \* ids of index tasks (three: see HasRoom)
  None    \* no task

ASSUME WatchAssumption == Cardinality(Tasks) = 3 /\ None \notin Tasks

VARIABLES
  enabled,   \* index_runs.enabled
  linked,    \* index_runs.task_id
  task,      \* task[t]: status of an index task, "none" if there is no such row
  reason,    \* of the abort of the signal of the task that runs
  watching,  \* the watchWorkspaces setting
  watch,     \* the watch of the workspace: none, opening, settling (it is there
             \* and sees changes, but open() still awaits git) or open
  dropped,   \* a stop() or a setEnabled(false) waits for open() to return
  reopening, \* a restart() waits for its stop()
  timer,     \* its fileTimer is armed
  reload,    \* reloadIgnore
  pending,   \* pendingIndex
  change,    \* history: of an enabled index no change, one was seen, or it was
             \* lost with its watch
  woken      \* history: tasks that may run though the index is off: the link had
             \* lost them when it was disabled, or they were resumed or queued
             \* again at boot

vars == <<enabled, linked, task, reason, watching, watch, dropped, reopening,
          timer, reload, pending, change, woken>>
state == <<timer, reload, pending>>

\* The promise of open() is in `starting`.
Starting == watch \in {"opening", "settling"}

Live == {"queued", "running"}
Finished == {"completed", "failed", "cancelled"}

Running == {t \in Tasks : task[t] = "running"}

TypeOK ==
  /\ enabled \in BOOLEAN /\ watching \in BOOLEAN
  /\ linked \in Tasks \cup {None}
  /\ task \in [Tasks -> Live \cup Finished \cup {"none", "paused"}]
  /\ \A t, u \in Running : t = u
  /\ reason \in {"none", "pause", "cancel"} /\ (Running = {} => reason = "none")
  /\ watch \in {"none", "opening", "settling", "open"}
  /\ dropped \in BOOLEAN /\ reopening \in BOOLEAN
  /\ timer \in BOOLEAN /\ reload \in BOOLEAN /\ pending \in BOOLEAN
  /\ (timer \/ pending => watch \in {"settling", "open"}) /\ (reload => timer)
  /\ change \in {"no", "seen", "lost"} /\ woken \subseteq Tasks
  \* A watch that no stop() waits for is one of an enabled index.
  /\ (dropped => Starting)
  /\ (watch # "none" /\ ~dropped => enabled /\ watching)
  /\ (enabled => woken = {})
  \* The linked task is never pruned.
  /\ linked # None => task[linked] # "none"

\* The row of a workspace whose index was just cleared.
Init ==
  /\ enabled = TRUE /\ linked = None /\ task = [t \in Tasks |-> "none"]
  /\ reason = "none" /\ watching = TRUE /\ watch = "none"
  /\ dropped = FALSE /\ reopening = FALSE
  /\ timer = FALSE /\ reload = FALSE /\ pending = FALSE
  /\ change = "no" /\ woken = {}

-----------------------------------------------------------------------------
(* Asking for a run: a value `s` is the task rows, the link and pendingIndex. *)

Now == [task |-> task, linked |-> linked, pending |-> pending]
Becomes(s) == task' = s.task /\ linked' = s.linked /\ pending' = s.pending

LinkIn(s, statuses) == s.linked # None /\ s.task[s.linked] \in statuses

\* pruneFinishedTasks(): a finished task that is not linked is deleted.
Pruned(s) ==
  [s EXCEPT !.task = [t \in Tasks |->
     IF s.task[t] \in Finished /\ t # s.linked THEN "none" ELSE s.task[t]]]

\* ensureRunning(): a new task, unless the index is off or its task is live.
EnsureRunning(s, on) ==
  IF ~on \/ LinkIn(s, Live) THEN s
  ELSE LET kept == Pruned(s)
           new == CHOOSE t \in Tasks : kept.task[t] = "none"
       IN [kept EXCEPT !.task[new] = "queued", !.linked = new]

\* Mutant: only a run that completed is followed up.
MutSettles(s, t, status, on) ==
  LET after == [s EXCEPT !.task[t] = status]
  IN IF status = "completed" /\ t = s.linked /\ s.pending
     THEN EnsureRunning([after EXCEPT !.pending = FALSE], on) ELSE after

\* Task t settles; onTaskStatus() queues the run that was asked for meanwhile.
Settles(s, t, status, on) ==
  LET after == [s EXCEPT !.task[t] = status]
  IN IF status \in Finished /\ t = s.linked /\ s.pending
     THEN EnsureRunning([after EXCEPT !.pending = FALSE], on) ELSE after

\* Mutant: a change while the task runs is left to ensureRunning().
MutAsked ==
  IF LinkIn(Now, {"paused"}) THEN [Now EXCEPT !.pending = TRUE]
  ELSE EnsureRunning([Now EXCEPT !.pending = FALSE], TRUE)

\* requestIndex() of an enabled index: now, or after its live or paused task.
Asked ==
  IF LinkIn(Now, Live \cup {"paused"}) THEN [Now EXCEPT !.pending = TRUE]
  ELSE EnsureRunning([Now EXCEPT !.pending = FALSE], TRUE)

\* The runner's cancel() of the linked task: a paused one stays paused, and
\* one that runs is aborted (only the first abort gives the reason).
CancelsLinked(on) ==
  IF LinkIn(Now, {"queued"}) THEN Settles(Now, linked, "cancelled", on) ELSE Now
Aborts(t, why) ==
  reason' = IF task[t] = "running" /\ reason = "none" THEN why ELSE reason
AbortsLinked == IF linked = None THEN UNCHANGED reason ELSE Aborts(linked, "cancel")

-----------------------------------------------------------------------------
(* The watch. *)

\* start(), and the guards of open().
WatchStarts(may) ==
  watch' = IF may /\ watch = "none" THEN "opening" ELSE watch

\* The watch is closed, with its timer and what it remembers; a change that no
\* queued or paused run of `s` covers is lost.
Closes(s) ==
  /\ watch' = "none" /\ timer' = FALSE /\ reload' = FALSE
  /\ Becomes([s EXCEPT !.pending = FALSE])
Loses(s) ==
  change' = IF change = "seen" /\ ~LinkIn(s, {"queued", "paused"}) THEN "lost" ELSE change

\* stop() awaits the promise in `starting`; `s` is what was asked for by then.
WatchStops(s) ==
  \/ Starting /\ dropped' = TRUE /\ Becomes(s) /\ UNCHANGED <<watch, timer, reload>>
  \/ ~Starting /\ Closes(s) /\ UNCHANGED dropped

\* open() has its watcher, unless the setting went off or it cannot watch.
Opened ==
  /\ watch = "opening"
  /\ \/ watching /\ watch' = "settling" /\ UNCHANGED dropped
     \/ watch' = "none" /\ dropped' = FALSE
  /\ UNCHANGED <<enabled, linked, task, reason, watching, reopening, state, change, woken>>

\* open() returns, having found git or not; a stop() that waited closes the watch.
Settled ==
  /\ watch = "settling"
  /\ \/ dropped /\ Closes(Now) /\ Loses(Now)
     \/ ~dropped /\ watch' = "open" /\ UNCHANGED <<linked, task, state, change>>
  /\ dropped' = FALSE
  /\ UNCHANGED <<enabled, reason, watching, reopening, woken>>

\* restart(): the old watch is closed, the new one opens.
Reopened ==
  /\ reopening /\ watch # "settling" /\ reopening' = FALSE
  /\ WatchStarts(watching /\ enabled)
  /\ UNCHANGED <<enabled, linked, task, reason, watching, dropped, state, change, woken>>

\* queueFile(): a change of a file, or of .gitignore; the debounce starts again.
Notice(ignore) ==
  /\ watch \in {"settling", "open"}
  /\ timer' = TRUE /\ reload' = (reload \/ ignore)
  /\ change' = IF enabled THEN "seen" ELSE change
  /\ UNCHANGED <<enabled, linked, task, reason, watching, watch, dropped, reopening,
                 pending, woken>>

\* The debounce ends: requestIndex(), which only stops the watch of an index that
\* is off.  After a change of .gitignore the watch is replaced.
TimerFires ==
  /\ timer /\ timer' = FALSE /\ reload' = FALSE
  /\ reopening' = (reopening \/ reload)
  /\ LET asked == IF enabled THEN Asked ELSE Now
     IN \/ enabled /\ ~reload /\ Becomes(asked) /\ UNCHANGED <<watch, dropped, change>>
        \/ /\ (~enabled \/ reload) /\ Starting
           /\ Becomes(asked) /\ dropped' = TRUE /\ UNCHANGED <<watch, change>>
        \/ /\ (~enabled \/ reload) /\ ~Starting
           /\ Closes(asked) /\ Loses(asked) /\ UNCHANGED dropped
  /\ UNCHANGED <<enabled, reason, watching, woken>>

-----------------------------------------------------------------------------
(* The runs. *)

Launch(t) ==
  /\ task[t] = "queued" /\ Running = {}
  /\ task' = [task EXCEPT ![t] = "running"]
  /\ change' = "no"
  /\ UNCHANGED <<enabled, linked, reason, watching, watch, dropped, reopening, state, woken>>

\* A run is done or has failed, even after the signal, or stops at it.
Ends(t) ==
  /\ task[t] = "running"
  /\ \E status \in CASE reason = "none" -> {"completed", "failed"}
                     [] reason = "pause" -> {"paused"}
                     [] OTHER -> {"completed", "cancelled"} :
       Becomes(Settles(Now, t, status, enabled))
  /\ reason' = "none" /\ woken' = woken \ {t}
  /\ UNCHANGED <<enabled, watching, watch, dropped, reopening, timer, reload, change>>

-----------------------------------------------------------------------------
(* The user. *)

\* Bound: the three ids are enough for what the watcher enqueues by itself.
HasRoom == \A t, u \in Tasks : {task[t], task[u]} \subseteq Live \cup {"paused"} => t = u

\* index:start and autoIndexWorkspace() of an enabled index; index:setEnabled on.
Start ==
  /\ HasRoom
  /\ Becomes(EnsureRunning(Now, TRUE))
  /\ WatchStarts(watching)
  /\ enabled' = TRUE /\ woken' = {}
  /\ UNCHANGED <<reason, watching, dropped, reopening, timer, reload, change>>

\* Mutant: the row is written after the task is cancelled.
MutDisabled == CancelsLinked(enabled)

\* The row says that the index is off before the task is cancelled.
Disabled == CancelsLinked(FALSE)

\* index:setEnabled, off.
Disable ==
  /\ WatchStops(Disabled) /\ AbortsLinked
  /\ enabled' = FALSE
  /\ change' = "no" /\ woken' = {t \in Tasks : task[t] \in Live /\ t # linked}
  /\ UNCHANGED <<watching, reopening>>

\* index:clear: the task is cancelled, which may queue another; then the row
\* is reset, and links to none.
Clear ==
  /\ HasRoom
  /\ Becomes([CancelsLinked(enabled) EXCEPT !.linked = None]) /\ AbortsLinked
  /\ change' = "no"
  /\ UNCHANGED <<enabled, watching, watch, dropped, reopening, timer, reload, woken>>

\* task:pause, task:cancel and task:resume.
Pause(t) ==
  /\ task[t] \in Live
  /\ task' = [task EXCEPT ![t] = IF @ = "queued" THEN "paused" ELSE @]
  /\ Aborts(t, "pause")
  /\ UNCHANGED <<enabled, linked, watching, watch, dropped, reopening, state, change, woken>>
Cancel(t) ==
  /\ task[t] \in Live
  /\ Becomes(IF task[t] = "queued" THEN Settles(Now, t, "cancelled", enabled) ELSE Now)
  /\ Aborts(t, "cancel")
  \* The user gives up a change that only this queued run would have covered.
  /\ change' = IF task[t] = "queued" /\ t = linked /\ ~timer /\ ~pending THEN "no" ELSE change
  /\ UNCHANGED <<enabled, watching, watch, dropped, reopening, timer, reload, woken>>
Resume(t) ==
  /\ task[t] = "paused"
  /\ task' = [task EXCEPT ![t] = "queued"]
  /\ pending' = (pending /\ t # linked)
  /\ woken' = IF enabled THEN {} ELSE woken \cup {t}
  /\ UNCHANGED <<enabled, linked, reason, watching, watch, dropped, reopening, timer,
                 reload, change>>

\* The watchWorkspaces setting.
SetWatching ==
  /\ watching' = ~watching
  /\ \/ watching /\ WatchStops(Now) /\ change' = "no"
     \/ ~watching /\ WatchStarts(enabled) /\ UNCHANGED <<linked, task, dropped, state, change>>
  /\ UNCHANGED <<enabled, reason, reopening, woken>>

\* The process ends, by a quit or a crash, and starts again: the task that
\* was running is queued, and the watch is opened anew.
Restart ==
  /\ Becomes(Pruned([Now EXCEPT !.pending = FALSE,
       !.task = [t \in Tasks |-> IF t \in Running THEN "queued" ELSE task[t]]]))
  /\ reason' = "none"
  /\ watch' = IF watching /\ enabled THEN "opening" ELSE "none"
  /\ dropped' = FALSE /\ reopening' = FALSE /\ timer' = FALSE /\ reload' = FALSE
  /\ change' = "no" /\ woken' = IF enabled THEN {} ELSE woken \cup Running
  /\ UNCHANGED <<enabled, watching>>

-----------------------------------------------------------------------------
Next ==
  \/ Opened \/ Settled \/ Reopened \/ TimerFires
  \/ \E ignore \in BOOLEAN : Notice(ignore)
  \/ \E t \in Tasks : Launch(t) \/ Ends(t) \/ Pause(t) \/ Cancel(t) \/ Resume(t)
  \/ Start \/ Disable \/ Clear \/ SetWatching \/ Restart

Spec == Init /\ [][Next]_vars

\* Runs end (each stage of IndexFiles goes once over a finite list), the slot is
\* taken when it is free, and the timer fires: some time the files are left alone
\* for as long as the debounce.
FairSpec ==
  /\ Spec /\ WF_vars(TimerFires)
  /\ WF_vars(\E t \in Tasks : Launch(t)) /\ WF_vars(\E t \in Tasks : Ends(t))

-----------------------------------------------------------------------------
(* Properties. *)

\* A change will be followed by a run.
Covered ==
  \/ timer
  \/ LinkIn(Now, {"queued", "paused"})
  \/ pending /\ LinkIn(Now, {"running"})

\* watcher.ts:272, 288: a change of an enabled index that was seen, with no run
\* begun since, has a timer, a queued or paused run, or a running one that will
\* be followed up; through pauses, cancels, failures, resumes and starts, unless
\* the user gave it up or its watch was closed over it: by a change of
\* .gitignore, or by a stop() that was still waiting when the user enabled the
\* index again.
ChangesCovered == change = "seen" => Covered

\* index-handlers.ts:54, watcher.ts:266: of a disabled index no task is queued
\* and the one at work is aborted, whatever events, timers and follow-ups come
\* late; but for tasks the link had lost (index:clear while a change was
\* pending), that the user resumes, or that a boot queues again.
OffStaysOff ==
  ~enabled => \A t \in Tasks \ woken :
    task[t] # "queued" /\ (t \in Running => reason # "none")

\* After a change that was seen a run begins, unless the user gives it up or
\* cancels queued runs for ever, its watch is closed over it, or the run it waits
\* for is paused.
ChangeIndexed ==
  \/ []<><<\E t \in Tasks : task[t] = "queued" /\ Cancel(t)>>_vars
  \/ change = "seen" ~> change # "seen" \/ LinkIn(Now, {"paused"})
=============================================================================
