------------------------------ MODULE IndexProofs ------------------------------
(***************************************************************************)
(* Proofs about the workspace index.                                       *)
(*                                                                         *)
(* IndexWatch: its types, that a change that was seen is followed by a     *)
(* run unless its watch is closed over it (ChangesCovered), and that an    *)
(* index the user turned off stays off (OffStaysOff).  The inductive       *)
(* invariant adds that a watch no stop() waits for is of an enabled index, *)
(* that pendingIndex belongs to a watch in the map, and that at most one   *)
(* unfinished task is not the linked one: so ensureRunning() always finds  *)
(* an id of the three for its new task.                                    *)
(*                                                                         *)
(* IndexFiles: its types, that an undisturbed run that met every file     *)
(* leaves exactly the disk (IndexExact), and that no row is marked         *)
(* extracted before its symbols are there, but where an extraction wrote   *)
(* none (NothingSkipped), for any set of files, length of batches and      *)
(* number of changes.  The invariant follows an undisturbed run through    *)
(* its stages, files it passed over included (Progress); it rests on that  *)
(* a row with the stat of its file has its hash (Fits), unless that stat   *)
(* came again: so the fast path hides no other change.                     *)
(***************************************************************************)
EXTENDS IndexWatch, IndexFiles, FiniteSetTheorems, TLAPS

(* The watcher and its tasks (IndexWatch).  *)

Status == Live \cup Finished \cup {"none", "paused"}
Held == Live \cup {"paused"}

\* Task rows and link that a call of the service may leave.
Sound(s) ==
  /\ s \in [task : [Tasks -> Status], linked : Tasks \cup {None}, pending : BOOLEAN]
  /\ s.linked # None => s.task[s.linked] # "none"
  /\ \A t, u \in Tasks \ {s.linked} : s.task[t] \in Held /\ s.task[u] \in Held => t = u

Flags ==
  /\ enabled \in BOOLEAN /\ watching \in BOOLEAN /\ dropped \in BOOLEAN /\ reopening \in BOOLEAN
  /\ timer \in BOOLEAN /\ reload \in BOOLEAN /\ pending \in BOOLEAN

\* What the watch and the task that runs are to the rest.
Tied ==
  /\ \A t, u \in Running : t = u
  /\ reason \in {"none", "pause", "cancel"} /\ (Running = {} => reason = "none")
  /\ watch \in {"none", "opening", "settling", "open"} /\ change \in {"no", "seen", "lost"}
  /\ (timer \/ pending => watch \in {"settling", "open"}) /\ (reload => timer)
  /\ (dropped => Starting)
  /\ (watch # "none" /\ ~dropped => enabled /\ watching)
  /\ woken \subseteq Tasks /\ (enabled => woken = {})
  /\ (change = "seen" => enabled)

IndInv == Flags /\ Tied /\ Sound(Now) /\ ChangesCovered /\ OffStaysOff

-----------------------------------------------------------------------------
(* The task rows. *)

\* Besides any two tasks there is a third.
LEMMA Third == ASSUME NEW a, NEW b PROVE \E t \in Tasks : t # a /\ t # b
<1>1. IsFiniteSet({a}) /\ Cardinality({a}) = 1
  BY FS_Singleton
<1>2. IsFiniteSet({a} \cup {b}) /\ Cardinality({a} \cup {b}) \in 0 .. 2
  BY <1>1, FS_AddElement, FS_CardinalityType
<1>3. SUFFICES ASSUME Tasks \subseteq {a} \cup {b} PROVE FALSE
  OBVIOUS
<1>4. Cardinality(Tasks) <= Cardinality({a} \cup {b})
  BY <1>2, <1>3, FS_Subset
<1> QED
  BY <1>2, <1>4, WatchAssumption

\* What ensureRunning() does when it enqueues: the new task is linked and queued, every
\* unfinished one stays as it is, and no other becomes unfinished.
LEMMA Enqueued ==
  ASSUME NEW s, Sound(s), ~LinkIn(s, Live),
         LinkIn(s, {"paused"}) => \A t, u \in Tasks : s.task[t] \in Held /\ s.task[u] \in Held
                                                         => t = u
  PROVE  LET e == EnsureRunning(s, TRUE) IN
         /\ Sound(e) /\ e.pending = s.pending
         /\ e.linked # None /\ e.task[e.linked] = "queued" /\ s.task[e.linked] \notin Held
         /\ \A t \in Tasks \ {e.linked} :
              /\ s.task[t] \in Held => e.task[t] = s.task[t]
              /\ e.task[t] \in Held => e.task[t] = s.task[t]
<1> DEFINE kept == Pruned(s)
           new == CHOOSE t \in Tasks : kept.task[t] = "none"
           e == EnsureRunning(s, TRUE)
<1>1. /\ s.task \in [Tasks -> Status] /\ s.linked \in Tasks \cup {None} /\ s.pending \in BOOLEAN
      /\ DOMAIN s = {"task", "linked", "pending"}
  BY DEF Sound
<1>2. /\ kept.task = [t \in Tasks |-> IF s.task[t] \in Finished /\ t # s.linked THEN "none"
                                                                              ELSE s.task[t]]
      /\ kept.linked = s.linked /\ kept.pending = s.pending
      /\ kept = [task |-> kept.task, linked |-> s.linked, pending |-> s.pending]
  BY DEF Sound, Pruned
<1>3. \E t \in Tasks : kept.task[t] = "none"
  <2>1. PICK a : \A t \in Tasks \ {s.linked} : s.task[t] \in Held => t = a
    BY DEF Sound
  <2>2. PICK t \in Tasks : t # a /\ t # s.linked
    BY Third
  <2> QED
    BY <1>1, <1>2, <2>1, <2>2 DEF Status, Held
<1>4. new \in Tasks /\ kept.task[new] = "none"
  BY <1>3
<1>5. e = [kept EXCEPT !.task[new] = "queued", !.linked = new]
  BY DEF EnsureRunning
<1> HIDE DEF kept, new, e
<1>6. /\ e.task = [kept.task EXCEPT ![new] = "queued"] /\ e.linked = new /\ e.pending = s.pending
      /\ e = [task |-> e.task, linked |-> new, pending |-> s.pending]
  BY <1>2, <1>5
<1>7. e.task \in [Tasks -> Status]
  BY <1>1, <1>2, <1>4, <1>6 DEF Status, Live
<1>8. new # None /\ e.task[new] = "queued" /\ s.task[new] \notin Held
  <2>1. new # None
    BY <1>4, WatchAssumption
  <2>2. e.task[new] = "queued"
    BY <1>2, <1>4, <1>6
  <2>3. s.task[new] \in Finished \cup {"none"}
    BY <1>2, <1>4
  <2> QED
    BY <2>1, <2>2, <2>3 DEF Held, Live, Finished
<1>9. \A t \in Tasks \ {new} : e.task[t] = kept.task[t]
  BY <1>2, <1>6
<1>10. \A t \in Tasks \ {new} : (s.task[t] \in Held \/ e.task[t] \in Held) => e.task[t] = s.task[t]
  BY <1>2, <1>9 DEF Held, Live, Finished
<1>11. \A t, u \in Tasks \ {new} : e.task[t] \in Held /\ e.task[u] \in Held => t = u
  <2>1. CASE s.linked = None \/ s.task[s.linked] \notin Held
    BY <1>1, <1>10, <2>1, WatchAssumption DEF Sound
  <2>2. CASE s.linked # None /\ s.task[s.linked] \in Held
    BY <1>1, <1>10, <2>2 DEF LinkIn, Held
  <2> QED
    BY <2>1, <2>2
<1>12. Sound(e)
  <2>1. e.pending \in BOOLEAN
    BY <1>1, <1>6, Zenon
  <2> QED
    BY <1>4, <1>6, <1>7, <1>8, <1>11, <2>1 DEF Sound
<1>13. e.pending = s.pending /\ e.linked = new
  BY <1>6
<1> QED
  BY <1>8, <1>10, <1>12, <1>13 DEF e

\* What onTaskStatus() leaves when task t settles: the other unfinished tasks stay as they
\* are, no task begins, and a run that was asked for meanwhile is queued, unless the index
\* is off.
LEMMA Settling ==
  ASSUME NEW s, Sound(s), NEW t \in Tasks, s.task[t] \in Live, NEW on \in BOOLEAN,
         NEW status \in Finished \cup {"paused"}
  PROVE  LET e == Settles(s, t, status, on) IN
         /\ Sound(e) /\ (e.pending => s.pending)
         /\ \A u \in Tasks \ {t} : s.task[u] \in Held => e.task[u] = s.task[u]
         /\ \A u \in Tasks : e.task[u] = "running" => u # t /\ s.task[u] = "running"
         /\ ~on => \A u \in Tasks : e.task[u] = "queued" => u # t /\ s.task[u] = "queued"
         /\ \A u \in Tasks : e.task[u] \in Held =>
              u = e.linked \/ (u = t /\ status = "paused") \/ (u # t /\ e.task[u] = s.task[u])
         /\ t # s.linked => e.linked = s.linked /\ e.pending = s.pending
         /\ t = s.linked /\ status = "paused" => LinkIn(e, {"paused"})
         /\ t = s.linked /\ status # "paused" /\ s.pending /\ on => LinkIn(e, {"queued"})
<1> DEFINE after == [s EXCEPT !.task[t] = status]
           base == [after EXCEPT !.pending = FALSE]
           e == Settles(s, t, status, on)
<1>1. /\ s.task \in [Tasks -> Status] /\ s.linked \in Tasks \cup {None} /\ s.pending \in BOOLEAN
      /\ DOMAIN s = {"task", "linked", "pending"}
  BY DEF Sound
<1>2. /\ after.task = [s.task EXCEPT ![t] = status] /\ after.linked = s.linked
      /\ after.pending = s.pending
      /\ base.task = after.task /\ base.linked = s.linked /\ base.pending = FALSE
      /\ status # "none" /\ status \in Status
  BY <1>1 DEF Sound, Status, Finished
<1>3. Sound(after) /\ Sound(base)
  <2>1. \A u, v \in Tasks \ {s.linked} : after.task[u] \in Held /\ after.task[v] \in Held => u = v
    BY <1>1, <1>2 DEF Sound, Held
  <2>2. s.linked # None => after.task[s.linked] # "none"
    BY <1>1, <1>2 DEF Sound
  <2>3. after.task \in [Tasks -> Status]
    BY <1>1, <1>2
  <2>5. after \in [task : [Tasks -> Status], linked : Tasks \cup {None}, pending : BOOLEAN]
    BY <2>3 DEF Sound
  <2>6. base \in [task : [Tasks -> Status], linked : Tasks \cup {None}, pending : BOOLEAN]
    <3> HIDE DEF after
    <3> QED
      BY <2>5
  <2> HIDE DEF after, base
  <2> QED
    BY <1>2, <2>1, <2>2, <2>5, <2>6 DEF Sound
<1>4. \A u \in Tasks : /\ u # t => after.task[u] = s.task[u]
                       /\ after.task[u] \in Live => u # t /\ after.task[u] = s.task[u]
  BY <1>1, <1>2 DEF Live, Finished
<1>5. CASE ~(status \in Finished /\ t = s.linked /\ s.pending)
  <2>1. e = after
    BY <1>5 DEF Settles
  <2> HIDE DEF after, e, base
  <2>2. t = s.linked /\ status = "paused" => LinkIn(e, {"paused"})
    BY <1>1, <1>2, <2>1, WatchAssumption DEF LinkIn
  <2>3. e.pending = s.pending
    BY <1>2, <2>1
  <2>4. \A u \in Tasks : e.task[u] \in Held =>
          (u = t /\ status = "paused") \/ (u # t /\ e.task[u] = s.task[u])
    BY <1>1, <1>2, <2>1 DEF Held, Live, Finished
  <2> QED
    BY <1>2, <1>3, <1>4, <1>5, <2>1, <2>2, <2>3, <2>4 DEF Live, e
<1>6. CASE status \in Finished /\ t = s.linked /\ s.pending
  <2>1. e = EnsureRunning(base, on)
    BY <1>6 DEF Settles
  <2>2. ~LinkIn(base, Live) /\ ~LinkIn(base, {"paused"})
    BY <1>1, <1>2, <1>6 DEF LinkIn, Live, Finished
  <2>3. CASE ~on
    <3>1. e = base
      BY <2>1, <2>3 DEF EnsureRunning
    <3> HIDE DEF after, e, base
    <3>2. ~e.pending
      BY <1>2, <3>1
    <3>3. \A u \in Tasks : e.task[u] \in Held => u # t /\ e.task[u] = s.task[u]
      BY <1>1, <1>2, <1>6, <3>1 DEF Held, Live, Finished
    <3> QED
      BY <1>2, <1>3, <1>4, <1>6, <2>3, <3>1, <3>2, <3>3, ZenonT(30) DEF Live, Finished, e
  <2>4. CASE on
    <3>1. e = EnsureRunning(base, TRUE)
      BY <2>1, <2>4 DEF EnsureRunning
    <3> DEFINE x == EnsureRunning(base, TRUE)
    <3>2. /\ Sound(x) /\ x.pending = base.pending
          /\ x.linked # None /\ x.task[x.linked] = "queued" /\ base.task[x.linked] \notin Held
          /\ \A u \in Tasks \ {x.linked} :
               /\ base.task[u] \in Held => x.task[u] = base.task[u]
               /\ x.task[u] \in Held => x.task[u] = base.task[u]
      <4> HIDE DEF base
      <4> QED
        BY <1>3, <2>2, Enqueued
    <3> HIDE DEF after, e, base, x
    <3>3. Sound(e) /\ ~e.pending /\ LinkIn(e, {"queued"})
      BY <1>2, <3>1, <3>2 DEF LinkIn, x
    <3>4. ASSUME NEW u \in Tasks \ {t}, s.task[u] \in Held PROVE e.task[u] = s.task[u]
      <4>1. base.task[u] = s.task[u] /\ u # x.linked
        BY <1>2, <1>4, <3>2, <3>4
      <4> QED
        BY <3>1, <3>2, <3>4, <4>1 DEF x
    <3>5. ASSUME NEW u \in Tasks, e.task[u] = "running" PROVE u # t /\ s.task[u] = "running"
      <4>1. x.task[u] = "running" /\ u # x.linked
        BY <3>1, <3>2, <3>5 DEF x
      <4>2. after.task[u] = "running"
        BY <1>2, <3>2, <4>1 DEF Held, Live
      <4> QED
        BY <1>4, <4>2 DEF Live
    <3>6. ASSUME NEW u \in Tasks, e.task[u] \in Held, u # e.linked
          PROVE  u # t /\ e.task[u] = s.task[u]
      <4>1. x.task[u] \in Held /\ x.task[u] = base.task[u] /\ base.task[u] = after.task[u]
        BY <1>2, <3>1, <3>2, <3>6 DEF x
      <4>2. u # t
        BY <1>1, <1>2, <1>6, <4>1 DEF Held, Live, Finished
      <4> QED
        BY <1>4, <3>1, <4>1, <4>2 DEF x
    <3> QED
      BY <1>6, <2>4, <3>3, <3>4, <3>5, <3>6 DEF e, Finished
  <2> QED
    BY <2>3, <2>4
<1> QED
  BY <1>5, <1>6

-----------------------------------------------------------------------------
(* The steps. *)

\* What does not touch the task rows: the watch opens, or sees a change.
LEMMA WatchStep ==
  ASSUME IndInv, Opened \/ Reopened \/ \E ignore \in BOOLEAN : Notice(ignore)
  PROVE  IndInv'
<1>1. UNCHANGED <<enabled, linked, task, reason, watching, pending, woken>> /\ Now' = Now
  BY DEF Opened, Reopened, Notice, state, Now
<1>2. CASE Opened
  <2>1. Flags'
    BY <1>1, <1>2, Zenon DEF IndInv, Opened, state, Flags
  <2>2. Tied'
    BY <1>1, <1>2 DEF IndInv, Opened, state, Flags, Tied, Running, Starting
  <2> QED
    BY <1>1, <1>2, <2>1, <2>2 DEF IndInv, Opened, state, ChangesCovered, Covered, OffStaysOff,
       Running
<1>3. CASE Reopened
  <2>1. Flags'
    BY <1>1, <1>3, Zenon DEF IndInv, Reopened, state, Flags
  <2>2. Tied'
    BY <1>1, <1>3 DEF IndInv, Reopened, WatchStarts, state, Flags, Tied, Running, Starting
  <2> QED
    BY <1>1, <1>3, <2>1, <2>2 DEF IndInv, Reopened, state, ChangesCovered, Covered, OffStaysOff,
       Running
<1>4. ASSUME NEW ignore \in BOOLEAN, Notice(ignore) PROVE IndInv'
  <2>1. Flags'
    BY <1>1, <1>4, Zenon DEF Notice, IndInv, Flags
  <2>2. Tied'
    BY <1>1, <1>4 DEF IndInv, Notice, Flags, Tied, Running, Starting
  <2> QED
    BY <1>1, <1>4, <2>1, <2>2
    DEF IndInv, Notice, Running, ChangesCovered, Covered, OffStaysOff
<1> QED
  BY <1>2, <1>3, <1>4

\* What a call leaves is sound as the state.
LEMMA SoundNext ==
  ASSUME NEW s, Sound(s), Becomes(s)
  PROVE  Sound(Now)' /\ pending' \in BOOLEAN
<1>1. /\ s.task \in [Tasks -> Status] /\ s.linked \in Tasks \cup {None} /\ s.pending \in BOOLEAN
      /\ task' = s.task /\ linked' = s.linked /\ pending' = s.pending
  BY DEF Sound, Becomes
<1>2. pending' \in BOOLEAN
  BY <1>1, Zenon
<1>3. Now' \in [task : [Tasks -> Status], linked : Tasks \cup {None}, pending : BOOLEAN]
  BY <1>1, <1>2 DEF Now
<1>4. /\ linked' # None => task'[linked'] # "none"
      /\ \A t, u \in Tasks \ {linked'} : task'[t] \in Held /\ task'[u] \in Held => t = u
  BY <1>1 DEF Sound
<1>5. Now'.task = task' /\ Now'.linked = linked'
  BY DEF Now
<1> QED
  BY <1>2, <1>3, <1>4, <1>5 DEF Sound

\* The same of the state: its variables.
LEMMA SoundNow ==
  ASSUME Sound(Now)
  PROVE  /\ task \in [Tasks -> Status] /\ linked \in Tasks \cup {None}
         /\ linked # None => task[linked] # "none"
         /\ \A t, u \in Tasks \ {linked} : task[t] \in Held /\ task[u] \in Held => t = u
         /\ Now.task = task /\ Now.linked = linked /\ Now.pending = pending
BY WatchAssumption DEF Sound, Now

\* A task of the runner begins, is paused or is resumed.
LEMMA RunnerStep ==
  ASSUME IndInv, NEW t \in Tasks, Launch(t) \/ Pause(t) \/ Resume(t)
  PROVE  IndInv'
<1>1. /\ task \in [Tasks -> Status] /\ linked \in Tasks \cup {None}
      /\ linked # None => task[linked] # "none"
      /\ \A v, u \in Tasks \ {linked} : task[v] \in Held /\ task[u] \in Held => v = u
  BY SoundNow DEF IndInv
<1>2. /\ UNCHANGED <<enabled, linked, watching, watch, dropped, reopening, timer, reload>>
      /\ task[t] \in Held
      /\ \E status \in Held : task' = [task EXCEPT ![t] = status]
  BY <1>1 DEF Launch, Pause, Resume, state, Held, Live
<1>3. pending' \in BOOLEAN
  BY Zenon DEF Launch, Pause, Resume, state, IndInv, Flags
<1>4. Sound(Now)'
  <2>1. /\ task' \in [Tasks -> Status] /\ (linked # None => task'[linked] # "none")
        /\ \A v, u \in Tasks \ {linked} : task'[v] \in Held /\ task'[u] \in Held => v = u
    BY <1>1, <1>2 DEF Held, Live, Status
  <2>2. Now' \in [task : [Tasks -> Status], linked : Tasks \cup {None}, pending : BOOLEAN]
    BY <1>1, <1>2, <1>3, <2>1 DEF Now
  <2>3. Now'.task = task' /\ Now'.linked = linked
    BY <1>2 DEF Now
  <2> QED
    BY <2>1, <2>2, <2>3 DEF Sound
<1>5. Flags'
  BY <1>2, <1>3, Zenon DEF IndInv, Flags
<1>6. CASE Launch(t)
  <2>1. Tied'
    BY <1>1, <1>2, <1>6 DEF Launch, IndInv, Tied, Starting, Running, state
  <2> QED
    BY <1>1, <1>2, <1>4, <1>5, <1>6, <2>1
    DEF Launch, IndInv, Running, OffStaysOff, ChangesCovered, state
<1>7. CASE Pause(t)
  <2>1. Tied'
    BY <1>1, <1>2, <1>7 DEF Pause, Aborts, IndInv, Tied, Starting, Running, state, Live
  <2>2. OffStaysOff'
    BY <1>1, <1>7 DEF Pause, Aborts, IndInv, Running, OffStaysOff
  <2>3. ChangesCovered'
    BY <1>1, <1>7 DEF Pause, IndInv, ChangesCovered, Covered, LinkIn, Now, state
  <2> QED
    BY <1>4, <1>5, <2>1, <2>2, <2>3 DEF IndInv
<1>8. CASE Resume(t)
  <2>1. Tied'
    <3>1. /\ (pending' => pending) /\ UNCHANGED <<reason, change>>
          /\ woken' \subseteq Tasks /\ (enabled => woken' = {})
      BY <1>8 DEF Resume, IndInv, Tied
    <3>2. Running' = Running
      BY <1>1, <1>8 DEF Resume, Running
    <3> QED
      BY <1>2, <3>1, <3>2 DEF IndInv, Tied, Starting
  <2>2. ChangesCovered'
    BY <1>1, <1>8 DEF Resume, IndInv, ChangesCovered, Covered, LinkIn, Now
  <2>3. OffStaysOff'
    <3>1. /\ enabled' = enabled /\ reason' = reason /\ task' = [task EXCEPT ![t] = "queued"]
          /\ ~enabled => woken' = woken \cup {t}
      BY <1>8 DEF Resume
    <3> QED
      BY <1>1, <3>1 DEF IndInv, OffStaysOff, Running
  <2> QED
    BY <1>4, <1>5, <2>1, <2>2, <2>3 DEF IndInv
<1> QED
  BY <1>6, <1>7, <1>8

\* A run ends.
LEMMA EndStep ==
  ASSUME IndInv, NEW t \in Tasks, Ends(t)
  PROVE  IndInv'
<1>1. PICK status \in Finished \cup {"paused"} : Becomes(Settles(Now, t, status, enabled))
  BY DEF Ends, Finished
<1>2. Sound(Now) /\ enabled \in BOOLEAN /\ Now.task[t] \in Live /\ task[t] = "running"
  BY DEF Ends, IndInv, Flags, Now, Live
<1> DEFINE e == Settles(Now, t, status, enabled)
<1>3. /\ Sound(e) /\ (e.pending => Now.pending)
      /\ \A u \in Tasks \ {t} : Now.task[u] \in Held => e.task[u] = Now.task[u]
      /\ \A u \in Tasks : e.task[u] = "running" => u # t /\ Now.task[u] = "running"
      /\ ~enabled => \A u \in Tasks : e.task[u] = "queued" => u # t /\ Now.task[u] = "queued"
      /\ t # Now.linked => e.linked = Now.linked /\ e.pending = Now.pending
      /\ t = Now.linked /\ status = "paused" => LinkIn(e, {"paused"})
      /\ t = Now.linked /\ status # "paused" /\ Now.pending /\ enabled => LinkIn(e, {"queued"})
  BY <1>2, Settling
<1> HIDE DEF e
<1>4. task' = e.task /\ linked' = e.linked /\ pending' = e.pending
  BY <1>1 DEF Becomes, e
<1>5. Sound(Now)' /\ pending' \in BOOLEAN
  BY <1>1, <1>3, SoundNext DEF e
<1>6. /\ UNCHANGED <<enabled, watching, watch, dropped, reopening, timer, reload, change>>
      /\ reason' = "none" /\ woken' = woken \ {t}
  BY DEF Ends
<1>7. Flags'
  BY <1>5, <1>6, Zenon DEF IndInv, Flags
<1>8. /\ Now.task = task /\ Now.linked = linked /\ Now.pending = pending
      /\ linked \in Tasks \cup {None} /\ task \in [Tasks -> Status]
  BY <1>2, SoundNow
<1>9. Running' = {}
  BY <1>2, <1>3, <1>4, <1>8 DEF IndInv, Tied, Running
<1>10. Tied'
  BY <1>3, <1>4, <1>6, <1>8, <1>9 DEF IndInv, Tied, Starting
<1>11. OffStaysOff'
  BY <1>3, <1>4, <1>6, <1>8, <1>9 DEF IndInv, OffStaysOff
<1>12. ChangesCovered'
  <2>1. SUFFICES ASSUME change = "seen", ~timer PROVE Covered'
    BY <1>6 DEF ChangesCovered, Covered
  <2>2. LinkIn(Now, {"queued", "paused"}) \/ (pending /\ LinkIn(Now, {"running"}))
    BY <2>1 DEF IndInv, ChangesCovered, Covered
  <2>3. CASE t = linked
    <3>1. pending /\ enabled
      BY <1>2, <1>8, <2>1, <2>2, <2>3 DEF LinkIn, IndInv, Tied
    <3> QED
      BY <1>3, <1>4, <1>8, <2>3, <3>1, Zenon DEF LinkIn, Covered, Now
  <2>4. CASE t # linked
    <3>1. linked # None /\ task[linked] \in {"queued", "paused"}
      BY <1>2, <1>8, <2>2, <2>4 DEF LinkIn, IndInv, Tied, Running
    <3>2. linked' = linked /\ task'[linked] = task[linked]
      BY <1>3, <1>4, <1>8, <2>4, <3>1 DEF Held, Live
    <3> QED
      BY <3>1, <3>2 DEF LinkIn, Covered, Now
  <2> QED
    BY <2>3, <2>4
<1> QED
  BY <1>5, <1>7, <1>10, <1>11, <1>12 DEF IndInv

\* A queued task that is cancelled: one that runs is left alone, and the tasks stay sound.
LEMMA CancelledQueued ==
  ASSUME IndInv, NEW t \in Tasks, task[t] = "queued", NEW on \in BOOLEAN
  PROVE  LET e == Settles(Now, t, "cancelled", on) IN
         /\ Sound(e) /\ (e.pending => pending)
         /\ \A u \in Tasks \ {t} : task[u] \in Held => e.task[u] = task[u]
         /\ \A u \in Tasks : e.task[u] = "running" <=> task[u] = "running"
         /\ ~on => \A u \in Tasks : e.task[u] = "queued" => u # t /\ task[u] = "queued"
         /\ \A u \in Tasks : e.task[u] \in Held => u = e.linked \/ (u # t /\ e.task[u] = task[u])
         /\ t # linked => e.linked = linked /\ e.pending = pending
         /\ t = linked /\ pending /\ on => LinkIn(e, {"queued"})
<1>1. Sound(Now) /\ Now.task[t] \in Live /\ "cancelled" \in Finished \cup {"paused"}
  BY DEF IndInv, Now, Live, Finished
<1>2. Now.task = task /\ Now.linked = linked /\ Now.pending = pending
  BY DEF Now
<1> DEFINE e == Settles(Now, t, "cancelled", on)
<1>3. /\ Sound(e) /\ (e.pending => Now.pending)
      /\ \A u \in Tasks \ {t} : Now.task[u] \in Held => e.task[u] = Now.task[u]
      /\ \A u \in Tasks : e.task[u] = "running" => u # t /\ Now.task[u] = "running"
      /\ ~on => \A u \in Tasks : e.task[u] = "queued" => u # t /\ Now.task[u] = "queued"
      /\ \A u \in Tasks : e.task[u] \in Held => u = e.linked \/ (u # t /\ e.task[u] = Now.task[u])
      /\ t # Now.linked => e.linked = Now.linked /\ e.pending = Now.pending
      /\ t = Now.linked /\ Now.pending /\ on => LinkIn(e, {"queued"})
  BY <1>1, Settling
<1> HIDE DEF e
<1>4. \A u \in Tasks : e.task[u] = "running" <=> task[u] = "running"
  BY <1>2, <1>3 DEF Held, Live
<1> QED
  BY <1>2, <1>3, <1>4 DEF e

\* The user cancels a task.
LEMMA CancelStep ==
  ASSUME IndInv, NEW t \in Tasks, Cancel(t)
  PROVE  IndInv'
<1>1. /\ UNCHANGED <<enabled, watching, watch, dropped, reopening, timer, reload, woken>>
      /\ task[t] \in Live
      /\ reason' = IF task[t] = "running" /\ reason = "none" THEN "cancel" ELSE reason
      /\ change' = IF task[t] = "queued" /\ t = linked /\ ~timer /\ ~pending THEN "no" ELSE change
  BY DEF Cancel, Aborts
<1>2. CASE task[t] # "queued"
  <2>1. /\ UNCHANGED <<task, linked, pending, change>> /\ Now' = Now /\ task[t] = "running"
    BY <1>1, <1>2 DEF Cancel, Becomes, Now, Live
  <2>2. Flags'
    BY <1>1, <2>1, Zenon DEF IndInv, Flags
  <2>3. Tied'
    BY <1>1, <2>1 DEF IndInv, Tied, Starting, Running
  <2>4. OffStaysOff'
    BY <1>1, <2>1 DEF IndInv, OffStaysOff, Running
  <2> QED
    BY <1>1, <2>1, <2>2, <2>3, <2>4 DEF IndInv, ChangesCovered, Covered
<1>3. CASE task[t] = "queued"
  <2> DEFINE e == Settles(Now, t, "cancelled", enabled)
  <2>1. enabled \in BOOLEAN /\ Becomes(e)
    BY <1>3 DEF Cancel, IndInv, Flags
  <2>2. /\ Sound(e) /\ (e.pending => pending)
        /\ \A u \in Tasks \ {t} : task[u] \in Held => e.task[u] = task[u]
        /\ \A u \in Tasks : e.task[u] = "running" <=> task[u] = "running"
        /\ ~enabled => \A u \in Tasks : e.task[u] = "queued" => u # t /\ task[u] = "queued"
        /\ t # linked => e.linked = linked /\ e.pending = pending
        /\ t = linked /\ pending /\ enabled => LinkIn(e, {"queued"})
    BY <1>3, <2>1, CancelledQueued
  <2> HIDE DEF e
  <2>3. Sound(Now)' /\ pending' \in BOOLEAN
    BY <2>1, <2>2, SoundNext
  <2>4. task' = e.task /\ linked' = e.linked /\ pending' = e.pending
    BY <2>1 DEF Becomes
  <2>5. reason' = reason
    BY <1>1, <1>3
  <2>6. Flags'
    BY <1>1, <2>3, Zenon DEF IndInv, Flags
  <2>7. Running' = Running
    BY <2>2, <2>4 DEF Running
  <2>8. Tied'
    BY <1>1, <2>2, <2>4, <2>5, <2>7 DEF IndInv, Tied, Starting
  <2>9. OffStaysOff'
    BY <1>1, <2>2, <2>4, <2>5, <2>7 DEF IndInv, OffStaysOff
  <2>10. ChangesCovered'
    <3>1. SUFFICES ASSUME change' = "seen", ~timer PROVE Covered'
      BY <1>1 DEF ChangesCovered, Covered
    <3>2. change = "seen" /\ (t = linked => pending)
      BY <1>1, <1>3, <3>1
    <3>3. LinkIn(Now, {"queued", "paused"}) \/ (pending /\ LinkIn(Now, {"running"}))
      BY <3>1, <3>2 DEF IndInv, ChangesCovered, Covered
    <3>4. CASE t = linked
      <4>1. pending /\ enabled
        BY <3>2, <3>4 DEF IndInv, Tied
      <4> QED
        BY <2>2, <2>4, <3>4, <4>1 DEF LinkIn, Covered, Now
    <3>5. CASE t # linked
      <4>1. /\ linked # None /\ linked \in Tasks
            /\ task[linked] \in {"queued", "paused"} \/ (pending /\ task[linked] = "running")
        BY <3>3, SoundNow DEF LinkIn, Now, IndInv
      <4>2. linked' = linked /\ task'[linked] = task[linked] /\ pending' = pending
        BY <2>2, <2>4, <3>5, <4>1 DEF Held, Live
      <4> QED
        BY <4>1, <4>2 DEF LinkIn, Covered, Now
    <3> QED
      BY <3>4, <3>5
  <2> QED
    BY <2>3, <2>6, <2>8, <2>9, <2>10 DEF IndInv
<1> QED
  BY <1>2, <1>3

\* ensureRunning() leaves the linked task live, and no other task begins or stops.
LEMMA Ensured ==
  ASSUME NEW s, Sound(s),
         LinkIn(s, {"paused"}) => \A t, u \in Tasks : s.task[t] \in Held /\ s.task[u] \in Held
                                                         => t = u
  PROVE  LET e == EnsureRunning(s, TRUE) IN
         /\ Sound(e) /\ e.pending = s.pending
         /\ LinkIn(e, {"queued"}) \/ (e = s /\ LinkIn(s, Live))
         /\ \A u \in Tasks : e.task[u] = "running" <=> s.task[u] = "running"
<1> DEFINE e == EnsureRunning(s, TRUE)
<1>1. CASE LinkIn(s, Live)
  BY <1>1 DEF EnsureRunning
<1>2. CASE ~LinkIn(s, Live)
  <2>1. /\ Sound(e) /\ e.pending = s.pending
        /\ e.linked # None /\ e.task[e.linked] = "queued" /\ s.task[e.linked] \notin Held
        /\ \A t \in Tasks \ {e.linked} :
             /\ s.task[t] \in Held => e.task[t] = s.task[t]
             /\ e.task[t] \in Held => e.task[t] = s.task[t]
    BY <1>2, Enqueued
  <2> HIDE DEF e
  <2>2. ASSUME NEW u \in Tasks PROVE e.task[u] = "running" <=> s.task[u] = "running"
    BY <2>1 DEF Held, Live
  <2> QED
    BY <2>1, <2>2 DEF LinkIn, e
<1> QED
  BY <1>1, <1>2

\* What a record of the state is but for pendingIndex.
LEMMA PendingSet ==
  ASSUME NEW s, Sound(s), NEW p \in BOOLEAN
  PROVE  LET x == [s EXCEPT !.pending = p] IN
         Sound(x) /\ x.task = s.task /\ x.linked = s.linked /\ x.pending = p
<1> DEFINE x == [s EXCEPT !.pending = p]
<1>1. x.task = s.task /\ x.linked = s.linked /\ x.pending = p
  BY DEF Sound
<1>2. x \in [task : [Tasks -> Status], linked : Tasks \cup {None}, pending : BOOLEAN]
  BY DEF Sound
<1> HIDE DEF x
<1> QED
  BY <1>1, <1>2 DEF Sound, x

\* A run that is asked for follows: it is queued, or comes after the task at work.
LEMMA AskedFollows ==
  ASSUME Sound(Now)
  PROVE  /\ Sound(Asked)
         /\ LinkIn(Asked, {"queued", "paused"}) \/ (Asked.pending /\ LinkIn(Asked, {"running"}))
         /\ \A u \in Tasks : Asked.task[u] = "running" <=> task[u] = "running"
<1>1. CASE LinkIn(Now, Live \cup {"paused"})
  <2>1. Asked = [Now EXCEPT !.pending = TRUE]
    BY <1>1 DEF Asked
  <2>2. Sound(Asked) /\ Asked.task = Now.task /\ Asked.linked = Now.linked /\ Asked.pending = TRUE
    BY <2>1, PendingSet
  <2> QED
    BY <1>1, <2>2 DEF LinkIn, Live, Now
<1>2. CASE ~LinkIn(Now, Live \cup {"paused"})
  <2> DEFINE s == [Now EXCEPT !.pending = FALSE]
  <2>1. Asked = EnsureRunning(s, TRUE)
    BY <1>2 DEF Asked
  <2>2. Sound(s) /\ s.task = Now.task /\ s.linked = Now.linked
    BY PendingSet
  <2> HIDE DEF s
  <2>3. ~LinkIn(s, Live) /\ ~LinkIn(s, {"paused"})
    BY <1>2, <2>2 DEF LinkIn
  <2>4. /\ Sound(Asked)
        /\ LinkIn(Asked, {"queued"}) \/ (Asked = s /\ LinkIn(s, Live))
        /\ \A u \in Tasks : Asked.task[u] = "running" <=> s.task[u] = "running"
    BY <2>1, <2>2, <2>3, Ensured
  <2>5. Now.task = task
    BY DEF Now
  <2> QED
    BY <2>2, <2>3, <2>4, <2>5 DEF LinkIn
<1> QED
  BY <1>1, <1>2

\* A watch is closed, and what was asked for stays.
LEMMA Closed ==
  ASSUME NEW s, Sound(s), Closes(s)
  PROVE  /\ Sound(Now)' /\ task' = s.task /\ linked' = s.linked /\ pending' = FALSE
         /\ watch' = "none" /\ timer' = FALSE /\ reload' = FALSE
<1> DEFINE x == [s EXCEPT !.pending = FALSE]
<1>1. Sound(x) /\ x.task = s.task /\ x.linked = s.linked /\ x.pending = FALSE
  BY PendingSet
<1>2. Becomes(x) /\ watch' = "none" /\ timer' = FALSE /\ reload' = FALSE
  BY DEF Closes
<1> HIDE DEF x
<1>3. Sound(Now)'
  BY <1>1, <1>2, SoundNext
<1> QED
  BY <1>1, <1>2, <1>3 DEF Becomes

\* A stop() closes the watch, or waits for open() to return.
LEMMA Stopped ==
  ASSUME IndInv, NEW s, Sound(s), s.pending => pending, WatchStops(s)
  PROVE  /\ Sound(Now)' /\ task' = s.task /\ linked' = s.linked
         /\ pending' \in BOOLEAN /\ dropped' \in BOOLEAN /\ timer' \in BOOLEAN /\ reload' \in BOOLEAN
         /\ watch' \in {"none", "opening", "settling"} /\ (watch' # "none" => dropped')
         /\ (timer' \/ pending' => watch' = "settling") /\ (reload' => timer')
         /\ (dropped' => watch' \in {"opening", "settling"})
<1>1. CASE Starting /\ dropped' = TRUE /\ Becomes(s) /\ UNCHANGED <<watch, timer, reload>>
  <2>1. Sound(Now)' /\ pending' \in BOOLEAN
    BY <1>1, SoundNext
  <2>2. task' = s.task /\ linked' = s.linked /\ (pending' => pending)
    BY <1>1 DEF Becomes
  <2>3. dropped' \in BOOLEAN /\ timer' \in BOOLEAN /\ reload' \in BOOLEAN
    BY <1>1, Zenon DEF IndInv, Flags
  <2> QED
    BY <1>1, <2>1, <2>2, <2>3 DEF IndInv, Tied, Starting
<1>2. CASE ~Starting /\ Closes(s) /\ UNCHANGED dropped
  <2>1. /\ Sound(Now)' /\ task' = s.task /\ linked' = s.linked /\ pending' = FALSE
        /\ watch' = "none" /\ timer' = FALSE /\ reload' = FALSE
    BY <1>2, Closed
  <2>2. ~dropped /\ dropped' = FALSE
    BY <1>2, Zenon DEF IndInv, Tied, Flags
  <2> QED
    BY <2>1, <2>2
<1> QED
  BY <1>1, <1>2 DEF WatchStops

\* open() returns.
LEMMA SettledStep == IndInv /\ Settled => IndInv'
<1> SUFFICES ASSUME IndInv, Settled PROVE IndInv'
  OBVIOUS
<1>1. /\ watch = "settling" /\ dropped' = FALSE
      /\ UNCHANGED <<enabled, reason, watching, reopening, woken>>
  BY DEF Settled
<1>2. CASE dropped /\ Closes(Now) /\ Loses(Now)
  <2>1. /\ Sound(Now)' /\ task' = Now.task /\ linked' = Now.linked /\ pending' = FALSE
        /\ watch' = "none" /\ timer' = FALSE /\ reload' = FALSE
    BY <1>2, Closed DEF IndInv
  <2>2. task' = task /\ linked' = linked /\ Running' = Running
    BY <2>1 DEF Now, Running
  <2>3. Flags'
    BY <1>1, <2>1, Zenon DEF IndInv, Flags
  <2>4. Tied'
    BY <1>1, <1>2, <2>1, <2>2 DEF IndInv, Tied, Starting, Loses
  <2>5. ChangesCovered' /\ OffStaysOff'
    BY <1>1, <1>2, <2>2 DEF IndInv, ChangesCovered, Covered, LinkIn, Now, Loses, OffStaysOff
  <2> QED
    BY <2>1, <2>3, <2>4, <2>5 DEF IndInv
<1>3. CASE ~dropped /\ watch' = "open" /\ UNCHANGED <<linked, task, state, change>>
  <2>1. UNCHANGED <<timer, reload, pending>> /\ Now' = Now /\ Running' = Running
    BY <1>3 DEF state, Now, Running
  <2>2. Flags'
    BY <1>1, <2>1, Zenon DEF IndInv, Flags
  <2>3. Tied'
    BY <1>1, <1>3, <2>1 DEF IndInv, Tied, Starting
  <2> QED
    BY <1>1, <1>3, <2>1, <2>2, <2>3 DEF IndInv, ChangesCovered, Covered, OffStaysOff
<1> QED
  BY <1>2, <1>3 DEF Settled

\* The debounce ends.
LEMMA TimerStep == IndInv /\ TimerFires => IndInv'
<1> SUFFICES ASSUME IndInv, TimerFires PROVE IndInv'
  OBVIOUS
<1> DEFINE a == IF enabled THEN Asked ELSE Now
<1>1. /\ timer /\ timer' = FALSE /\ reload' = FALSE /\ reopening' = (reopening \/ reload)
      /\ UNCHANGED <<enabled, reason, watching, woken>>
      /\ \/ enabled /\ ~reload /\ Becomes(a) /\ UNCHANGED <<watch, dropped, change>>
         \/ /\ (~enabled \/ reload) /\ Starting
            /\ Becomes(a) /\ dropped' = TRUE /\ UNCHANGED <<watch, change>>
         \/ /\ (~enabled \/ reload) /\ ~Starting
            /\ Closes(a) /\ Loses(a) /\ UNCHANGED dropped
  BY DEF TimerFires
<1>2. /\ Sound(a)
      /\ enabled => LinkIn(a, {"queued", "paused"}) \/ (a.pending /\ LinkIn(a, {"running"}))
      /\ \A u \in Tasks : a.task[u] = "running" <=> task[u] = "running"
      /\ ~enabled => a.task = task
  <2>1. CASE enabled
    BY <2>1, AskedFollows DEF IndInv
  <2>2. CASE ~enabled
    BY <2>2 DEF IndInv, Now
  <2> QED
    BY <2>1, <2>2
<1> HIDE DEF a
<1>3. reopening' \in BOOLEAN
  BY <1>1
<1>4. change = "seen" => enabled
  BY DEF IndInv, Tied
<1>5. CASE /\ Becomes(a) /\ UNCHANGED <<watch, change>>
           /\ UNCHANGED dropped \/ (Starting /\ dropped' = TRUE)
  <2>1. Sound(Now)' /\ pending' \in BOOLEAN
    BY <1>2, <1>5, SoundNext
  <2>2. Flags'
    BY <1>1, <1>3, <1>5, <2>1, Zenon DEF IndInv, Flags
  <2>3. task' = a.task /\ Running' = Running
    BY <1>2, <1>5 DEF Running, Becomes
  <2>4. Tied'
    BY <1>1, <1>5, <2>3 DEF IndInv, Tied, Starting
  <2>5. ChangesCovered'
    BY <1>2, <1>4, <1>5 DEF Becomes, ChangesCovered, Covered, LinkIn, Now
  <2>6. OffStaysOff'
    BY <1>1, <1>2, <2>3 DEF IndInv, OffStaysOff
  <2> QED
    BY <2>1, <2>2, <2>4, <2>5, <2>6 DEF IndInv
<1>6. CASE ~Starting /\ Closes(a) /\ Loses(a) /\ UNCHANGED dropped
  <2>1. /\ Sound(Now)' /\ task' = a.task /\ linked' = a.linked /\ pending' = FALSE
        /\ watch' = "none"
    BY <1>2, <1>6, Closed
  <2>2. Flags'
    BY <1>1, <1>3, <1>6, <2>1, Zenon DEF IndInv, Flags
  <2>3. Running' = Running
    BY <1>2, <2>1 DEF Running
  <2>4. Tied'
    BY <1>1, <1>6, <2>1, <2>3 DEF IndInv, Tied, Starting, Loses
  <2>5. ChangesCovered'
    BY <1>6, <2>1 DEF ChangesCovered, Covered, LinkIn, Now, Loses
  <2>6. OffStaysOff'
    BY <1>1, <1>2, <2>1, <2>3 DEF IndInv, OffStaysOff
  <2> QED
    BY <2>1, <2>2, <2>4, <2>5, <2>6 DEF IndInv
<1> QED
  BY <1>1, <1>5, <1>6

\* The user, or a workspace that opens, asks for a run.
LEMMA StartStep == IndInv /\ Start => IndInv'
<1> SUFFICES ASSUME IndInv, Start PROVE IndInv'
  OBVIOUS
<1>1. /\ HasRoom /\ Becomes(EnsureRunning(Now, TRUE))
      /\ watch' = IF watching /\ watch = "none" THEN "opening" ELSE watch
      /\ enabled' = TRUE /\ woken' = {}
      /\ UNCHANGED <<reason, watching, dropped, reopening, timer, reload, change>>
  BY DEF Start, WatchStarts
<1>2. \A t, u \in Tasks : Now.task[t] \in Held /\ Now.task[u] \in Held => t = u
  BY <1>1 DEF HasRoom, Held, Now
<1>3. Sound(Now) /\ Now.task = task /\ Now.pending = pending
  BY DEF IndInv, Now
<1> DEFINE e == EnsureRunning(Now, TRUE)
<1>4. /\ Sound(e) /\ e.pending = Now.pending
      /\ LinkIn(e, {"queued"}) \/ (e = Now /\ LinkIn(Now, Live))
      /\ \A u \in Tasks : e.task[u] = "running" <=> Now.task[u] = "running"
  BY <1>2, <1>3, Ensured
<1>5. Becomes(e)
  BY <1>1
<1> HIDE DEF e
<1>6. Sound(Now)' /\ pending' \in BOOLEAN /\ pending' = pending
  BY <1>3, <1>4, <1>5, SoundNext DEF Becomes
<1>7. Flags'
  BY <1>1, <1>6, Zenon DEF IndInv, Flags
<1>8. Running' = Running
  BY <1>3, <1>4, <1>5 DEF Running, Becomes
<1>9. Tied'
  BY <1>1, <1>6, <1>8 DEF IndInv, Tied, Starting
<1>10. ChangesCovered'
  <2>1. CASE LinkIn(e, {"queued"})
    BY <1>5, <2>1 DEF Becomes, ChangesCovered, Covered, LinkIn, Now
  <2>2. CASE e = Now
    <3>1. UNCHANGED <<task, linked, pending, timer, change>> /\ Now' = Now
      BY <1>1, <1>3, <1>5, <1>6, <2>2 DEF Becomes, Now
    <3> QED
      BY <3>1 DEF IndInv, ChangesCovered, Covered
  <2> QED
    BY <1>4, <2>1, <2>2
<1> QED
  BY <1>1, <1>6, <1>7, <1>9, <1>10 DEF IndInv, OffStaysOff

\* The linked task is cancelled: what is left, whether it was queued or not.
LEMMA LinkedCancelled ==
  ASSUME IndInv, NEW on \in BOOLEAN
  PROVE  LET e == CancelsLinked(on) IN
         /\ Sound(e) /\ (e.pending => pending)
         /\ \A u \in Tasks \ {linked} : task[u] \in Held => e.task[u] = task[u]
         /\ \A u \in Tasks : e.task[u] = "running" <=> task[u] = "running"
         /\ ~on => \A u \in Tasks : e.task[u] = "queued" => u # linked /\ task[u] = "queued"
         /\ HasRoom => \A u, v \in Tasks : e.task[u] \in Held /\ e.task[v] \in Held => u = v
<1>1. linked \in Tasks \cup {None} /\ Sound(Now) /\ Now.task = task /\ Now.pending = pending
      /\ Now.linked = linked
  BY SoundNow DEF IndInv
<1>2. CASE LinkIn(Now, {"queued"})
  <2>1. linked \in Tasks /\ task[linked] = "queued"
    BY <1>1, <1>2 DEF LinkIn
  <2> DEFINE e == Settles(Now, linked, "cancelled", on)
  <2>2. CancelsLinked(on) = e
    BY <1>2 DEF CancelsLinked
  <2>3. /\ Sound(e) /\ (e.pending => pending)
        /\ \A u \in Tasks \ {linked} : task[u] \in Held => e.task[u] = task[u]
        /\ \A u \in Tasks : e.task[u] = "running" <=> task[u] = "running"
        /\ ~on => \A u \in Tasks : e.task[u] = "queued" => u # linked /\ task[u] = "queued"
        /\ \A u \in Tasks : e.task[u] \in Held => u = e.linked \/ (u # linked /\ e.task[u] = task[u])
    BY <2>1, CancelledQueued
  <2> HIDE DEF e
  <2>4. HasRoom => \A u \in Tasks : e.task[u] \in Held => u = e.linked
    BY <2>1, <2>3 DEF HasRoom, Held, Live
  <2> QED
    BY <2>2, <2>3, <2>4
<1>3. CASE ~LinkIn(Now, {"queued"})
  <2>1. CancelsLinked(on) = Now
    BY <1>3 DEF CancelsLinked
  <2>2. \A u \in Tasks : task[u] = "queued" => u # linked
    BY <1>1, <1>3, WatchAssumption DEF LinkIn
  <2>3. HasRoom => \A u, v \in Tasks : task[u] \in Held /\ task[v] \in Held => u = v
    BY DEF HasRoom, Held
  <2> QED
    BY <1>1, <2>1, <2>2, <2>3
<1> QED
  BY <1>2, <1>3

\* The user turns the index off.
LEMMA DisableStep == IndInv /\ Disable => IndInv'
<1> SUFFICES ASSUME IndInv, Disable PROVE IndInv'
  OBVIOUS
<1> DEFINE s == CancelsLinked(FALSE)
<1>1. /\ WatchStops(s) /\ AbortsLinked
      /\ enabled' = FALSE /\ change' = "no" /\ UNCHANGED <<watching, reopening>>
      /\ woken' = {t \in Tasks : task[t] \in Live /\ t # linked}
  BY DEF Disable, Disabled
<1>2. /\ Sound(s) /\ (s.pending => pending)
      /\ \A u \in Tasks : s.task[u] = "running" <=> task[u] = "running"
      /\ \A u \in Tasks : s.task[u] = "queued" => u # linked /\ task[u] = "queued"
  BY LinkedCancelled
<1> HIDE DEF s
<1>3. /\ Sound(Now)' /\ task' = s.task /\ linked' = s.linked
      /\ pending' \in BOOLEAN /\ dropped' \in BOOLEAN /\ timer' \in BOOLEAN /\ reload' \in BOOLEAN
      /\ watch' \in {"none", "opening", "settling"} /\ (watch' # "none" => dropped')
      /\ (timer' \/ pending' => watch' = "settling") /\ (reload' => timer')
      /\ (dropped' => watch' \in {"opening", "settling"})
  BY <1>1, <1>2, Stopped
<1>4. Flags'
  BY <1>1, <1>3, Zenon DEF IndInv, Flags
<1>5. Running' = Running
  BY <1>2, <1>3 DEF Running
<1>6. /\ reason' \in {reason, "cancel"} /\ (Running = {} => reason' = reason)
      /\ (reason # "none" => reason' = reason)
      /\ linked \in Running => reason' # "none"
  <2>1. linked \in Tasks \cup {None}
    BY SoundNow DEF IndInv
  <2> QED
    BY <1>1, <2>1, WatchAssumption DEF AbortsLinked, Aborts, Running, IndInv, Tied
<1>7. Tied'
  BY <1>1, <1>3, <1>5, <1>6 DEF IndInv, Tied, Starting
<1>8. OffStaysOff'
  <2> SUFFICES ASSUME NEW t \in Tasks, t \notin woken'
               PROVE  task'[t] # "queued" /\ (t \in Running' => reason' # "none")
    BY DEF OffStaysOff
  <2>1. task[t] \notin Live \/ t = linked
    BY <1>1
  <2> QED
    BY <1>2, <1>3, <1>5, <1>6, <2>1 DEF Running, Live
<1> QED
  BY <1>1, <1>3, <1>4, <1>7, <1>8 DEF IndInv, ChangesCovered

\* The user clears the index.
LEMMA ClearStep == IndInv /\ Clear => IndInv'
<1> SUFFICES ASSUME IndInv, Clear PROVE IndInv'
  OBVIOUS
<1> DEFINE s == CancelsLinked(enabled)
           e == [s EXCEPT !.linked = None]
<1>1. /\ Becomes(e) /\ AbortsLinked /\ HasRoom
      /\ change' = "no"
      /\ UNCHANGED <<enabled, watching, watch, dropped, reopening, timer, reload, woken>>
  BY DEF Clear
<1>2. /\ Sound(s) /\ (s.pending => pending)
      /\ \A u \in Tasks : s.task[u] = "running" <=> task[u] = "running"
      /\ ~enabled => \A u \in Tasks : s.task[u] = "queued" => task[u] = "queued"
      /\ \A u, v \in Tasks : s.task[u] \in Held /\ s.task[v] \in Held => u = v
  BY <1>1, LinkedCancelled DEF IndInv, Flags
<1> HIDE DEF s
<1>3. e.task = s.task /\ e.linked = None /\ e.pending = s.pending
  BY <1>2 DEF Sound
<1>4. e \in [task : [Tasks -> Status], linked : Tasks \cup {None}, pending : BOOLEAN]
  BY <1>2 DEF Sound
<1> HIDE DEF e
<1>5. Sound(e)
  BY <1>2, <1>3, <1>4 DEF Sound
<1>6. Sound(Now)' /\ pending' \in BOOLEAN
  BY <1>1, <1>5, SoundNext
<1>7. Flags'
  BY <1>1, <1>6, Zenon DEF IndInv, Flags
<1>8. Running' = Running /\ (pending' => pending)
  BY <1>1, <1>2, <1>3 DEF Running, Becomes
<1>9. /\ reason' \in {reason, "cancel"} /\ (Running = {} => reason' = reason)
      /\ (reason # "none" => reason' = reason)
  <2>1. linked \in Tasks \cup {None}
    BY SoundNow DEF IndInv
  <2> QED
    BY <1>1, <2>1 DEF AbortsLinked, Aborts, Running, IndInv, Tied
<1>10. Tied'
  BY <1>1, <1>8, <1>9 DEF IndInv, Tied, Starting
<1>11. OffStaysOff'
  <2>1. task' = s.task
    BY <1>1, <1>3 DEF Becomes
  <2> QED
    BY <1>1, <1>2, <1>8, <1>9, <2>1 DEF IndInv, OffStaysOff
<1> QED
  BY <1>1, <1>6, <1>7, <1>10, <1>11 DEF IndInv, ChangesCovered

\* The watchWorkspaces setting changes.
LEMMA SettingStep == IndInv /\ SetWatching => IndInv'
<1> SUFFICES ASSUME IndInv, SetWatching PROVE IndInv'
  OBVIOUS
<1>1. watching' = ~watching /\ UNCHANGED <<enabled, reason, reopening, woken>>
  BY DEF SetWatching
<1>2. watching' \in BOOLEAN
  BY <1>1
<1>3. CASE watching
  <2>1. WatchStops(Now) /\ change' = "no"
    BY <1>3 DEF SetWatching
  <2>2. Sound(Now) /\ Now.task = task /\ Now.pending = pending
    BY DEF IndInv, Now
  <2>3. /\ Sound(Now)' /\ task' = Now.task /\ linked' = Now.linked
        /\ pending' \in BOOLEAN /\ dropped' \in BOOLEAN /\ timer' \in BOOLEAN /\ reload' \in BOOLEAN
        /\ watch' \in {"none", "opening", "settling"} /\ (watch' # "none" => dropped')
        /\ (timer' \/ pending' => watch' = "settling") /\ (reload' => timer')
        /\ (dropped' => watch' \in {"opening", "settling"})
    BY <2>1, <2>2, Stopped
  <2>4. Flags'
    BY <1>1, <1>2, <2>3, Zenon DEF IndInv, Flags
  <2>5. Running' = Running
    BY <2>2, <2>3 DEF Running
  <2>6. Tied'
    BY <1>1, <2>1, <2>3, <2>5 DEF IndInv, Tied, Starting
  <2>7. OffStaysOff'
    BY <1>1, <2>2, <2>3, <2>5 DEF IndInv, OffStaysOff
  <2> QED
    BY <2>1, <2>3, <2>4, <2>6, <2>7 DEF IndInv, ChangesCovered
<1>4. CASE ~watching
  <2>1. /\ watch' = IF enabled /\ watch = "none" THEN "opening" ELSE watch
        /\ UNCHANGED <<linked, task, dropped, timer, reload, pending, change>>
    BY <1>4 DEF SetWatching, WatchStarts, state
  <2>2. Now' = Now /\ Running' = Running
    BY <2>1 DEF Now, Running
  <2>3. Flags'
    BY <1>1, <1>2, <2>1, Zenon DEF IndInv, Flags
  <2>4. Tied'
    BY <1>1, <1>4, <2>1, <2>2 DEF IndInv, Tied, Starting
  <2>5. OffStaysOff'
    BY <1>1, <2>1, <2>2 DEF IndInv, OffStaysOff
  <2> QED
    BY <2>1, <2>2, <2>3, <2>4, <2>5 DEF IndInv, ChangesCovered, Covered
<1> QED
  BY <1>3, <1>4

\* The app starts again.
LEMMA RestartStep == IndInv /\ Restart => IndInv'
<1> SUFFICES ASSUME IndInv, Restart PROVE IndInv'
  OBVIOUS
<1> DEFINE queued == [t \in Tasks |-> IF t \in Running THEN "queued" ELSE task[t]]
           s == [Now EXCEPT !.pending = FALSE, !.task = queued]
           e == Pruned(s)
<1>1. /\ Becomes(e) /\ reason' = "none" /\ change' = "no"
      /\ woken' = IF enabled THEN {} ELSE woken \cup Running
      /\ watch' = IF watching /\ enabled THEN "opening" ELSE "none"
      /\ dropped' = FALSE /\ reopening' = FALSE /\ timer' = FALSE /\ reload' = FALSE
      /\ UNCHANGED <<enabled, watching>>
  BY DEF Restart
<1>2. /\ task \in [Tasks -> Status] /\ linked \in Tasks \cup {None}
      /\ linked # None => task[linked] # "none"
      /\ \A v, u \in Tasks \ {linked} : task[v] \in Held /\ task[u] \in Held => v = u
  BY SoundNow DEF IndInv
<1>3. s.task = queued /\ s.linked = linked /\ s.pending = FALSE
  BY DEF Now
<1>4. /\ e.task = [t \in Tasks |-> IF queued[t] \in Finished /\ t # linked THEN "none"
                                                                        ELSE queued[t]]
      /\ e.linked = linked /\ e.pending = FALSE
  BY <1>3 DEF Pruned, Now
<1>5. /\ \A t \in Tasks : queued[t] \in Status /\ queued[t] # "running"
      /\ \A t \in Tasks : queued[t] \in Held <=> task[t] \in Held
  BY <1>2 DEF Status, Held, Live, Running, Finished
<1>6. linked # None => queued[linked] # "none"
  BY <1>2, <1>5 DEF Held, Live
<1>7. /\ task' = e.task /\ linked' = linked /\ pending' = FALSE
  BY <1>1, <1>4 DEF Becomes
<1> HIDE DEF queued, s
<1>8. /\ task' \in [Tasks -> Status] /\ (linked # None => task'[linked] # "none")
      /\ \A v, u \in Tasks \ {linked} : task'[v] \in Held /\ task'[u] \in Held => v = u
      /\ \A t \in Tasks : task'[t] # "running"
  <2>1. task' \in [Tasks -> Status]
    BY <1>4, <1>5, <1>7 DEF Status
  <2>2. linked # None => task'[linked] # "none"
    BY <1>2, <1>4, <1>6, <1>7
  <2>3. \A t \in Tasks : task'[t] # "running" /\ (task'[t] \in Held => task[t] \in Held)
    BY <1>4, <1>5, <1>7 DEF Held, Live
  <2> QED
    BY <1>2, <2>1, <2>2, <2>3
<1> HIDE DEF e
<1>9. Sound(Now)'
  <2>1. Now' \in [task : [Tasks -> Status], linked : Tasks \cup {None}, pending : BOOLEAN]
    BY <1>2, <1>7, <1>8 DEF Now
  <2>2. Now'.task = task' /\ Now'.linked = linked
    BY <1>7 DEF Now
  <2> QED
    BY <1>8, <2>1, <2>2 DEF Sound
<1>10. Flags'
  BY <1>1, <1>7, Zenon DEF IndInv, Flags
<1>11. Running' = {}
  BY <1>8 DEF Running
<1>12. Tied'
  <2>1. woken' \subseteq Tasks /\ (enabled => woken' = {})
    BY <1>1 DEF IndInv, Tied, Running
  <2>2. /\ watch' \in {"none", "opening"} /\ ~dropped' /\ ~timer' /\ ~pending' /\ ~reload'
        /\ change' = "no" /\ reason' = "none" /\ enabled' = enabled /\ watching' = watching
        /\ (watch' # "none" => enabled /\ watching)
    BY <1>1, <1>7
  <2> QED
    BY <1>11, <2>1, <2>2 DEF Tied, Starting
<1>13. OffStaysOff'
  <2> SUFFICES ASSUME ~enabled, NEW t \in Tasks, t \notin woken'
               PROVE  task'[t] # "queued"
    BY <1>1, <1>11 DEF OffStaysOff
  <2>1. t \notin woken /\ t \notin Running
    BY <1>1
  <2>2. queued[t] # "queued"
    BY <2>1 DEF IndInv, OffStaysOff, queued
  <2> QED
    BY <1>4, <1>7, <2>2 DEF e
<1> QED
  BY <1>1, <1>9, <1>10, <1>12, <1>13 DEF IndInv, ChangesCovered

-----------------------------------------------------------------------------
(* The theorems. *)

LEMMA InitInv == Init => IndInv
<1> SUFFICES ASSUME Init PROVE IndInv
  OBVIOUS
<1>1. Flags
  BY Zenon DEF Init, Flags
<1>2. Tied
  BY DEF Init, Tied, Running
<1>3. Sound(Now)
  BY DEF Init, Sound, Now, Held, Live, Status
<1> QED
  BY <1>1, <1>2, <1>3 DEF IndInv, Init, ChangesCovered, OffStaysOff

LEMMA NextInv == IndInv /\ [Next]_vars => IndInv'
<1> SUFFICES ASSUME IndInv, [Next]_vars PROVE IndInv'
  OBVIOUS
<1>1. CASE UNCHANGED vars
  <2>1. /\ UNCHANGED <<enabled, linked, task, reason, watching, watch, dropped, reopening>>
        /\ UNCHANGED <<timer, reload, pending, change, woken>>
    BY <1>1 DEF vars, state
  <2>2. Now' = Now /\ Running' = Running /\ Flags' = Flags
    BY <2>1 DEF Now, Running, Flags
  <2> QED
    BY <2>1, <2>2 DEF IndInv, Tied, Starting, ChangesCovered, Covered, OffStaysOff
<1>2. ASSUME NEW t \in Tasks, Launch(t) \/ Ends(t) \/ Pause(t) \/ Cancel(t) \/ Resume(t)
      PROVE  IndInv'
  BY <1>2, RunnerStep, EndStep, CancelStep
<1> QED
  BY <1>1, <1>2, WatchStep, SettledStep, TimerStep, StartStep, DisableStep, ClearStep,
     SettingStep, RestartStep
  DEF Next

LEMMA Inductive == Spec => []IndInv
BY InitInv, NextInv, PTL DEF Spec

\* Every variable keeps its type, no two index tasks run, a watch that no stop() waits for is of
\* an enabled index, and the linked task is never pruned.
THEOREM TypeCorrect == Spec => []TypeOK
<1>1. IndInv => TypeOK
  <2> SUFFICES ASSUME IndInv PROVE TypeOK
    OBVIOUS
  <2>1. /\ task \in [Tasks -> Live \cup Finished \cup {"none", "paused"}]
        /\ linked \in Tasks \cup {None} /\ (linked # None => task[linked] # "none")
    BY SoundNow DEF IndInv, Status
  <2> QED
    BY <2>1 DEF IndInv, Flags, Tied, TypeOK
<1> QED
  BY Inductive, <1>1, PTL

\* A change of an enabled index that was seen, and that no run has begun after, has a timer, a
\* queued or paused run, or a running one that onTaskStatus() follows up, whatever the user and
\* the runner do to the tasks, unless its watch was closed over it; for any three ids of tasks.
THEOREM ChangesFollowed == Spec => []ChangesCovered
<1>1. IndInv => ChangesCovered
  BY DEF IndInv
<1> QED
  BY Inductive, <1>1, PTL

\* Of a disabled index no task is queued and the one at work is aborted, whatever comes late,
\* but for tasks the link had lost, that the user resumes or that a boot queues again.
THEOREM OffStays == Spec => []OffStaysOff
<1>1. IndInv => OffStaysOff
  BY DEF IndInv
<1> QED
  BY Inductive, <1>1, PTL

-----------------------------------------------------------------------------

(* The executor (IndexFiles).  *)

\* The row is the file's, as far as its stat can tell.
Current(row, p) ==
  /\ row # NoRow /\ row.stat = disk[p].stat
  /\ p \notin veiled => row.hash = disk[p].text

\* A row that has the stat of its file has its hash, unless that stat came again.
Fits(row, p) ==
  row # NoRow =>
    /\ row.stat <= edits
    /\ disk[p] # Absent /\ row.stat = disk[p].stat /\ p \notin veiled => row.hash = disk[p].text

Stats ==
  \A p \in Paths : /\ disk[p] # Absent => disk[p].stat <= edits
                   /\ Fits(rows[p], p) /\ Fits(batch[p], p)

Walking == at \in {"walk", "hash", "flush"}

\* What the executor's place says of its lists.
Order ==
  /\ at = "off" => seen = {} /\ missed = {} /\ ~disturbed
  /\ Walking => todo \cap seen = {} /\ missed \cap (todo \cup seen) = {}
  /\ at = "hash" => /\ reading.path \in seen /\ batch[reading.path] = NoRow
                    /\ reading.stat <= edits
  /\ disturbed => raced
  /\ veiled # {} => raced

View(p) == IF batch[p] # NoRow THEN batch[p] ELSE rows[p]
Passed(p) == p \notin todo /\ ~(at = "hash" /\ p = reading.path)

\* To the walk, a file it passed over is gone.
Gone(p) == disk[p] = Absent \/ p \in missed

\* How far a run that nothing disturbs has brought the rows.
Progress ==
  /\ Walking => \A p \in Paths : Passed(p) =>
       IF Gone(p) THEN p \notin seen ELSE p \in seen /\ Current(View(p), p)
  /\ at = "hash" => disk[reading.path] # Absent /\ reading.stat = disk[reading.path].stat
  /\ at = "last" /\ ~aborted => \A p \in Paths :
       IF Gone(p) THEN p \notin seen ELSE p \in seen /\ Current(rows[p], p)
  /\ at \in {"meta", "symbols"} => \A p \in Paths :
       IF Gone(p) THEN rows[p] = NoRow ELSE Current(rows[p], p)
  /\ at = "symbols" => Dirty \subseteq todo \cup {reading.path}

Exact ==
  \A p \in Paths : IF disk[p] = Absent THEN rows[p] = NoRow
                   ELSE Current(rows[p], p) /\ rows[p].stage = "symbols"

\* A run over an exact index finds nothing to read.
Still ==
  /\ ~disturbed /\ missed = {} /\ Exact /\ batch = Empty
  /\ at \in {"off", "walk", "last", "meta"}

\* A row that is marked extracted has the symbols of its hash, or was not read.
Holds(row, p) ==
  row # NoRow /\ row.stage = "symbols" /\ p \notin unread => symbols[p] = row.hash

Extant ==
  /\ \A p \in Paths : Holds(rows[p], p) /\ Holds(batch[p], p)
  /\ at = "hash" => reading.was = rows[reading.path]

FilesInv ==
  /\ FilesTypeOK /\ Stats /\ Order
  /\ ~disturbed => Progress
  /\ fresh => Still
  /\ ~raced => Extant

LEMMA EmptyBatch == Cardinality({p \in Paths : Empty[p] # NoRow}) < BatchSize
<1>1. {p \in Paths : Empty[p] # NoRow} = {}
  BY DEF Empty
<1> QED
  BY <1>1, FS_EmptySet, IndexAssumption

\* The executor is done, one way or another.
LEMMA IdleKeeps ==
  ASSUME FilesInv, Idle, UNCHANGED <<world, raced>>,
         unread' \subseteq Paths,
         rows' \in [Paths -> Row \cup {NoRow}], symbols' \in [Paths -> Texts \cup {Nothing}],
         \A p \in Paths : rows'[p] = NoRow => symbols'[p] = Nothing,
         \A p \in Paths : Fits(rows[p], p)',
         ~raced => \A p \in Paths : Holds(rows[p], p)',
         fresh' \in BOOLEAN, fresh' => Exact'
  PROVE  FilesInv'
<1>1. FilesTypeOK'
  BY EmptyBatch DEF FilesInv, FilesTypeOK, Idle, Empty, world
<1>2. Stats'
  BY DEF FilesInv, Stats, Fits, Idle, Empty, world
<1>3. Order' /\ ~disturbed' /\ Progress'
  BY DEF FilesInv, Order, Progress, Walking, Idle, world
<1>4. fresh' => Still'
  BY <1>3 DEF Still, Idle
<1>5. ~raced' => Extant'
  BY DEF Extant, Holds, Idle, Empty
<1> QED
  BY <1>1, <1>2, <1>3, <1>4, <1>5 DEF FilesInv

\* A run is stopped, fails, or dies with the process.
LEMMA StopsStep ==
  ASSUME FilesInv, Stops, UNCHANGED world
  PROVE  FilesInv'
<1>1. Idle /\ UNCHANGED <<disk, edits, veiled, unread, rows, symbols, fresh, raced>>
  BY DEF Stops, index, world
<1>2. \A p \in Paths : Fits(rows[p], p)'
  BY <1>1 DEF FilesInv, Stats, Fits
<1>3. ~raced => \A p \in Paths : Holds(rows[p], p)'
  BY <1>1 DEF FilesInv, Extant, Holds
<1>4. fresh' => Exact'
  BY <1>1 DEF FilesInv, Still, Exact, Current
<1> QED
  BY <1>1, <1>2, <1>3, <1>4, IdleKeeps DEF FilesInv, FilesTypeOK, world

\* The stages of a run, from await to await.
LEMMA ExecuteStep == FilesInv /\ Execute => FilesInv'
<1> SUFFICES ASSUME FilesInv, Execute PROVE FilesInv'
  OBVIOUS
<1>1. /\ at = "off" /\ at' = "walk" /\ todo' = Paths
      /\ UNCHANGED <<disk, edits, veiled, unread, rows, symbols, aborted, seen, reading, batch,
                     disturbed, missed, fresh, raced>>
  BY DEF Execute, world, index
<1>2. FilesTypeOK'
  BY <1>1 DEF FilesInv, FilesTypeOK
<1>3. Stats' /\ Order'
  BY <1>1 DEF FilesInv, Stats, Fits, Order, Walking
<1>4. Progress'
  BY <1>1 DEF FilesInv, Progress, Passed, Gone, Walking
<1>5. (fresh' => Still') /\ (~raced' => Extant')
  BY <1>1 DEF FilesInv, Still, Exact, Current, Extant, Holds
<1> QED
  BY <1>2, <1>3, <1>4, <1>5 DEF FilesInv

LEMMA WalkedStep == ASSUME FilesInv, NEW p \in Paths, Walked(p) PROVE FilesInv'
<1>1. CASE disk[p] # Absent /\ aborted /\ Stops
  BY <1>1, StopsStep DEF Walked
<1>2. CASE /\ disk[p] = Absent /\ todo' = todo \ {p}
           /\ UNCHANGED <<index, at, aborted, seen, reading, batch, disturbed, missed, fresh,
                          raced>>
  <2>1. /\ at = "walk" /\ p \in todo
        /\ UNCHANGED <<disk, edits, veiled, unread, rows, symbols>>
    BY <1>2 DEF Walked, world, index
  <2>2. FilesTypeOK' /\ Stats' /\ Order'
    BY <1>2, <2>1 DEF FilesInv, FilesTypeOK, Stats, Fits, Order, Walking
  <2>3. ~disturbed' => Progress'
    BY <1>2, <2>1 DEF FilesInv, Order, Progress, Passed, Gone, Walking, View, Current
  <2>4. (fresh' => Still') /\ (~raced' => Extant')
    BY <1>2, <2>1 DEF FilesInv, Still, Exact, Current, Extant, Holds
  <2> QED
    BY <2>2, <2>3, <2>4 DEF FilesInv
<1>3. CASE /\ disk[p] # Absent /\ Same(p)
           /\ todo' = todo \ {p} /\ seen' = seen \cup {p}
           /\ UNCHANGED <<index, at, aborted, reading, batch, disturbed, missed, fresh, raced>>
  <2>1. /\ at = "walk" /\ p \in todo /\ UNCHANGED <<disk, edits, veiled, unread, rows, symbols>>
        /\ p \notin seen /\ batch[p] = NoRow
    BY <1>3 DEF Walked, world, index, FilesInv, FilesTypeOK, Order, Walking
  <2>2. FilesTypeOK' /\ Stats' /\ Order'
    BY <1>3, <2>1 DEF FilesInv, FilesTypeOK, Stats, Fits, Order, Walking
  <2>3. Current(View(p), p)
    BY <1>3, <2>1 DEF FilesInv, Stats, Fits, Same, View, Current
  <2>4. ~disturbed' => Progress'
    BY <1>3, <2>1, <2>3 DEF FilesInv, Order, Progress, Passed, Gone, Walking, View, Current
  <2>5. (fresh' => Still') /\ (~raced' => Extant')
    BY <1>3, <2>1 DEF FilesInv, Still, Exact, Current, Extant, Holds
  <2> QED
    BY <2>2, <2>4, <2>5 DEF FilesInv
<1>4. CASE /\ disk[p] # Absent /\ ~Same(p)
           /\ todo' = todo \ {p} /\ seen' = seen \cup {p} /\ at' = "hash"
           /\ reading' = [path |-> p, stat |-> disk[p].stat, was |-> rows[p]]
           /\ UNCHANGED <<index, aborted, batch, disturbed, missed, fresh, raced>>
  <2>1. /\ at = "walk" /\ p \in todo /\ UNCHANGED <<disk, edits, veiled, unread, rows, symbols>>
        /\ p \notin seen /\ batch[p] = NoRow
    BY <1>4 DEF Walked, world, index, FilesInv, FilesTypeOK, Order, Walking
  <2>2. disk[p] \in File /\ rows[p] \in Row \cup {NoRow}
    BY <1>4 DEF FilesInv, FilesTypeOK
  <2>3. FilesTypeOK'
    <3>1. reading' \in [path : Paths, stat : Stat, was : Row \cup {NoRow}]
      BY <1>4, <2>2 DEF File
    <3> QED
      BY <1>4, <2>1, <3>1, IndexAssumption DEF FilesInv, FilesTypeOK
  <2>4. Stats' /\ Order'
    BY <1>4, <2>1 DEF FilesInv, Stats, Fits, Order, Walking
  <2>5. ~disturbed' => Progress'
    BY <1>4, <2>1 DEF FilesInv, Order, Progress, Passed, Gone, Walking, View, Current
  <2>6. ~fresh
    BY <1>4 DEF FilesInv, Still, Exact, Current, Same
  <2>7. ~raced' => Extant'
    BY <1>4, <2>1 DEF FilesInv, Extant, Holds
  <2> QED
    BY <1>4, <2>3, <2>4, <2>5, <2>6, <2>7 DEF FilesInv
<1>5. CASE /\ disk[p] # Absent
           /\ todo' = todo \ {p} /\ missed' = missed \cup {p} /\ fresh' = FALSE
           /\ UNCHANGED <<index, at, aborted, seen, reading, batch, disturbed, raced>>
  <2>1. /\ at = "walk" /\ p \in todo /\ UNCHANGED <<disk, edits, veiled, unread, rows, symbols>>
        /\ p \notin seen
    BY <1>5 DEF Walked, world, index, FilesInv, Order, Walking
  <2>2. FilesTypeOK' /\ Stats' /\ Order'
    BY <1>5, <2>1 DEF FilesInv, FilesTypeOK, Stats, Fits, Order, Walking
  <2>3. ~disturbed' => Progress'
    BY <1>5, <2>1 DEF FilesInv, Order, Progress, Passed, Gone, Walking, View, Current
  <2>4. ~raced' => Extant'
    BY <1>5, <2>1 DEF FilesInv, Extant, Holds
  <2> QED
    BY <1>5, <2>2, <2>3, <2>4 DEF FilesInv
<1> QED
  BY <1>1, <1>2, <1>3, <1>4, <1>5 DEF Walked

\* The rows of a batch are written: every path has its view.
LEMMA Writes ==
  ASSUME FilesInv, NEW b, b \in [Paths -> Row \cup {NoRow}], Upserted(b)
  PROVE  /\ rows' = [p \in Paths |-> IF b[p] = NoRow THEN rows[p] ELSE b[p]]
         /\ rows' \in [Paths -> Row \cup {NoRow}]
         /\ \A p \in Paths : rows'[p] = NoRow => symbols'[p] = Nothing
         /\ batch' = Empty /\ symbols' = symbols /\ \A p \in Paths : batch'[p] = NoRow
BY DEF FilesInv, FilesTypeOK, Upserted, Empty

LEMMA HashedStep == FilesInv /\ Hashed => FilesInv'
<1> SUFFICES ASSUME FilesInv, Hashed PROVE FilesInv'
  OBVIOUS
<1> DEFINE p == reading.path
           row == Built(disk[p].text, reading)
           more == [batch EXCEPT ![p] = row]
<1>1. CASE Stops
  BY <1>1, StopsStep DEF Hashed
<1>2. CASE ~Stops
  <2>1. /\ at = "hash" /\ p \in Paths /\ p \in seen /\ p \notin todo /\ batch[p] = NoRow
        /\ reading.stat \in Stat /\ reading.stat <= edits
        /\ reading.was \in Row \cup {NoRow}
    BY DEF Hashed, FilesInv, FilesTypeOK, Order, Walking
  <2>2. /\ UNCHANGED <<disk, edits, veiled, unread, aborted, todo, seen, disturbed, missed,
                       fresh, raced>>
        /\ disk[p] # Absent /\ reading' = Nothing
        /\ IF Cardinality({q \in Paths : more[q] # NoRow}) >= BatchSize
             THEN at' = "flush" /\ Upserted(more)
             ELSE at' = "walk" /\ batch' = more /\ UNCHANGED index
    BY <1>2 DEF Hashed, world, index, Upserted
  <2>3. disk[p] \in File
    BY <2>1, <2>2 DEF FilesInv, FilesTypeOK
  <2>4. /\ row \in Row /\ row # NoRow /\ row.stat = reading.stat /\ row.hash = disk[p].text
        /\ row.stage = "symbols" => /\ reading.was # NoRow /\ reading.was.hash = disk[p].text
                                    /\ reading.was.stage = "symbols"
    BY <2>1, <2>3, IndexAssumption DEF Built, File, Row
  <2>5. more \in [Paths -> Row \cup {NoRow}] /\ more[p] = row
        /\ \A q \in Paths : q # p => more[q] = batch[q]
    BY <2>1, <2>4 DEF FilesInv, FilesTypeOK
  <2>6. \A q \in Paths : Fits(more[q], q)
    BY <2>1, <2>4, <2>5 DEF FilesInv, Stats, Fits
  <2>7. ~raced => \A q \in Paths : Holds(more[q], q)
    BY <2>1, <2>4, <2>5 DEF FilesInv, Extant, Holds
  <2>8. ~disturbed => row.stat = disk[p].stat
    BY <2>1, <2>4 DEF FilesInv, Progress
  <2>9. ~fresh
    BY <2>1 DEF FilesInv, Still
  <2> HIDE DEF row, more
  <2>10. CASE at' = "flush" /\ Upserted(more)
    <3>1. /\ rows' = [q \in Paths |-> IF more[q] = NoRow THEN rows[q] ELSE more[q]]
          /\ rows' \in [Paths -> Row \cup {NoRow}]
          /\ \A q \in Paths : rows'[q] = NoRow => symbols'[q] = Nothing
          /\ batch' = Empty /\ symbols' = symbols /\ \A q \in Paths : batch'[q] = NoRow
      BY <2>5, <2>10, Writes
    <3>2. FilesTypeOK'
      BY <2>2, <2>10, <3>1, EmptyBatch DEF FilesInv, FilesTypeOK, Empty
    <3>3. Stats'
      BY <2>2, <2>6, <3>1 DEF FilesInv, Stats, Fits
    <3>4. Order'
      BY <2>1, <2>2, <2>10 DEF FilesInv, Order, Walking
    <3>5. ~disturbed' => Progress'
      <4> SUFFICES ASSUME ~disturbed PROVE Progress'
        BY <2>2
      <4>1. ASSUME NEW q \in Paths, q \notin todo
            PROVE  IF Gone(q) THEN q \notin seen ELSE q \in seen /\ Current(rows'[q], q)
        BY <2>1, <2>2, <2>4, <2>5, <2>8, <3>1, <4>1
        DEF FilesInv, Order, Progress, Walking, Passed, Gone, View, Current
      <4> QED
        BY <2>2, <2>10, <3>1, <4>1 DEF Progress, Walking, Passed, Gone, View, Current
    <3>6. ~raced' => Extant'
      BY <2>2, <2>7, <2>10, <3>1 DEF FilesInv, Extant, Holds
    <3> QED
      BY <2>2, <2>9, <3>2, <3>3, <3>4, <3>5, <3>6 DEF FilesInv
  <2>11. CASE /\ ~(Cardinality({q \in Paths : more[q] # NoRow}) >= BatchSize)
              /\ at' = "walk" /\ batch' = more /\ UNCHANGED index
    <3>1. UNCHANGED <<rows, symbols>>
      BY <2>11 DEF index
    <3>2. Cardinality({q \in Paths : more[q] # NoRow}) < BatchSize
      <4>1. IsFiniteSet({q \in Paths : more[q] # NoRow})
        BY FS_Subset, IndexAssumption
      <4> QED
        BY <2>11, <4>1, FS_CardinalityType, IndexAssumption
    <3>3. FilesTypeOK'
      BY <2>1, <2>2, <2>5, <2>11, <3>1, <3>2 DEF FilesInv, FilesTypeOK
    <3>4. Stats'
      BY <2>2, <2>6, <2>11, <3>1 DEF FilesInv, Stats, Fits
    <3>5. Order'
      BY <2>1, <2>2, <2>11 DEF FilesInv, Order, Walking
    <3>6. ~disturbed' => Progress'
      <4> SUFFICES ASSUME ~disturbed PROVE Progress'
        BY <2>2
      <4>1. ASSUME NEW q \in Paths, q \notin todo
            PROVE  IF Gone(q) THEN q \notin seen
                   ELSE q \in seen /\ Current(View(q)', q)
        BY <2>1, <2>2, <2>4, <2>5, <2>8, <2>11, <3>1, <4>1
        DEF FilesInv, Order, Progress, Walking, Passed, Gone, View, Current
      <4> QED
        BY <2>2, <2>11, <4>1 DEF Progress, Walking, Passed, Gone, Current
    <3>7. ~raced' => Extant'
      BY <2>2, <2>7, <2>11, <3>1 DEF FilesInv, Extant, Holds
    <3> QED
      BY <2>2, <2>9, <3>3, <3>4, <3>5, <3>6, <3>7 DEF FilesInv
  <2> QED
    BY <2>2, <2>10, <2>11
<1> QED
  BY <1>1, <1>2

LEMMA WalkEndsStep == FilesInv /\ WalkEnds => FilesInv'
<1> SUFFICES ASSUME FilesInv, WalkEnds PROVE FilesInv'
  OBVIOUS
<1>1. /\ at = "walk" /\ (todo = {} \/ aborted) /\ at' = "last" /\ todo' = {} /\ Upserted(batch)
      /\ UNCHANGED <<disk, edits, veiled, unread, aborted, seen, reading, disturbed, missed, fresh,
                     raced>>
  BY DEF WalkEnds, world, Upserted
<1>2. /\ rows' = [q \in Paths |-> IF batch[q] = NoRow THEN rows[q] ELSE batch[q]]
      /\ rows' \in [Paths -> Row \cup {NoRow}]
      /\ \A q \in Paths : rows'[q] = NoRow => symbols'[q] = Nothing
      /\ batch' = Empty /\ symbols' = symbols /\ \A q \in Paths : batch'[q] = NoRow
  BY <1>1, Writes DEF FilesInv, FilesTypeOK
<1>3. FilesTypeOK'
  BY <1>1, <1>2, EmptyBatch DEF FilesInv, FilesTypeOK, Empty
<1>4. Stats' /\ Order'
  BY <1>1, <1>2 DEF FilesInv, Stats, Fits, Order, Walking
<1>5. ~disturbed' => Progress'
  BY <1>1, <1>2 DEF FilesInv, Progress, Passed, Gone, Walking, View, Current
<1>6. fresh' => Still'
  BY <1>1, <1>2 DEF FilesInv, Still, Exact, Current, Empty
<1>7. ~raced' => Extant'
  BY <1>1, <1>2 DEF FilesInv, Extant, Holds
<1> QED
  BY <1>3, <1>4, <1>5, <1>6, <1>7 DEF FilesInv

LEMMA FlushEndsStep == FilesInv /\ FlushEnds => FilesInv'
<1> SUFFICES ASSUME FilesInv, FlushEnds PROVE FilesInv'
  OBVIOUS
<1>1. CASE aborted
  BY <1>1, StopsStep DEF FlushEnds
<1>2. CASE ~aborted
  <2>1. /\ at = "flush" /\ at' = "walk"
        /\ UNCHANGED <<disk, edits, veiled, unread, rows, symbols, aborted, todo, seen, reading,
                       batch,
                       disturbed, missed, fresh, raced>>
    BY <1>2 DEF FlushEnds, world, index
  <2>2. FilesTypeOK' /\ Stats' /\ Order'
    BY <2>1 DEF FilesInv, FilesTypeOK, Stats, Fits, Order, Walking
  <2>3. ~disturbed' => Progress'
    BY <2>1 DEF FilesInv, Progress, Passed, Gone, Walking, View, Current
  <2>4. (fresh' => Still') /\ (~raced' => Extant')
    BY <2>1 DEF FilesInv, Still, Extant, Holds
  <2> QED
    BY <2>2, <2>3, <2>4 DEF FilesInv
<1> QED
  BY <1>1, <1>2

LEMMA LastEndsStep == FilesInv /\ LastEnds => FilesInv'
<1> SUFFICES ASSUME FilesInv, LastEnds PROVE FilesInv'
  OBVIOUS
<1>1. CASE aborted
  BY <1>1, StopsStep DEF LastEnds
<1>2. CASE ~aborted
  <2>1. /\ at = "last" /\ at' = "meta" /\ seen' = {}
        /\ rows' = [p \in Paths |-> IF p \in Unseen THEN NoRow ELSE rows[p]]
        /\ symbols' = [p \in Paths |-> IF p \in Unseen THEN Nothing ELSE symbols[p]]
        /\ UNCHANGED <<disk, edits, veiled, unread, aborted, todo, reading, batch, disturbed,
                       missed, fresh, raced>>
    BY <1>2 DEF LastEnds, world
  <2>2. \A p \in Paths : p \in Unseen <=> rows[p] # NoRow /\ p \notin seen
    BY DEF Unseen
  <2>3. FilesTypeOK'
    BY <2>1 DEF FilesInv, FilesTypeOK
  <2>4. Stats' /\ Order'
    BY <2>1 DEF FilesInv, Stats, Fits, Order, Walking
  <2>5. ~disturbed' => Progress'
    BY <1>2, <2>1, <2>2 DEF FilesInv, Progress, Gone, Walking, Current
  <2>6. fresh' => Still'
    BY <1>2, <2>1, <2>2 DEF FilesInv, Still, Exact, Current, Gone, Progress
  <2>7. ~raced' => Extant'
    BY <2>1 DEF FilesInv, FilesTypeOK, Extant, Holds
  <2> QED
    BY <2>3, <2>4, <2>5, <2>6, <2>7 DEF FilesInv
<1> QED
  BY <1>1, <1>2

\* An index whose rows are the files' and of which none is dirty is exact.
LEMMA NoneDirty ==
  ASSUME FilesTypeOK, missed = {}, Dirty = {},
         \A p \in Paths : IF Gone(p) THEN rows[p] = NoRow ELSE Current(rows[p], p)
  PROVE  Exact
<1> SUFFICES ASSUME NEW p \in Paths, disk[p] # Absent PROVE rows[p].stage = "symbols"
  BY DEF Exact, Gone
<1>1. rows[p] \in Row /\ rows[p] # NoRow
  BY DEF FilesTypeOK, Current, Gone
<1> QED
  BY <1>1 DEF Dirty, Row

LEMMA MetaEndsStep == FilesInv /\ MetaEnds => FilesInv'
<1> SUFFICES ASSUME FilesInv, MetaEnds PROVE FilesInv'
  OBVIOUS
<1>1. at = "meta" /\ UNCHANGED <<disk, edits, veiled, unread, rows, symbols, raced>>
  BY DEF MetaEnds, world, index
<1>2. CASE Idle /\ UNCHANGED fresh
  BY <1>1, <1>2, StopsStep DEF Stops, world, index
<1>3. CASE Dirty = {} /\ Completes
  <2>1. ~disturbed /\ missed = {} => Exact
    BY <1>1, <1>3, NoneDirty DEF FilesInv, Progress
  <2>2. fresh' => Exact'
    BY <1>1, <1>3, <2>1 DEF Completes, FilesInv, Still, Exact, Current
  <2>3. (\A p \in Paths : Fits(rows[p], p)') /\ (~raced => \A p \in Paths : Holds(rows[p], p)')
    BY <1>1 DEF FilesInv, Stats, Fits, Extant, Holds
  <2>4. Idle /\ fresh' \in BOOLEAN
    BY <1>3 DEF Completes, FilesInv, FilesTypeOK
  <2> QED
    BY <1>1, <2>2, <2>3, <2>4, IdleKeeps DEF FilesInv, FilesTypeOK, world
<1>4. ASSUME NEW p \in Dirty, ~aborted, at' = "symbols",
             reading' = [path |-> p, stat |-> 0, was |-> NoRow], todo' = Dirty \ {p},
             UNCHANGED <<aborted, seen, batch, disturbed, missed, fresh>>
      PROVE  FilesInv'
  <2>1. p \in Paths /\ Dirty \subseteq Paths /\ Dirty' = Dirty
    BY <1>1 DEF Dirty
  <2>2. reading' \in [path : Paths, stat : Stat, was : Row \cup {NoRow}]
    BY <1>4, <2>1, IndexAssumption DEF Stat
  <2>3. FilesTypeOK'
    BY <1>1, <1>4, <2>1, <2>2, IndexAssumption DEF FilesInv, FilesTypeOK
  <2>4. Stats' /\ Order'
    BY <1>1, <1>4 DEF FilesInv, Stats, Fits, Order, Walking
  <2>5. ~disturbed' => Progress'
    BY <1>1, <1>4, <2>1 DEF FilesInv, Progress, Walking, Current, Gone
  <2>6. ~fresh
    <3>1. rows[p] # NoRow /\ rows[p].stage = "file_map"
      BY <1>4 DEF Dirty
    <3>2. fresh => Exact
      BY DEF FilesInv, Still
    <3>3. Exact => rows[p] = NoRow \/ rows[p].stage = "symbols"
      BY <2>1 DEF Exact
    <3> QED
      BY <3>1, <3>2, <3>3
  <2>7. ~raced' => Extant'
    BY <1>1, <1>4 DEF FilesInv, Extant, Holds
  <2> QED
    BY <1>4, <2>3, <2>4, <2>5, <2>6, <2>7 DEF FilesInv
<1> QED
  BY <1>2, <1>3, <1>4 DEF MetaEnds, Extracts

LEMMA ExtractedStep == FilesInv /\ Extracted => FilesInv'
<1> SUFFICES ASSUME FilesInv, Extracted PROVE FilesInv'
  OBVIOUS
<1> DEFINE p == reading.path
<1>1. /\ at = "symbols" /\ p \in Paths /\ UNCHANGED <<disk, edits, veiled, raced>>
      /\ Extracts(todo)
      /\ IF rows[p] = NoRow THEN UNCHANGED <<rows, symbols, unread>>
         ELSE /\ rows' = [rows EXCEPT ![p].stage = "symbols"]
              /\ \/ /\ disk[p] # Absent /\ unread' = unread \ {p}
                    /\ symbols' = [symbols EXCEPT ![p] = disk[p].text]
                 \/ unread' = unread \cup {p} /\ symbols' = symbols
  BY DEF Extracted, world, index, FilesInv, FilesTypeOK
<1>2. /\ rows' \in [Paths -> Row \cup {NoRow}]
      /\ \A q \in Paths : q # p => rows'[q] = rows[q] /\ symbols'[q] = symbols[q]
      /\ rows[p] = NoRow => rows'[p] = NoRow /\ symbols'[p] = symbols[p]
      /\ rows[p] # NoRow => /\ rows'[p] \in Row /\ rows'[p] # NoRow
                            /\ rows'[p].stat = rows[p].stat /\ rows'[p].hash = rows[p].hash
                            /\ rows'[p].stage = "symbols"
  BY <1>1, IndexAssumption DEF FilesInv, FilesTypeOK, Row
<1>3. symbols' \in [Paths -> Texts \cup {Nothing}]
  BY <1>1 DEF FilesInv, FilesTypeOK, File
<1>4. \A q \in Paths : rows'[q] = NoRow => symbols'[q] = Nothing
  BY <1>1, <1>2 DEF FilesInv, FilesTypeOK
<1>5. /\ unread' \subseteq Paths
      /\ \A q \in Paths : Fits(rows'[q], q) /\ Fits(rows[q], q)'
  BY <1>1, <1>2 DEF FilesInv, FilesTypeOK, Stats, Fits
<1>6. ~disturbed => \A q \in Paths : IF Gone(q) THEN rows'[q] = NoRow ELSE Current(rows'[q], q)
  BY <1>1, <1>2 DEF FilesInv, Progress, Current
<1>7. ~raced => \A q \in Paths : Holds(rows[q], q)'
  <2> SUFFICES ASSUME ~raced, NEW q \in Paths, rows'[q] # NoRow, rows'[q].stage = "symbols",
                      q \notin unread'
               PROVE  symbols'[q] = rows'[q].hash
    BY DEF Holds
  <2>1. CASE q # p
    BY <1>1, <1>2, <2>1 DEF FilesInv, Extant, Holds
  <2>2. CASE q = p
    <3>1. ~disturbed /\ veiled = {} /\ rows[p] # NoRow
      BY <1>2, <2>2 DEF FilesInv, Order
    <3>2. disk[p] # Absent /\ rows'[p].hash = disk[p].text
      BY <1>1, <1>2, <1>6, <3>1 DEF Current, Gone
    <3>3. symbols' = [symbols EXCEPT ![p] = disk[p].text]
      BY <1>1, <2>2, <3>1
    <3> QED
      BY <1>1, <2>2, <3>2, <3>3 DEF FilesInv, FilesTypeOK
  <2> QED
    BY <2>1, <2>2
<1>8. ~disturbed => \A q \in Paths : rows'[q] # NoRow /\ rows'[q].stage = "file_map" => q \in todo
  BY <1>1, <1>2 DEF FilesInv, Progress, Dirty
<1>9. ~fresh /\ fresh \in BOOLEAN
  BY <1>1 DEF FilesInv, FilesTypeOK, Still
<1>10. CASE todo # {} /\ aborted /\ Idle /\ UNCHANGED fresh
  BY <1>1, <1>2, <1>3, <1>4, <1>5, <1>7, <1>9, <1>10, IdleKeeps DEF world
<1>11. CASE todo = {} /\ Completes
  <2>1. ASSUME ~disturbed, missed = {} PROVE Exact'
    <3> SUFFICES ASSUME NEW q \in Paths, disk[q] # Absent
                 PROVE  Current(rows'[q], q) /\ rows'[q].stage = "symbols"
      BY <1>1, <1>6, <2>1 DEF Exact, Current, Gone
    <3>1. rows'[q] \in Row /\ rows'[q] # NoRow /\ Current(rows'[q], q)
      BY <1>2, <1>6, <2>1 DEF Current, Gone
    <3> QED
      BY <1>8, <1>11, <2>1, <3>1 DEF Row
  <2>2. Idle /\ fresh' \in BOOLEAN /\ (fresh' => Exact')
    BY <1>9, <1>11, <2>1 DEF Completes
  <2> QED
    BY <1>1, <1>2, <1>3, <1>4, <1>5, <1>7, <2>2, IdleKeeps DEF world
<1>12. ASSUME NEW q \in todo, ~aborted, at' = "symbols",
              reading' = [path |-> q, stat |-> 0, was |-> NoRow], todo' = todo \ {q},
              UNCHANGED <<aborted, seen, batch, disturbed, missed, fresh>>
       PROVE  FilesInv'
  <2>1. q \in Paths /\ todo \subseteq Paths
    BY DEF FilesInv, FilesTypeOK
  <2>2. reading' \in [path : Paths, stat : Stat, was : Row \cup {NoRow}]
    BY <1>12, <2>1, IndexAssumption DEF Stat
  <2>3. FilesTypeOK'
    BY <1>1, <1>2, <1>3, <1>4, <1>5, <1>12, <2>1, <2>2, IndexAssumption DEF FilesInv, FilesTypeOK
  <2>4. Stats' /\ Order'
    BY <1>1, <1>5, <1>12 DEF FilesInv, Stats, Fits, Order, Walking
  <2>5. ~disturbed' => Progress'
    BY <1>1, <1>6, <1>8, <1>12, <2>1 DEF Progress, Walking, Current, Gone, Dirty
  <2>6. ~raced' => Extant'
    BY <1>1, <1>7, <1>12 DEF FilesInv, Extant, FilesTypeOK, Holds
  <2> QED
    BY <1>9, <1>12, <2>3, <2>4, <2>5, <2>6 DEF FilesInv
<1> QED
  BY <1>1, <1>10, <1>11, <1>12 DEF Extracts

-----------------------------------------------------------------------------
(* What happens to a run. *)

LEMMA AbortStep == FilesInv /\ Abort => FilesInv'
<1> SUFFICES ASSUME FilesInv, Abort PROVE FilesInv'
  OBVIOUS
<1>1. /\ at # "off" /\ aborted' = TRUE
      /\ UNCHANGED <<disk, edits, veiled, unread, rows, symbols, at, todo, seen, reading, batch,
                     disturbed, missed, fresh, raced>>
  BY DEF Abort, world, index
<1>2. FilesTypeOK' /\ Stats' /\ Order'
  BY <1>1 DEF FilesInv, FilesTypeOK, Stats, Fits, Order, Walking
<1>3. ~disturbed' => Progress'
  BY <1>1 DEF FilesInv, Progress, Walking, Passed, Gone, View, Current, Dirty
<1>4. (fresh' => Still') /\ (~raced' => Extant')
  BY <1>1 DEF FilesInv, Still, Exact, Current, Extant, Holds
<1> QED
  BY <1>2, <1>3, <1>4 DEF FilesInv

LEMMA ClearIndexStep == FilesInv /\ ClearIndex => FilesInv'
<1> SUFFICES ASSUME FilesInv, ClearIndex PROVE FilesInv'
  OBVIOUS
<1>1. /\ rows' = Empty /\ symbols' = [p \in Paths |-> Nothing] /\ unread' = {}
      /\ aborted' = (at # "off") /\ disturbed' = (at # "off") /\ raced' = (at # "off")
      /\ veiled' = IF at = "off" THEN {} ELSE veiled
      /\ fresh' = FALSE /\ UNCHANGED <<disk, edits, at, todo, seen, reading, batch, missed>>
  BY DEF ClearIndex
<1>2. FilesTypeOK'
  BY <1>1 DEF FilesInv, FilesTypeOK, Empty
<1>3. Order'
  BY <1>1 DEF FilesInv, Order, Walking
<1>4. Stats'
  <2>1. ASSUME NEW p \in Paths, at = "off" PROVE batch[p] = NoRow
    BY <2>1 DEF FilesInv, FilesTypeOK
  <2> QED
    BY <1>1, <2>1 DEF FilesInv, Stats, Fits, Empty
<1>5. ~disturbed' => Progress'
  BY <1>1 DEF Progress, Walking
<1>6. ~raced' => Extant'
  BY <1>1 DEF FilesInv, FilesTypeOK, Extant, Holds, Empty
<1> QED
  BY <1>1, <1>2, <1>3, <1>4, <1>5, <1>6 DEF FilesInv

LEMMA EditStep == ASSUME FilesInv, NEW p \in Paths, Edit(p) PROVE FilesInv'
<1>1. /\ edits < MaxEdits /\ edits' = edits + 1 /\ fresh' = FALSE
      /\ disturbed' = (at # "off")
      /\ UNCHANGED <<rows, symbols, unread, at, aborted, todo, seen, reading, batch, missed>>
  BY DEF Edit, index
<1>2. PICK file \in [text : Texts, stat : 0..(edits + 1)] \cup {Absent} :
        /\ disk' = [disk EXCEPT ![p] = file]
        /\ IF file # Absent /\ file.stat <= edits
             THEN veiled' = veiled \cup {p} /\ raced' = TRUE
             ELSE veiled' = veiled \ {p} /\ raced' = (raced \/ at # "off")
  BY DEF Edit
<1>3. edits \in Nat /\ edits' \in Stat /\ file \in File \cup {Absent}
  BY <1>1, <1>2, IndexAssumption DEF FilesInv, FilesTypeOK, Stat, File
<1>4. FilesTypeOK'
  BY <1>1, <1>2, <1>3 DEF FilesInv, FilesTypeOK
<1>5. \A q \in Paths : /\ rows[q] # NoRow => rows[q].stat \in Nat
                       /\ batch[q] # NoRow => batch[q].stat \in Nat
                       /\ disk[q] # Absent => disk[q].stat \in Nat
  BY IndexAssumption DEF FilesInv, FilesTypeOK, Row, Stat, File
<1>6. Stats'
  <2> SUFFICES ASSUME NEW q \in Paths
               PROVE  /\ disk'[q] # Absent => disk'[q].stat <= edits'
                      /\ Fits(rows[q], q)' /\ Fits(batch[q], q)'
    BY DEF Stats
  <2>1. CASE q # p
    BY <1>1, <1>2, <1>3, <1>5, <2>1 DEF FilesInv, FilesTypeOK, Stats, Fits
  <2>2. CASE q = p
    <3>1. disk'[q] = file
      BY <1>2, <2>2 DEF FilesInv, FilesTypeOK
    <3>2. file # Absent => file.stat \in Nat /\ file.stat <= edits + 1
      BY <1>2, <1>3
    <3> QED
      BY <1>1, <1>2, <1>3, <1>5, <2>2, <3>1, <3>2 DEF FilesInv, Stats, Fits
  <2> QED
    BY <2>1, <2>2
<1>7. Order'
  <2>1. at = "hash" => reading.stat \in Nat
    BY IndexAssumption DEF FilesInv, FilesTypeOK, Stat
  <2> QED
    BY <1>1, <1>2, <1>3, <2>1 DEF FilesInv, FilesTypeOK, Order, Walking
<1>8. ~disturbed' => Progress'
  BY <1>1 DEF Progress, Walking
<1>9. ~raced' => Extant'
  BY <1>1, <1>2 DEF FilesInv, Extant, Holds
<1> QED
  BY <1>1, <1>4, <1>6, <1>7, <1>8, <1>9 DEF FilesInv

LEMMA CrashStep == FilesInv /\ Crash => FilesInv'
BY StopsStep DEF Crash, Stops

LEMMA FilesInitInv == FilesInit => FilesInv
<1> SUFFICES ASSUME FilesInit PROVE FilesInv
  OBVIOUS
<1>1. 0 \in Stat
  BY IndexAssumption DEF Stat
<1>2. FilesTypeOK
  BY <1>1, EmptyBatch DEF FilesInit, FilesTypeOK, Empty, File
<1>3. Stats /\ Order
  BY DEF FilesInit, Stats, Fits, Order, Walking, Empty
<1>4. Progress /\ Extant
  BY DEF FilesInit, Progress, Walking, Extant, Holds, Empty
<1> QED
  BY <1>2, <1>3, <1>4 DEF FilesInv, FilesInit

LEMMA FilesNextInv == FilesInv /\ [FilesNext]_fileVars => FilesInv'
<1> SUFFICES ASSUME FilesInv, [FilesNext]_fileVars PROVE FilesInv'
  OBVIOUS
<1>1. CASE UNCHANGED fileVars
  BY <1>1 DEF fileVars, FilesInv, FilesTypeOK, Stats, Fits, Order, Walking, Progress, Passed, Gone,
              View, Current, Dirty, Still, Exact, Current, Extant, Holds
<1>2. CASE FilesNext
  BY <1>2, ExecuteStep, WalkedStep, HashedStep, WalkEndsStep, FlushEndsStep, LastEndsStep,
     MetaEndsStep, ExtractedStep, AbortStep, ClearIndexStep, EditStep, CrashStep DEF FilesNext
<1> QED
  BY <1>1, <1>2

LEMMA FilesInductive == FilesSpec => []FilesInv
BY FilesInitInv, FilesNextInv, PTL DEF FilesSpec

\* Rows, symbols, batch and lists of the executor keep their types, a batch never
\* exceeds BATCH_SIZE, and no symbols outlive their row.
THEOREM FilesTypeCorrect == FilesSpec => []FilesTypeOK
<1>1. FilesInv => FilesTypeOK
  BY DEF FilesInv
<1> QED
  BY FilesInductive, <1>1, PTL

\* service.ts:153: what a run leaves that met every file and that nothing disturbed is a row of
\* every file and of nothing else, with its hash unless the file has an earlier stat, whatever
\* the runs before it were stopped at or raced with, and it stays so until the next change; for
\* every set of files and texts, every BATCH_SIZE and any number of changes.
THEOREM RunsConverge == FilesSpec => []IndexExact
<1>1. FilesInv => IndexExact
  <2> SUFFICES ASSUME FilesInv, fresh, NEW p \in Paths
               PROVE  IF disk[p] = Absent THEN rows[p] = NoRow
                      ELSE /\ rows[p] # NoRow /\ rows[p].stat = disk[p].stat
                           /\ rows[p].stage = "symbols"
                           /\ p \notin veiled => rows[p].hash = disk[p].text
                           /\ ~raced /\ p \notin unread => symbols[p] = disk[p].text
    BY DEF IndexExact
  <2>1. IF disk[p] = Absent THEN rows[p] = NoRow
        ELSE Current(rows[p], p) /\ rows[p].stage = "symbols"
    BY DEF FilesInv, Still, Exact
  <2>2. ~raced => Holds(rows[p], p) /\ veiled = {}
    BY DEF FilesInv, Extant, Order
  <2> QED
    BY <2>1, <2>2 DEF Current, Holds
<1> QED
  BY FilesInductive, <1>1, PTL

\* service.ts:366: a row that is marked extracted has the symbols of its hash but where an
\* extraction wrote none, in every state that no run which raced with a change, and no stat that
\* came again, has led to: a touch, a pause, a crash or a file passed over hides no change.
THEOREM ExtractedMeansExtracted == FilesSpec => []NothingSkipped
<1>1. FilesInv => NothingSkipped
  BY DEF FilesInv, Extant, Holds, NothingSkipped
<1> QED
  BY FilesInductive, <1>1, PTL
================================================================================
