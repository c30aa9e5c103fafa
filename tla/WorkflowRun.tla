---------------------------- MODULE WorkflowRun ----------------------------
(***************************************************************************)
(* Workflow runs (workflows/service.ts) over the life cycle the task       *)
(* runner gives them (tasks/runner.ts): a run is one row that holds all    *)
(* its steps; the executor loads it once, works on that copy and saves the *)
(* whole of it; the user's controls load the row, edit and save it too.    *)
(* Steps run in order, each in a conversation of its own, with turns that  *)
(* continue, repair, validate and correct.  Runs are paused, cancelled,    *)
(* resumed and retried; the app quits and crashes at any await.            *)
(*                                                                         *)
(* An action of the executor goes from one await to the next.  A turn is   *)
(* abstracted to how it ends; texts other than the user's feedback, and    *)
(* the model and tools of a step, are left out.                            *)
(***************************************************************************)
EXTENDS Naturals, FiniteSets

CONSTANTS
  Runs,          \* runs
  N,             \* steps of a workflow
  Validated,     \* steps with validateCompletion
  Surfaced,      \* steps that use the browser or Electron apps
  Budget,        \* maxCorrectionLoops (2 unless set)
  MaxContinued,  \* MAX_AUTO_CONTINUATIONS (3 in the code)
  MaxSurfaces,   \* MAX_SURFACE_STEPS (4 in the code)
  Feedback,      \* texts the user may send
  NoFeedback     \* a blank text, no feedback in the row

Steps == 1..N

ASSUME WorkflowAssumption ==
  /\ N \in Nat \ {0} /\ Budget \in Nat /\ MaxContinued \in Nat
  /\ MaxSurfaces \in Nat \ {0}
  /\ Validated \subseteq Steps /\ Surfaced \subseteq Steps
  /\ NoFeedback \notin Feedback

VARIABLES
  row,       \* row[r]: the run in the database
  task,      \* task[r]: status of its task row
  unknown,   \* unknown[r]: steps with tool calls of unknown outcome (durable)
  pc,        \* pc[r]: what its executor awaits
  copy,      \* copy[r]: the executor's copy of the row
  at,        \* at[r]: the step it works on
  continued, \* continued[r]: continuation turns of this execution of the step
  reason,    \* reason[r]: of the abort of its task's signal
  out,       \* out[r]: what it returns once its surfaces are closed
  holders,   \* surfaceHolders: of the steps of Runs
  others,    \* surfaceHolders: how many steps of other runs
  quitting,  \* the app is shutting down
  said,      \* history: the feedback in force, by what the user last sent
  meddled,   \* history: a control edited the row while an executor had a copy
  corrected  \* history: corrections ordered since the user's last retry

vars == <<row, task, unknown, pc, copy, at, continued, reason, out, holders,
          others, quitting, said, meddled, corrected>>
history == <<said, meddled, corrected>>

StepStatus == {"waiting", "active", "completed", "paused", "cancelled", "failed"}
RunRow == [status : [Steps -> StepStatus], opened : [Steps -> BOOLEAN],
           attempts : [Steps -> 0..Budget],
           feedback : [Steps -> Feedback \cup {NoFeedback}]]
Turning == {"work", "repair", "validate", "fold", "correct"}

NewRow == [status |-> [i \in Steps |-> "waiting"],
           opened |-> [i \in Steps |-> FALSE],
           attempts |-> [i \in Steps |-> 0],
           feedback |-> [i \in Steps |-> NoFeedback]]

\* Mutant: a step that failed is passed over by the next execution.
MutTodo(data, i) == {j \in i..N : data.status[j] \notin {"completed", "failed"}}

\* The steps to do from i on.
Todo(data, i) == {j \in i..N : data.status[j] # "completed"}

First(S) == CHOOSE j \in S : \A k \in S : j <= k

\* The steps the row does not hold completed.
Unfinished(r) == {i \in Steps : row[r].status[i] # "completed"}

TypeOK ==
  /\ row \in [Runs -> RunRow] /\ copy \in [Runs -> RunRow]
  /\ task \in [Runs -> {"none", "queued", "running", "paused", "cancelled",
                        "failed", "interrupted", "completed"}]
  /\ unknown \in [Runs -> SUBSET Steps]
  /\ pc \in [Runs -> Turning \cup {"off", "index", "release", "close"}]
  /\ at \in [Runs -> Steps] /\ continued \in [Runs -> 0..MaxContinued]
  /\ reason \in [Runs -> {"none", "pause", "cancel", "shutdown"}]
  /\ out \in [Runs -> {"content", "stopped", "error"}]
  /\ holders \subseteq Runs \X Steps /\ others \in 0..MaxSurfaces /\ quitting \in BOOLEAN
  /\ said \in [Runs -> Feedback \cup {NoFeedback}]
  /\ meddled \in [Runs -> BOOLEAN]
  /\ corrected \in [Runs -> [Steps -> 0..Budget]]

Init ==
  /\ row = [r \in Runs |-> NewRow] /\ copy = [r \in Runs |-> NewRow]
  /\ task = [r \in Runs |-> "none"] /\ unknown = [r \in Runs |-> {}]
  /\ pc = [r \in Runs |-> "off"] /\ at = [r \in Runs |-> 1]
  /\ continued = [r \in Runs |-> 0] /\ reason = [r \in Runs |-> "none"]
  /\ out = [r \in Runs |-> "content"] /\ holders = {} /\ others = 0 /\ quitting = FALSE
  /\ said = [r \in Runs |-> NoFeedback] /\ meddled = [r \in Runs |-> FALSE]
  /\ corrected = [r \in Runs |-> [i \in Steps |-> 0]]

-----------------------------------------------------------------------------
(* How an execution ends. *)

\* runOne(): the status that what the executor returned settles the task to.
Settled(result, why) ==
  CASE why = "shutdown" -> "running"
    [] why = "pause" -> "paused"
    [] why # "shutdown" /\ why # "pause" /\ result = "stopped" -> "cancelled"
    [] why # "shutdown" /\ why # "pause" /\ result = "error" -> "failed"
    [] OTHER -> "completed"

\* The executor of r returns `result`; `data` is in the row by then.
Over(r, data, result) ==
  /\ row' = [row EXCEPT ![r] = data] /\ copy' = [copy EXCEPT ![r] = data]
  /\ task' = [task EXCEPT ![r] = Settled(result, reason[r])]
  /\ pc' = [pc EXCEPT ![r] = "off"] /\ at' = [at EXCEPT ![r] = 1]
  /\ continued' = [continued EXCEPT ![r] = 0]
  /\ reason' = [reason EXCEPT ![r] = "none"]
  /\ out' = [out EXCEPT ![r] = "content"]

\* finally: a step that holds surfaces gives them up and closes them first.
Leaves(r, data, result) ==
  IF <<r, at[r]>> \in holders
  THEN /\ holders' = holders \ {<<r, at[r]>>}
       /\ row' = [row EXCEPT ![r] = data] /\ copy' = [copy EXCEPT ![r] = data]
       /\ pc' = [pc EXCEPT ![r] = "close"] /\ out' = [out EXCEPT ![r] = result]
       /\ UNCHANGED <<task, at, continued, reason>>
  ELSE /\ Over(r, data, result) /\ UNCHANGED holders

\* Mutant: the first step that was ever begun has failed.
MutFailed(data) ==
  [data EXCEPT !.status = [i \in Steps |->
     IF data.status[i] # "waiting" /\ \A j \in 1..i - 1 : data.status[j] = "waiting"
     THEN "failed" ELSE data.status[i]]]

\* catch: the active step has failed.
Failed(data) ==
  [data EXCEPT !.status = [i \in Steps |->
     IF data.status[i] = "active" /\ \A j \in 1..i - 1 : data.status[j] # "active"
     THEN "failed" ELSE data.status[i]]]
Fails(r) == Leaves(r, Failed(copy[r]), "error")

\* halt(): the signal was aborted; a shutdown leaves the step active.
Halts(r) ==
  Leaves(r, [copy[r] EXCEPT !.status[at[r]] =
               CASE reason[r] = "shutdown" -> @
                 [] reason[r] = "pause" -> "paused"
                 [] OTHER -> "cancelled"], "stopped")

-----------------------------------------------------------------------------
(* The loop over the steps. *)

Opened(data, i) ==
  [data EXCEPT !.status[i] = "active", !.opened[i] = TRUE]

Room == Cardinality(holders) + others < MaxSurfaces

\* From step i on, with `data` as the copy: the first turn of the next step
\* begins, or the execution ends.  `saved` is what the row holds meanwhile.
Advance(r, data, i, saved) ==
  LET todo == Todo(data, i)
      next == First(todo)
  IN IF todo = {} THEN Over(r, saved, "content") /\ UNCHANGED holders
     ELSE IF reason[r] # "none" THEN Over(r, saved, "stopped") /\ UNCHANGED holders
     ELSE IF next \in unknown[r]
     THEN Over(r, Failed(data), "error") /\ UNCHANGED holders
     ELSE IF next \in Surfaced /\ ~Room
     THEN Over(r, Failed(Opened(data, next)), "error") /\ UNCHANGED holders
     ELSE /\ row' = [row EXCEPT ![r] = Opened(data, next)]
          /\ copy' = [copy EXCEPT ![r] = Opened(data, next)]
          /\ pc' = [pc EXCEPT ![r] = "work"] /\ at' = [at EXCEPT ![r] = next]
          /\ continued' = [continued EXCEPT ![r] = 0]
          /\ holders' = holders \cup (IF next \in Surfaced THEN {<<r, next>>} ELSE {})
          /\ UNCHANGED <<task, reason, out>>

\* runOne() begins and execute() loads the run; the workspace may be gone.
Launch(r) ==
  /\ task[r] = "queued" /\ ~quitting
  /\ task' = [task EXCEPT ![r] = "running"]
  /\ pc' = [pc EXCEPT ![r] = "index"]
  /\ copy' = [copy EXCEPT ![r] = row[r]]
  /\ UNCHANGED <<row, unknown, at, continued, reason, out, holders, others, quitting, history>>

\* checkWorkspace() throws: the run fails where it stands.
NoWorkspace(r) ==
  /\ task[r] = "queued" /\ ~quitting
  /\ row' = [row EXCEPT ![r] = Failed(row[r])]
  /\ copy' = [copy EXCEPT ![r] = Failed(row[r])]
  /\ task' = [task EXCEPT ![r] = "failed"]
  /\ UNCHANGED <<unknown, pc, at, continued, reason, out, holders, others, quitting, history>>

\* prepareIndex() saves that the index is being built, and waits for it.
Indexing(r) ==
  /\ pc[r] = "index" /\ row' = [row EXCEPT ![r] = copy[r]]
  /\ UNCHANGED <<task, unknown, pc, copy, at, continued, reason, out, holders,
                 others, quitting, history>>

\* The index is ready, has failed, is late or off (saved or not), or the
\* signal is aborted: the loop begins.
Indexed(r) ==
  /\ pc[r] = "index"
  /\ \E saved \in {row[r], copy[r]} : Advance(r, copy[r], 1, saved)
  /\ UNCHANGED <<unknown, others, quitting, history>>

-----------------------------------------------------------------------------
(* The turns of a step. *)

\* A turn with the tools of the workspace can leave a call of unknown outcome.
Acted(r) ==
  unknown' \in {unknown, [unknown EXCEPT ![r] = @ \cup {at[r]}]}

\* The step is completed and saved; its surfaces are closed before the next.
Completes(r) ==
  LET data == [copy[r] EXCEPT !.status[at[r]] = "completed",
                              !.feedback[at[r]] = NoFeedback]
  IN IF <<r, at[r]>> \in holders
     THEN /\ holders' = holders \ {<<r, at[r]>>}
          /\ row' = [row EXCEPT ![r] = data] /\ copy' = [copy EXCEPT ![r] = data]
          /\ pc' = [pc EXCEPT ![r] = "release"]
          /\ UNCHANGED <<task, at, continued, reason, out>>
     ELSE Advance(r, data, at[r] + 1, data)

\* The next turn of the same step.
Turns(r, next) ==
  /\ pc' = [pc EXCEPT ![r] = next]
  /\ UNCHANGED <<row, task, copy, at, reason, out, holders>>

\* The user's feedback is spent with the step.
Spent(r) ==
  /\ said' = [said EXCEPT ![r] = NoFeedback]
  /\ meddled' = [meddled EXCEPT ![r] = FALSE]
  /\ UNCHANGED corrected

\* A handoff that says completed.
Claimed(r) ==
  IF at[r] \in Validated
  THEN Turns(r, "validate") /\ UNCHANGED <<continued, history>>
  ELSE Completes(r) /\ Spent(r)

\* Mutant: the continuations are not counted.
MutContinues(r) == UNCHANGED continued

\* Another continuation of the step, within its limit.
Continues(r) ==
  /\ continued[r] < MaxContinued
  /\ continued' = [continued EXCEPT ![r] = @ + 1]

\* A work turn ends, or the repair of its handoff.
WorkEnds(r) ==
  /\ pc[r] \in {"work", "repair"}
  /\ UNCHANGED <<others, quitting>>
  /\ IF pc[r] = "work" THEN Acted(r) ELSE UNCHANGED unknown
  /\ \/ /\ reason[r] # "none"
        /\ Halts(r) /\ UNCHANGED history
     \* An error, a question or approval, a handoff that cannot be repaired, a
     \* blocker, or work left when no continuation is.
     \/ /\ reason[r] = "none"
        /\ Fails(r) /\ UNCHANGED history
     \/ /\ reason[r] = "none" /\ pc[r] = "work"
        /\ Turns(r, "repair") /\ UNCHANGED <<continued, history>>
     \/ /\ reason[r] = "none"
        /\ Continues(r) /\ Turns(r, "work") /\ UNCHANGED history
     \/ /\ reason[r] = "none"
        /\ Claimed(r)

MayCorrect(r) == copy[r].attempts[at[r]] < Budget

\* Mutant: the attempt is saved with the correction's outcome.
MutCounted(r) ==
  /\ copy' = [copy EXCEPT ![r].attempts[at[r]] = @ + 1]
  /\ UNCHANGED row

\* The attempt is counted, and saved, before the turn.
Counted(r) ==
  LET data == [copy[r] EXCEPT !.attempts[at[r]] = @ + 1]
  IN /\ copy' = [copy EXCEPT ![r] = data] /\ row' = [row EXCEPT ![r] = data]

\* The validator's verdict.
ValidateEnds(r) ==
  /\ pc[r] = "validate"
  /\ UNCHANGED <<unknown, others, quitting>>
  /\ \/ /\ reason[r] # "none"
        /\ Halts(r) /\ UNCHANGED history
     \* An error, no verdict, or a rejection when no attempt is left.
     \/ /\ reason[r] = "none"
        /\ Fails(r) /\ UNCHANGED history
     \/ /\ reason[r] = "none"
        /\ Completes(r) /\ Spent(r)
     \/ /\ reason[r] = "none" /\ MayCorrect(r)
        /\ Counted(r)
        /\ corrected' = [corrected EXCEPT ![r][at[r]] = @ + 1]
        /\ pc' = [pc EXCEPT ![r] = "fold"]
        /\ UNCHANGED <<task, at, continued, reason, out, holders, said, meddled>>

\* The transcript is summarised before the correction.
FoldEnds(r) ==
  /\ pc[r] = "fold"
  /\ IF reason[r] # "none" THEN Halts(r)
     ELSE Turns(r, "correct") /\ UNCHANGED continued
  /\ UNCHANGED <<unknown, others, quitting, history>>

\* The correction ends: validated again, or the step fails.
CorrectEnds(r) ==
  /\ pc[r] = "correct"
  /\ Acted(r)
  /\ \/ reason[r] # "none" /\ Halts(r)
     \/ reason[r] = "none" /\ Fails(r)
     \/ reason[r] = "none" /\ Turns(r, "validate") /\ UNCHANGED continued
  /\ UNCHANGED <<others, quitting, history>>

\* The surfaces of a completed step are closed: the next step.
Released(r) ==
  /\ pc[r] = "release"
  /\ Advance(r, copy[r], at[r] + 1, row[r])
  /\ UNCHANGED <<unknown, others, quitting, history>>

\* The surfaces of an execution that is over are closed: it returns.
Closed(r) ==
  /\ pc[r] = "close"
  /\ Over(r, row[r], out[r])
  /\ UNCHANGED <<unknown, holders, others, quitting, history>>

-----------------------------------------------------------------------------
(* The user. *)

\* start(): the row and its task are written in one transaction.
Start(r) ==
  /\ task[r] = "none" /\ ~quitting
  /\ row' = [row EXCEPT ![r] = NewRow]
  /\ task' = [task EXCEPT ![r] = "queued"]
  /\ UNCHANGED <<unknown, pc, copy, at, continued, reason, out, holders,
                 others, quitting, history>>

\* control() refuses while an unfinished step has unknown outcomes.
Known(r) ==
  \A i \in Steps : row[r].status[i] # "completed" /\ row[r].opened[i]
                   => i \notin unknown[r]

\* Mutant: a blank resume clears the feedback too.
MutSteered(data, text, clear) ==
  [data EXCEPT !.feedback = [i \in Steps |->
     IF Todo(data, 1) # {} /\ i = First(Todo(data, 1)) THEN text ELSE @[i]]]

\* The next step gets the feedback; a blank text keeps what it has, or clears it.
Steered(data, text, clear) ==
  [data EXCEPT !.feedback = [i \in Steps |->
     IF Todo(data, 1) # {} /\ i = First(Todo(data, 1)) /\ (text # NoFeedback \/ clear)
     THEN text ELSE @[i]]]

\* What the user has said by that, and whether an executor was at work.
Says(r, text, clear) ==
  /\ said' = [said EXCEPT ![r] = IF Unfinished(r) # {} /\ (text # NoFeedback \/ clear)
                                 THEN text ELSE @]
  /\ meddled' = [meddled EXCEPT ![r] = pc[r] # "off" \/ (@ /\ text = NoFeedback /\ ~clear)]

\* control("resume"), then the runner's resume().
Resume(r, text) ==
  /\ task[r] # "none" /\ ~quitting /\ Known(r)
  /\ row' = [row EXCEPT ![r] = Steered(row[r], text, FALSE)]
  /\ task' = [task EXCEPT ![r] = IF @ \in {"interrupted", "paused"} THEN "queued" ELSE @]
  /\ Says(r, text, FALSE)
  /\ UNCHANGED <<unknown, pc, copy, at, continued, reason, out, holders,
                 others, quitting, corrected>>

\* control("retry"), then restart(): a fresh budget of corrections.
Retry(r, text) ==
  /\ task[r] # "none" /\ ~quitting /\ Known(r)
  /\ LET data == Steered(row[r], text, TRUE)
     IN row' = [row EXCEPT ![r] =
          [data EXCEPT !.attempts = [i \in Steps |->
             IF data.status[i] = "completed" THEN data.attempts[i] ELSE 0]]]
  /\ corrected' = [corrected EXCEPT ![r] = [i \in Steps |->
       IF row[r].status[i] = "completed" THEN corrected[r][i] ELSE 0]]
  /\ task' = [task EXCEPT ![r] = IF @ = "failed" THEN "queued" ELSE @]
  /\ Says(r, text, TRUE)
  /\ UNCHANGED <<unknown, pc, copy, at, continued, reason, out, holders, others, quitting>>

\* The runner's resume() by the task's own handler: the steps are not looked at.
TaskResume(r) ==
  /\ task[r] \in {"interrupted", "paused"} /\ ~quitting
  /\ task' = [task EXCEPT ![r] = "queued"]
  /\ UNCHANGED <<row, unknown, pc, copy, at, continued, reason, out, holders,
                 others, quitting, history>>

\* The runner's pause() and cancel(): only the first abort gives the reason.
Halt(r, why) ==
  /\ ~quitting
  /\ IF pc[r] # "off"
     THEN /\ reason' = [reason EXCEPT ![r] = IF @ = "none" THEN why ELSE @]
          /\ UNCHANGED task
     ELSE /\ task[r] \in {"queued"} \cup IF why = "cancel" THEN {"interrupted"} ELSE {}
          /\ task' = [task EXCEPT ![r] = IF why = "pause" THEN "paused" ELSE "cancelled"]
          /\ UNCHANGED reason
  /\ UNCHANGED <<row, unknown, pc, copy, at, continued, out, holders, others, quitting, history>>

-----------------------------------------------------------------------------
(* The process. *)

\* A step of another run takes surfaces, by the same check, or gives them up.
OtherTakes ==
  /\ Room /\ others' = others + 1
  /\ UNCHANGED <<row, task, unknown, pc, copy, at, continued, reason, out,
                 holders, quitting, history>>
OtherGives ==
  /\ others > 0 /\ others' = others - 1
  /\ UNCHANGED <<row, task, unknown, pc, copy, at, continued, reason, out,
                 holders, quitting, history>>

\* will-quit: every run that is driven is aborted.
Quit ==
  /\ ~quitting /\ quitting' = TRUE
  /\ reason' = [r \in Runs |-> IF pc[r] # "off" /\ reason[r] = "none" THEN "shutdown"
                               ELSE reason[r]]
  /\ UNCHANGED <<row, task, unknown, pc, copy, at, continued, out, holders, others, history>>

\* The process ends, by a quit or a crash, and starts again: a task that was
\* driven is interrupted, and a turn that acted may leave an unknown outcome.
Restart ==
  /\ \E S \in SUBSET {r \in Runs : pc[r] \in {"work", "correct"}} :
       unknown' = [r \in Runs |-> IF r \in S THEN unknown[r] \cup {at[r]} ELSE unknown[r]]
  /\ task' = [r \in Runs |-> IF task[r] = "running" THEN "interrupted" ELSE task[r]]
  /\ pc' = [r \in Runs |-> "off"] /\ copy' = row
  /\ at' = [r \in Runs |-> 1] /\ continued' = [r \in Runs |-> 0]
  /\ reason' = [r \in Runs |-> "none"] /\ out' = [r \in Runs |-> "content"]
  /\ holders' = {} /\ others' = 0 /\ quitting' = FALSE
  /\ UNCHANGED <<row, history>>

-----------------------------------------------------------------------------
Turned(r) ==
  Indexed(r) \/ WorkEnds(r) \/ ValidateEnds(r) \/ FoldEnds(r) \/ CorrectEnds(r)
  \/ Released(r) \/ Closed(r)

Next ==
  \/ \E r \in Runs :
       \/ Start(r) \/ Launch(r) \/ NoWorkspace(r) \/ Indexing(r)
       \/ Indexed(r) \/ WorkEnds(r) \/ ValidateEnds(r) \/ FoldEnds(r)
       \/ CorrectEnds(r) \/ Released(r) \/ Closed(r)
       \/ \E text \in Feedback \cup {NoFeedback} : Resume(r, text) \/ Retry(r, text)
       \/ TaskResume(r)
       \/ \E why \in {"pause", "cancel"} : Halt(r, why)
  \/ OtherTakes \/ OtherGives \/ Quit \/ Restart

Spec == Init /\ [][Next]_vars

\* A turn, a summary and the closing of surfaces come to an end.
FairSpec == Spec /\ \A r \in Runs : WF_vars(Turned(r))

-----------------------------------------------------------------------------
(* Properties. *)

\* service.ts:358: a turn runs only for the first step the row does not hold
\* completed, across the executor's stale copy, the controls and restarts.
InOrder ==
  \A r \in Runs : pc[r] \in Turning => Unfinished(r) # {} /\ at[r] = First(Unfinished(r))

\* A task is completed only when the row holds every step completed.
CompletedMeansAll ==
  \A r \in Runs : task[r] = "completed" => Unfinished(r) = {}

\* No save, of a control or of an executor with an old copy, undoes a completed step.
CompletedStays ==
  [][\A r \in Runs : Unfinished(r)' \subseteq Unfinished(r)]_row

\* service.ts:565: between two retries no step is corrected more often than
\* the row says, so neither a crash nor a resume refunds an attempt.
CorrectionsHold ==
  \A r \in Runs, i \in Steps :
    /\ corrected[r][i] <= row[r].attempts[i]
    /\ pc[r] \in Turning => corrected[r][i] <= copy[r].attempts[i]

\* Surfaces are held by steps that take turns, and by no more than the limit.
SurfacesHold ==
  /\ Cardinality(holders) + others <= MaxSurfaces
  /\ \A r \in Runs, i \in Steps :
       <<r, i>> \in holders <=> i \in Surfaced /\ pc[r] \in Turning /\ at[r] = i

\* service.ts:325: unless a control met an executor at work, the row and the
\* copy at work hold the feedback the user last gave, until the step is done.
FeedbackHolds ==
  \A r \in Runs : ~meddled[r] /\ Unfinished(r) # {} =>
    /\ row[r].feedback[First(Unfinished(r))] = said[r]
    /\ pc[r] \in Turning => copy[r].feedback[at[r]] = said[r]

\* Continuations, repairs and corrections are bounded: every execution ends.
ExecutionEnds == \A r \in Runs : pc[r] # "off" ~> pc[r] = "off"
=============================================================================
