# North Star: a TLA+ model of the main process

North Star is a desktop agent (Electron). Its main process runs conversations with language models,
executes the tools they call, keeps background tasks in SQLite, and must survive stops, crashes and
slow or failing providers. This directory holds TLA+ modules translated from that code, TLC instances
that check them, and TLAPS proofs about them. Paths below are relative to the repository; line numbers
in the modules and in `PROJECT.json` refer to it.

`PROJECT.json` lists every component with its status, every run, the mutant that shows each property
can fail, the source lines of every definition, the hazards, the findings and the theorems.

## 1. Inventory

JavaScript runs one callback at a time, and `better-sqlite3` is synchronous: a handler is atomic up to
its next `await`, with its database writes. Concurrency is the interleaving of such segments; a crash
may come between any two writes.

| Component (source) | State | Operations | Interacts with | What is hard | What makes it correct |
|---|---|---|---|---|---|
| Task runner (`src/main/tasks/runner.ts`) | rows `tasks`, `approvals`, `task_events`; in memory `queue`, `running`, `inflight`, `backoffTimers`, the pump's promise | enqueue, pump, run, gate, decide, pause, cancel, resume, restart, stop, boot | agent loop, IPC handlers, executors of task kinds | nine handlers edit the same three collections; quit and crash; decisions that arrive late | one driver per task, no lost row, no repeated side effect, lanes and caps, bounded retries |
| Tool calls (`agent/tool-batch-scheduler.ts`, `agent/repair.ts`, `db/repositories/tool-call-lifecycle.ts`, part of `agent/index.ts`) | a lifecycle row per call, the transcript, the bodies that still run | record, gate, start, settle, skip, deadline, abort, repair | approval policy, task runner (the guard of resume) | a deadline or stop with the tool still running; a write that fails; a crash between effect and row | transcript, rows and effects agree; nothing is repeated blindly |
| Turns (`agent/conversation-turns.ts`, `agent/steering.ts`, `agent/command-completion-inbox.ts`, `tools/command_session_tools.ts`) | tail of the turn queue, steering messages (durable), inbox of completions, waiters, processes | ask, steer, withdraw, launch, exit, wait, stop | agent loop, renderer, child processes | messages and exits that arrive at every point of a turn | nothing accepted is lost or told twice; waits end |
| Model requests (`agent/model-permits.ts`, `agent/model-request-retry.ts`, `db/repositories/model-request-retry-budgets.ts`) | permits, waiters, a durable budget per logical round | acquire, release, time out, retry, exhaust, link a new budget | agent loop, subagents, task runner | a parent waits for children that need permits; aborts of waiters; crash in mid-attempt | permits conserved, first come first served, attempts bounded across crashes |
| Agent loop (`agent/index.ts`) | the messages of a turn | rounds, streaming, compaction, titles | everything above | drives the protocols above | modelled through them |
| Subagent batches (`spawnSubagentBatch` in `agent/index.ts`, `agent/subagents/*`) | lease of the repository, its clock, approval queue, Auto flag (memory); worktrees, branches, artifact rows (durable) | spawn, lease, preflight, create, ask, decide, time out, hand back, clean up, quarantine | git, approvals, permits | children that share a clock which an approval stops; failures half-way; a crash that leaves worktrees | sessions of writers exclude each other across crashes; one child asks at a time; a batch returns |
| Workflow runs (`workflows/service.ts`) | one row with all steps; the executor's copy; surfaces held | start, control, execute, turns of a step | task runner, agent loop, index, browser | two copies of one row, each saved whole over the other | steps in order, completed stays completed, corrections not refunded, feedback not lost |
| Index runs (`index/service.ts`) | rows of files and symbols | walk, hash, write, delete, extract, clear | task runner, the disk | files that change between stat, read and write; aborts in between | an undisturbed run leaves the disk's state; nothing changed stays hidden |
| Index watcher (`index/watcher.ts`, `ipc/index-handlers.ts`) | watch, debounce timer, the wish for another run, the link to a task | notice, ask, follow up, start, stop, clear | task runner, index runs | a change during, before or after a run, and handlers that race with the close of a watch | a change is followed by a run; off is off |
| File changes (`agent/tools/file/patch.ts`, `mutation.ts` and three tools) | files, temporary files, backups | plan, check, stage, back up, install, clean, roll back | other programs on the same files | no lock: edits at every await; a failed step, a failed rollback, a crash | old contents recoverable, foreign edits kept, a true answer |
| Handoff, report-back, todo runs, deletion | links between conversations, notes | create tasks, deliver reports, cascade | task runner, turns | deletion against running tasks | no orphan, each report told once |
| Summaries, dashboards, workflow definitions | rows derived from others, or edited in place | executors of tasks, an editor | task runner | stale inputs | derived data follows its source |
| MCP client and server, CLI agents, providers | connections, grants, processes | connect, list, call, revoke | agent loop | I/O and reconnection | a grant ends with its turn |
| Approval policy, other tools, environments, browser, git, terminal, files, settings, memory, skills, context, database, renderer | none that a protocol depends on | string analysis, I/O, views, key-value rows | the above | | no protocol to state |

Components of the last row, and the reason each is left out, are in `PROJECT.json`.

## 2. Plan

Order of work, most important first. Steps 1 to 8 are done.

1. `TaskRunner`: everything durable hangs on it.
2. `ToolCalls`: what a crash or stop may do to side effects.
3. `Turn`: ordering and waits inside a conversation.
4. `ModelRequests` and its abstract specification `PermitPool`: the resource every loop shares.
5. `Delegation`: batches of subagents; its coordinator implements `PermitPool` with one permit.
6. `WorkflowRun`: the steps of a run over the life cycle of its task.
7. `IndexFiles` and `IndexWatch`: what a run does to the rows, and when a run is asked for.
8. `FilePatch`: changes of several files with rollback.
9. Links between conversations: deletion, orphan reaping, handoff and report-back.
10. The MCP connection manager; the grants of the MCP server.
11. Refinements still worth stating: `TaskRunner` implements the life cycle of one durable task (queued, in
    flight, at rest), which `WorkflowRun` and `IndexWatch` assume of it; `ToolCalls` implements "an effect happens at
    most once unless it is reported unknown".
12. Every safety invariant, action property and refinement that a run checks has a theorem (section 5); what is left to
    TLC is liveness. The refinements of step 11 come next, with their proofs.

Modules share no variables: each models one component whole, and what the others do to it is an action
with every outcome the code allows. `ToolCalls` abstracts the turn around it to "a turn ends", `Turn`
abstracts a batch of calls to "the calls settle", `TaskRunner` abstracts a run to gates, side effects
and an end, `ModelRequests` abstracts a turn to its requests, `WorkflowRun` abstracts a turn to how it ends,
and `IndexWatch` takes of a run that it ends: each stage of `IndexFiles` goes once over a finite list.

## 3. Modules

### `TaskRunner`

One action per handler. The durable variables `status`, `attempts`, `pending`, `effect`, `asked` are
the rows; `queue`, `run`, `backoff`, `pump`, `wakeQueued`, `gate` are the process. `Boot` is `start()`:
`reconcile()` and `seed()` in one step, since nothing awaits between them. The pump (`PumpResume`,
`Launch`, `PumpPark`) is the one handler of several steps; while it drains no other action is enabled.
`EndShutdown` to `EndCompleted` are the branches of `runOne()` in their order, each with the sweep of
approvals, the event, the row and the wakeup it makes. `effect` abstracts what
`unknownSideEffectingToolCalls()` finds (that function is modelled in `ToolCalls`). `Init` has any
number of queued rows of an earlier session. Left out: `reapOrphans()` and `deleteSourceConversation()`,
which need links between conversations, and the listing of tasks.

### `ToolCalls`

One conversation. An operation is a tool with its arguments; `Gates` says which actions its body asks
approval for. `state` and `ident` are the lifecycle row, `answer` the tool message, `acts` a history of
effects. `Respond` records a round; `Start`, the gate actions, `Act`, `Return`, `Deadline`, `GiveUp`,
`Fault` follow `runToolCallBatches` and `execute`; `NewTurn` contains the repair of an earlier turn.
Actions named `...ThenDie` stop between two database writes. A body is only cancelled cooperatively, so
`Act` may come after the scheduler gave up. Left out: arguments that do not parse, ids a provider uses
twice, gates of parallel-safe tools outside their own call, the forced-skill prologue.

### `Turn`

One conversation with its turns in order, the steering messages and the background commands. `pc` is the
place of a turn; `Top` is the head of the loop (steering and notes), `Answer`, `AnswerSteered` and
`AnswerWaits` the three things a round without calls leads to. `reg`, `queued`, `waits`, `held` are the
inbox: a completion is queued, taken by `wait_for_events` or by the loop, and told once. Left out: output
buffers, `write_stdin` and `poll_command`, turns of CLI providers, two parallel `wait_for_events`.

### `ModelRequests`

The pool of permits, the durable budget of the current logical round of each conversation, and the loops.
`Attempt` is `consumeAttempt()` and `acquire()`, `Release` the closure `acquire` returns together with
`drain()`, `Leave` the `remove()` of an abort or a timeout. A logical round is named by the length of the
transcript, so a step that appends a message drops its rows. A round that is issued again (`Reissue`) has a row under
the next name, `row[c][n]`; the name is a variable of the loop, the rows are durable. A run that is resumed after a
crash therefore starts from name 0 and meets the row that the first issue exhausted: it fails (`Refused`), or
compacts once more when the row's error tells of an overflow (`Recompact`). A budget knows of time only whether its
deadline has passed (`Expire`). `Parent` gives one level of subagents, which is all the tools of a child
allow. `Wake` and the next `Attempt` are one segment of the code and two actions here, which only adds
behaviours. The slot timeout (ten minutes) is longer than any deadline (two), so it needs `late`. A stop
or a failure is taken to append its note. Chats and tasks share the run states, the bounds limit how
many rounds are followed by another.

`PermitPool` is what the pool promises to those who use it, without loops, budgets, stops or crashes:
users take a permit while one is free, join the queue while none is, hand a permit to the oldest waiter,
give up in any order, and find the pool empty after a restart. `ModelRequests` instantiates it with the
loops that hold a permit for `holders` and its queue for `waiting` (`PoolImplemented`); `Delegation` with the
child that asks and the children that wait to (`CoordinatorImplemented`).

### `Delegation`

One repository, several parents. `pc` is what a batch awaits: the assignments, the lease, the preflight, the
worktrees, its children, the integration. A step that fails there undoes what was made and lets the children
begin without writers (`Begin`, `Undo`), as the code does. `state` is what a child does; `Gate`, `Asks`, `Answered`,
`Settles` are the coordinator together with the pause and resume of the lease and the timer of the asker. Time is
the time left, in ticks (`Tick`); a timer that is due fires before more time passes. `Crash` forgets batches, leases
and timers, and quarantines what artifact rows record; `Resolve` is the user's cleanup, which the code also allows
while the writer works and which may stop half-way: without its marker only the record goes, and when git fails to delete
the branch the worktree and the marker are gone and the record is not. A child whose merge cannot be judged because
`git version` fails has failed, and its branch goes (`Judged`). What nobody can observe any more (a branch without a row) is forgotten, which bounds the
model. Left out: a rejection of the whole batch, the work of a child between two gates, the content of branches.

### `WorkflowRun`

`row` is the run in the database, `copy` the object an executor loaded once and saves whole; the controls edit and save
the row as well. `pc` is the turn or wait of the executor: `index`, `work`, `repair`, `validate`, `fold`, `correct`, `release`,
`close`. `Advance` is the loop over the steps from one completed step to the first turn of the next. `task` is the life
cycle that the task runner gives the run. `corrected`, `said` and `meddled` are histories: corrections since the last
retry, the feedback the user gave last, and whether a control came while an executor was at work.

### `IndexFiles`

A file is a text and a stat (size and floored mtime); a row has the stat and the hash it was written with, and a stage.
`Walked` and `Hashed` are the file map with its fast path and its batches, `LastEnds` the deletions, `Extracts` and `Extracted` the
symbols. The walk may pass over a file that is there, since `walkFiles` skips directories it cannot read and stats that
fail, and its row is then deleted. A read in `Hashed` may fail, which fails the run; one in `Extracted` may fail, or find a
binary file or one that defeats the extractor, and the row is marked extracted with the symbols it had. `Edit` changes the
disk at any point and may give a file a stat that an earlier content had; `Abort`, `ClearIndex` and `Crash` come at any
await. The histories say what a property may not count on: `missed` (files this walk passed over), `unread` (files whose
last extraction wrote nothing), `veiled` (files whose stat is an earlier one), `disturbed`, `raced`; `fresh` says that a run
that met every file and that nothing disturbed has completed.

### `IndexWatch`

The watch of one workspace and the tasks it asks for. `Asked` is `requestIndex()`, `EnsureRunning` and `Pruned` the service,
`Settles` the end of a task with `onTaskStatus()`. A watch opens and closes over awaits, and a handler may come between:
`opening` is `open()` before it has its watcher; `settling` is the watch that is in the map and sees changes while `open()`
still awaits git, so that a `stop()` waits for it (`dropped`) and closes it in `Settled`. There a disabled index may have a
live timer, which is what the guard at the head of `requestIndex()` is for (`TimerFires`). `change` follows one noticed change of
an enabled index until a run begins, the user gives it up, or its watch is closed over it (`lost`). `woken` are the tasks that may
run although the index is off. Three task ids are enough: an invariant of the proof says that at most one task besides the linked
one is unfinished. Left out: what the watch of git does (it refreshes one metadata row) and priorities.

### `FilePatch`

`op` says what is planned for each file; a move is the deletion of its source and a new file. `pc` is the loop of
`commitPatch()` that runs and `left` the files it has not done; the order of the loops is `Follow`. `Write` and `Delete`
are other programs, at every await; `Fault` lets a call to the file system fail. The rollback reads a path (`Undo`) and
acts on what it read (`Restore`, `Withdraw`, `Conflict`, `Yield`). With `kind = "write"` the same steps are
`atomicWriteChecked()`. Nothing is logged for a restart, so what has to hold after a crash is asked of every state.
Left out: parsing and diffs, size limits, directories made for new files, and a program that holds a file open and goes on
writing into it after it was moved to its backup.

`MCTaskRunner`, `MCToolCalls`, `MCModelRequests` and `MCDelegation` define the functions that the `.cfg` files assign
to constants. The other modules need none.

## 4. Runs

| Run | Configuration | States | What it shows |
|---|---|---|---|
| `runner_gates` | 2 agent tasks in one lane, 2 gates each, 2 attempts, 1 crash, 1 reset | 2.7 M | `DriversHold`, `NoBlindRerun`, `OpenGateHasRow`, `RetriesBounded`, `PumpNeverOversleeps`, `QuitSettlesNothing` in any order of handlers, quit and crash |
| `runner_lanes` | 3 tasks, two of them in one conversation, 2 lanes of one slot, fair event loop | 249 k | `OneTaskPerConversation`; `LaneIsolation`: a lane does not wait for another one's gate; `AbortSettles` |
| `tool_calls` | 4 operations, 3 calls, responses of up to 3, one gate per tool | 585 k | rows, transcript and effects agree (`CallsAnswered`, `NotStartedDidNothing`), nothing follows an unknown outcome in its batch (`NothingAfterUnknown`), no effect is repeated while an equal one is unknown (`NoRepeatOfUnknown`); deadlock is checked |
| `turn_inbox` | 2 turns, 2 messages, 2 commands | 3.0 M | `LeavesNothing`, `ToldAndSteeredOnce` |
| `turn_waits` | 2 turns, 1 message, 1 command, fair | 72 k | `WaitEnds`, `NextTurnStarts` |
| `model_requests` | a parent with 2 subagents and another conversation, 1 permit, 2 attempts, 1 re-issue, 1 crash, fair | 126 k | `AttemptsHold`, `WaiterServed`; the refinement `PoolImplemented` |
| `delegation` | 2 parents, one of which may ask for 2 writers and a reader at once; active time 1, absolute 2, approval 1; fair | 364 k | `OneSession`, `DeadlineHolds`, `BatchEnds`; the refinement `CoordinatorImplemented`; deadlock is checked |
| `workflow_runs` | a run of 3 steps, one validated, two with surfaces, 2 corrections, 1 continuation, 1 surface, fair | 105 k | `InOrder`, `CompletedStays`, `CorrectionsHold`, `FeedbackHolds`, `ExecutionEnds`; deadlock is checked |
| `index_files` | 2 files, 2 texts, batches of 2, 2 changes | 1.9 M | `FilesTypeOK`, `IndexExact`, `NothingSkipped`; deadlock is checked |
| `index_watch` | 3 task ids, fair | 206 k | `ChangesCovered`, `OffStaysOff`, `ChangeIndexed` |
| `file_patch` | 3 files, 2 foreign edits, 2 failing calls | 1.4 M | `AllOrNothing`, `EditsKept`, `AnswerHolds` |
| `tool_twogates` | a check with two gates | | expects a violation of `NotStartedDidNothing`, see below |

`tool_twogates` is a finding: a check that acted and is stopped at its second gate is recorded as not started
(`agent/index.ts:2245-2258`), against the comment at 2247.

Why these bounds suffice. Two tasks are the smallest number that compete for a slot or a conversation, three with
two lanes the smallest where one lane can starve another. Two gates give an old and a new request. Three calls
give an unknown outcome, a call behind it in the response, and an equal call later or in another turn. Two turns,
two commands and two messages give an overlap at every boundary of a turn. One permit with four conversations
gives a queue of two behind a holder while a parent waits in its tool calls; two attempts give one retry and the
limit. Two batches with a writer each compete for a lease; a batch of three children gives two that wait for the dialog
while the third asks, so that their order shows, and a worktree that is created before another fails; an absolute time above the active one lets each of
them be the first to pass. Three steps are one before, at and after the executor's place; two corrections the default
of the code. Two files are one that is read while the other changes, and two changes one before and one after. Three
files and two faults give a rollback that fails while another file is rolled back, and two edits an edit in the
window of each. Names that start with `Max`, and `N` of `Turn` and `FilePatch`, are bounds of the check, except
`MaxAttempts`, `MaxContinued` and `MaxSurfaces`, which are limits of the code made small. They sit in guards; the
theorems below hold for every value of them.

Deadlock. `TaskRunner`, `Turn`, `ModelRequests` and `FilePatch` reach states where the bounds are used up, the change is
done, or only the user could act, so `CHECK_DEADLOCK FALSE` is set there; progress is stated by the liveness
properties instead.

Fairness. `TaskRunner`: the event loop runs the pump when it is woken, timers fire, and a run that is not
parked at a gate ends, because requests and tools have deadlines and an abort unwinds the loop; nothing
makes a user decide a gate. `Turn`: continuations of settled promises run, a stopped loop unwinds, and
commands exit (their lifetime is limited); nothing makes a model answer. `ModelRequests`: a holder of a
permit goes on, because streams have idle timeouts and sleeps are timers; a parent in its tool calls need
not ever go on, which is what makes `WaiterServed` say something. `WorkflowRun`: a turn, a summary and the closing
of surfaces end (`Turned`); nothing makes the user resume. `IndexWatch`: the debounce ends, a queued task is launched and
ends, by the pump of `TaskRunner` and because each stage of `IndexFiles` goes once over a finite list. `Delegation`: what the
batch does by itself is not put off for ever (`Unattended`): git commands end, timers fire, a loop told to stop does, an
approval nobody answers is denied; and where a timer runs time passes (`TimePasses`): infinitely many answers, gates and
switches of Auto do not fit into one tick, and a tick waits for the timers that are due. Nobody has to answer, and no child has
to end of its own accord.

## 5. Proofs

The theorems hold for every value of the constants that satisfies the named assumptions (`ConstantsAssumption` of
`TaskRunner`, `ToolCalls` and `Turn`; `BoundsAssumption` and `ParentAssumption` of `ModelRequests`;
`DelegationAssumption`, `WorkflowAssumption`, `IndexAssumption`, `WatchAssumption`, `NAssumption` and `EditsAssumption`).
They say of what kind each constant is, that ids and contents differ from the words for "none", and that there is
something to model (a batch, a file); TLC evaluates them in every run.

**`TaskRunnerProofs`.** `TypeCorrect`, `DriversHoldTheorem` with its parts `OneDriverTheorem`, `NoLostTaskTheorem` and
`RestIsRestTheorem`, `NoBlindRerunTheorem`, `FinishedIsFinalTheorem`, `LanesHoldTheorem`, `OneTaskPerConversationTheorem`,
`OpenGateHasRowTheorem`, `RetriesBoundedTheorem`, `PumpNeverOversleepsTheorem`, `QuitSettlesNothingTheorem`. The invariant `IInv` adds
to the types that a task in the queue, running or backing off has a row that says so (`DriverRow`), that
a dead process holds nothing (`DeadHoldsNothing`) and that a row may only be queued with its effects
settled (`FreshEffects`). Without `DriverRow` the step of a retry timer would queue a finished task;
without `DeadHoldsNothing` a boot could find an old driver. `RetryInv` ties the launches to the attempts
in the log, `Stopped` says what a quit leaves. `PumpNeverOversleeps` is inductive on top of `IInv`: a handler either
wakes the pump, or (`SleepFrame`) leaves the runs as they are, only takes from the queue, and clears no timer but that of
a task it takes from the queue too, which is where the sibling in the same conversation has to be excepted.

**`ToolCallsProofs`.** `TypeCorrect` and `AnswersAgreeTheorem` hold without further assumption;
their invariant ties the row of each call to the phase of its worker, to the effects its body had and to
its answer in the transcript, since a step takes its guard from one of these and changes another.
`NotStartedDidNothingTheorem` and `GuardSeesEffectsTheorem` hold under `OneGate`: no tool asks for
approval twice. That assumption is needed, as `tool_twogates` shows. A second invariant, `Line`, relates
the calls of a response to each other and to those of earlier ones: every call of an earlier response is answered (`Past`);
in the present one a call that is done has reported a result, and lacks its answer only while another of its batch is open
(`InTurn`); whatever precedes a side effect that started has reported a result (`Ordered`); a side effect works alone
(`Alone`), rows carry an identity of their operation (`Named`), and no row of unknown outcome carries one that a side effect
at work has been checked for (`Checked`). From it follow `CallsAnsweredTheorem` and `NothingAfterUnknownTheorem`, without
`OneGate`, and `NoRepeatOfUnknownTheorem`, with it: the row keeps the identity of the last gate, so with two gates the check
of an equal call at the first one finds nothing.

**`TurnProofs`.** `TypeCorrect`, `TurnsExclude`, `SteeringOnce`, `AnswersComplete`, `CompletionsOnce`,
`StoppedRunsHoldNothing`, and the two properties of the run that gather them, `TurnsLeaveNothing` and
`DeliveredOnce`. `InTurn` orders the turns, which gives their exclusion; `SteerInv` says where a message can be while
its turn runs, `CommandInv` where a command's entry in the inbox and its completion can be. Each rests on the ones
before it: a completion is told once because only one turn runs, and only it takes from its inbox.

**`ModelRequestsProofs`.** `TypeCorrect`, `PermitsHoldTheorem`, `NoStrandedWaiterTheorem`,
`AttemptsHoldTheorem`, `NoOvertakingTheorem`, `PoolTheorem`. `PermitsHold` and `NoStrandedWaiter` need each other: one
release serves exactly one waiter because nobody waits while a permit is free. They also need `Tree`: a
loop runs in a running run, and a subagent only inside the tool calls of its parent, so that a new run
never overwrites a loop that waits in the queue. `AttemptsHold` counts the requests sent under each name of a round, through
crashes and resumed runs, and needs `Budgets`: an attempt is counted
before it is made, so a waiter always has one to spend. `PoolTheorem` is the refinement of `PermitPool`: from the
invariant, each step maps to one step of the abstract pool or to none.

**`WorkflowRunProofs`.** `TypeCorrect`, `StepsInOrder`, `CompletedRunsAreDone`, `CompletedIsFinal`, `CorrectionsCounted`,
`SurfacesAreHeld`, `FeedbackReaches`, for every set of runs and every number of steps. The invariant (`Sound`) compares the
two copies of a run: row and copy have the same completed steps, both count every correction, and neither holds
feedback for a step after the next one (`Fits`), so either may be saved over the other. Feedback is exempt once a
control has met an executor at work, as section 6 says. That there is a next step while one is unfinished is the least-number
principle, taken from the library's theorem about `<` on the natural numbers.

**`IndexProofs`.** Of `IndexWatch`: `TypeCorrect`, `ChangesFollowed`, `OffStays`, for any three task ids. The invariant adds
that a watch no `stop()` waits for is of an enabled index, that a timer or a wish for another run is of a watch that is
there, and that at most one unfinished task is not the linked one. `OffStays` is about the tasks outside `woken`. Of
`IndexFiles`: `FilesTypeCorrect`, `RunsConverge` (`IndexExact`), `ExtractedMeansExtracted` (`NothingSkipped`), for every set of
files and texts, every size of a batch and any number of changes. `FilesInv` says that a stat determines its text but for
the files in `veiled` (`Stats`, `Fits`), which is what the fast path of the walk relies on; what each stage has done with the
files it has passed, as long as nothing disturbs the run and none is passed over (`Order`, `Progress`); that a finished run
stays exact until the disk changes (`Still`); and that a row that says extracted has its symbols, but where the last
extraction wrote none, until a race has occurred (`Extant`). A row still in the batch counts as written (`View`), since the
flush may come at any file.

**`FilePatchProofs`.** `TypeCorrect`, `CommitRecoverable`, `EditsSurvive`, `AnswerTheorem`, for every number of files, edits and
faults. The invariant says for every loop of the commit and of its rollback which files have a backup (`Backed`), and
where each old content and each foreign edit is. The answer needs `Named` besides: once the clean-up or the rollback
has done a file (`Over`), its temporary file and its backup are gone or reported, and new content that stayed is an error.

**`DelegationProofs`.** `TypeCorrect`, `SessionsExclude`, `DeadlineTheorem`, `CoordinatorTheorem`, for every set of batches and
children and every length of the lease. The first invariant follows a batch from the lease it takes to the worktrees it
creates (`Session`): from the check of the quarantine until its children begin nothing is unresolved, because only the
holder of the lease records artifacts. The second, `Turns`, is about the approvals: a child waits in the queue of its
batch exactly once or not at all, and one asks at a time (`Line`); the lease stands still exactly while a child of its
holder asks, and no timer outlives its absolute deadline (`Lease`); no child has two parents (`Apart`). A step of one batch
leaves the others their part (`OneBatch`). `CoordinatorTheorem` maps each step to one of `PermitPool` with one permit:
a gate takes the permit or joins the queue, a child that settles gives it back or hands it on (`TurnPasses`), a timer
that fires does either or is a waiter that gives up, and a stop or crash empties the pool.

Checked by TLC only: liveness (`LaneIsolation`, `AbortSettles`, `WaitEnds`, `NextTurnStarts`, `WaiterServed`, `BatchEnds`,
`ExecutionEnds`, `ChangeIndexed`), since the prover handles neither fairness nor `ENABLED`. Every other property of
a passing run has a theorem. No module uses recursion, so nothing here needs induction over data.

## 6. Seen while modelling

What the models reach and no passing run states. The first has a run of its own; the others can be had by adding
the formula they contradict.

* Two gates. `onSettled` turns an unknown outcome into `not_started` whenever the row waits for an approval
  (`agent/index.ts:2248`), though a check asks again after it acted. Run `tool_twogates`.
* The identity of the last gate. Each gate overwrites the invocation id of the row (`agent/index.ts:2416`), so a call with
  two gates is filed under the second, and an equal call after an unknown outcome acts again.
* A row without a driver. `cancel()` of a retry that waits for a slot takes it from the queue and leaves its row `running`
  (`tasks/runner.ts:697`), where 786-787 says that such a row means a dead process. `DriversHold` is stated for the
  other rows.
* A sleeping pump. `pause()` or `cancel()` of a task that backs off frees its conversation without a wakeup
  (`tasks/runner.ts:648-654`, 670-686); a queued task behind it sleeps until the next event. `PumpNeverOversleeps` is therefore
  stated of tasks that are alone in their conversation.
* A stale decision. A decision on an old request flips the row of a task that waits at a newer gate to `running`
  (`tasks/runner.ts:734`), where 709-711 says "No-op unless the task is currently waiting".
* A deadline that starts in the queue. `restart()` gives its new budget a deadline of two minutes at once
  (`tasks/runner.ts:608`); a task that waits longer for a slot fails without a request.
* A completed budget. A crash while a turn that answered nothing waits for a command leaves the budget of the
  unchanged round completed (`agent/index.ts:3438`); the resumed run is refused.
* A message with a skill nobody knows is accepted between `openSteering` and its validation (`agent/steering.ts:170`) and
  fails the turn it is delivered to.
* Symbols that never converge, where the comment at `index/service.ts:153-157` says that every run converges. A file that changes or
  goes between its hash and its extraction has its row marked extracted under the earlier hash; if it is then put back,
  the next run finds the same hash, keeps the stage, and the wrong symbols stay until the text changes. And `clear()` (147) beside an
  aborted executor: a touched file in its batch keeps the stage it had, the last flush puts the row back as extracted, and no
  later run looks at it. `IndexExact` and `NothingSkipped` therefore ask for symbols only when no run was disturbed since the
  index was last empty.
* Symbols of an older text. A file that becomes binary, or cannot be read or parsed, is marked extracted with the symbols it had
  (`index/service.ts:383`, 392-396); they stay until its content changes again. The comment at 393 means the row to advance.
* A file that cannot be read. The walk passes over a file whose stat fails (`agent/env/walk.ts:122`), but one that can be
  stat'ed and not read fails each run at its hash (`index/service.ts:270`), as long as its row does not have its stat.
* A stop that closes a later watch. A disable waits for an `open()` that still awaits git (`index/watcher.ts:237`); if the user
  enables the index meanwhile, `start()` finds the watch in the map and returns, and the old stop then closes it: a change that
  was noticed is lost, and the enabled index has no watch until it is started again. `ChangesCovered` exempts such a change (`lost`).
* A task that a disable does not reach. `index:clear` with a change pending cancels the linked task, whose follow-up is
  queued and then unlinked (`ipc/index-handlers.ts:47-52`); a later disable cancels only the linked task, so the other one still
  indexes the workspace, where 54 says "Disable cancels any live task". `OffStaysOff` exempts such tasks (`woken`).
* A quarantined branch without a marker. When `git branch -D` fails the worktree and the marker are gone
  (`agent/subagents/quarantine.ts:69-87`); a second attempt finds no marker and resolves the record without touching the branch.
* Enabling again while the cancelled task unwinds: `ensureRunning()` finds a live task and asks for none
  (`ipc/index-handlers.ts:73`); nothing indexes the workspace until the next change.
* Auto of a parent. The flag is read when the tool starts (`agent/index.ts:2633`) and followed from 3760 on, after
  several awaits: an Auto that is switched off between them is not seen.
* A completed writer's branch may be gone: the user may resolve the artifact of a writer at work
  (`agent/subagents/quarantine.ts:45`), and its cleanup then keeps nothing.
* Feedback that meets an executor. `control()` saves its feedback in the row (`workflows/service.ts:325`, 338) while the executor works
  on an older copy, which it saves over it: the feedback is lost. `FeedbackHolds` exempts these runs (`meddled`).
* Backups after a failed rollback. When the rollback of a patch fails the answer is `rollback_failed`, and backups that were kept for
  other reasons than a failed rename are not among the paths it names (`agent/tools/file/patch.ts:754-768`). `AnswerHolds`
  exempts that answer.

## 7. Not modelled

* Text: prompts, classification of commands, error messages, compaction, streaming of chunks, parsers of patches and symbols.
* External programs and the network: processes, browsers, git, containers, provider wire formats. Their
  outcomes appear as choices of the actions that call them.
* Time beyond order: a deadline has passed or not, a timer may fire at any moment; only `Delegation` counts ticks,
  since its clock stops.
* The renderer, the preload bridge, settings and schema: a third of the code by lines. They are views, wiring and rows
  edited in place; a model of them would mostly restate assignments.
* Rejections that end a whole batch of subagents (`agent/index.ts:4022`), and links between conversations
  (`tasks/runner.ts:370`): listed as hazards without a property.
* The components marked `not_modelled` in `PROJECT.json`, those of steps 9 and 10 of the plan first.
