-------------------------------- MODULE Turn --------------------------------
(***************************************************************************)
(* The turns of one conversation: their order (agent/conversation-turns.ts *)
(* and runChat, runCompletionReport of agent/index.ts), the messages the   *)
(* user steers a running turn with (agent/steering.ts), and the background *)
(* commands whose completions a turn waits for                             *)
(* (agent/command-completion-inbox.ts, tools/command_session_tools.ts).    *)
(*                                                                         *)
(* A turn alternates between rounds of the model and batches of tools      *)
(* (ToolCalls models those).  Between "top" and the next step other        *)
(* callbacks may run; every other action is what runs without an await.    *)
(***************************************************************************)
EXTENDS Integers, FiniteSets

CONSTANTS
  N,      \* bound: turns
  Msgs,   \* steering messages
  Cmds    \* background commands

Turns == 1..N
ASSUME ConstantsAssumption == N \in Nat /\ Msgs \subseteq Nat

VARIABLES
  \* turns
  kind,     \* "chat", "bash" (a code block the user runs) or "report"
  pc,       \* where a turn is
  after,    \* the turn it waits for, 0 for none
  outcome,  \* how its loop ended
  abort,    \* its abort controller has fired
  tail,     \* the last turn asked for, 0 when none is pending
  ctl,      \* the turn whose controller Stop would fire
  \* steering
  status,   \* steering_messages.status (durable), "absent" without a row
  run,      \* the turn a message was sent to (durable)
  bad,      \* the message names a skill the agent does not have
  session,  \* the turn that accepts messages, 0 for none
  checked,  \* the session validates messages
  got,      \* history: times a message entered the transcript
  \* commands
  proc,     \* "none", "launching", "running", "dying" or "exited"
  owner,    \* the turn that launched it
  reg,      \* the inbox: "no", "new" or "ready" (its first result is recorded)
  queued,   \* completions in the inbox
  cancelled,\* runs the inbox takes nothing for
  waits,    \* the waiter of a turn: "no", "waiting" or "woken"
  ids,      \* the commands it waits for
  held,     \* completions wait_for_events took, its result not yet recorded
  first,    \* history: the first result is in the transcript
  told      \* history: times a completion entered the transcript

turnVars == <<kind, pc, after, outcome, abort, tail, ctl>>
order == <<kind, after, abort, tail, ctl>>
steerVars == <<status, run, bad, session, checked, got>>
inboxVars == <<reg, queued, cancelled, waits, ids, held, first, told>>
vars == <<turnVars, steerVars, proc, owner, inboxVars>>

Running(t) == pc[t] \in {"setup", "top", "round", "tools", "wait", "end"}
InLoop(t)  == Running(t) /\ pc[t] # "end"
Own(t)     == {c \in Cmds : owner[c] = t}

-----------------------------------------------------------------------------
\* The inbox.
Ready(t, S)   == {c \in S \cap Own(t) \cap queued : reg[c] # "new"}
Pending(t, S) == Ready(t, S) \cup {c \in S \cap Own(t) : reg[c] # "no"}

NoWaiter(t) ==
  waits' = [waits EXCEPT ![t] = "no"] /\ ids' = [ids EXCEPT ![t] = {}]

\* Completions S leave the queue for the transcript.
MutDeliver(S) ==
  /\ queued' = queued
  /\ told' = [c \in Cmds |-> IF c \in S THEN told[c] + 1 ELSE told[c]]
Deliver(S) ==
  /\ queued' = queued \ S
  /\ told' = [c \in Cmds |-> IF c \in S THEN told[c] + 1 ELSE told[c]]

\* The results of a batch of turn t, and what recording them does.
Fresh(t)    == {c \in Own(t) : reg[c] = "new"}
Settled(t)  == \A c \in Own(t) : proc[c] # "launching"
Results(t)  == held \cap Own(t)

Recorded(t, S) ==
  /\ first' = [c \in Cmds |-> first[c] \/ c \in Fresh(t)]
  /\ told' = [c \in Cmds |-> IF c \in S THEN told[c] + 1 ELSE told[c]]
  /\ held' = held \ Own(t)
Persisted(t) ==
  [c \in Cmds |-> IF c \notin Fresh(t) THEN reg[c] ELSE IF c \in queued THEN "no" ELSE "ready"]

-----------------------------------------------------------------------------
Init ==
  /\ kind = [t \in Turns |-> "chat"] /\ pc = [t \in Turns |-> "none"]
  /\ after = [t \in Turns |-> 0] /\ outcome = [t \in Turns |-> "none"]
  /\ abort = [t \in Turns |-> FALSE] /\ tail = 0 /\ ctl = 0
  /\ status = [m \in Msgs |-> "absent"] /\ run = [m \in Msgs |-> 0]
  /\ bad = [m \in Msgs |-> FALSE] /\ session = 0 /\ checked = FALSE
  /\ got = [m \in Msgs |-> 0]
  /\ proc = [c \in Cmds |-> "none"] /\ owner = [c \in Cmds |-> 0]
  /\ reg = [c \in Cmds |-> "no"] /\ queued = {} /\ cancelled = {}
  /\ waits = [t \in Turns |-> "no"] /\ ids = [t \in Turns |-> {}]
  /\ held = {} /\ first = [c \in Cmds |-> FALSE] /\ told = [c \in Cmds |-> 0]

\* A turn is asked for: a message or a code block of the user, or the report
\* on a background task.  A code block is refused while a turn is pending.
Ask(t, k) ==
  /\ pc[t] = "none" /\ (t > 1 => pc[t - 1] # "none")
  /\ k = "bash" => tail = 0
  /\ kind' = [kind EXCEPT ![t] = k]
  /\ pc' = [pc EXCEPT ![t] = "queued"]
  /\ after' = [after EXCEPT ![t] = tail]
  /\ tail' = t
  /\ UNCHANGED <<outcome, abort, ctl, steerVars, proc, owner, inboxVars>>

\* It starts when the one before it is over, however that one ended.
MutStrand(t) == after[t] # 0 => pc[after[t]] = "over" /\ outcome[after[t]] = "answered"
Free(t) == after[t] # 0 => pc[after[t]] = "over"

Begin(t) ==
  /\ pc[t] = "queued" /\ Free(t)
  /\ pc' = [pc EXCEPT ![t] = "setup"]
  /\ ctl' = t
  /\ IF kind[t] = "chat"
     THEN /\ status' = [m \in Msgs |-> IF status[m] = "queued" THEN "returned" ELSE status[m]]
          /\ session' = t /\ checked' = FALSE
     ELSE UNCHANGED <<status, session, checked>>
  /\ UNCHANGED <<kind, after, outcome, abort, tail, run, bad, got, proc, owner, inboxVars>>

\* The end of the loop (its finally): the session closes, and a stopped run
\* gives up its commands.  st and rg are the message states and the inbox
\* entries reached by then.
Finally(t, o, st, rg) ==
  /\ pc' = [pc EXCEPT ![t] = "end"]
  /\ outcome' = [outcome EXCEPT ![t] = o]
  /\ status' = [m \in Msgs |-> IF session = t /\ run[m] = t /\ st[m] = "queued"
                               THEN "returned" ELSE st[m]]
  /\ session' = IF session = t THEN 0 ELSE session
  /\ checked' = IF session = t THEN FALSE ELSE checked
  /\ NoWaiter(t)
  /\ IF abort[t]
     THEN /\ cancelled' = cancelled \cup {t}
          /\ reg' = [c \in Cmds |-> IF c \in Own(t) THEN "no" ELSE reg[c]]
          /\ queued' = queued \ Own(t)
          /\ proc' = [c \in Cmds |-> IF c \in Own(t) /\ proc[c] = "running"
                                     THEN "dying" ELSE proc[c]]
     ELSE reg' = rg /\ UNCHANGED <<cancelled, queued, proc>>
  /\ UNCHANGED <<order, run, bad, owner>>

\* The promise of the turn settles.
End(t) ==
  /\ pc[t] = "end"
  /\ pc' = [pc EXCEPT ![t] = "over"]
  /\ ctl' = IF ctl = t THEN 0 ELSE ctl
  /\ tail' = IF tail = t THEN 0 ELSE tail
  /\ UNCHANGED <<kind, after, outcome, abort, steerVars, proc, owner, inboxVars>>

-----------------------------------------------------------------------------
\* Steering.
Waiting(t) == {m \in Msgs : status[m] = "queued" /\ run[m] = t /\ session = t}

\* The user sends message m to the running turn; sending it again only wakes
\* the turn.
Steer(m, b) ==
  /\ session # 0
  /\ checked => ~b
  /\ IF status[m] = "absent"
     THEN /\ \A k \in Msgs : k < m => status[k] # "absent"
          /\ status' = [status EXCEPT ![m] = "queued"]
          /\ run' = [run EXCEPT ![m] = session]
          /\ bad' = [bad EXCEPT ![m] = b]
     ELSE /\ run[m] = session /\ b = bad[m]
          /\ UNCHANGED <<status, run, bad>>
  /\ waits' = [t \in Turns |-> IF t = session /\ pc[t] = "wait" THEN "woken" ELSE waits[t]]
  /\ UNCHANGED <<turnVars, session, checked, got, proc, owner,
                 reg, queued, cancelled, ids, held, first, told>>

CancelSteer(m) ==
  /\ status[m] \in {"queued", "returned"}
  /\ status' = [status EXCEPT ![m] = "cancelled"]
  /\ UNCHANGED <<turnVars, run, bad, session, checked, got, proc, owner, inboxVars>>

\* The messages that wait enter the transcript in order, up to one that names
\* an unknown skill, which fails the turn.
Passed(t) == {m \in Waiting(t) : \A k \in Waiting(t) : k <= m => ~bad[k]}
AfterSteering(t) == [m \in Msgs |-> IF m \in Passed(t) THEN "delivered" ELSE status[m]]

TakeSteering(t, next) ==
  /\ got' = [m \in Msgs |-> IF m \in Passed(t) THEN got[m] + 1 ELSE got[m]]
  /\ IF Passed(t) = Waiting(t)
     THEN /\ status' = AfterSteering(t)
          /\ pc' = [pc EXCEPT ![t] = next]
          /\ UNCHANGED <<order, outcome, run, bad, session, checked, proc, owner, reg, queued,
                         cancelled, waits, ids>>
     ELSE Finally(t, "failed", AfterSteering(t), reg)
  /\ UNCHANGED <<held, first, told>>

-----------------------------------------------------------------------------
\* The loop of turn t.
SetUp(t) ==
  /\ pc[t] = "setup" /\ ~abort[t]
  /\ pc' = [pc EXCEPT ![t] = IF kind[t] = "bash" THEN "tools" ELSE "top"]
  /\ checked' = IF session = t THEN TRUE ELSE checked
  /\ UNCHANGED <<order, outcome, status, run, bad, session, got, proc, owner, inboxVars>>

Top(t) ==
  /\ pc[t] = "top" /\ ~abort[t]
  /\ TakeSteering(t, "round")

CallTools(t) ==
  /\ pc[t] = "round" /\ kind[t] # "report" /\ ~abort[t]
  /\ pc' = [pc EXCEPT ![t] = "tools"]
  /\ UNCHANGED <<order, outcome, steerVars, proc, owner, inboxVars>>

\* A reply without tool calls ends the turn, unless a message or a command is
\* still due.
AnswerSteered(t) ==
  /\ pc[t] = "round" /\ ~abort[t] /\ Waiting(t) # {}
  /\ TakeSteering(t, "top")

AnswerWaits(t) ==
  /\ pc[t] = "round" /\ ~abort[t] /\ Waiting(t) = {} /\ Pending(t, Cmds) # {}
  /\ pc' = [pc EXCEPT ![t] = "wait"]
  /\ waits' = [waits EXCEPT ![t] = IF Ready(t, Cmds) = {} THEN "waiting" ELSE "woken"]
  /\ ids' = [ids EXCEPT ![t] = Cmds]
  /\ UNCHANGED <<order, outcome, steerVars, proc, owner,
                 reg, queued, cancelled, held, first, told>>

MutAnswer(t) ==
  /\ pc[t] = "round" /\ ~abort[t] /\ Pending(t, Cmds) = {}
  /\ Finally(t, "answered", status, reg)
  /\ UNCHANGED <<got, held, first, told>>
Answer(t) ==
  /\ pc[t] = "round" /\ ~abort[t] /\ Waiting(t) = {} /\ Pending(t, Cmds) = {}
  /\ Finally(t, "answered", status, reg)
  /\ UNCHANGED <<got, held, first, told>>

Resume(t) ==
  /\ pc[t] = "wait" /\ waits[t] = "woken" /\ ~abort[t]
  /\ Deliver(Ready(t, Cmds))
  /\ NoWaiter(t)
  /\ pc' = [pc EXCEPT ![t] = "top"]
  /\ UNCHANGED <<order, outcome, steerVars, proc, owner, reg, cancelled, held, first>>

\* The setup, the model request or a write of a batch fails.
Fails(t) ==
  /\ pc[t] \in {"setup", "round", "tools"} /\ ~abort[t]
  /\ Finally(t, "failed", status, reg)
  /\ UNCHANGED <<got, first, told, held>>

\* A batch whose outcome is unknown fails the turn after its results are
\* recorded.
FailsUnknown(t) ==
  /\ pc[t] = "tools" /\ ~abort[t]
  /\ Recorded(t, Results(t))
  /\ Finally(t, "failed", status, Persisted(t))
  /\ UNCHANGED got

-----------------------------------------------------------------------------
\* The tools of turn t, batch by batch.
Idle(t) == Settled(t) /\ Fresh(t) = {} /\ Results(t) = {} /\ waits[t] = "no"

\* exec_command in the background: the call waits for approval and for the
\* process.  A code block runs one command.
Launch(t, c) ==
  /\ pc[t] = "tools" /\ Idle(t) /\ ~abort[t] /\ proc[c] = "none"
  /\ kind[t] = "bash" => Own(t) = {}
  /\ proc' = [proc EXCEPT ![c] = "launching"]
  /\ owner' = [owner EXCEPT ![c] = t]
  /\ UNCHANGED <<turnVars, steerVars, inboxVars>>

\* The process starts, perhaps after the turn gave up on the call.
Spawn(c) ==
  /\ proc[c] = "launching"
  /\ proc' = [proc EXCEPT ![c] = IF abort[owner[c]] THEN "dying" ELSE "running"]
  /\ reg' = [reg EXCEPT ![c] = IF owner[c] \in cancelled THEN "no" ELSE "new"]
  /\ UNCHANGED <<turnVars, steerVars, owner, queued, cancelled, waits, ids, held, first, told>>

\* The call is refused or the process does not start.
NoSpawn(c) ==
  /\ proc[c] = "launching"
  /\ proc' = [proc EXCEPT ![c] = "exited"]
  /\ UNCHANGED <<turnVars, steerVars, owner, inboxVars>>

\* The process exits, by itself, killed or at the limit of its lifetime.
MutExit(c) ==
  /\ proc[c] \in {"running", "dying"}
  /\ proc' = [proc EXCEPT ![c] = "exited"]
  /\ IF reg[c] # "no" /\ owner[c] \notin cancelled
     THEN /\ queued' = queued \cup {c}
          /\ reg' = [reg EXCEPT ![c] = IF @ = "ready" THEN "no" ELSE @]
     ELSE UNCHANGED <<queued, reg>>
  /\ UNCHANGED <<turnVars, steerVars, owner, cancelled, waits, ids, held, first, told>>
Exit(c) ==
  /\ proc[c] \in {"running", "dying"}
  /\ proc' = [proc EXCEPT ![c] = "exited"]
  /\ IF reg[c] # "no" /\ owner[c] \notin cancelled
     THEN /\ queued' = queued \cup {c}
          /\ reg' = [reg EXCEPT ![c] = IF @ = "ready" THEN "no" ELSE @]
          /\ waits' = [t \in Turns |-> IF reg[c] = "ready" /\ t = owner[c] /\ waits[t] = "waiting"
                                          /\ c \in ids[t]
                                       THEN "woken" ELSE waits[t]]
     ELSE UNCHANGED <<queued, reg, waits>>
  /\ UNCHANGED <<turnVars, steerVars, owner, cancelled, ids, held, first, told>>

\* wait_for_events, for some commands or for all: it takes what is ready, or
\* waits.
WaitForEvents(t, S) ==
  /\ pc[t] = "tools" /\ Idle(t) /\ ~abort[t] /\ Pending(t, S) # {}
  /\ IF Ready(t, S) # {}
     THEN /\ held' = held \cup Ready(t, S) /\ queued' = queued \ Ready(t, S)
          /\ UNCHANGED <<waits, ids>>
     ELSE /\ waits' = [waits EXCEPT ![t] = "waiting"] /\ ids' = [ids EXCEPT ![t] = S]
          /\ UNCHANGED <<held, queued>>
  /\ UNCHANGED <<turnVars, steerVars, proc, owner, reg, cancelled, first, told>>

EventsCome(t) ==
  /\ pc[t] = "tools" /\ waits[t] = "woken" /\ ~abort[t]
  /\ held' = held \cup Ready(t, ids[t]) /\ queued' = queued \ Ready(t, ids[t])
  /\ NoWaiter(t)
  /\ UNCHANGED <<turnVars, steerVars, proc, owner, reg, cancelled, first, told>>

\* The results of a batch enter the transcript.
Publish(t) ==
  /\ pc[t] = "tools" /\ ~abort[t] /\ Settled(t) /\ waits[t] = "no" /\ ~Idle(t)
  /\ Recorded(t, Results(t))
  /\ reg' = Persisted(t)
  /\ UNCHANGED <<turnVars, steerVars, proc, owner, queued, cancelled, waits, ids>>

\* After the last batch the completions that came meanwhile are delivered.
ToolsDone(t) ==
  /\ pc[t] = "tools" /\ Idle(t) /\ ~abort[t]
  /\ kind[t] = "bash" => Own(t) # {}
  /\ Deliver(Ready(t, Cmds))
  /\ pc' = [pc EXCEPT ![t] = "top"]
  /\ UNCHANGED <<order, outcome, steerVars, proc, owner, reg, cancelled, waits, ids, held, first>>

-----------------------------------------------------------------------------
\* The Stop button.
Stop ==
  /\ ctl # 0 /\ ~abort[ctl]
  /\ abort' = [abort EXCEPT ![ctl] = TRUE]
  /\ UNCHANGED <<kind, pc, after, outcome, tail, ctl, steerVars, proc, owner, inboxVars>>

\* The loop notices.  A batch still records its results, with the completions
\* that came meanwhile.
Stopped(t) ==
  /\ InLoop(t) /\ abort[t]
  /\ Finally(t, "stopped", status, reg)
  /\ IF pc[t] = "tools" THEN Recorded(t, Results(t) \cup (Own(t) \cap queued))
                        ELSE UNCHANGED <<held, first, told>>
  /\ UNCHANGED got

\* The process dies; commands do not outlive it.
Crash ==
  /\ \E t \in Turns : Running(t) \/ pc[t] = "queued"
  /\ pc' = [t \in Turns |-> IF pc[t] = "none" THEN "none" ELSE "over"]
  /\ outcome' = [t \in Turns |-> IF Running(t) /\ outcome[t] = "none" THEN "crashed" ELSE outcome[t]]
  /\ tail' = 0 /\ ctl' = 0 /\ session' = 0 /\ checked' = FALSE
  /\ proc' = [c \in Cmds |-> IF proc[c] = "none" THEN "none" ELSE "exited"]
  /\ reg' = [c \in Cmds |-> "no"] /\ queued' = {} /\ cancelled' = {}
  /\ waits' = [t \in Turns |-> "no"] /\ ids' = [t \in Turns |-> {}] /\ held' = {}
  /\ UNCHANGED <<kind, after, abort, status, run, bad, got, owner, first, told>>

Loop(t) ==
  \/ Begin(t) \/ SetUp(t) \/ Top(t) \/ CallTools(t)
  \/ AnswerSteered(t) \/ AnswerWaits(t) \/ Answer(t) \/ Resume(t)
  \/ Fails(t) \/ FailsUnknown(t)
  \/ EventsCome(t) \/ Publish(t) \/ ToolsDone(t) \/ Stopped(t) \/ End(t)

Next ==
  \/ \E t \in Turns : \E k \in {"chat", "bash", "report"} : Ask(t, k)
  \/ \E t \in Turns : Loop(t)
  \/ \E t \in Turns, c \in Cmds : Launch(t, c) \/ WaitForEvents(t, {c})
  \/ \E t \in Turns : WaitForEvents(t, Cmds)
  \/ \E m \in Msgs : CancelSteer(m) \/ \E b \in BOOLEAN : Steer(m, b)
  \/ \E c \in Cmds : Spawn(c) \/ NoSpawn(c) \/ Exit(c)
  \/ Stop \/ Crash

Spec == Init /\ [][Next]_vars

\* Promise continuations run, and a command exits (its lifetime is limited).
Fairness ==
  /\ \A t \in Turns : WF_vars(Begin(t)) /\ WF_vars(Resume(t)) /\ WF_vars(EventsCome(t))
                      /\ WF_vars(Stopped(t)) /\ WF_vars(End(t))
  /\ \A c \in Cmds : WF_vars(Exit(c))
FairSpec == Spec /\ Fairness

-----------------------------------------------------------------------------
TypeOK ==
  /\ kind \in [Turns -> {"chat", "bash", "report"}]
  /\ pc \in [Turns -> {"none", "queued", "setup", "top", "round", "tools", "wait", "end", "over"}]
  /\ after \in [Turns -> 0..N]
  /\ outcome \in [Turns -> {"none", "answered", "stopped", "failed", "crashed"}]
  /\ abort \in [Turns -> BOOLEAN] /\ tail \in 0..N /\ ctl \in 0..N
  /\ status \in [Msgs -> {"absent", "queued", "returned", "delivered", "cancelled"}]
  /\ run \in [Msgs -> 0..N] /\ bad \in [Msgs -> BOOLEAN]
  /\ session \in 0..N /\ checked \in BOOLEAN /\ got \in [Msgs -> Nat]
  /\ proc \in [Cmds -> {"none", "launching", "running", "dying", "exited"}]
  /\ owner \in [Cmds -> 0..N] /\ reg \in [Cmds -> {"no", "new", "ready"}]
  /\ queued \subseteq Cmds /\ held \subseteq Cmds /\ cancelled \subseteq Turns
  /\ waits \in [Turns -> {"no", "waiting", "woken"}] /\ ids \in [Turns -> SUBSET Cmds]
  /\ first \in [Cmds -> BOOLEAN] /\ told \in [Cmds -> Nat]

\* One turn of the conversation runs at a time, and Stop reaches it.
OneTurn ==
  \A t \in Turns : Running(t) => ctl = t /\ \A u \in Turns \ {t} : ~Running(u)

\* A turn that ends with an answer leaves nothing behind: every message it
\* accepted entered the transcript or was withdrawn, and so did the result of
\* every command it started.
AnswerLeavesNothing ==
  \A t \in Turns : outcome[t] = "answered" =>
    /\ \A m \in Msgs : run[m] = t => status[m] \in {"delivered", "cancelled"}
    /\ \A c \in Own(t) : first[c] => told[c] = 1

\* A message enters the transcript once if it is delivered and never if it is
\* returned or withdrawn, whatever the user sends or withdraws meanwhile.
SteeredOnce == \A m \in Msgs : got[m] = IF status[m] = "delivered" THEN 1 ELSE 0

\* A completion is told once, behind the first result of its command.
ToldOnce == \A c \in Cmds : told[c] <= 1 /\ (told[c] = 1 => first[c])

\* A stopped run holds nothing in the inbox, also when its command starts or
\* exits late.
StoppedHoldsNothing ==
  \A t \in Turns : outcome[t] = "stopped" =>
    \A c \in Own(t) : reg[c] = "no" /\ c \notin queued

\* However a turn is over, by an answer or by Stop, it leaves nothing behind.
LeavesNothing == AnswerLeavesNothing /\ StoppedHoldsNothing

\* What comes to the transcript from outside the loop, the user's messages and
\* the commands' completions, comes once.
ToldAndSteeredOnce == SteeredOnce /\ ToldOnce

\* What is waiting in the inbox of a live run has a listener: a turn that
\* waits wakes up.
WaitEnds == \A t \in Turns : pc[t] = "wait" ~> pc[t] # "wait"

\* A turn starts once the one before it is over, whatever became of that one,
\* and a stopped turn is over soon.
NextTurnStarts ==
  \A t \in Turns : pc[t] = "queued" /\ (after[t] # 0 => abort[after[t]]) ~> pc[t] # "queued"
=============================================================================
