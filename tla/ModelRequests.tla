--------------------------- MODULE ModelRequests ---------------------------
(***************************************************************************)
(* Model requests: the permit pool every request of the process goes       *)
(* through (model-permits.ts), the durable budget of attempts of each      *)
(* logical round (model-request-retry.ts, model-request-retry-budgets.ts)  *)
(* and the loops that use them (agent/index.ts), with runs that fail, are  *)
(* stopped, crash, are resumed and are restarted by the user.              *)
(*                                                                         *)
(* A conversation is a number.  Its logical round is the length of its     *)
(* transcript, which only grows: a step that appends a message drops the   *)
(* budget rows, since no later request looks them up.  A round issued      *)
(* again has a new name and so a row of its own.  The rows are durable,    *)
(* the name is memory of the loop: a run that is resumed begins with name  *)
(* 0 and finds the row it left.  Time is left out except for what a budget *)
(* can tell of it: whether its deadline has passed.                        *)
(***************************************************************************)
EXTENDS Naturals, Sequences, FiniteSets

CONSTANTS
  N,            \* conversations
  Parent,       \* the conversation whose tool call spawned a subagent, or 0
  Cap,          \* permits of the pool (6 in the code)
  MaxAttempts,  \* attempts of a budget (3 in the code)
  MaxIssues,    \* how often a round is issued again (5 in the code)
  MaxRounds,    \* bound: rounds that another round or a re-issue follows
  MaxStarts,    \* bound: runs that begin
  MaxCrashes    \* bound: crashes

Convs == 1..N
Names == 0..MaxIssues   \* of the round as issued first, second ...

ASSUME BoundsAssumption ==
  /\ N \in Nat /\ Cap \in Nat \ {0} /\ MaxAttempts \in Nat \ {0}
  /\ MaxIssues \in Nat /\ MaxRounds \in Nat /\ MaxStarts \in Nat /\ MaxCrashes \in Nat
\* One level of subagents.
ASSUME ParentAssumption ==
  /\ Parent \in [Convs -> 0..N]
  /\ \A c \in Convs : Parent[c] # 0 => Parent[c] # c /\ Parent[Parent[c]] = 0

VARIABLES
  run,       \* run[c]: what the last run of c came to
  loop,      \* loop[c]: where its loop is
  row,       \* row[c][n]: the budget of its logical round under name n (durable)
  name,      \* name[c]: the name its loop issues the round under
  spent,     \* spent[c]: some budget of c was exhausted (durable)
  active,    \* permits out
  queue,     \* waiters of the pool, oldest first
  stopping,  \* stopping[c]: the abort signal of the run
  rounds, starts, crashes,   \* counters of the bounds
  sent       \* history: requests sent[c][n] for the logical round under name n

vars == <<run, loop, row, name, spent, active, queue, stopping, rounds,
          starts, crashes, sent>>
pool == <<active, queue>>
counters == <<rounds, starts, crashes>>

Resting == {"new", "stopped", "failed", "done", "interrupted"}
Holding == {"sending", "backoff"}
NoRow == [status |-> "none", used |-> 0, late |-> FALSE]
NoRows == [n \in Names |-> NoRow]
NoneSent == [n \in Names |-> 0]
Current(c) == row[c][name[c]]
Top(c) == Parent[c] = 0
Kids(c) == {d \in Convs : Parent[d] = c}

\* A stop reaches the run and, through the chained signals, its subagents.
Below(c) == {d \in Convs : d = c \/ Parent[d] = c}

TypeOK ==
  /\ run \in [Convs -> Resting \cup {"none", "queued", "running", "retry"}]
  /\ loop \in [Convs -> Holding \cup {"off", "asking", "queued", "tools", "waiting", "cut"}]
  /\ row \in [Convs -> [Names ->
                [status : {"none", "in_progress", "exhausted", "overflow", "completed"},
                 used : 0..MaxAttempts, late : BOOLEAN]]]
  /\ name \in [Convs -> Names]
  /\ spent \in [Convs -> BOOLEAN] /\ stopping \in [Convs -> BOOLEAN]
  /\ active \in 0..Cap /\ queue \in Seq(Convs)
  /\ rounds \in 0..MaxRounds /\ starts \in 0..MaxStarts /\ crashes \in 0..MaxCrashes
  /\ sent \in [Convs -> [Names -> 0..MaxAttempts]]

Init ==
  /\ run = [c \in Convs |-> IF Top(c) THEN "new" ELSE "none"]
  /\ loop = [c \in Convs |-> "off"] /\ row = [c \in Convs |-> NoRows]
  /\ name = [c \in Convs |-> 0]
  /\ spent = [c \in Convs |-> FALSE] /\ stopping = [c \in Convs |-> FALSE]
  /\ active = 0 /\ queue = <<>>
  /\ rounds = 0 /\ starts = 0 /\ crashes = 0
  /\ sent = [c \in Convs |-> NoneSent]

-----------------------------------------------------------------------------
(* The pool. *)

\* drain() after a release: how many waiters it serves, and whom.
Served == LET free == Cap - (active - 1)
          IN IF free < Len(queue) THEN free ELSE Len(queue)

Granted == {queue[i] : i \in 1..Served}

\* c's loop moves on to issue its round under name n, with `rows` as the rows
\* of the round: none when the transcript has grown.
Goes(c, next, n, rows) ==
  /\ loop' = [loop EXCEPT ![c] = next]
  /\ name' = [name EXCEPT ![c] = n] /\ row' = [row EXCEPT ![c] = rows]
  /\ sent' = [sent EXCEPT ![c] = IF rows = NoRows THEN NoneSent ELSE @]
  /\ UNCHANGED pool

\* The same, when c gives its permit back: the waiters served go on to send.
Release(c, next, n, rows) ==
  /\ active' = (active - 1) + Served
  /\ queue' = SubSeq(queue, Served + 1, Len(queue))
  /\ loop' = [d \in Convs |-> IF d = c THEN next
                              ELSE IF d \in Granted THEN "sending" ELSE loop[d]]
  /\ name' = [name EXCEPT ![c] = n] /\ row' = [row EXCEPT ![c] = rows]
  /\ sent' = [d \in Convs |->
                IF d = c THEN IF rows = NoRows THEN NoneSent ELSE sent[c]
                ELSE IF d \in Granted THEN [sent[d] EXCEPT ![name[d]] = @ + 1] ELSE sent[d]]

\* Mutant: The last waiter takes the place of one that leaves.
MutLeave(D) ==
  \E n \in 0..Len(queue) : \E kept \in [1..n -> 1..Len(queue)] :
    /\ \A i, j \in 1..n : i # j => kept[i] # kept[j]
    /\ \A i \in 1..Len(queue) : queue[i] \notin D <=> \E j \in 1..n : kept[j] = i
    /\ queue' = [j \in 1..n |-> queue[kept[j]]]

\* remove(): the waiters of D leave the queue, the others keep their order.
Leave(D) ==
  \E n \in 0..Len(queue) : \E kept \in [1..n -> 1..Len(queue)] :
    /\ \A i, j \in 1..n : i < j => kept[i] < kept[j]
    /\ \A i \in 1..Len(queue) : queue[i] \notin D <=> \E j \in 1..n : kept[j] = i
    /\ queue' = [j \in 1..n |-> queue[kept[j]]]

Settles(c, result) ==
  /\ run' = [run EXCEPT ![c] = result]
  /\ stopping' = [stopping EXCEPT ![c] = FALSE]

-----------------------------------------------------------------------------
(* One attempt of createCompletionRoundWithRetry(). *)

\* Mutant: A row found is returned as it is, without its attempt.
MutFound(b) ==
  IF b.status = "none" THEN [status |-> "in_progress", used |-> 1, late |-> FALSE] ELSE b

\* consumeAttempt(): the row after it.
Consumed(b) ==
  IF b.status = "none" THEN [status |-> "in_progress", used |-> 1, late |-> FALSE]
  ELSE IF b.status # "in_progress" THEN b
  ELSE IF b.used >= MaxAttempts \/ b.late THEN [b EXCEPT !.status = "exhausted"]
  ELSE [b EXCEPT !.used = @ + 1]

\* No attempt is left, the deadline has passed, or the round was completed: the
\* turn fails for good (the error of a row is a string, never transient).
Refused(c) ==
  /\ loop[c] = "asking" /\ Consumed(Current(c)).status # "in_progress"
  /\ Goes(c, "off", 0, NoRows) /\ Settles(c, IF stopping[c] THEN "stopped" ELSE "failed")
  /\ spent' = [spent EXCEPT ![c] = @ \/ Consumed(Current(c)).status = "exhausted"]
  /\ UNCHANGED counters

\* The string tells of an overflow, as isContextOverflow() reads it: a resumed
\* run compacts once more and goes on with the row of the compacted round.
Recompact(c) ==
  /\ loop[c] = "asking" /\ Current(c).status = "overflow" /\ ~stopping[c]
  /\ name[c] < MaxIssues
  /\ Goes(c, "asking", name[c] + 1, row[c])
  /\ UNCHANGED <<run, spent, stopping, counters>>

\* acquire(): rejected when aborted, served at once, or queued.
Attempt(c) ==
  /\ loop[c] = "asking" /\ Consumed(Current(c)).status = "in_progress"
  /\ row' = [row EXCEPT ![c][name[c]] = Consumed(@)]
  /\ \/ /\ stopping[c]
        /\ loop' = [loop EXCEPT ![c] = "cut"] /\ UNCHANGED <<pool, sent>>
     \/ /\ ~stopping[c] /\ active < Cap
        /\ loop' = [loop EXCEPT ![c] = "sending"]
        /\ active' = active + 1 /\ sent' = [sent EXCEPT ![c][name[c]] = @ + 1]
        /\ UNCHANGED queue
     \/ /\ ~stopping[c] /\ active >= Cap
        /\ loop' = [loop EXCEPT ![c] = "queued"]
        /\ queue' = Append(queue, c) /\ UNCHANGED <<active, sent>>
  /\ UNCHANGED <<run, name, spent, stopping, counters>>

\* model_slot_timeout, after ten minutes: past the deadline of any budget, and
\* not a transient error.
SlotTimeout(c) ==
  /\ loop[c] = "queued" /\ Current(c).late
  /\ loop' = [loop EXCEPT ![c] = "off"] /\ name' = [name EXCEPT ![c] = 0]
  /\ row' = [row EXCEPT ![c] = NoRows] /\ sent' = [sent EXCEPT ![c] = NoneSent]
  /\ Leave({c})
  /\ Settles(c, "failed") /\ spent' = [spent EXCEPT ![c] = TRUE]
  /\ UNCHANGED <<active, counters>>

\* The stream ends with the answer.
Answer(c) ==
  /\ loop[c] = "sending"
  /\ Release(c, "off", 0, NoRows) /\ Settles(c, "done")
  /\ UNCHANGED <<spent, counters>>

\* Mutant: The permit is kept while the calls run.
MutCalls(c) ==
  /\ loop[c] = "sending" /\ rounds < MaxRounds
  /\ Goes(c, "tools", 0, NoRows) /\ rounds' = rounds + 1
  /\ UNCHANGED <<run, spent, stopping, starts, crashes>>

\* It ends with tool calls: their round is appended and its budget completed.
Calls(c) ==
  /\ loop[c] = "sending" /\ rounds < MaxRounds
  /\ Release(c, "tools", 0, NoRows) /\ rounds' = rounds + 1
  /\ UNCHANGED <<run, spent, stopping, starts, crashes>>

\* It ends without calls while background commands run: its text, if any, is
\* appended, and the budget completed before the loop waits for a command.
CommandWait(c) ==
  /\ loop[c] = "sending" /\ rounds < MaxRounds
  /\ \/ Release(c, "waiting", 0, NoRows)
     \/ Release(c, "waiting", name[c], [row[c] EXCEPT ![name[c]].status = "completed"])
  /\ rounds' = rounds + 1
  /\ UNCHANGED <<run, spent, stopping, starts, crashes>>

\* A transient error that another attempt may follow: the loop sleeps.
Backoff(c) ==
  /\ loop[c] = "sending" /\ ~stopping[c]
  /\ Current(c).used < MaxAttempts /\ ~Current(c).late
  /\ Goes(c, "backoff", name[c], row[c])
  /\ UNCHANGED <<run, spent, stopping, counters>>

\* A transient error that ends the budget: by its attempts, by its deadline or
\* by a delay that would pass it.  A malformed response is not retried again.
Exhaust(c) ==
  /\ loop[c] = "sending" /\ ~stopping[c]
  /\ Release(c, "off", 0, NoRows)
  /\ \E result \in {"retry", "failed"} : Settles(c, result)
  /\ spent' = [spent EXCEPT ![c] = TRUE]
  /\ UNCHANGED counters

\* An error that is not transient.
Fatal(c) ==
  /\ loop[c] = "sending" /\ ~stopping[c]
  /\ Release(c, "off", 0, NoRows) /\ Settles(c, "failed")
  /\ spent' = [spent EXCEPT ![c] = TRUE]
  /\ UNCHANGED counters

\* A hung stream, a response cut at the output cap or, once in a round, an
\* overflow that compaction shrinks: the budget is exhausted and the round
\* issued again under the next name.
Reissue(c) ==
  /\ loop[c] = "sending" /\ ~stopping[c] /\ name[c] < MaxIssues /\ rounds < MaxRounds
  /\ \E cause \in {"exhausted", "overflow"} :
       /\ cause = "overflow" => \A n \in Names : row[c][n].status # "overflow"
       /\ Release(c, "asking", name[c] + 1, [row[c] EXCEPT ![name[c]].status = cause])
  /\ spent' = [spent EXCEPT ![c] = TRUE] /\ rounds' = rounds + 1
  /\ UNCHANGED <<run, stopping, starts, crashes>>

\* The sleep is over; only now does the finally of the attempt release.
Wake(c) ==
  /\ loop[c] = "backoff" /\ ~stopping[c]
  /\ Release(c, "asking", name[c], row[c])
  /\ UNCHANGED <<run, spent, stopping, counters>>

-----------------------------------------------------------------------------
(* Between requests. *)

\* spawn_subagents: each subagent runs in a new conversation of its own.
Spawn(c) ==
  /\ loop[c] = "tools" /\ ~stopping[c]
  /\ Kids(c) # {} /\ \A d \in Kids(c) : run[d] = "none"
  /\ loop' = [d \in Convs |-> IF d \in Kids(c) THEN "asking" ELSE loop[d]]
  /\ run' = [d \in Convs |-> IF d \in Kids(c) THEN "running" ELSE run[d]]
  /\ UNCHANGED <<row, name, spent, pool, stopping, counters, sent>>

\* The calls have settled, the subagents among them.
ToolsDone(c) ==
  /\ loop[c] = "tools" /\ ~stopping[c] /\ \A d \in Kids(c) : loop[d] = "off"
  /\ Goes(c, "asking", 0, NoRows)
  /\ UNCHANGED <<run, spent, stopping, counters>>

\* A command exits and its event is appended.
Told(c) ==
  /\ loop[c] = "waiting" /\ ~stopping[c]
  /\ Goes(c, "asking", 0, NoRows)
  /\ UNCHANGED <<run, spent, stopping, counters>>

\* The deadline of a budget passes.
Expire(c) ==
  /\ \E n \in Names :
       /\ row[c][n].status = "in_progress" /\ ~row[c][n].late
       /\ row' = [row EXCEPT ![c][n].late = TRUE]
  /\ UNCHANGED <<run, loop, name, spent, pool, stopping, counters, sent>>

-----------------------------------------------------------------------------
(* Runs begin and end. *)

\* A pause, a cancel or a stop: waiters leave the pool at once.
Stop(c) ==
  /\ Top(c) /\ loop[c] # "off" /\ ~stopping[c]
  /\ LET down == {d \in Below(c) : loop[d] # "off"}
     IN /\ stopping' = [d \in Convs |-> stopping[d] \/ d \in down]
        /\ loop' = [d \in Convs |-> IF d \in down /\ loop[d] = "queued" THEN "cut" ELSE loop[d]]
        /\ Leave(down)
  /\ UNCHANGED <<run, row, name, spent, active, counters, sent>>

\* The stopped loop unwinds and appends its note.
StoppedEnds(c) ==
  /\ stopping[c] /\ loop[c] \notin {"off", "asking", "queued"}
  /\ loop[c] = "tools" => \A d \in Kids(c) : loop[d] = "off"
  /\ IF loop[c] \in Holding THEN Release(c, "off", 0, NoRows) ELSE Goes(c, "off", 0, NoRows)
  /\ Settles(c, "stopped")
  /\ UNCHANGED <<spent, counters>>

Begins ==
  /\ starts < MaxStarts /\ starts' = starts + 1
  /\ UNCHANGED <<rounds, crashes>>

\* A message of the user: appended, so a new logical round.
Ask(c) ==
  /\ Top(c) /\ run[c] \in Resting /\ Begins
  /\ run' = [d \in Convs |-> IF d = c THEN "running" ELSE IF d \in Kids(c) THEN "none" ELSE run[d]]
  /\ Goes(c, "asking", 0, NoRows)
  /\ UNCHANGED <<spent, stopping>>

\* resume() of an interrupted or paused task, and the runner's own retry.
Requeue(c) ==
  /\ Top(c) /\ run[c] \in {"interrupted", "stopped", "retry"}
  /\ run' = [run EXCEPT ![c] = "queued"]
  /\ UNCHANGED <<loop, row, name, spent, pool, stopping, counters, sent>>

\* createLinkedRetryBudget(): no attempt used, the deadline set now.
LinkedRow == [status |-> "in_progress", used |-> 0, late |-> FALSE]

\* restart(): a budget linked to the last exhausted one.
Restart(c) ==
  /\ Top(c) /\ run[c] = "failed"
  /\ run' = [run EXCEPT ![c] = "queued"]
  /\ row' = [row EXCEPT ![c][0] = IF @ = NoRow /\ spent[c] THEN LinkedRow ELSE @]
  /\ UNCHANGED <<loop, name, spent, pool, stopping, counters, sent>>

\* The task runner has a slot: the loop starts where the transcript ends.
Launch(c) ==
  /\ Top(c) /\ run[c] = "queued" /\ Begins
  /\ run' = [d \in Convs |-> IF d = c THEN "running" ELSE IF d \in Kids(c) THEN "none" ELSE run[d]]
  /\ loop' = [loop EXCEPT ![c] = "asking"]
  /\ UNCHANGED <<row, name, spent, pool, stopping, sent>>

\* The process dies: the rows stay, the loops and their names do not.
Crash ==
  /\ crashes < MaxCrashes /\ crashes' = crashes + 1
  /\ run' = [c \in Convs |-> IF run[c] \in {"running", "retry"}
                             THEN IF Top(c) THEN "interrupted" ELSE "stopped" ELSE run[c]]
  /\ loop' = [c \in Convs |-> "off"] /\ stopping' = [c \in Convs |-> FALSE]
  /\ name' = [c \in Convs |-> 0]
  /\ row' = [c \in Convs |-> IF Top(c) THEN row[c] ELSE NoRows]
  /\ sent' = [c \in Convs |-> IF Top(c) THEN sent[c] ELSE NoneSent]
  /\ active' = 0 /\ queue' = <<>>
  /\ UNCHANGED <<spent, rounds, starts>>

\* How a loop that holds a permit goes on: the idle timeouts of the stream, the
\* timer of the sleep and the abort signal see to it that it does.
Outcome(c) ==
  \/ Answer(c) \/ Calls(c) \/ CommandWait(c) \/ Backoff(c) \/ Exhaust(c) \/ Fatal(c)
  \/ Reissue(c) \/ Wake(c) \/ (loop[c] \in Holding /\ StoppedEnds(c))

Next ==
  \/ \E c \in Convs :
       \/ Refused(c) \/ Recompact(c) \/ Attempt(c) \/ SlotTimeout(c)
       \/ Answer(c) \/ Calls(c) \/ CommandWait(c) \/ Backoff(c) \/ Exhaust(c)
       \/ Fatal(c) \/ Reissue(c) \/ Wake(c) \/ Spawn(c) \/ ToolsDone(c)
       \/ Told(c) \/ Expire(c) \/ Stop(c) \/ StoppedEnds(c)
       \/ Ask(c) \/ Requeue(c) \/ Restart(c) \/ Launch(c)
  \/ Crash

Spec == Init /\ [][Next]_vars
FairSpec == Spec /\ \A c \in Convs : WF_vars(Outcome(c))

-----------------------------------------------------------------------------
(* Properties. *)

\* The permits out are the loops with a request or in a backoff, at most Cap.
PermitsHold ==
  /\ active = Cardinality({c \in Convs : loop[c] \in Holding})
  /\ active <= Cap

\* acquire(), remove() and drain(): whoever waits is in the queue, once, and
\* nobody waits while a permit is free.
NoStrandedWaiter ==
  /\ \A c \in Convs : loop[c] = "queued" <=> \E i \in 1..Len(queue) : queue[i] = c
  /\ \A i, j \in 1..Len(queue) : queue[i] = queue[j] => i = j
  /\ queue # <<>> => active = Cap

\* Across crashes and resumptions a logical round is sent, under each of its
\* names, at most as often as the durable row of the name has attempts
\* (consumeAttempt): a run that is resumed gets back none of those it has used.
AttemptsHold ==
  \A c \in Convs, n \in Names :
    sent[c][n] <= row[c][n].used /\ row[c][n].used <= MaxAttempts

\* shift() serves the oldest waiter: no one who came later is served before.
NoOvertaking ==
  [][\A i, j \in 1..Len(queue) :
       i < j /\ loop'[queue[j]] = "sending" => loop'[queue[i]] # "queued"]_vars

\* A waiter leaves the queue, although a parent may wait in its tool calls for
\* ever: a tool call holds no permit (model-request-retry.ts:671-672).
WaiterServed == \A c \in Convs : loop[c] = "queued" ~> loop[c] # "queued"

Pool == INSTANCE PermitPool WITH
  Users <- Convs, holders <- {c \in Convs : loop[c] \in Holding}, waiting <- queue

\* Whatever happens to the loops, they see a pool that is bounded, idles no
\* permit and serves first come, first served (model-permits.ts).
PoolImplemented == Pool!Spec
=============================================================================
