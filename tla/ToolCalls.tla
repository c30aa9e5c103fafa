----------------------------- MODULE ToolCalls -----------------------------
(***************************************************************************)
(* The tool calls of one conversation: the batches of                      *)
(* agent/tool-batch-scheduler.ts, the durable row kept per call            *)
(* (db/repositories/tool-call-lifecycle.ts), the approval gate and the     *)
(* reconciliation of agent/index.ts, and the repair of agent/repair.ts     *)
(* after a turn that ended in the middle.                                  *)
(*                                                                         *)
(* An operation is a tool with its arguments.  Its body may pass several   *)
(* gates, each for an action with an identity of its own, and takes effect *)
(* after a gate (or at once when it has none).  The body is cancelled only *)
(* cooperatively: it may go on after the scheduler gave up on it.          *)
(*                                                                         *)
(* What runs between two macrotasks is one action.  The process may die    *)
(* between any two writes to the database, also in the middle of such an   *)
(* action: the actions named ...ThenDie stop after a part of its writes.   *)
(***************************************************************************)
EXTENDS Integers, FiniteSets, Sequences

CONSTANTS
  Ops,        \* operations: a tool and its arguments
  ReadOnly,   \* operations of tools declared read-only
  Parallel,   \* operations that may share a batch
  Timed,      \* operations of tools with an execution deadline
  Actions,    \* the identities of gated actions
  Gates,      \* the actions an operation asks approval for, in order
  Workers,    \* how many calls of a batch run at once
  MaxCalls,   \* bound: tool calls in the conversation
  Width       \* bound: tool calls in one response of the model

Calls == 1..MaxCalls

ASSUME ConstantsAssumption ==
  /\ ReadOnly \subseteq Ops /\ Parallel \subseteq ReadOnly /\ Timed \subseteq Ops
  /\ Gates \in [Ops -> Seq(Actions)]
  /\ Ops \cap Actions = {} /\ "none" \notin Ops
  /\ Workers \in Nat \ {0} /\ MaxCalls \in Nat /\ Width \in Nat

VARIABLES
  \* durable
  n,          \* calls the model has made so far
  round,      \* the model response a call belongs to, 0 before it exists
  op,         \* the operation of a call
  state,      \* tool_call_lifecycle.state, "absent" without a row
  ident,      \* tool_call_lifecycle.invocation_id
  answer,     \* the tool message that answers the call
  \* the process
  turn,       \* "off", "model" (a request is open) or "tools"
  phase,      \* of a call in its batch: "todo", "busy" or "done"
  body,       \* its execute(): "none", "working", "gate" or "over"
  passed,     \* gates its body has passed
  \* history
  acts        \* effects the call has had

durable == <<n, round, op, state, ident, answer>>
vars == <<n, round, op, state, ident, answer, turn, phase, body, passed, acts>>

States == {"absent", "prepared", "waiting_for_approval", "started",
           "settled_success", "settled_error", "not_started", "unknown"}
Settled == {"settled_success", "settled_error"}
Answers == {"none", "result", "not_started", "interrupted"}

-----------------------------------------------------------------------------
Made     == 1..n
LastRound == {c \in Made : round[c] = round[n]}
Busy     == {c \in Made : phase[c] = "busy"}
Todo     == {c \in Made : phase[c] = "todo"}
Open     == Busy \cup Todo
Unanswered == {c \in LastRound : answer[c] = "none"}
SideEffect(c) == op[c] \notin ReadOnly

\* Maximal runs of parallel-safe reads share a batch; any other call is alone.
Batch(c) ==
  IF op[c] \notin Parallel THEN {c}
  ELSE {d \in LastRound : \A e \in LastRound :
          (c <= e /\ e <= d) \/ (d <= e /\ e <= c) => op[e] \in Parallel}

\* The row of an equivalent earlier invocation blocks the call (unknown
\* outcome), or lends it its result (same response, same arguments).
Prior(c, id) == {d \in Made \ {c} : state[d] # "absent" /\ ident[d] = id}
MutBlocked(c, id) ==
  SideEffect(c) /\ \E d \in Prior(c, id) :
                     state[d] \in {"unknown", "started"} /\ round[d] = round[c]
Blocked(c, id) ==
  SideEffect(c) /\ \E d \in Prior(c, id) : state[d] \in {"unknown", "started"}
Reusable(c, id) ==
  IF SideEffect(c)
  THEN {state[d] : d \in {e \in Prior(c, id) : state[e] \in Settled
                              /\ round[e] = round[c] /\ op[e] = op[c]}}
  ELSE {}

\* The content of a tool message follows from the row it is written from.
AnswerOf(s) == CASE s \in Settled -> "result"
                 [] s \in {"prepared", "waiting_for_approval", "not_started"} -> "not_started"
                 [] OTHER -> "interrupted"

\* What becomes of a row whose call is interrupted (onSettled): a read is an
\* error, a call that waits at a gate or was never started has done nothing,
\* any other outcome is unknown.
MutLenient(c) ==
  IF phase[c] = "busy" /\ ~SideEffect(c) THEN "settled_error" ELSE "not_started"
Interrupted(c) ==
  IF phase[c] = "busy" /\ ~SideEffect(c) THEN "settled_error"
  ELSE IF state[c] \in {"prepared", "waiting_for_approval"} THEN "not_started"
  ELSE "unknown"

-----------------------------------------------------------------------------
Init ==
  /\ n = 0 /\ turn = "off"
  /\ round = [c \in Calls |-> 0]
  /\ op = [c \in Calls |-> "none"]
  /\ state = [c \in Calls |-> "absent"]
  /\ ident = [c \in Calls |-> "none"]
  /\ answer = [c \in Calls |-> "none"]
  /\ phase = [c \in Calls |-> "done"]
  /\ body = [c \in Calls |-> "none"]
  /\ passed = [c \in Calls |-> 0]
  /\ acts = [c \in Calls |-> 0]

\* A process that dies leaves the rows; a body that had handed its effect to
\* the system had its effect counted by then.
Die ==
  /\ turn' = "off"
  /\ phase' = [c \in Calls |-> "done"]
  /\ body' = [c \in Calls |-> IF body[c] = "none" THEN "none" ELSE "over"]

Crash ==
  /\ turn # "off" \/ \E c \in Made : body[c] \in {"working", "gate"}
  /\ Die
  /\ UNCHANGED <<durable, passed, acts>>

\* A turn first answers the calls its last response left unanswered.
NewTurn ==
  /\ turn = "off" /\ turn' = "model"
  /\ state' = [c \in Calls |->
       IF c \notin Unanswered THEN state[c]
       ELSE CASE state[c] = "prepared" -> "not_started"
              [] state[c] = "started"  -> "unknown"
              [] OTHER                 -> state[c]]
  /\ answer' = [c \in Calls |->
       IF c \in Unanswered THEN AnswerOf(state[c]) ELSE answer[c]]
  /\ UNCHANGED <<n, round, op, ident, phase, body, passed, acts>>

EndTurn ==
  /\ turn = "model" /\ turn' = "off"
  /\ UNCHANGED <<durable, phase, body, passed, acts>>

\* The response is appended, then its rows are recorded in one transaction.
AddCalls(s) ==
  /\ n' = n + Len(s)
  /\ round' = [c \in Calls |-> IF c \in n + 1..n + Len(s)
                               THEN (IF n = 0 THEN 0 ELSE round[n]) + 1
                               ELSE round[c]]
  /\ op' = [c \in Calls |-> IF c \in n + 1..n + Len(s) THEN s[c - n] ELSE op[c]]

Respond(s) ==
  /\ turn = "model" /\ turn' = "tools"
  /\ AddCalls(s)
  /\ state' = [c \in Calls |-> IF c \in n + 1..n + Len(s) THEN "prepared" ELSE state[c]]
  /\ ident' = [c \in Calls |-> IF c \in n + 1..n + Len(s) THEN s[c - n] ELSE ident[c]]
  /\ phase' = [c \in Calls |-> IF c \in n + 1..n + Len(s) THEN "todo" ELSE phase[c]]
  /\ UNCHANGED <<answer, body, passed, acts>>

RespondThenDie(s) ==
  /\ turn = "model"
  /\ AddCalls(s)
  /\ Die
  /\ UNCHANGED <<state, ident, answer, passed, acts>>

-----------------------------------------------------------------------------
\* Call c settles with row state s.  The batch is published, in call order,
\* when its last call has settled; the turn goes on after the last batch.
MutSettle(c, s) ==
  /\ state' = [state EXCEPT ![c] = s]
  /\ phase' = [phase EXCEPT ![c] = "done"]
  /\ answer' = [d \in Calls |-> IF d \in Batch(c) THEN AnswerOf(state'[d]) ELSE answer[d]]
  /\ turn' = IF Open = {c} THEN "model" ELSE "tools"
Settle(c, s) ==
  /\ state' = [state EXCEPT ![c] = s]
  /\ phase' = [phase EXCEPT ![c] = "done"]
  /\ answer' = [d \in Calls |->
       IF Open \cap Batch(c) = {c} /\ d \in Batch(c) THEN AnswerOf(state'[d]) ELSE answer[d]]
  /\ turn' = IF Open = {c} THEN "model" ELSE "tools"

SettleThenDie(c, s) ==
  /\ state' = [state EXCEPT ![c] = s]
  /\ Die
  /\ UNCHANGED answer

\* A worker takes the next call, marks it started and, for a side effect,
\* looks for an equivalent invocation before it calls the tool.
Next1(c) ==
  /\ turn = "tools" /\ c \in Todo
  /\ \A d \in Todo : c <= d
  /\ Busy = {} \/ (Busy \subseteq Batch(c) /\ Cardinality(Busy) < Workers)

Start(c) ==
  /\ Next1(c)
  /\ ~Blocked(c, op[c]) /\ Reusable(c, op[c]) = {}
  /\ state' = [state EXCEPT ![c] = "started"]
  /\ phase' = [phase EXCEPT ![c] = "busy"]
  /\ body' = [body EXCEPT ![c] = "working"]
  /\ UNCHANGED <<n, round, op, ident, answer, turn, passed, acts>>

Reconcile(c) ==
  /\ Next1(c)
  /\ \E s \in IF Blocked(c, op[c]) THEN {"settled_error"} ELSE Reusable(c, op[c]) :
       Settle(c, s)
  /\ UNCHANGED <<n, round, op, ident, body, passed, acts>>

\* The body asks for its next action.  The row takes the identity of the
\* action; an equivalent invocation blocks it, else the policy decides.
\* A body whose call was given up throws at its next gate.
AtGate(c) ==
  /\ c \in Made /\ body[c] = "working"
  /\ passed[c] < Len(Gates[op[c]])

Action(c) == Gates[op[c]][passed[c] + 1]

Rename(c) ==
  ident' = IF SideEffect(c) THEN [ident EXCEPT ![c] = Action(c)] ELSE ident

GateAllows(c) ==
  /\ AtGate(c) /\ phase[c] = "busy"
  /\ ~Blocked(c, Action(c)) /\ Reusable(c, Action(c)) = {}
  /\ Rename(c)
  /\ passed' = [passed EXCEPT ![c] = @ + 1]
  /\ UNCHANGED <<n, round, op, state, answer, turn, phase, body, acts>>

GateAsks(c) ==
  /\ AtGate(c) /\ phase[c] = "busy"
  /\ ~Blocked(c, Action(c)) /\ Reusable(c, Action(c)) = {}
  /\ Rename(c)
  /\ state' = [state EXCEPT ![c] = "waiting_for_approval"]
  /\ body' = [body EXCEPT ![c] = "gate"]
  /\ UNCHANGED <<n, round, op, answer, turn, phase, passed, acts>>

GateBlocks(c) ==
  /\ AtGate(c) /\ phase[c] = "busy"
  /\ Rename(c)
  /\ \E s \in IF Blocked(c, Action(c)) \/ Reusable(c, Action(c)) = {}
              THEN {"settled_error"} ELSE Reusable(c, Action(c)) : Settle(c, s)
  /\ body' = [body EXCEPT ![c] = "over"]
  /\ UNCHANGED <<n, round, op, passed, acts>>

GateThrows(c) ==
  /\ AtGate(c) /\ phase[c] # "busy"
  /\ body' = [body EXCEPT ![c] = "over"]
  /\ UNCHANGED <<durable, turn, phase, passed, acts>>

Approve(c) ==
  /\ c \in Busy /\ body[c] = "gate"
  /\ state' = [state EXCEPT ![c] = "started"]
  /\ body' = [body EXCEPT ![c] = "working"]
  /\ passed' = [passed EXCEPT ![c] = @ + 1]
  /\ UNCHANGED <<n, round, op, ident, answer, turn, phase, acts>>

Deny(c) ==
  /\ c \in Busy /\ body[c] = "gate"
  /\ Settle(c, "settled_error")
  /\ body' = [body EXCEPT ![c] = "over"]
  /\ UNCHANGED <<n, round, op, ident, passed, acts>>

\* The effect of the body's current stage, once per stage.
Act(c) ==
  /\ c \in Made /\ body[c] = "working" /\ SideEffect(c)
  /\ IF Gates[op[c]] = <<>> THEN acts[c] = 0 ELSE acts[c] < passed[c]
  /\ acts' = [acts EXCEPT ![c] = @ + 1]
  /\ UNCHANGED <<durable, turn, phase, body, passed>>

\* The body returns or throws.  After the call was given up nobody listens.
Return(c) ==
  /\ c \in Made /\ body[c] = "working"
  /\ body' = [body EXCEPT ![c] = "over"]
  /\ IF phase[c] = "busy" THEN \E s \in Settled : Settle(c, s)
                          ELSE UNCHANGED <<state, phase, answer, turn>>
  /\ UNCHANGED <<n, round, op, ident, passed, acts>>

ReturnThenDie(c) ==
  /\ c \in Busy /\ body[c] = "working"
  /\ \E s \in Settled : SettleThenDie(c, s)
  /\ UNCHANGED <<n, round, op, ident, passed, acts>>

-----------------------------------------------------------------------------
\* Every call of the set gives up: the interrupted ones settle as above, the
\* ones behind them are skipped.  All their messages are appended.
GiveUp(S) ==
  /\ state' = [c \in Calls |-> IF c \in S THEN Interrupted(c) ELSE state[c]]
  /\ phase' = [c \in Calls |-> IF c \in S THEN "done" ELSE phase[c]]
  /\ body' = [c \in Calls |-> IF c \in S /\ body[c] = "gate" THEN "over" ELSE body[c]]

\* Stop, pause or quit.
Abort ==
  /\ turn # "off" /\ turn' = "off"
  /\ GiveUp(Open)
  /\ answer' = [c \in Calls |-> IF c \in Unanswered THEN AnswerOf(state'[c]) ELSE answer[c]]
  /\ UNCHANGED <<n, round, op, ident, passed, acts>>

\* The same, cut short: the calls up to k have settled, those before the
\* batch of k are answered.
AbortThenDie(k) ==
  /\ turn = "tools" /\ k \in Open
  /\ state' = [c \in Calls |-> IF c \in Open /\ c <= k THEN Interrupted(c) ELSE state[c]]
  /\ answer' = [c \in Calls |->
       IF c \in Unanswered \ Batch(k) /\ c < k THEN AnswerOf(state'[c]) ELSE answer[c]]
  /\ Die
  /\ UNCHANGED <<n, round, op, ident, passed, acts>>

\* The deadline of one call.  A side effect that got past its gate is unknown:
\* the calls behind it are skipped and the turn fails.  One at a gate has not
\* started: the rest is skipped as well, and the turn goes on.  A read is an
\* error and the batch goes on.
MutDeadline(c) ==
  /\ c \in Busy /\ op[c] \in Timed
  /\ Settle(c, Interrupted(c))
  /\ body' = [body EXCEPT ![c] = IF @ = "gate" THEN "over" ELSE @]
  /\ UNCHANGED <<n, round, op, ident, passed, acts>>
Deadline(c) ==
  /\ c \in Busy /\ op[c] \in Timed
  /\ IF SideEffect(c)
     THEN /\ GiveUp(Open)
          /\ answer' = [d \in Calls |-> IF d \in Unanswered THEN AnswerOf(state'[d]) ELSE answer[d]]
          /\ turn' = IF Interrupted(c) = "unknown" THEN "off" ELSE "model"
     ELSE /\ Settle(c, "settled_error")
          /\ body' = [body EXCEPT ![c] = IF @ = "gate" THEN "over" ELSE @]
  /\ UNCHANGED <<n, round, op, ident, passed, acts>>

\* A write of the row fails: at the start of a call, or when it settles.  The
\* reads beside it are aborted and settle, the rest of the response is left as
\* it is, no message of the batch is appended and the turn fails.
Fault(c) ==
  /\ Next1(c) \/ c \in Busy
  /\ state' = [d \in Calls |-> IF d \in Busy \ {c} THEN "settled_error" ELSE state[d]]
  /\ phase' = [d \in Calls |-> "done"]
  /\ body' = [d \in Calls |-> IF d \in Open /\ body[d] = "gate" THEN "over" ELSE body[d]]
  /\ turn' = "off"
  /\ UNCHANGED <<n, round, op, ident, answer, passed, acts>>

-----------------------------------------------------------------------------
Responses == UNION {[1..k -> Ops] : k \in 1..Width}

Model == \E s \in Responses : n + Len(s) <= MaxCalls /\ (Respond(s) \/ RespondThenDie(s))

Call(c) ==
  \/ Start(c) \/ Reconcile(c)
  \/ GateAllows(c) \/ GateAsks(c) \/ GateBlocks(c) \/ GateThrows(c)
  \/ Approve(c) \/ Deny(c)
  \/ Act(c) \/ Return(c) \/ ReturnThenDie(c)
  \/ AbortThenDie(c) \/ Deadline(c) \/ Fault(c)

Next == NewTurn \/ EndTurn \/ Model \/ Abort \/ Crash \/ \E c \in Calls : Call(c)

Spec == Init /\ [][Next]_vars
\* unknownSideEffectingToolCalls(), the guard of resume, restart and boot.
UnknownCalls ==
  {c \in Made : SideEffect(c) /\
     \/ state[c] \in {"unknown", "started"}
     \/ state[c] = "absent" /\ answer[c] \in {"none", "interrupted"}}

-----------------------------------------------------------------------------
TypeOK ==
  /\ n \in 0..MaxCalls
  /\ round \in [Calls -> Nat]
  /\ op \in [Calls -> Ops \cup {"none"}]
  /\ state \in [Calls -> States]
  /\ ident \in [Calls -> Ops \cup Actions \cup {"none"}]
  /\ answer \in [Calls -> Answers]
  /\ turn \in {"off", "model", "tools"}
  /\ phase \in [Calls -> {"todo", "busy", "done"}]
  /\ body \in [Calls -> {"none", "working", "gate", "over"}]
  /\ passed \in [Calls -> Nat]
  /\ acts \in [Calls -> Nat]

\* What the user and the model are told of a call that "did not start": that
\* it had no effect, whichever abort, deadline, crash or repair came between.
NotStartedDidNothing ==
  \A c \in Made : state[c] = "not_started" \/ answer[c] = "not_started" => acts[c] = 0

\* When no turn runs, a call that had an effect and reported no result is one
\* the guard of resume and restart finds.
GuardSeesEffects ==
  turn = "off" => \A c \in Made :
    acts[c] > 0 /\ state[c] \notin Settled => c \in UnknownCalls

\* A request to the model answers every call of the transcript, whatever
\* turns ended in the middle before it.
EveryCallAnswered == turn = "model" => \A c \in Made : answer[c] # "none"

\* The transcript and the rows tell the same story: a result in one is a
\* settled call in the other, and no row is left started behind its answer.
AnswersAgree ==
  \A c \in Made :
    /\ answer[c] = "result" => state[c] \in Settled
    /\ answer[c] # "none" => state[c] \notin {"prepared", "started"}

\* Every call the model is shown is answered, and the answer is what the row says.
CallsAnswered == EveryCallAnswered /\ AnswersAgree

\* Nothing behind a call of unknown outcome runs in the same response.
NothingAfterUnknown ==
  \A c, d \in Made :
    round[c] = round[d] /\ c < d /\ state[c] = "unknown" => acts[d] = 0

\* A call never takes effect in a turn while an equal one has an unknown
\* outcome, in whichever response, turn or process that one was made.
NoRepeatOfUnknown ==
  [][\A c \in Made, d \in Busy :
       acts'[d] # acts[d] /\ c # d /\ op[c] = op[d] => state[c] \notin {"unknown", "started"}]_vars
=============================================================================
