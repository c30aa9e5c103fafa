--------------------------- MODULE ToolCallsProofs ---------------------------
(***************************************************************************)
(* Proofs about ToolCalls for any number of calls, workers and operations. *)
(*                                                                         *)
(* The inductive invariant Inv ties together, for each call, its row, the  *)
(* phase of its worker, its body, its effects and its answer; Line, on top *)
(* of it, ties together the calls of a response and of earlier ones.  What *)
(* the code promises about calls that did not start and about repeated     *)
(* side effects holds for operations with at most one gate (OneGate): the  *)
(* run tool_twogates shows that the first fails for two.                   *)
(***************************************************************************)
EXTENDS ToolCalls, TLAPS

OneGate == \A o \in Ops : Len(Gates[o]) <= 1

Acted == {"started", "unknown"} \cup Settled

\* Calls that do not exist yet.
FreshCall(c) ==
  /\ state[c] = "absent" /\ answer[c] = "none" /\ phase[c] = "done"
  /\ body[c] = "none" /\ passed[c] = 0 /\ acts[c] = 0
Fresh == \A c \in Calls : c > n => FreshCall(c)

\* The operation of a call that exists, and the order of the responses.
Known == \A c \in Made : op[c] \in Ops /\ round[c] <= round[n]

\* Row, worker and body of a call.
AtWork(c) == body[c] = "working" /\ state[c] = "started"
AtAsk(c)  == body[c] = "gate" /\ state[c] = "waiting_for_approval"
WorkerCall(c) ==
  /\ phase[c] # "done" => turn = "tools" /\ answer[c] = "none" /\ round[c] = round[n]
  /\ phase[c] = "todo" => state[c] = "prepared" /\ body[c] = "none"
  /\ phase[c] = "busy" => AtWork(c) \/ AtAsk(c)
  /\ phase[c] = "done" => body[c] # "gate"
  /\ body[c] = "working" => state[c] \in Acted
Worker == \A c \in Made : WorkerCall(c)

\* Effects follow gates.
EffectsCall(c) ==
  /\ passed[c] <= Len(Gates[op[c]])
  /\ Gates[op[c]] # <<>> => acts[c] <= passed[c]
  /\ body[c] = "gate" => passed[c] < Len(Gates[op[c]])
  /\ acts[c] > 0 => SideEffect(c)
  /\ acts[c] > 0 /\ body[c] # "gate" => Len(Gates[op[c]]) > 1 \/ state[c] \in Acted
Effects == \A c \in Made : EffectsCall(c)

\* Answers and rows.
AnsweredCall(c) ==
  /\ answer[c] # "none" => state[c] \notin {"prepared", "started"}
  /\ answer[c] = "result" => state[c] \in Settled
  /\ answer[c] = "not_started" => state[c] \in {"not_started", "waiting_for_approval"}
  /\ turn # "off" /\ phase[c] = "done" /\ round[c] = round[n] =>
       state[c] \notin {"prepared", "started"}
Answered == \A c \in Made : AnsweredCall(c)

Inv == TypeOK /\ Fresh /\ Known /\ Worker /\ Effects /\ Answered

-----------------------------------------------------------------------------
LEMMA GatesType ==
  ASSUME NEW o \in Ops
  PROVE  /\ Gates[o] \in Seq(Actions)
         /\ Len(Gates[o]) \in Nat
         /\ Len(Gates[o]) = 0 => Gates[o] = <<>>
BY ConstantsAssumption DEF ConstantsAssumption

\* A batch lies in the last response.
LEMMA BatchInRound ==
  ASSUME NEW c \in Calls, NEW d \in Batch(c)
  PROVE d = c \/ (d \in Made /\ round[d] = round[n])
BY DEF Batch, LastRound

LEMMA BatchReads ==
  ASSUME NEW c \in Calls, NEW d \in Batch(c), d # c, MaxCalls \in Nat, n \in Nat
  PROVE op[d] \in Parallel
<1>1. /\ d \in LastRound /\ d \in Nat /\ c \in Nat
      /\ \A e \in LastRound : (c <= e /\ e <= d) \/ (d <= e /\ e <= c) => op[e] \in Parallel
  BY DEF Batch, LastRound, Made, Calls
<1> QED BY <1>1

\* Initially there are no calls.
LEMMA InitInv == Init => Inv
BY ConstantsAssumption
   DEF ConstantsAssumption, Init, Inv, TypeOK, Fresh, FreshCall, Known, Worker, Effects,
       Answered, Made, Calls, States, Answers, Acted, Settled

-----------------------------------------------------------------------------
\* The code path of every call that reports a result.
LEMMA SettleInv ==
  ASSUME Inv, NEW c \in Made, phase[c] # "done", NEW s \in Settled, Settle(c, s),
         body' = body \/ body' = [body EXCEPT ![c] = "over"], body'[c] # "gate",
         ident' \in [Calls -> Ops \cup Actions \cup {"none"}],
         UNCHANGED <<n, round, op, passed, acts>>
  PROVE  Inv'
<1> USE DEF Made
<1>0. /\ c \in Calls /\ n \in Nat /\ Made \subseteq Calls /\ Made' = Made
  BY ConstantsAssumption DEF Inv, TypeOK, Calls, ConstantsAssumption
<1>1. /\ turn = "tools" /\ round[c] = round[n] /\ answer[c] = "none"
  BY DEF Inv, Worker, WorkerCall
<1>2. /\ state' = [state EXCEPT ![c] = s] /\ phase' = [phase EXCEPT ![c] = "done"]
      /\ turn' \in {"model", "tools"}
      /\ \A d \in Calls : phase'[d] # "done" => d # c /\ phase[d] # "done"
  BY <1>0 DEF Settle, Inv, TypeOK
<1>3. \A d \in Calls : d # c /\ d \in Batch(c) /\ Open \cap Batch(c) = {c}
         => d \in Made /\ round[d] = round[n] /\ phase[d] = "done"
  <2> SUFFICES ASSUME NEW d \in Calls, d # c, d \in Batch(c), Open \cap Batch(c) = {c}
               PROVE  d \in Made /\ round[d] = round[n] /\ phase[d] = "done"
    OBVIOUS
  <2>1. d \in Made /\ round[d] = round[n]
    BY <1>0, BatchInRound
  <2>2. d \notin Open
    OBVIOUS
  <2> QED BY <2>1, <2>2, <1>0 DEF Open, Busy, Todo, Inv, TypeOK
<1>4. \A d \in Calls : \/ answer'[d] = answer[d]
                       \/ d = c /\ answer'[d] = "result"
                       \/ /\ d # c /\ d \in Made /\ round[d] = round[n] /\ phase[d] = "done"
                          /\ answer'[d] = AnswerOf(state[d])
  <2> SUFFICES ASSUME NEW d \in Calls, answer'[d] # answer[d]
               PROVE \/ d = c /\ answer'[d] = "result"
                     \/ /\ d # c /\ d \in Made /\ round[d] = round[n] /\ phase[d] = "done"
                        /\ answer'[d] = AnswerOf(state[d])
    OBVIOUS
  <2>1. Open \cap Batch(c) = {c} /\ d \in Batch(c) /\ answer'[d] = AnswerOf(state'[d])
    BY DEF Settle
  <2>2. CASE d = c
    <3>1. state'[d] = s
      BY <2>2, <1>0, <1>2 DEF Inv, TypeOK
    <3>2. AnswerOf(s) = "result"
      BY DEF AnswerOf, Settled
    <3> QED BY <2>1, <2>2, <3>1, <3>2
  <2>3. CASE d # c
    BY <2>1, <2>3, <1>2, <1>3, <1>0 DEF Inv, TypeOK
  <2> QED BY <2>2, <2>3
<1>5. /\ answer' \in [Calls -> Answers]
      /\ \A d \in Made : answer'[d] # "none" => phase'[d] = "done"
  <2>1. \A d \in Calls : answer'[d] \in Answers
    BY <1>4 DEF Inv, TypeOK, AnswerOf, Answers, Settled
  <2>2. answer' = [d \in Calls |-> answer'[d]]
    BY DEF Settle
  <2>3. \A d \in Made : answer'[d] # "none" => phase'[d] = "done"
    BY <1>0, <1>2, <1>4 DEF Inv, Worker, WorkerCall, TypeOK
  <2> QED BY <2>1, <2>2, <2>3
<1>6. TypeOK'
  <2>1. state' \in [Calls -> States] /\ phase' \in [Calls -> {"todo", "busy", "done"}]
    BY <1>0, <1>2 DEF Inv, TypeOK, States, Settled
  <2>2. body' \in [Calls -> {"none", "working", "gate", "over"}]
    BY <1>0 DEF Inv, TypeOK
  <2> QED BY <1>2, <1>5, <2>1, <2>2 DEF Inv, TypeOK
<1>7. Fresh'
  BY <1>0, <1>2, <1>4 DEF Inv, TypeOK, Fresh, FreshCall
<1>8. Known'
  BY DEF Inv, Known
<1>9. Worker'
  <2> SUFFICES ASSUME NEW d \in Made PROVE WorkerCall(d)'
    BY <1>0 DEF Worker
  <2>1. phase'[d] # "done" => turn' = "tools"
    BY <1>0, <1>2 DEF Settle, Open, Busy, Todo, Inv, TypeOK
  <2>2. CASE d = c
    BY <2>1, <2>2, <1>0, <1>2 DEF Inv, TypeOK, Acted, WorkerCall
  <2>3. CASE d # c
    <3>1. phase'[d] = phase[d] /\ state'[d] = state[d] /\ body'[d] = body[d]
      BY <2>3, <1>0, <1>2 DEF Inv, TypeOK
    <3> QED BY <3>1, <2>1, <1>0, <1>5 DEF Inv, Worker, WorkerCall, AtWork, AtAsk
  <2> QED BY <2>2, <2>3
<1>10. Effects'
  <2> SUFFICES ASSUME NEW d \in Made PROVE EffectsCall(d)'
    BY <1>0 DEF Effects
  <2> QED BY <1>0, <1>2 DEF Inv, TypeOK, Effects, EffectsCall, SideEffect, Acted
<1>11. Answered'
  <2> SUFFICES ASSUME NEW d \in Made PROVE AnsweredCall(d)'
    BY <1>0 DEF Answered
  <2>1. CASE d = c
    BY <2>1, <1>0, <1>1, <1>2, <1>4 DEF Inv, TypeOK, Settled, AnsweredCall
  <2>2. CASE d # c
    <3>1. phase'[d] = phase[d] /\ state'[d] = state[d]
      BY <2>2, <1>0, <1>2 DEF Inv, TypeOK
    <3> QED BY <3>1, <2>2, <1>0, <1>1, <1>4
            DEF Inv, Answered, AnsweredCall, AnswerOf, TypeOK, States, Settled
  <2> QED BY <2>1, <2>2
<1> QED BY <1>6, <1>7, <1>8, <1>9, <1>10, <1>11 DEF Inv

-----------------------------------------------------------------------------
\* The steps that leave all calls but one as they are, and settle none.

\* The identity a gate gives to the row, and room for one more gate.
LEMMA RenameType ==
  ASSUME Inv, NEW c \in Made, AtGate(c)
  PROVE  /\ Rename(c) => ident' \in [Calls -> Ops \cup Actions \cup {"none"}]
         /\ passed[c] + 1 <= Len(Gates[op[c]])
<1>1. /\ op[c] \in Ops /\ passed[c] \in Nat /\ c \in Calls
      /\ Gates[op[c]] \in Seq(Actions) /\ Len(Gates[op[c]]) \in Nat
  BY GatesType, ConstantsAssumption DEF ConstantsAssumption, Inv, Known, TypeOK, Calls, Made
<1>2. passed[c] + 1 \in 1..Len(Gates[op[c]])
  BY <1>1 DEF AtGate
<1>3. Action(c) \in Actions
  BY <1>1, <1>2 DEF Action
<1>4. ident \in [Calls -> Ops \cup Actions \cup {"none"}]
  BY DEF Inv, TypeOK
<1>5. ASSUME Rename(c) PROVE ident' \in [Calls -> Ops \cup Actions \cup {"none"}]
  <2>1. CASE SideEffect(c)
    BY <1>1, <1>3, <1>4, <1>5, <2>1 DEF Rename
  <2>2. CASE ~SideEffect(c)
    BY <1>4, <1>5, <2>2 DEF Rename
  <2> QED BY <2>1, <2>2
<1> QED BY <1>2, <1>1, <1>5

\* A worker marks a call started.
LEMMA StartInv == ASSUME Inv, NEW c \in Calls, Start(c) PROVE Inv'
<1> USE DEF Made
<1>0. Made' = Made /\ Made \subseteq Calls /\ c \in Made /\ n \in Nat
  BY ConstantsAssumption DEF Inv, TypeOK, Calls, ConstantsAssumption, Start, Next1, Todo, durable
<1>1. TypeOK'
  BY <1>0 DEF Inv, TypeOK, Calls, States, Start, Next1, Todo, durable
<1>2. Fresh'
  BY <1>0 DEF Inv, TypeOK, Fresh, FreshCall, Start, Next1, Todo, durable
<1>3. Known'
  BY DEF Inv, Known, Start, Next1, Todo, durable
<1>4. Worker'
  <2> SUFFICES ASSUME NEW d \in Made PROVE WorkerCall(d)'
    BY <1>0 DEF Worker
  <2> QED BY <1>0 DEF Inv, TypeOK, Worker, WorkerCall, AtWork, AtAsk, Acted, Start, Next1, Todo, durable
<1>5. Effects'
  <2> SUFFICES ASSUME NEW d \in Made PROVE EffectsCall(d)'
    BY <1>0 DEF Effects
  <2>1. /\ d \in Calls /\ op[d] \in Ops /\ Len(Gates[op[d]]) \in Nat
        /\ Len(Gates[op[d]]) = 0 => Gates[op[d]] = <<>>
    BY <1>0, GatesType DEF Inv, Known
  <2>2. EffectsCall(d) /\ WorkerCall(d) /\ passed[d] \in Nat /\ acts[d] \in Nat
    BY <2>1 DEF Inv, TypeOK, Effects, Worker
  <2>3. CASE d = c
    BY <1>0, <2>1, <2>2, <2>3
       DEF Inv, TypeOK, WorkerCall, AtWork, AtAsk, EffectsCall, SideEffect, Acted, Start, Next1, Todo, durable
  <2>4. CASE d # c
    BY <1>0, <2>1, <2>2, <2>4 DEF Inv, TypeOK, EffectsCall, SideEffect, Start, Next1, Todo, durable
  <2> QED BY <2>3, <2>4
<1>6. Answered'
  <2> SUFFICES ASSUME NEW d \in Made PROVE AnsweredCall(d)'
    BY <1>0 DEF Answered
  <2> QED BY <1>0 DEF Inv, TypeOK, Worker, WorkerCall, Answered, AnsweredCall, Start, Next1, Todo, durable
<1> QED BY <1>1, <1>2, <1>3, <1>4, <1>5, <1>6 DEF Inv

\* The policy lets the body pass.
LEMMA GateAllowsInv == ASSUME Inv, NEW c \in Calls, GateAllows(c) PROVE Inv'
<1> USE DEF Made
<1>0. Made' = Made /\ Made \subseteq Calls /\ c \in Made /\ n \in Nat
  BY ConstantsAssumption DEF Inv, TypeOK, Calls, ConstantsAssumption, GateAllows, AtGate
<1>7. /\ passed[c] + 1 <= Len(Gates[op[c]])
      /\ ident' \in [Calls -> Ops \cup Actions \cup {"none"}]
  BY <1>0, RenameType DEF GateAllows
<1>1. TypeOK'
  BY <1>0, <1>7 DEF Inv, TypeOK, Calls, States, GateAllows, AtGate
<1>2. Fresh'
  BY <1>0 DEF Inv, TypeOK, Fresh, FreshCall, GateAllows, AtGate
<1>3. Known'
  BY DEF Inv, Known, GateAllows, AtGate
<1>4. Worker'
  <2> SUFFICES ASSUME NEW d \in Made PROVE WorkerCall(d)'
    BY <1>0 DEF Worker
  <2> QED BY <1>0 DEF Inv, TypeOK, Worker, WorkerCall, AtWork, AtAsk, Acted, GateAllows, AtGate
<1>5. Effects'
  <2> SUFFICES ASSUME NEW d \in Made PROVE EffectsCall(d)'
    BY <1>0 DEF Effects
  <2>1. /\ d \in Calls /\ op[d] \in Ops /\ Len(Gates[op[d]]) \in Nat
        /\ Len(Gates[op[d]]) = 0 => Gates[op[d]] = <<>>
    BY <1>0, GatesType DEF Inv, Known
  <2>2. EffectsCall(d) /\ WorkerCall(d) /\ passed[d] \in Nat /\ acts[d] \in Nat
    BY <2>1 DEF Inv, TypeOK, Effects, Worker
  <2>3. CASE d = c
    BY <1>0, <1>7, <2>1, <2>2, <2>3
       DEF Inv, TypeOK, WorkerCall, AtWork, AtAsk, EffectsCall, SideEffect, Acted, GateAllows, AtGate
  <2>4. CASE d # c
    BY <1>0, <1>7, <2>1, <2>2, <2>4 DEF Inv, TypeOK, EffectsCall, SideEffect, GateAllows, AtGate
  <2> QED BY <2>3, <2>4
<1>6. Answered'
  <2> SUFFICES ASSUME NEW d \in Made PROVE AnsweredCall(d)'
    BY <1>0 DEF Answered
  <2> QED BY <1>0 DEF Inv, TypeOK, Worker, WorkerCall, Answered, AnsweredCall, GateAllows, AtGate
<1> QED BY <1>1, <1>2, <1>3, <1>4, <1>5, <1>6 DEF Inv

\* The body waits for the user.
LEMMA GateAsksInv == ASSUME Inv, NEW c \in Calls, GateAsks(c) PROVE Inv'
<1> USE DEF Made
<1>0. Made' = Made /\ Made \subseteq Calls /\ c \in Made /\ n \in Nat
  BY ConstantsAssumption DEF Inv, TypeOK, Calls, ConstantsAssumption, GateAsks, AtGate
<1>7. /\ passed[c] + 1 <= Len(Gates[op[c]])
      /\ ident' \in [Calls -> Ops \cup Actions \cup {"none"}]
  BY <1>0, RenameType DEF GateAsks
<1>1. TypeOK'
  BY <1>0, <1>7 DEF Inv, TypeOK, Calls, States, GateAsks, AtGate
<1>2. Fresh'
  BY <1>0 DEF Inv, TypeOK, Fresh, FreshCall, GateAsks, AtGate
<1>3. Known'
  BY DEF Inv, Known, GateAsks, AtGate
<1>4. Worker'
  <2> SUFFICES ASSUME NEW d \in Made PROVE WorkerCall(d)'
    BY <1>0 DEF Worker
  <2> QED BY <1>0 DEF Inv, TypeOK, Worker, WorkerCall, AtWork, AtAsk, Acted, GateAsks, AtGate
<1>5. Effects'
  <2> SUFFICES ASSUME NEW d \in Made PROVE EffectsCall(d)'
    BY <1>0 DEF Effects
  <2>1. /\ d \in Calls /\ op[d] \in Ops /\ Len(Gates[op[d]]) \in Nat
        /\ Len(Gates[op[d]]) = 0 => Gates[op[d]] = <<>>
    BY <1>0, GatesType DEF Inv, Known
  <2>2. EffectsCall(d) /\ WorkerCall(d) /\ passed[d] \in Nat /\ acts[d] \in Nat
    BY <2>1 DEF Inv, TypeOK, Effects, Worker
  <2>3. CASE d = c
    BY <1>0, <1>7, <2>1, <2>2, <2>3
       DEF Inv, TypeOK, WorkerCall, AtWork, AtAsk, EffectsCall, SideEffect, Acted, GateAsks, AtGate
  <2>4. CASE d # c
    BY <1>0, <1>7, <2>1, <2>2, <2>4 DEF Inv, TypeOK, EffectsCall, SideEffect, GateAsks, AtGate
  <2> QED BY <2>3, <2>4
<1>6. Answered'
  <2> SUFFICES ASSUME NEW d \in Made PROVE AnsweredCall(d)'
    BY <1>0 DEF Answered
  <2> QED BY <1>0 DEF Inv, TypeOK, Worker, WorkerCall, Answered, AnsweredCall, GateAsks, AtGate
<1> QED BY <1>1, <1>2, <1>3, <1>4, <1>5, <1>6 DEF Inv

\* A body whose call was given up throws at its next gate.
LEMMA GateThrowsInv == ASSUME Inv, NEW c \in Calls, GateThrows(c) PROVE Inv'
<1> USE DEF Made
<1>0. Made' = Made /\ Made \subseteq Calls /\ c \in Made /\ n \in Nat
  BY ConstantsAssumption DEF Inv, TypeOK, Calls, ConstantsAssumption, GateThrows, AtGate, durable
<1>1. TypeOK'
  BY <1>0 DEF Inv, TypeOK, Calls, States, GateThrows, AtGate, durable
<1>2. Fresh'
  BY <1>0 DEF Inv, TypeOK, Fresh, FreshCall, GateThrows, AtGate, durable
<1>3. Known'
  BY DEF Inv, Known, GateThrows, AtGate, durable
<1>4. Worker'
  <2> SUFFICES ASSUME NEW d \in Made PROVE WorkerCall(d)'
    BY <1>0 DEF Worker
  <2> QED BY <1>0 DEF Inv, TypeOK, Worker, WorkerCall, AtWork, AtAsk, Acted, GateThrows, AtGate, durable
<1>5. Effects'
  <2> SUFFICES ASSUME NEW d \in Made PROVE EffectsCall(d)'
    BY <1>0 DEF Effects
  <2>1. /\ d \in Calls /\ op[d] \in Ops /\ Len(Gates[op[d]]) \in Nat
        /\ Len(Gates[op[d]]) = 0 => Gates[op[d]] = <<>>
    BY <1>0, GatesType DEF Inv, Known
  <2>2. EffectsCall(d) /\ WorkerCall(d) /\ passed[d] \in Nat /\ acts[d] \in Nat
    BY <2>1 DEF Inv, TypeOK, Effects, Worker
  <2>3. CASE d = c
    BY <1>0, <2>1, <2>2, <2>3
       DEF Inv, TypeOK, WorkerCall, AtWork, AtAsk, EffectsCall, SideEffect, Acted, GateThrows, AtGate, durable
  <2>4. CASE d # c
    BY <1>0, <2>1, <2>2, <2>4 DEF Inv, TypeOK, EffectsCall, SideEffect, GateThrows, AtGate, durable
  <2> QED BY <2>3, <2>4
<1>6. Answered'
  <2> SUFFICES ASSUME NEW d \in Made PROVE AnsweredCall(d)'
    BY <1>0 DEF Answered
  <2> QED BY <1>0 DEF Inv, TypeOK, Worker, WorkerCall, Answered, AnsweredCall, GateThrows, AtGate, durable
<1> QED BY <1>1, <1>2, <1>3, <1>4, <1>5, <1>6 DEF Inv

\* The user approves.
LEMMA ApproveInv == ASSUME Inv, NEW c \in Calls, Approve(c) PROVE Inv'
<1> USE DEF Made
<1>0. Made' = Made /\ Made \subseteq Calls /\ c \in Made /\ n \in Nat
  BY ConstantsAssumption DEF Inv, TypeOK, Calls, ConstantsAssumption, Approve, Busy
<1>1. TypeOK'
  BY <1>0 DEF Inv, TypeOK, Calls, States, Approve, Busy
<1>2. Fresh'
  BY <1>0 DEF Inv, TypeOK, Fresh, FreshCall, Approve, Busy
<1>3. Known'
  BY DEF Inv, Known, Approve, Busy
<1>4. Worker'
  <2> SUFFICES ASSUME NEW d \in Made PROVE WorkerCall(d)'
    BY <1>0 DEF Worker
  <2> QED BY <1>0 DEF Inv, TypeOK, Worker, WorkerCall, AtWork, AtAsk, Acted, Approve, Busy
<1>5. Effects'
  <2> SUFFICES ASSUME NEW d \in Made PROVE EffectsCall(d)'
    BY <1>0 DEF Effects
  <2>1. /\ d \in Calls /\ op[d] \in Ops /\ Len(Gates[op[d]]) \in Nat
        /\ Len(Gates[op[d]]) = 0 => Gates[op[d]] = <<>>
    BY <1>0, GatesType DEF Inv, Known
  <2>2. EffectsCall(d) /\ WorkerCall(d) /\ passed[d] \in Nat /\ acts[d] \in Nat
    BY <2>1 DEF Inv, TypeOK, Effects, Worker
  <2>3. CASE d = c
    BY <1>0, <2>1, <2>2, <2>3
       DEF Inv, TypeOK, WorkerCall, AtWork, AtAsk, EffectsCall, SideEffect, Acted, Approve, Busy
  <2>4. CASE d # c
    BY <1>0, <2>1, <2>2, <2>4 DEF Inv, TypeOK, EffectsCall, SideEffect, Approve, Busy
  <2> QED BY <2>3, <2>4
<1>6. Answered'
  <2> SUFFICES ASSUME NEW d \in Made PROVE AnsweredCall(d)'
    BY <1>0 DEF Answered
  <2> QED BY <1>0 DEF Inv, TypeOK, Worker, WorkerCall, Answered, AnsweredCall, Approve, Busy
<1> QED BY <1>1, <1>2, <1>3, <1>4, <1>5, <1>6 DEF Inv

\* The body takes effect.
LEMMA ActInv == ASSUME Inv, NEW c \in Calls, Act(c) PROVE Inv'
<1> USE DEF Made
<1>0. Made' = Made /\ Made \subseteq Calls /\ c \in Made /\ n \in Nat
  BY ConstantsAssumption DEF Inv, TypeOK, Calls, ConstantsAssumption, Act, durable
<1>1. TypeOK'
  BY <1>0 DEF Inv, TypeOK, Calls, States, Act, durable
<1>2. Fresh'
  BY <1>0 DEF Inv, TypeOK, Fresh, FreshCall, Act, durable
<1>3. Known'
  BY DEF Inv, Known, Act, durable
<1>4. Worker'
  <2> SUFFICES ASSUME NEW d \in Made PROVE WorkerCall(d)'
    BY <1>0 DEF Worker
  <2> QED BY <1>0 DEF Inv, TypeOK, Worker, WorkerCall, AtWork, AtAsk, Acted, Act, durable
<1>5. Effects'
  <2> SUFFICES ASSUME NEW d \in Made PROVE EffectsCall(d)'
    BY <1>0 DEF Effects
  <2>1. /\ d \in Calls /\ op[d] \in Ops /\ Len(Gates[op[d]]) \in Nat
        /\ Len(Gates[op[d]]) = 0 => Gates[op[d]] = <<>>
    BY <1>0, GatesType DEF Inv, Known
  <2>2. EffectsCall(d) /\ WorkerCall(d) /\ passed[d] \in Nat /\ acts[d] \in Nat
    BY <2>1 DEF Inv, TypeOK, Effects, Worker
  <2>3. CASE d = c
    BY <1>0, <2>1, <2>2, <2>3
       DEF Inv, TypeOK, WorkerCall, AtWork, AtAsk, EffectsCall, SideEffect, Acted, Act, durable
  <2>4. CASE d # c
    BY <1>0, <2>1, <2>2, <2>4 DEF Inv, TypeOK, EffectsCall, SideEffect, Act, durable
  <2> QED BY <2>3, <2>4
<1>6. Answered'
  <2> SUFFICES ASSUME NEW d \in Made PROVE AnsweredCall(d)'
    BY <1>0 DEF Answered
  <2> QED BY <1>0 DEF Inv, TypeOK, Worker, WorkerCall, Answered, AnsweredCall, Act, durable
<1> QED BY <1>1, <1>2, <1>3, <1>4, <1>5, <1>6 DEF Inv

-----------------------------------------------------------------------------
\* The steps after which no worker is busy.

LEMMA AnswerFacts ==
  ASSUME NEW s \in States
  PROVE  /\ AnswerOf(s) \in Answers /\ AnswerOf(s) # "none"
         /\ AnswerOf(s) = "result" => s \in Settled
         /\ AnswerOf(s) = "not_started" =>
              s \in {"prepared", "waiting_for_approval", "not_started"}
BY DEF AnswerOf, States, Settled, Answers

LEMMA InterruptedFacts ==
  ASSUME Inv, NEW c \in Made, phase[c] # "done"
  PROVE  /\ Interrupted(c) \in {"settled_error", "unknown", "not_started"}
         /\ Interrupted(c) = "not_started" => state[c] \in {"prepared", "waiting_for_approval"}
         /\ body[c] = "working" => Interrupted(c) \in Acted
         /\ Interrupted(c) \in States
<1>1. WorkerCall(c)
  BY DEF Inv, Worker
<1>2. CASE phase[c] = "busy" /\ ~SideEffect(c)
  BY <1>2 DEF Interrupted, Acted, Settled, States
<1>3. CASE ~(phase[c] = "busy" /\ ~SideEffect(c))
  BY <1>1, <1>3 DEF WorkerCall, AtWork, AtAsk, Interrupted, Acted, Settled, States
<1> QED BY <1>2, <1>3

\* What such a step may do to one call.
Rests(d) ==
  /\ phase'[d] = "done" /\ body'[d] # "gate"
  /\ \/ state'[d] = state[d]
     \/ state'[d] \in {"unknown"} \cup Settled
     \/ state'[d] = "not_started" /\ state[d] \in {"prepared", "waiting_for_approval"}
  /\ body'[d] = "working" => body[d] = "working" /\ state'[d] \in Acted
  /\ \/ answer'[d] = answer[d] /\ (answer[d] # "none" => state'[d] = state[d])
     \/ answer'[d] = AnswerOf(state'[d]) /\ state'[d] \notin {"prepared", "started"}
  /\ turn' # "off" /\ round[d] = round[n] => state'[d] \notin {"prepared", "started"}

LEMMA RestInv ==
  ASSUME Inv, TypeOK', UNCHANGED <<n, round, op, passed, acts>>,
         \A d \in Calls : d > n => FreshCall(d)',
         \A d \in Made : Rests(d)
  PROVE  Inv'
<1> USE DEF Made
<1>0. /\ Made' = Made /\ Made \subseteq Calls /\ n \in Nat
      /\ \A d \in Made : state'[d] \in States
  BY ConstantsAssumption DEF Inv, TypeOK, Calls, ConstantsAssumption
<1>1. Fresh'
  BY DEF Fresh
<1>2. Known'
  BY DEF Inv, Known
<1>3. Worker'
  BY <1>0 DEF Worker, WorkerCall, Rests
<1>4. Effects'
  <2> SUFFICES ASSUME NEW d \in Made PROVE EffectsCall(d)'
    BY <1>0 DEF Effects
  <2>1. /\ d \in Calls /\ op[d] \in Ops /\ Len(Gates[op[d]]) \in Nat
        /\ Len(Gates[op[d]]) = 0 => Gates[op[d]] = <<>>
    BY <1>0, GatesType DEF Inv, Known
  <2>2. EffectsCall(d) /\ WorkerCall(d) /\ passed[d] \in Nat /\ acts[d] \in Nat
    BY <2>1 DEF Inv, TypeOK, Effects, Worker
  <2>3. ASSUME acts[d] > 0 PROVE Len(Gates[op[d]]) > 1 \/ state'[d] \in Acted
    <3>1. Len(Gates[op[d]]) > 1 \/ state[d] \in Acted
      BY <2>1, <2>2, <2>3 DEF EffectsCall
    <3>2. CASE state[d] \in Acted
      BY <3>2 DEF Rests, Acted, Settled
    <3> QED BY <3>1, <3>2
  <2> QED BY <2>2, <2>3 DEF EffectsCall, SideEffect, Rests
<1>5. Answered'
  <2> SUFFICES ASSUME NEW d \in Made PROVE AnsweredCall(d)'
    BY <1>0 DEF Answered
  <2>1. AnsweredCall(d)
    BY DEF Inv, Answered
  <2> QED BY <1>0, <2>1, AnswerFacts DEF AnsweredCall, Rests
<1> QED BY <1>1, <1>2, <1>3, <1>4, <1>5 DEF Inv

LEMMA CrashInv == ASSUME Inv, Crash PROVE Inv'
<1>1. TypeOK'
  BY DEF Inv, TypeOK, Crash, Die, durable
<1>2. \A d \in Calls : d > n => FreshCall(d)'
  BY DEF Inv, Fresh, FreshCall, Crash, Die, durable
<1>3. \A d \in Made : Rests(d)
  BY ConstantsAssumption
     DEF ConstantsAssumption, Inv, TypeOK, Made, Calls, Crash, Die, durable, Rests
<1> QED BY <1>1, <1>2, <1>3, RestInv DEF Crash, durable

LEMMA NewTurnInv == ASSUME Inv, NewTurn PROVE Inv'
<1>0. Made \subseteq Calls
  BY ConstantsAssumption DEF ConstantsAssumption, Inv, TypeOK, Made, Calls
<1>1. TypeOK'
  <2>1. \A d \in Calls : state'[d] \in States /\ answer'[d] \in Answers
    BY AnswerFacts DEF Inv, TypeOK, NewTurn, States
  <2> QED BY <2>1 DEF Inv, TypeOK, NewTurn
<1>2. \A d \in Calls : d > n => FreshCall(d)'
  BY DEF Inv, TypeOK, Fresh, FreshCall, NewTurn, Unanswered, LastRound, Made
<1>3. ASSUME NEW d \in Made PROVE Rests(d)
  <2>1. d \in Calls /\ WorkerCall(d) /\ AnsweredCall(d) /\ state[d] \in States /\ phase'[d] = phase[d]
    BY <1>0 DEF Inv, TypeOK, Worker, Answered, NewTurn
  <2>2. phase[d] = "done"
    BY <2>1 DEF WorkerCall, NewTurn
  <2>3. CASE d \in Unanswered
    BY <2>1, <2>2, <2>3 DEF NewTurn, Rests, WorkerCall, Unanswered, Acted, AnswerOf, Settled, States
  <2>4. CASE d \notin Unanswered
    BY <1>0, <2>1, <2>2, <2>4
       DEF NewTurn, Rests, WorkerCall, AnsweredCall, Unanswered, LastRound
  <2> QED BY <2>3, <2>4
<1> QED BY <1>1, <1>2, <1>3, RestInv DEF NewTurn

LEMMA AbortInv == ASSUME Inv, Abort PROVE Inv'
<1>0. Made \subseteq Calls
  BY ConstantsAssumption DEF ConstantsAssumption, Inv, TypeOK, Made, Calls
<1>1. \A d \in Open : d \in Made /\ d \in Calls /\ phase[d] # "done"
  BY <1>0 DEF Open, Busy, Todo
<1>2. TypeOK'
  <2>1. \A d \in Calls : state'[d] \in States
    BY <1>1, InterruptedFacts DEF Inv, TypeOK, Abort, GiveUp
  <2>2. \A d \in Calls : answer'[d] \in Answers
    BY <2>1, AnswerFacts DEF Inv, TypeOK, Abort
  <2> QED BY <2>1, <2>2 DEF Inv, TypeOK, Abort, GiveUp
<1>3. \A d \in Calls : d > n => FreshCall(d)'
  BY <1>1 DEF Inv, TypeOK, Fresh, FreshCall, Abort, GiveUp, Unanswered, LastRound, Made
<1>4. ASSUME NEW d \in Made PROVE Rests(d)
  <2>1. d \in Calls /\ WorkerCall(d) /\ AnsweredCall(d) /\ state[d] \in States
    BY <1>0 DEF Inv, TypeOK, Worker, Answered
  <2>2. CASE d \in Open
    <3>1. state'[d] = Interrupted(d) /\ phase'[d] = "done"
          /\ body'[d] = IF body[d] = "gate" THEN "over" ELSE body[d]
      BY <2>1, <2>2 DEF Abort, GiveUp
    <3>2. answer[d] = "none" /\ (answer'[d] = answer[d] \/ answer'[d] = AnswerOf(state'[d]))
      BY <1>1, <2>1, <2>2 DEF WorkerCall, Abort
    <3> QED BY <1>1, <2>1, <2>2, <3>1, <3>2, InterruptedFacts DEF Rests, Abort, Settled
  <2>3. CASE d \notin Open
    <3>1. phase[d] = "done" /\ state'[d] = state[d] /\ phase'[d] = phase[d] /\ body'[d] = body[d]
      BY <1>0, <2>3 DEF Abort, GiveUp, Open, Busy, Todo, Inv, TypeOK
    <3>2. \/ answer'[d] = answer[d]
          \/ answer'[d] = AnswerOf(state'[d]) /\ round[d] = round[n]
      BY <2>1 DEF Abort, Unanswered, LastRound
    <3> QED BY <2>1, <3>1, <3>2 DEF Rests, WorkerCall, AnsweredCall, Abort
  <2> QED BY <2>2, <2>3
<1> QED BY <1>2, <1>3, <1>4, RestInv DEF Abort

LEMMA EndTurnInv == ASSUME Inv, EndTurn PROVE Inv'
<1>0. Made \subseteq Calls
  BY ConstantsAssumption DEF ConstantsAssumption, Inv, TypeOK, Made, Calls
<1>1. TypeOK'
  BY DEF Inv, TypeOK, EndTurn, durable
<1>2. \A d \in Calls : d > n => FreshCall(d)'
  BY DEF Inv, Fresh, FreshCall, EndTurn, durable
<1>3. \A d \in Made : Rests(d)
  BY <1>0 DEF Inv, TypeOK, Worker, WorkerCall, EndTurn, durable, Rests
<1> QED BY <1>1, <1>2, <1>3, RestInv DEF EndTurn, durable

LEMMA ReturnThenDieInv == ASSUME Inv, NEW c \in Calls, ReturnThenDie(c) PROVE Inv'
<1>0. Made \subseteq Calls /\ c \in Made /\ answer[c] = "none"
  BY ConstantsAssumption
     DEF ConstantsAssumption, Inv, TypeOK, Made, Calls, ReturnThenDie, Busy, Worker, WorkerCall
<1>1. PICK s \in Settled : SettleThenDie(c, s)
  BY DEF ReturnThenDie
<1>2. TypeOK'
  BY <1>1 DEF Inv, TypeOK, ReturnThenDie, SettleThenDie, Die, States, Settled
<1>3. \A d \in Calls : d > n => FreshCall(d)'
  BY <1>0, <1>1 DEF Inv, TypeOK, Made, Fresh, FreshCall, ReturnThenDie, SettleThenDie, Die
<1>4. \A d \in Made : Rests(d)
  BY <1>0, <1>1 DEF Inv, TypeOK, ReturnThenDie, SettleThenDie, Die, Rests
<1> QED BY <1>2, <1>3, <1>4, RestInv DEF ReturnThenDie

LEMMA AbortThenDieInv == ASSUME Inv, NEW k \in Calls, AbortThenDie(k) PROVE Inv'
<1>0. Made \subseteq Calls
  BY ConstantsAssumption DEF ConstantsAssumption, Inv, TypeOK, Made, Calls
<1>1. \A d \in Open : d \in Made /\ d \in Calls /\ phase[d] # "done"
  BY <1>0 DEF Open, Busy, Todo
<1>2. TypeOK'
  <2>1. \A d \in Calls : state'[d] \in States
    BY <1>1, InterruptedFacts DEF Inv, TypeOK, AbortThenDie
  <2>2. \A d \in Calls : answer'[d] \in Answers
    BY <2>1, AnswerFacts DEF Inv, TypeOK, AbortThenDie
  <2> QED BY <2>1, <2>2 DEF Inv, TypeOK, AbortThenDie, Die
<1>3. \A d \in Calls : d > n => FreshCall(d)'
  BY <1>1 DEF Inv, TypeOK, Fresh, FreshCall, AbortThenDie, Die, Unanswered, LastRound, Made
<1>4. ASSUME NEW d \in Made PROVE Rests(d)
  <2>1. d \in Calls /\ WorkerCall(d) /\ AnsweredCall(d) /\ state[d] \in States
    BY <1>0 DEF Inv, TypeOK, Worker, Answered
  <2>0. /\ phase'[d] = "done" /\ body'[d] \in {"none", "over"} /\ turn' = "off"
        /\ state'[d] = IF d \in Open /\ d <= k THEN Interrupted(d) ELSE state[d]
        /\ answer'[d] = IF d \in Unanswered \ Batch(k) /\ d < k
                        THEN AnswerOf(state'[d]) ELSE answer[d]
    BY <2>1 DEF AbortThenDie, Die
  <2>2. CASE d \in Open
    <3>1. answer[d] = "none"
      BY <1>1, <2>1, <2>2 DEF WorkerCall
    <3>2. CASE d <= k
      BY <1>1, <2>0, <2>2, <3>1, <3>2, InterruptedFacts DEF Rests, Settled
    <3>3. CASE ~(d <= k)
      <4>1. ~(d < k) /\ state'[d] = state[d]
        BY <3>3, <2>0, <2>1 DEF Calls
      <4> QED BY <4>1, <2>0 DEF Rests
    <3> QED BY <3>2, <3>3
  <2>3. CASE d \notin Open
    <3>1. phase[d] = "done" /\ state'[d] = state[d] /\ turn = "tools"
      BY <2>0, <2>1, <2>3 DEF Open, Busy, Todo, Inv, TypeOK, AbortThenDie
    <3>2. \/ answer'[d] = answer[d]
          \/ answer'[d] = AnswerOf(state'[d]) /\ round[d] = round[n]
      BY <2>0 DEF Unanswered, LastRound
    <3> QED BY <2>0, <2>1, <3>1, <3>2 DEF Rests, AnsweredCall
  <2> QED BY <2>2, <2>3
<1> QED BY <1>2, <1>3, <1>4, RestInv DEF AbortThenDie

LEMMA FaultInv == ASSUME Inv, NEW c \in Calls, Fault(c) PROVE Inv'
<1>0. Made \subseteq Calls
  BY ConstantsAssumption DEF ConstantsAssumption, Inv, TypeOK, Made, Calls
<1>1. TypeOK'
  BY DEF Inv, TypeOK, Fault, States
<1>2. \A d \in Calls : d > n => FreshCall(d)'
  BY <1>0 DEF Inv, TypeOK, Fresh, FreshCall, Fault, Busy, Todo, Open, Made
<1>3. ASSUME NEW d \in Made PROVE Rests(d)
  <2>1. d \in Calls /\ WorkerCall(d)
    BY <1>0 DEF Inv, Worker
  <2>2. /\ phase'[d] = "done" /\ turn' = "off" /\ answer'[d] = answer[d]
        /\ state'[d] = IF d \in Busy \ {c} THEN "settled_error" ELSE state[d]
        /\ body'[d] = IF d \in Open /\ body[d] = "gate" THEN "over" ELSE body[d]
    BY <2>1 DEF Fault
  <2>3. CASE d \in Busy
    <3>1. answer[d] = "none" /\ (AtWork(d) \/ AtAsk(d))
      BY <2>1, <2>3 DEF Busy, WorkerCall
    <3> QED BY <2>2, <2>3, <3>1 DEF Rests, AtWork, AtAsk, Acted, Settled, Open
  <2>4. CASE d \notin Busy
    <3>1. body[d] # "gate"
      BY <2>1, <2>4 DEF Busy, WorkerCall, Inv, TypeOK
    <3> QED BY <2>1, <2>2, <2>4, <3>1 DEF Rests, WorkerCall
  <2> QED BY <2>3, <2>4
<1> QED BY <1>1, <1>2, <1>3, RestInv DEF Fault

\* A deadline: a side effect ends the batches, a read only its own call.
LEMMA DeadlineInv == ASSUME Inv, NEW c \in Calls, Deadline(c) PROVE Inv'
<1>0. Made \subseteq Calls /\ c \in Made /\ phase[c] = "busy" /\ WorkerCall(c)
  BY ConstantsAssumption
     DEF ConstantsAssumption, Inv, TypeOK, Made, Calls, Deadline, Busy, Worker
<1>1. CASE SideEffect(c)
  <2>0. /\ GiveUp(Open)
        /\ answer' = [d \in Calls |-> IF d \in Unanswered THEN AnswerOf(state'[d]) ELSE answer[d]]
        /\ turn' \in {"off", "model"}
        /\ UNCHANGED <<n, round, op, ident, passed, acts>>
    BY <1>1 DEF Deadline
  <2>1. \A d \in Open : d \in Made /\ d \in Calls /\ phase[d] # "done"
    BY <1>0 DEF Open, Busy, Todo
  <2>2. TypeOK'
    <3>1. \A d \in Calls : state'[d] \in States
      BY <2>0, <2>1, InterruptedFacts DEF Inv, TypeOK, GiveUp
    <3>2. \A d \in Calls : answer'[d] \in Answers
      BY <2>0, <3>1, AnswerFacts DEF Inv, TypeOK
    <3> QED BY <2>0, <3>1, <3>2 DEF Inv, TypeOK, GiveUp
  <2>3. \A d \in Calls : d > n => FreshCall(d)'
    BY <2>0, <2>1 DEF Inv, TypeOK, Fresh, FreshCall, GiveUp, Unanswered, LastRound, Made
  <2>4. ASSUME NEW d \in Made PROVE Rests(d)
    <3>1. d \in Calls /\ WorkerCall(d) /\ AnsweredCall(d) /\ state[d] \in States
      BY <1>0 DEF Inv, TypeOK, Worker, Answered
    <3>2. CASE d \in Open
      <4>1. state'[d] = Interrupted(d) /\ phase'[d] = "done"
            /\ body'[d] = IF body[d] = "gate" THEN "over" ELSE body[d]
        BY <2>0, <3>1, <3>2 DEF GiveUp
      <4>2. answer[d] = "none" /\ (answer'[d] = answer[d] \/ answer'[d] = AnswerOf(state'[d]))
        BY <2>0, <2>1, <3>1, <3>2 DEF WorkerCall
      <4> QED BY <2>1, <3>1, <3>2, <4>1, <4>2, InterruptedFacts DEF Rests, Settled
    <3>3. CASE d \notin Open
      <4>1. phase[d] = "done" /\ state'[d] = state[d] /\ phase'[d] = phase[d]
            /\ body'[d] = body[d] /\ turn = "tools"
        BY <1>0, <2>0, <3>1, <3>3 DEF GiveUp, Open, Busy, Todo, Inv, TypeOK, WorkerCall
      <4>2. \/ answer'[d] = answer[d]
            \/ answer'[d] = AnswerOf(state'[d]) /\ round[d] = round[n]
        BY <2>0, <3>1 DEF Unanswered, LastRound
      <4> QED BY <3>1, <4>1, <4>2 DEF Rests, WorkerCall, AnsweredCall
    <3> QED BY <3>2, <3>3
  <2> QED BY <2>0, <2>2, <2>3, <2>4, RestInv
<1>2. CASE ~SideEffect(c)
  <2>1. /\ Settle(c, "settled_error") /\ "settled_error" \in Settled
        /\ body' = body \/ body' = [body EXCEPT ![c] = "over"]
        /\ body'[c] # "gate"
        /\ UNCHANGED <<n, round, op, ident, passed, acts>>
    <3>1. body' = [body EXCEPT ![c] = IF @ = "gate" THEN "over" ELSE @]
      BY <1>2 DEF Deadline
    <3>2. body' = body \/ body' = [body EXCEPT ![c] = "over"]
      BY <3>1 DEF Inv, TypeOK
    <3>3. body'[c] # "gate"
      BY <3>1 DEF Inv, TypeOK
    <3> QED BY <1>2, <3>2, <3>3 DEF Deadline, Settled
  <2>2. ident' \in [Calls -> Ops \cup Actions \cup {"none"}]
    BY <2>1 DEF Inv, TypeOK
  <2> QED BY <1>0, <2>1, <2>2, SettleInv
<1> QED BY <1>1, <1>2

-----------------------------------------------------------------------------
\* The steps that report a result.

LEMMA ReconcileInv == ASSUME Inv, NEW c \in Calls, Reconcile(c) PROVE Inv'
<1>1. c \in Made /\ phase[c] = "todo" /\ body[c] = "none"
  BY DEF Reconcile, Next1, Todo, Inv, Worker, WorkerCall
<1>2. PICK s \in Settled : Settle(c, s)
  BY DEF Reconcile, Reusable, Settled
<1>3. /\ body' = body /\ body'[c] # "gate" /\ UNCHANGED <<n, round, op, passed, acts>>
      /\ ident' \in [Calls -> Ops \cup Actions \cup {"none"}]
  BY <1>1 DEF Reconcile, Inv, TypeOK
<1> QED BY <1>1, <1>2, <1>3, SettleInv

LEMMA GateBlocksInv == ASSUME Inv, NEW c \in Calls, GateBlocks(c) PROVE Inv'
<1>1. c \in Made /\ phase[c] = "busy" /\ AtGate(c)
  BY DEF GateBlocks, AtGate
<1>2. PICK s \in Settled : Settle(c, s)
  BY DEF GateBlocks, Reusable, Settled
<1>3. /\ body' = [body EXCEPT ![c] = "over"] /\ body'[c] # "gate"
      /\ UNCHANGED <<n, round, op, passed, acts>>
  BY DEF GateBlocks, Inv, TypeOK
<1>4. ident' \in [Calls -> Ops \cup Actions \cup {"none"}]
  BY <1>1, RenameType DEF GateBlocks
<1> QED BY <1>1, <1>2, <1>3, <1>4, SettleInv

LEMMA DenyInv == ASSUME Inv, NEW c \in Calls, Deny(c) PROVE Inv'
<1>1. c \in Made /\ phase[c] = "busy" /\ Settle(c, "settled_error") /\ "settled_error" \in Settled
  BY DEF Deny, Busy, Settled
<1>2. /\ body' = [body EXCEPT ![c] = "over"] /\ body'[c] # "gate"
      /\ UNCHANGED <<n, round, op, passed, acts>>
      /\ ident' \in [Calls -> Ops \cup Actions \cup {"none"}]
  BY DEF Deny, Inv, TypeOK
<1> QED BY <1>1, <1>2, SettleInv

LEMMA ReturnInv == ASSUME Inv, NEW c \in Calls, Return(c) PROVE Inv'
<1>0. /\ body' = [body EXCEPT ![c] = "over"] /\ body'[c] # "gate"
      /\ UNCHANGED <<n, round, op, passed, acts>>
      /\ ident' \in [Calls -> Ops \cup Actions \cup {"none"}]
      /\ c \in Made /\ body[c] = "working"
  BY DEF Return, Inv, TypeOK
<1>1. CASE phase[c] = "busy"
  <2>1. PICK s \in Settled : Settle(c, s)
    BY <1>1 DEF Return
  <2> QED BY <1>0, <1>1, <2>1, SettleInv
<1>2. CASE phase[c] # "busy"
  <2> USE DEF Made
  <2>0. /\ Made' = Made /\ Made \subseteq Calls /\ n \in Nat /\ phase[c] = "done"
        /\ UNCHANGED <<n, round, op, passed, acts, state, phase, answer, turn, ident>>
    BY <1>0, <1>2, ConstantsAssumption
       DEF Return, Inv, TypeOK, Calls, ConstantsAssumption, Worker, WorkerCall
  <2>1. TypeOK'
    BY <1>0, <2>0 DEF Inv, TypeOK
  <2>2. Fresh'
    BY <1>0, <2>0 DEF Inv, TypeOK, Fresh, FreshCall
  <2>3. Known'
    BY <2>0 DEF Inv, Known
  <2>4. Worker'
    <3> SUFFICES ASSUME NEW d \in Made PROVE WorkerCall(d)'
      BY <2>0 DEF Worker
    <3> QED BY <1>0, <2>0 DEF Inv, TypeOK, Worker, WorkerCall, AtWork, AtAsk
  <2>5. Effects'
    <3> SUFFICES ASSUME NEW d \in Made PROVE EffectsCall(d)'
      BY <2>0 DEF Effects
    <3> QED BY <1>0, <2>0 DEF Inv, TypeOK, Effects, EffectsCall, SideEffect
  <2>6. Answered'
    BY <2>0 DEF Inv, Answered, AnsweredCall
  <2> QED BY <2>1, <2>2, <2>3, <2>4, <2>5, <2>6 DEF Inv
<1> QED BY <1>1, <1>2

-----------------------------------------------------------------------------
\* A response adds calls, with their rows or (when the process dies) without.
NewCalls(s) == n + 1..n + Len(s)

LEMMA RespondFacts ==
  ASSUME Inv, NEW s \in Responses, n + Len(s) <= MaxCalls, Respond(s) \/ RespondThenDie(s)
  PROVE
    /\ /\ Len(s) \in Nat \ {0} /\ \A i \in 1..Len(s) : s[i] \in Ops
       /\ n \in Nat /\ MaxCalls \in Nat
       /\ NewCalls(s) \subseteq Calls /\ Made \subseteq Calls /\ n' = n + Len(s)
       /\ n' \in NewCalls(s)
    /\ /\ Made' = Made \cup NewCalls(s)
       /\ \A d \in Made : d \notin NewCalls(s) /\ d \in Calls
       /\ \A d \in NewCalls(s) : d > n /\ d - n \in 1..Len(s)
       /\ \A d \in Calls : d > n' => d > n /\ d \notin NewCalls(s)
    /\ /\ round' \in [Calls -> Nat]
       /\ op' = [c \in Calls |-> IF c \in NewCalls(s) THEN s[c - n] ELSE op[c]]
    /\ /\ \A d \in Made : round'[d] = round[d] /\ round'[d] < round'[n'] /\ op'[d] = op[d]
       /\ \A d \in NewCalls(s) : round'[d] = round'[n'] /\ op'[d] \in Ops /\ FreshCall(d)
    /\ UNCHANGED <<answer, passed, acts>> /\ turn = "model"
    /\ \A d \in Made : /\ phase[d] = "done" /\ phase'[d] = "done" /\ state'[d] = state[d]
                       /\ ident'[d] = ident[d]
                       /\ body'[d] = body[d] \/ (body[d] # "none" /\ body'[d] = "over")
    /\ \A d \in NewCalls(s) :
         \/ /\ turn' = "tools" /\ state'[d] = "prepared" /\ phase'[d] = "todo"
            /\ body'[d] = "none" /\ ident'[d] = op'[d]
         \/ /\ turn' = "off" /\ state'[d] = "absent" /\ phase'[d] = "done"
            /\ body'[d] = "none"
<1> USE DEF NewCalls
<1>0. /\ Len(s) \in Nat \ {0} /\ \A i \in 1..Len(s) : s[i] \in Ops
      /\ n \in Nat /\ MaxCalls \in Nat
      /\ NewCalls(s) \subseteq Calls /\ Made \subseteq Calls /\ n' = n + Len(s) /\ n' \in NewCalls(s)
  <2>1. PICK k \in 1..Width : s \in [1..k -> Ops]
    BY DEF Responses
  <2>2. k \in Nat \ {0}
    BY ConstantsAssumption DEF ConstantsAssumption
  <2>3. Len(s) = k
    BY <2>1, <2>2
  <2>4. n \in Nat /\ MaxCalls \in Nat /\ n <= MaxCalls /\ n' = n + Len(s)
    BY ConstantsAssumption
       DEF ConstantsAssumption, Inv, TypeOK, AddCalls, Respond, RespondThenDie
  <2> QED BY <2>1, <2>2, <2>3, <2>4 DEF Made, Calls
<1>1. /\ Made' = Made \cup NewCalls(s)
      /\ \A d \in Made : d \notin NewCalls(s) /\ d \in Calls
      /\ \A d \in NewCalls(s) : d > n /\ d - n \in 1..Len(s)
      /\ \A d \in Calls : d > n' => d > n /\ d \notin NewCalls(s)
  BY <1>0 DEF Made, Calls
<1>2. PICK r \in Nat : /\ \A d \in Made : round[d] < r
                       /\ round' = [c \in Calls |-> IF c \in NewCalls(s) THEN r ELSE round[c]]
  <2>1. round' = [c \in Calls |-> IF c \in NewCalls(s)
                                  THEN (IF n = 0 THEN 0 ELSE round[n]) + 1 ELSE round[c]]
    BY DEF AddCalls, Respond, RespondThenDie
  <2>2. CASE n = 0
    <3>1. Made = {}
      BY <2>2 DEF Made
    <3> QED BY <2>1, <2>2, <3>1
  <2>3. CASE n # 0
    <3>1. n \in Made /\ n \in Calls /\ round[n] \in Nat
      BY <2>3, <1>0, <1>1 DEF Made, Inv, TypeOK
    <3>2. \A d \in Made : round[d] \in Nat /\ round[d] <= round[n]
      BY <1>1 DEF Inv, TypeOK, Known
    <3>3. \A d \in Made : round[d] < round[n] + 1
      BY <3>1, <3>2
    <3>4. round' = [c \in Calls |-> IF c \in NewCalls(s) THEN round[n] + 1 ELSE round[c]]
      BY <2>1, <2>3
    <3> QED BY <3>1, <3>3, <3>4
  <2> QED BY <2>2, <2>3
<1>3. op' = [c \in Calls |-> IF c \in NewCalls(s) THEN s[c - n] ELSE op[c]]
  BY DEF AddCalls, Respond, RespondThenDie
<1>4. /\ \A d \in Made : round'[d] = round[d] /\ round'[d] < round'[n'] /\ op'[d] = op[d]
      /\ \A d \in NewCalls(s) : round'[d] = round'[n'] /\ round'[d] = r /\ op'[d] \in Ops /\ FreshCall(d)
  BY <1>0, <1>1, <1>2, <1>3 DEF Inv, Fresh
<1>5. UNCHANGED <<answer, passed, acts>> /\ turn = "model"
  BY DEF Respond, RespondThenDie
<1>6. \A d \in Made : /\ phase[d] = "done" /\ phase'[d] = "done" /\ state'[d] = state[d]
                      /\ ident'[d] = ident[d]
                      /\ body'[d] = body[d] \/ (body[d] # "none" /\ body'[d] = "over")
  BY <1>0, <1>1 DEF Respond, RespondThenDie, Die, Inv, TypeOK, Worker, WorkerCall
<1>7. \A d \in NewCalls(s) :
        \/ /\ turn' = "tools" /\ state'[d] = "prepared" /\ phase'[d] = "todo"
           /\ body'[d] = "none" /\ ident'[d] = op'[d]
        \/ /\ turn' = "off" /\ state'[d] = "absent" /\ phase'[d] = "done"
           /\ body'[d] = "none"
  BY <1>0, <1>3, <1>4 DEF Respond, RespondThenDie, Die, FreshCall
<1>8. round' \in [Calls -> Nat]
  BY <1>2 DEF Inv, TypeOK
<1> QED BY <1>0, <1>1, <1>3, <1>4, <1>5, <1>6, <1>7, <1>8

LEMMA RespondInv ==
  ASSUME Inv, NEW s \in Responses, n + Len(s) <= MaxCalls, Respond(s) \/ RespondThenDie(s)
  PROVE  Inv'
<1>0. /\ Len(s) \in Nat \ {0} /\ \A i \in 1..Len(s) : s[i] \in Ops
      /\ n \in Nat /\ MaxCalls \in Nat
      /\ NewCalls(s) \subseteq Calls /\ Made \subseteq Calls /\ n' = n + Len(s)
      /\ n' \in NewCalls(s)
  BY RespondFacts
<1>1. /\ Made' = Made \cup NewCalls(s)
      /\ \A d \in Made : d \notin NewCalls(s) /\ d \in Calls
      /\ \A d \in NewCalls(s) : d > n /\ d - n \in 1..Len(s)
      /\ \A d \in Calls : d > n' => d > n /\ d \notin NewCalls(s)
  BY RespondFacts
<1>2. /\ round' \in [Calls -> Nat]
      /\ op' = [c \in Calls |-> IF c \in NewCalls(s) THEN s[c - n] ELSE op[c]]
  BY RespondFacts
<1>4. /\ \A d \in Made : round'[d] = round[d] /\ round'[d] < round'[n'] /\ op'[d] = op[d]
      /\ \A d \in NewCalls(s) : round'[d] = round'[n'] /\ op'[d] \in Ops /\ FreshCall(d)
  BY RespondFacts
<1>5. UNCHANGED <<answer, passed, acts>> /\ turn = "model"
  BY RespondFacts
<1>6. \A d \in Made : /\ phase[d] = "done" /\ phase'[d] = "done" /\ state'[d] = state[d]
                      /\ ident'[d] = ident[d]
                      /\ body'[d] = body[d] \/ (body[d] # "none" /\ body'[d] = "over")
  BY RespondFacts
<1>7. \A d \in NewCalls(s) :
        \/ /\ turn' = "tools" /\ state'[d] = "prepared" /\ phase'[d] = "todo"
           /\ body'[d] = "none" /\ ident'[d] = op'[d]
        \/ /\ turn' = "off" /\ state'[d] = "absent" /\ phase'[d] = "done"
           /\ body'[d] = "none"
  BY RespondFacts
<1>8. TypeOK'
  <2>1. n' \in 0..MaxCalls
    BY <1>0
  <2>2. round' \in [Calls -> Nat]
    BY <1>2
  <2>3. op' \in [Calls -> Ops \cup {"none"}]
    BY <1>1, <1>0, <1>2 DEF Inv, TypeOK
  <2>4. ident' \in [Calls -> Ops \cup Actions \cup {"none"}]
    <3>1. CASE Respond(s)
      <4>1. ident' = [c \in Calls |-> IF c \in NewCalls(s) THEN s[c - n] ELSE ident[c]]
        BY <3>1 DEF Respond, NewCalls
      <4> QED BY <4>1, <1>1, <1>0 DEF Inv, TypeOK
    <3>2. CASE RespondThenDie(s)
      BY <3>2 DEF Inv, TypeOK, RespondThenDie
    <3> QED BY <3>1, <3>2
  <2>5. state' \in [Calls -> States]
    BY DEF Inv, TypeOK, Respond, RespondThenDie, States
  <2>6. /\ phase' \in [Calls -> {"todo", "busy", "done"}]
        /\ body' \in [Calls -> {"none", "working", "gate", "over"}]
        /\ turn' \in {"off", "model", "tools"}
    BY DEF Inv, TypeOK, Respond, RespondThenDie, Die
  <2> QED BY <1>5, <2>1, <2>2, <2>3, <2>4, <2>5, <2>6 DEF Inv, TypeOK
<1>9. Fresh'
  <2> SUFFICES ASSUME NEW d \in Calls, d > n' PROVE FreshCall(d)'
    BY DEF Fresh
  <2>1. d > n /\ d \notin NewCalls(s) /\ FreshCall(d)
    BY <1>1 DEF Inv, Fresh
  <2> QED BY <2>1, <1>5 DEF FreshCall, Respond, RespondThenDie, Die, NewCalls
<1>10. Known'
  <2> SUFFICES ASSUME NEW d \in Made' PROVE op'[d] \in Ops /\ round'[d] <= round'[n']
    BY DEF Known
  <2>1. d \in Calls /\ n' \in Calls
    BY <1>0, <1>1
  <2> QED BY <2>1, <1>1, <1>4, <1>8 DEF Inv, Known, TypeOK
<1>11. Worker'
  <2> SUFFICES ASSUME NEW d \in Made' PROVE WorkerCall(d)'
    BY DEF Worker
  <2>1. CASE d \in Made
    BY <2>1, <1>6 DEF Inv, Worker, WorkerCall
  <2>2. CASE d \in NewCalls(s)
    BY <2>2, <1>4, <1>5, <1>7 DEF FreshCall, WorkerCall
  <2> QED BY <1>1, <2>1, <2>2
<1>12. Effects'
  <2> SUFFICES ASSUME NEW d \in Made' PROVE EffectsCall(d)'
    BY DEF Effects
  <2>1. CASE d \in Made
    BY <2>1, <1>4, <1>5, <1>6 DEF Inv, Effects, EffectsCall, SideEffect, Worker, WorkerCall
  <2>2. CASE d \in NewCalls(s)
    <3>1. op'[d] \in Ops /\ passed'[d] = 0 /\ acts'[d] = 0 /\ body'[d] = "none"
      BY <2>2, <1>4, <1>5, <1>7 DEF FreshCall
    <3>2. Len(Gates[op'[d]]) \in Nat
      BY <3>1, GatesType
    <3> QED BY <3>1, <3>2 DEF EffectsCall
  <2> QED BY <1>1, <2>1, <2>2
<1>13. Answered'
  <2> SUFFICES ASSUME NEW d \in Made' PROVE AnsweredCall(d)'
    BY DEF Answered
  <2>1. CASE d \in Made
    <3>1. d \in Calls /\ n' \in Calls /\ round'[d] # round'[n']
      <4>1. d \in Calls /\ n' \in Calls
        BY <2>1, <1>0, <1>1
      <4> QED BY <4>1, <2>1, <1>4, <1>8 DEF TypeOK
    <3> QED BY <2>1, <3>1, <1>5, <1>6 DEF Inv, Answered, AnsweredCall
  <2>2. CASE d \in NewCalls(s)
    BY <2>2, <1>4, <1>5, <1>7 DEF FreshCall, AnsweredCall
  <2> QED BY <1>1, <2>1, <2>2
<1> QED BY <1>8, <1>9, <1>10, <1>11, <1>12, <1>13 DEF Inv

-----------------------------------------------------------------------------
LEMMA StutterInv == ASSUME Inv, UNCHANGED vars PROVE Inv'
BY ZenonT(30) DEF vars, Inv, TypeOK, Fresh, FreshCall, Known, Worker, WorkerCall, AtWork, AtAsk,
       Effects, EffectsCall, SideEffect, Answered, AnsweredCall, Made

LEMMA NextInv == Inv /\ [Next]_vars => Inv'
<1> SUFFICES ASSUME Inv, [Next]_vars PROVE Inv'
  OBVIOUS
<1>1. CASE Crash \/ NewTurn \/ EndTurn \/ Abort
  BY <1>1, CrashInv, NewTurnInv, EndTurnInv, AbortInv
<1>2. CASE Model
  BY <1>2, RespondInv DEF Model
<1>3. ASSUME NEW c \in Calls, Call(c) PROVE Inv'
  BY <1>3, StartInv, ReconcileInv, GateAllowsInv, GateAsksInv, GateBlocksInv, GateThrowsInv,
     ApproveInv, DenyInv, ActInv, ReturnInv, ReturnThenDieInv, AbortThenDieInv, DeadlineInv,
     FaultInv DEF Call
<1>4. CASE UNCHANGED vars
  BY <1>4, StutterInv
<1> QED BY <1>1, <1>2, <1>3, <1>4 DEF Next

LEMMA InvHolds == Spec => []Inv
BY InitInv, NextInv, PTL DEF Spec

\* The type invariant of the conversation's calls.
THEOREM TypeCorrect == Spec => []TypeOK
<1>1. Inv => TypeOK
  BY DEF Inv
<1> QED BY <1>1, InvHolds, PTL

\* Transcript and rows never contradict each other, whatever crash, stop or
\* deadline cuts a batch short.
THEOREM AnswersAgreeTheorem == Spec => []AnswersAgree
<1>1. Inv => AnswersAgree
  BY DEF Inv, Answered, AnsweredCall, AnswersAgree
<1> QED BY <1>1, InvHolds, PTL

\* With one gate at most an effect comes after the gate, and the row of a call
\* past its gate is never "not started".
LEMMA EffectsSeen ==
  ASSUME OneGate, Inv, NEW c \in Made, acts[c] > 0
  PROVE  state[c] \in Acted
<1>1. /\ c \in Calls /\ op[c] \in Ops /\ Len(Gates[op[c]]) \in Nat /\ Len(Gates[op[c]]) <= 1
      /\ EffectsCall(c) /\ passed[c] \in Nat /\ acts[c] \in Nat
      /\ Len(Gates[op[c]]) = 0 => Gates[op[c]] = <<>>
  BY GatesType, ConstantsAssumption
     DEF ConstantsAssumption, OneGate, Inv, Known, TypeOK, Effects, Calls, Made
<1>2. body[c] # "gate"
  <2> SUFFICES ASSUME body[c] = "gate" PROVE FALSE
    OBVIOUS
  <2>1. passed[c] = 0 /\ Len(Gates[op[c]]) = 1
    BY <1>1 DEF EffectsCall
  <2>2. Len(<<>>) = 0
    OBVIOUS
  <2>3. Gates[op[c]] = <<>> => Len(Gates[op[c]]) = Len(<<>>)
    OBVIOUS
  <2>4. Gates[op[c]] # <<>>
    <3>1. Len(Gates[op[c]]) # 0
      BY <2>1
    <3> QED BY <2>2, <2>3, <3>1, Zenon
  <2> QED BY <1>1, <2>1, <2>4 DEF EffectsCall
<1> QED BY <1>1, <1>2 DEF EffectsCall

\* A call reported as not started had no effect, when no tool passes two
\* gates: stop, pause, deadline, crash and repair included.
THEOREM NotStartedDidNothingTheorem ==
  ASSUME OneGate PROVE Spec => []NotStartedDidNothing
<1>1. Inv => NotStartedDidNothing
  <2> SUFFICES ASSUME Inv, NEW c \in Made,
                      state[c] = "not_started" \/ answer[c] = "not_started", acts[c] # 0
               PROVE  FALSE
    BY DEF NotStartedDidNothing
  <2>1. acts[c] > 0
    BY ConstantsAssumption DEF ConstantsAssumption, Inv, TypeOK, Calls, Made
  <2> QED BY <2>1, EffectsSeen DEF Acted, Settled, Inv, Answered, AnsweredCall
<1> QED BY <1>1, InvHolds, PTL

\* Resume, restart and boot find every call that had an effect and reported no
\* result, when no tool passes two gates.
THEOREM GuardSeesEffectsTheorem ==
  ASSUME OneGate PROVE Spec => []GuardSeesEffects
<1>1. Inv => GuardSeesEffects
  <2> SUFFICES ASSUME Inv, NEW c \in Made, acts[c] > 0, state[c] \notin Settled
               PROVE  c \in UnknownCalls
    BY DEF GuardSeesEffects
  <2>1. state[c] \in {"unknown", "started"}
    BY EffectsSeen DEF Acted
  <2>2. SideEffect(c)
    BY DEF Inv, Effects, EffectsCall
  <2> QED BY <2>1, <2>2 DEF UnknownCalls
<1> QED BY <1>1, InvHolds, PTL

-----------------------------------------------------------------------------
\* The order of the calls.  A request to the model goes out when every call is
\* answered, so a call of an earlier response is.
Past == \A c \in Made : round[c] # round[n] => answer[c] # "none"

\* In the middle of the batches a call that is done has reported a result, and
\* lacks its answer only while another call of its batch is open.
InTurn ==
  turn = "tools" => \A c \in LastRound : phase[c] = "done" =>
     /\ state[c] \in Settled
     /\ answer[c] = "none" => \E d \in Open : d \in Batch(c)

\* Every call before a side effect that ever started has reported a result.
Ordered ==
  \A c, d \in Made :
    round[c] = round[d] /\ c < d /\ SideEffect(d) /\ body[d] # "none" => state[c] \in Settled
Bodies == \A c \in Made : acts[c] > 0 \/ passed[c] > 0 => body[c] # "none"

\* A side effect is alone at work.
Alone == \A c, d \in Busy : c # d => ~SideEffect(d)

\* A row carries the identity of its operation or of one of its gates, and none
\* of unknown outcome carries one that a side effect at work has been checked for.
Identity(c) == {op[c]} \cup {Gates[op[c]][i] : i \in 1..Len(Gates[op[c]])}
Named == \A c \in Made : state[c] # "absent" => ident[c] \in Identity(c)
Cleared(d) ==
  \A c \in Made \ {d} : state[c] \in {"unknown", "started"} =>
    /\ ident[c] # op[d]
    /\ passed[d] > 0 \/ body[d] = "gate" => ident[c] # Gates[op[d]][1]
Checked == \A d \in Busy : SideEffect(d) => Cleared(d)

Line == /\ EveryCallAnswered /\ Past /\ InTurn /\ Ordered /\ Bodies
        /\ Alone /\ Named /\ Checked

LEMMA MadeCalls ==
  ASSUME Inv PROVE n \in Nat /\ MaxCalls \in Nat /\ Made \subseteq Calls /\ Calls \subseteq Nat
BY ConstantsAssumption DEF ConstantsAssumption, Inv, TypeOK, Made, Calls

\* A batch is an equivalence class of the last response.
LEMMA BatchSym ==
  ASSUME Inv, NEW c \in LastRound, NEW d \in Batch(c)
  PROVE  d \in LastRound /\ c \in Batch(d)
<1>1. /\ c \in Nat /\ d \in Nat /\ d \in LastRound
      /\ \A e \in LastRound : e \in Nat
  BY MadeCalls DEF Batch, LastRound
<1>2. CASE d = c
  BY <1>2
<1>3. CASE d # c
  <2>1. \A e \in LastRound : (c <= e /\ e <= d) \/ (d <= e /\ e <= c) => op[e] \in Parallel
    BY <1>3 DEF Batch
  <2>2. op[d] \in Parallel
    BY <1>1, <2>1
  <2> QED BY <1>1, <2>1, <2>2 DEF Batch
<1> QED BY <1>2, <1>3

LEMMA BatchJoin ==
  ASSUME Inv, NEW c \in LastRound, NEW d \in Batch(c), NEW e \in Batch(c)
  PROVE  e \in Batch(d)
<1>1. /\ c \in Nat /\ d \in Nat /\ e \in Nat /\ d \in LastRound /\ e \in LastRound
      /\ \A x \in LastRound : x \in Nat
  BY MadeCalls DEF Batch, LastRound
<1>2. CASE op[c] \notin Parallel
  BY <1>2 DEF Batch
<1>3. CASE op[c] \in Parallel
  <2>1. \A x \in LastRound :
            \/ (c <= x /\ x <= d) \/ (d <= x /\ x <= c)
            \/ (c <= x /\ x <= e) \/ (e <= x /\ x <= c)
            => op[x] \in Parallel
    BY <1>3 DEF Batch
  <2>2. \A x \in LastRound : (d <= x /\ x <= e) \/ (e <= x /\ x <= d) =>
           \/ (c <= x /\ x <= d) \/ (d <= x /\ x <= c)
           \/ (c <= x /\ x <= e) \/ (e <= x /\ x <= c)
    BY <1>1
  <2>3. op[d] \in Parallel
    BY <1>1, <2>1
  <2> QED BY <1>1, <2>1, <2>2, <2>3 DEF Batch
<1> QED BY <1>2, <1>3

LEMMA LineInit == Init => Line
BY DEF Init, Line, EveryCallAnswered, Past, InTurn, LastRound, Ordered, Bodies, Alone, Busy,
       Named, Checked, Made

\* What a step after which no worker is busy may do to one call.
Calm(d) ==
  /\ phase'[d] = "done"
  /\ state[d] \in Settled => state'[d] \in Settled
  /\ state[d] = "absent" => state'[d] = "absent"
  /\ body'[d] = "none" <=> body[d] = "none"
  /\ answer[d] # "none" => answer'[d] # "none"

LEMMA LineRest ==
  ASSUME Inv, Line, UNCHANGED <<n, round, op, ident, passed, acts>>,
         turn' = "model" => \A d \in Made : answer'[d] # "none", turn' # "tools",
         \A d \in Made : Calm(d)
  PROVE  Line'
<1> USE DEF Calm
<1>0. Made' = Made
  BY DEF Made
<1>1. EveryCallAnswered' /\ Past' /\ InTurn'
  BY <1>0 DEF Line, EveryCallAnswered, Past, InTurn
<1>2. Ordered' /\ Bodies'
  BY <1>0 DEF Line, Ordered, Bodies, SideEffect
<1>3. Alone' /\ Checked'
  BY <1>0 DEF Alone, Checked, Busy
<1>4. Named'
  BY <1>0 DEF Line, Named, Identity
<1> QED BY <1>1, <1>2, <1>3, <1>4 DEF Line

\* The steps of one call that settle none.
LEMMA LineQuiet ==
  ASSUME Inv, Line, NEW c \in Made, UNCHANGED <<n, round, op, answer, turn>>,
         \A d \in Made \ {c} :
           /\ state'[d] = state[d] /\ ident'[d] = ident[d] /\ phase'[d] = phase[d]
           /\ body'[d] = body[d] /\ passed'[d] = passed[d] /\ acts'[d] = acts[d],
         phase'[c] = "done" <=> phase[c] = "done",
         phase'[c] = "busy" \/ (phase'[c] = "done" /\ state'[c] = state[c] /\ ident'[c] = ident[c]),
         state[c] \notin Settled \/ state'[c] \in Settled,
         body'[c] # "none",
         body[c] = "none" /\ SideEffect(c) =>
           \A d \in Made : round[d] = round[c] /\ d < c => state[d] \in Settled,
         phase'[c] = "busy" => \A d \in Busy \ {c} : ~SideEffect(c) /\ ~SideEffect(d),
         state'[c] # "absent" => ident'[c] \in Identity(c),
         phase'[c] = "busy" /\ SideEffect(c) => Cleared(c)'
  PROVE  Line'
<1>0. /\ Made' = Made /\ LastRound' = LastRound /\ Made \subseteq Calls /\ Calls \subseteq Nat
      /\ \A d \in Made : Batch(d)' = Batch(d)
      /\ \A d \in Made : phase[d] \in {"todo", "busy", "done"}
  BY MadeCalls DEF Made, LastRound, Batch, Inv, TypeOK
<1>1. EveryCallAnswered' /\ Past'
  BY <1>0 DEF Line, EveryCallAnswered, Past
<1>2. Open' = Open
  BY <1>0 DEF Open, Busy, Todo
<1>3. InTurn'
  <2> SUFFICES ASSUME turn = "tools", NEW d \in LastRound, phase'[d] = "done"
               PROVE  /\ state'[d] \in Settled
                      /\ answer[d] = "none" => \E e \in Open : e \in Batch(d)
    BY <1>0, <1>2 DEF InTurn, LastRound
  <2>1. d \in Made /\ phase[d] = "done" /\ state'[d] = state[d]
    BY DEF LastRound
  <2> QED BY <2>1 DEF Line, InTurn
<1>4. Ordered'
  <2> SUFFICES ASSUME NEW a \in Made, NEW b \in Made, round[a] = round[b], a < b,
                      SideEffect(b), body'[b] # "none"
               PROVE  state'[a] \in Settled
    BY <1>0 DEF Ordered, SideEffect
  <2>1. state[a] \in Settled
    BY DEF Line, Ordered
  <2> QED BY <2>1
<1>5. Bodies'
  BY <1>0 DEF Line, Bodies
<1>6. Alone'
  <2> SUFFICES ASSUME NEW a \in Busy', NEW b \in Busy', a # b PROVE ~SideEffect(b)
    BY DEF Alone, SideEffect
  <2>1. a \in Made /\ b \in Made /\ (a # c => a \in Busy) /\ (b # c => b \in Busy)
    BY <1>0 DEF Busy
  <2>2. CASE a = c \/ b = c
    BY <2>1, <2>2, <1>0 DEF Busy
  <2>3. CASE a # c /\ b # c
    BY <2>1, <2>3 DEF Line, Alone
  <2> QED BY <2>2, <2>3
<1>7. Named'
  BY <1>0 DEF Line, Named, Identity
<1>8. Checked'
  <2> SUFFICES ASSUME NEW d \in Busy', SideEffect(d) PROVE Cleared(d)'
    BY DEF Checked, SideEffect
  <2>1. CASE d = c
    BY <2>1, <1>0 DEF Busy
  <2>2. CASE d # c
    <3>1. d \in Busy /\ d \in Made /\ passed'[d] = passed[d] /\ body'[d] = body[d]
      BY <2>2, <1>0 DEF Busy
    <3>2. Cleared(d)
      BY <3>1 DEF Line, Checked
    <3>3. state'[c] = state[c] /\ ident'[c] = ident[c]
      BY <3>1, <2>2
    <3> QED BY <3>1, <3>2, <3>3, <1>0 DEF Cleared
  <2> QED BY <2>1, <2>2
<1> QED BY <1>1, <1>3, <1>4, <1>5, <1>6, <1>7, <1>8 DEF Line

\* A call that reports a result; the last of its batch publishes the batch.
LEMMA LineSettle ==
  ASSUME Inv, Line, NEW c \in Made, phase[c] # "done", NEW s \in Settled, Settle(c, s),
         \A d \in Made : /\ body'[d] = "none" <=> body[d] = "none"
                         /\ d # c => body'[d] = body[d] /\ ident'[d] = ident[d],
         ident'[c] \in Identity(c),
         UNCHANGED <<n, round, op, passed, acts>>
  PROVE  Line'
<1>0. /\ Made' = Made /\ LastRound' = LastRound /\ Made \subseteq Calls /\ Calls \subseteq Nat
      /\ \A d \in Made : Batch(d)' = Batch(d)
      /\ \A d \in Made : phase[d] \in {"todo", "busy", "done"} /\ state[d] \in States
  BY MadeCalls DEF Made, LastRound, Batch, Inv, TypeOK
<1>1. /\ turn = "tools" /\ c \in LastRound /\ c \in Open /\ c \in Batch(c) /\ c \in Calls
  <2>1. turn = "tools" /\ round[c] = round[n] /\ c \in Calls
    BY <1>0 DEF Inv, Worker, WorkerCall
  <2>2. c \in Open
    BY <1>0 DEF Open, Busy, Todo
  <2>3. c \in LastRound
    BY <2>1 DEF LastRound
  <2>4. c \in Batch(c)
    <3>1. c \in Nat /\ \A e \in LastRound : e \in Nat
      BY <1>0 DEF LastRound
    <3>2. \A e \in Nat : c <= e /\ e <= c => e = c
      BY <3>1
    <3> QED BY <2>3, <3>1, <3>2 DEF Batch
  <2> QED BY <2>1, <2>2, <2>3, <2>4
<1>2. /\ state'[c] = s /\ phase'[c] = "done"
      /\ \A d \in Made \ {c} : state'[d] = state[d] /\ phase'[d] = phase[d]
      /\ \A d \in Made : answer'[d] =
           IF Open \cap Batch(c) = {c} /\ d \in Batch(c) THEN AnswerOf(state'[d]) ELSE answer[d]
      /\ turn' = IF Open = {c} THEN "model" ELSE "tools"
  BY <1>0, <1>1 DEF Settle, Inv, TypeOK
<1>3. Open' = Open \ {c} /\ Busy' = Busy \ {c}
  BY <1>0, <1>2 DEF Open, Busy, Todo
<1>4. \A d \in Made : answer'[d] = "none" =>
         answer[d] = "none" /\ ~(Open \cap Batch(c) = {c} /\ d \in Batch(c))
  BY <1>2 DEF AnswerOf
<1>5. ASSUME NEW d \in LastRound, phase'[d] = "done", answer'[d] = "none"
      PROVE  \E e \in Open : e # c /\ e \in Batch(d)
  <2>0. d \in Made
    BY DEF LastRound
  <2>1. CASE d \in Batch(c)
    <3>1. PICK e \in Open \cap Batch(c) : e # c
      BY <2>0, <2>1, <1>1, <1>4, <1>5
    <3> QED BY <1>1, <2>1, <3>1, BatchJoin
  <2>2. CASE d \notin Batch(c)
    <3>1. d # c /\ phase[d] = "done" /\ answer[d] = "none"
      BY <2>0, <2>2, <1>1, <1>2, <1>4, <1>5
    <3>2. PICK e \in Open : e \in Batch(d)
      BY <3>1, <1>1 DEF Line, InTurn
    <3>3. e # c
      BY <2>2, <3>2, BatchSym
    <3> QED BY <3>2, <3>3
  <2> QED BY <2>1, <2>2
<1>6. Past'
  BY <1>0, <1>2, <1>4 DEF Line, Past
<1>7. EveryCallAnswered'
  <2> SUFFICES ASSUME Open = {c}, NEW d \in Made, answer'[d] = "none" PROVE FALSE
    BY <1>0, <1>2 DEF EveryCallAnswered
  <2>1. d \in LastRound
    BY <1>4 DEF Line, Past, LastRound
  <2>2. phase'[d] = "done"
    BY <1>0, <1>2 DEF Open, Busy, Todo
  <2> QED BY <2>1, <2>2, <1>5
<1>8. InTurn'
  <2> SUFFICES ASSUME NEW d \in LastRound, phase'[d] = "done"
               PROVE  /\ state'[d] \in Settled
                      /\ answer'[d] = "none" => \E e \in Open' : e \in Batch(d)
    BY <1>0 DEF InTurn, LastRound
  <2>1. state'[d] \in Settled
    BY <1>1, <1>2 DEF Line, InTurn, LastRound
  <2> QED BY <2>1, <1>3, <1>5
<1>9. \A d \in Made : state[d] \in Settled => state'[d] \in Settled
  BY <1>2
<1>10. Ordered' /\ Bodies'
  BY <1>0, <1>9 DEF Line, Ordered, Bodies, SideEffect
<1>11. Alone'
  BY <1>3 DEF Line, Alone, SideEffect
<1>12. Named'
  BY <1>0, <1>2 DEF Line, Named, Identity
<1>13. Checked'
  <2> SUFFICES ASSUME NEW d \in Busy', SideEffect(d) PROVE Cleared(d)'
    BY DEF Checked, SideEffect
  <2>1. d \in Busy /\ d # c /\ d \in Made
    BY <1>3 DEF Busy
  <2>2. Cleared(d)
    BY <2>1 DEF Line, Checked
  <2>3. state'[c] \notin {"unknown", "started"}
    BY <1>2 DEF Settled
  <2> QED BY <2>1, <2>2, <2>3, <1>0, <1>2 DEF Cleared
<1> QED BY <1>6, <1>7, <1>8, <1>10, <1>11, <1>12, <1>13 DEF Line

-----------------------------------------------------------------------------
LEMMA LineRests ==
  ASSUME Inv, Line,
         Crash \/ NewTurn \/ EndTurn \/ Abort
           \/ \E c \in Calls : ReturnThenDie(c) \/ AbortThenDie(c) \/ Fault(c)
  PROVE  Line'
<1>0. /\ \A d \in Made : /\ d \in Calls /\ phase[d] \in {"todo", "busy", "done"}
                         /\ state[d] \in States
                         /\ phase[d] # "done" => turn = "tools" /\ answer[d] = "none"
                                                 /\ state[d] \notin Settled \cup {"absent"}
      /\ \A s \in States : AnswerOf(s) # "none"
      /\ \A d \in Open : d \in Made /\ phase[d] # "done"
  <2>1. \A d \in Made : /\ d \in Calls /\ phase[d] \in {"todo", "busy", "done"}
                        /\ state[d] \in States
    BY MadeCalls DEF Inv, TypeOK
  <2>2. \A d \in Made : phase[d] # "done" => turn = "tools" /\ answer[d] = "none"
                                                /\ state[d] \notin Settled \cup {"absent"}
    BY <2>1 DEF Inv, Worker, WorkerCall, AtWork, AtAsk, Settled
  <2>3. \A s \in States : AnswerOf(s) # "none"
    BY AnswerFacts
  <2> QED BY <2>1, <2>2, <2>3 DEF Open, Busy, Todo
<1>1. CASE Crash
  <2>1. ASSUME NEW d \in Made PROVE Calm(d)
    BY <1>0, <1>1 DEF Crash, Die, durable, Calm
  <2> QED BY <1>1, <2>1, LineRest DEF Crash, Die, durable
<1>2. CASE NewTurn
  <2>0. /\ turn = "off" /\ turn' = "model" /\ phase' = phase /\ body' = body
        /\ UNCHANGED <<n, round, op, ident, passed, acts>>
    BY <1>2 DEF NewTurn
  <2>1. ASSUME NEW d \in Made PROVE Calm(d) /\ answer'[d] # "none"
    <3>1. phase[d] = "done"
      BY <1>0, <2>0
    <3>2. /\ state'[d] = IF d \notin Unanswered THEN state[d]
                         ELSE CASE state[d] = "prepared" -> "not_started"
                                [] state[d] = "started"  -> "unknown"
                                [] OTHER                 -> state[d]
          /\ answer'[d] = IF d \in Unanswered THEN AnswerOf(state[d]) ELSE answer[d]
      BY <1>0, <1>2 DEF NewTurn
    <3>3. /\ state[d] \in Settled => state'[d] \in Settled
          /\ state[d] = "absent" => state'[d] = "absent"
      BY <3>2 DEF Settled
    <3>4. answer'[d] # "none"
      <4>1. CASE d \in Unanswered
        BY <1>0, <3>2, <4>1
      <4>2. CASE d \notin Unanswered
        BY <3>2, <4>2 DEF Line, Past, Unanswered, LastRound
      <4> QED BY <4>1, <4>2
    <3> QED BY <2>0, <3>1, <3>3, <3>4 DEF Calm
  <2> QED BY <2>0, <2>1, LineRest
<1>3. CASE EndTurn
  <2>1. ASSUME NEW d \in Made PROVE Calm(d)
    BY <1>0, <1>3 DEF EndTurn, durable, Calm
  <2> QED BY <1>3, <2>1, LineRest DEF EndTurn, durable
<1>4. CASE Abort
  <2>1. ASSUME NEW d \in Made PROVE Calm(d)
    <3>1. /\ state'[d] = IF d \in Open THEN Interrupted(d) ELSE state[d]
          /\ phase'[d] = IF d \in Open THEN "done" ELSE phase[d]
          /\ body'[d] = IF d \in Open /\ body[d] = "gate" THEN "over" ELSE body[d]
          /\ answer'[d] = IF d \in Unanswered THEN AnswerOf(state'[d]) ELSE answer[d]
      BY <1>0, <1>4 DEF Abort, GiveUp
    <3>2. phase'[d] = "done"
      BY <1>0, <3>1 DEF Open, Busy, Todo
    <3> QED BY <1>0, <3>1, <3>2 DEF Calm, Unanswered
  <2> QED BY <1>4, <2>1, LineRest DEF Abort
<1>5. ASSUME NEW c \in Calls, ReturnThenDie(c) PROVE Line'
  <2>0. /\ turn' = "off" /\ UNCHANGED <<n, round, op, ident, answer, passed, acts>>
        /\ c \in Made /\ phase[c] # "done" /\ body[c] = "working"
        /\ \A d \in Made : d # c => state'[d] = state[d]
        /\ \A d \in Made : /\ phase'[d] = "done"
                           /\ body'[d] = IF body[d] = "none" THEN "none" ELSE "over"
    BY <1>0, <1>5 DEF ReturnThenDie, SettleThenDie, Die, Busy, Inv, TypeOK
  <2>1. ASSUME NEW d \in Made PROVE Calm(d)
    BY <1>0, <2>0 DEF Calm
  <2> QED BY <2>0, <2>1, LineRest
<1>6. ASSUME NEW c \in Calls, AbortThenDie(c) PROVE Line'
  <2>1. ASSUME NEW d \in Made PROVE Calm(d)
    <3>1. /\ state'[d] = IF d \in Open /\ d <= c THEN Interrupted(d) ELSE state[d]
          /\ phase'[d] = "done"
          /\ body'[d] = IF body[d] = "none" THEN "none" ELSE "over"
          /\ answer'[d] = IF d \in Unanswered \ Batch(c) /\ d < c
                          THEN AnswerOf(state'[d]) ELSE answer[d]
      BY <1>0, <1>6 DEF AbortThenDie, Die
    <3> QED BY <1>0, <3>1 DEF Calm, Unanswered
  <2> QED BY <1>6, <2>1, LineRest DEF AbortThenDie, Die
<1>7. ASSUME NEW c \in Calls, Fault(c) PROVE Line'
  <2>0. /\ turn' = "off" /\ UNCHANGED <<n, round, op, ident, answer, passed, acts>>
    BY <1>7 DEF Fault
  <2>1. ASSUME NEW d \in Made PROVE Calm(d)
    <3>1. /\ state'[d] = IF d \in Busy \ {c} THEN "settled_error" ELSE state[d]
          /\ phase'[d] = "done"
          /\ body'[d] = IF d \in Open /\ body[d] = "gate" THEN "over" ELSE body[d]
      BY <1>0, <1>7 DEF Fault
    <3> QED BY <1>0, <2>0, <3>1 DEF Calm, Busy, Settled
  <2> QED BY <2>0, <2>1, LineRest
<1> QED BY <1>1, <1>2, <1>3, <1>4, <1>5, <1>6, <1>7

-----------------------------------------------------------------------------
\* The steps that report a result.

LEMMA GateIdentity ==
  ASSUME Inv, NEW c \in Made, AtGate(c)
  PROVE  /\ c \in Calls /\ passed[c] \in Nat /\ Len(Gates[op[c]]) \in Nat
         /\ Action(c) \in Identity(c)
         /\ passed[c] = 0 => Action(c) = Gates[op[c]][1]
<1>1. c \in Calls /\ op[c] \in Ops /\ passed[c] \in Nat /\ Len(Gates[op[c]]) \in Nat
  BY MadeCalls, GatesType DEF Inv, Known, TypeOK
<1>2. passed[c] + 1 \in 1..Len(Gates[op[c]])
  BY <1>1 DEF AtGate
<1>3. passed[c] = 0 => passed[c] + 1 = 1
  OBVIOUS
<1> QED BY <1>1, <1>2, <1>3 DEF Action, Identity

LEMMA LineSettles ==
  ASSUME Inv, Line, NEW c \in Calls,
         \/ Reconcile(c) \/ GateBlocks(c) \/ Deny(c)
         \/ Return(c) /\ phase[c] = "busy"
         \/ Deadline(c) /\ ~SideEffect(c)
  PROVE  Line'
<1>1. /\ c \in Made /\ phase[c] # "done" /\ ident[c] \in Identity(c)
      /\ phase[c] = "busy" => body[c] # "none"
      /\ body \in [Calls -> {"none", "working", "gate", "over"}]
      /\ ident \in [Calls -> Ops \cup Actions \cup {"none"}]
  <2>1. c \in Made /\ phase[c] # "done"
    BY DEF Reconcile, Next1, Todo, GateBlocks, AtGate, Deny, Busy, Return, Deadline
  <2>2. WorkerCall(c) /\ phase[c] \in {"todo", "busy", "done"}
    BY <2>1 DEF Inv, Worker, TypeOK
  <2>3. state[c] # "absent"
    BY <2>1, <2>2 DEF WorkerCall, AtWork, AtAsk
  <2> QED BY <2>1, <2>2, <2>3 DEF WorkerCall, AtWork, AtAsk, Line, Named, Inv, TypeOK
<1>2. UNCHANGED <<n, round, op, passed, acts>>
  BY DEF Reconcile, GateBlocks, Deny, Return, Deadline
<1>3. \E s \in Settled : Settle(c, s)
  BY DEF Reconcile, GateBlocks, Deny, Return, Deadline, Reusable, Settled
<1>4. \A d \in Made : /\ body'[d] = "none" <=> body[d] = "none"
                      /\ d # c => body'[d] = body[d]
  <2>1. \/ body' = body
        \/ phase[c] = "busy" /\ body' = [body EXCEPT ![c] = "over"]
        \/ phase[c] = "busy" /\ body' = [body EXCEPT ![c] = IF @ = "gate" THEN "over" ELSE @]
    BY DEF Reconcile, GateBlocks, Deny, Return, Deadline, Busy
  <2> QED BY <1>1, <2>1, MadeCalls
<1>5. /\ ident'[c] \in Identity(c)
      /\ \A d \in Made : d # c => ident'[d] = ident[d]
  <2>1. CASE ident' = ident
    BY <1>1, <2>1
  <2>2. CASE GateBlocks(c) /\ SideEffect(c)
    <3>1. ident' = [ident EXCEPT ![c] = Action(c)] /\ AtGate(c)
      BY <2>2 DEF GateBlocks, Rename
    <3> QED BY <1>1, <3>1, GateIdentity, MadeCalls
  <2> QED BY <2>1, <2>2 DEF Reconcile, GateBlocks, Rename, Deny, Return, Deadline
<1>6. PICK s \in Settled : Settle(c, s)
  BY <1>3
<1>7. \A d \in Made : /\ body'[d] = "none" <=> body[d] = "none"
                      /\ d # c => body'[d] = body[d] /\ ident'[d] = ident[d]
  BY <1>4, <1>5
<1> QED BY <1>1, <1>2, <1>5, <1>6, <1>7, LineSettle

\* The deadline of a side effect ends the batches, and answers every call.
LEMMA LineDeadline ==
  ASSUME Inv, Line, NEW c \in Calls, Deadline(c), SideEffect(c)
  PROVE  Line'
<1>0. /\ GiveUp(Open) /\ turn' \in {"off", "model"}
      /\ answer' = [d \in Calls |-> IF d \in Unanswered THEN AnswerOf(state'[d]) ELSE answer[d]]
      /\ UNCHANGED <<n, round, op, ident, passed, acts>>
  BY DEF Deadline
<1>1. ASSUME NEW d \in Made PROVE Calm(d) /\ answer'[d] # "none"
  <2>1. d \in Calls /\ phase[d] \in {"todo", "busy", "done"} /\ WorkerCall(d)
    BY MadeCalls DEF Inv, TypeOK, Worker
  <2>2. /\ state'[d] = IF d \in Open THEN Interrupted(d) ELSE state[d]
        /\ phase'[d] = IF d \in Open THEN "done" ELSE phase[d]
        /\ body'[d] = IF d \in Open /\ body[d] = "gate" THEN "over" ELSE body[d]
        /\ answer'[d] = IF d \in Unanswered THEN AnswerOf(state'[d]) ELSE answer[d]
    BY <1>0, <2>1 DEF GiveUp
  <2>3. phase'[d] = "done"
    BY <2>1, <2>2 DEF Open, Busy, Todo
  <2>4. d \in Open => state[d] \notin Settled \cup {"absent"}
    BY <2>1 DEF Open, Busy, Todo, WorkerCall, AtWork, AtAsk, Settled
  <2>5. answer'[d] # "none"
    BY <2>2 DEF Line, Past, Unanswered, LastRound, AnswerOf
  <2> QED BY <2>2, <2>3, <2>4, <2>5 DEF Calm
<1> QED BY <1>0, <1>1, LineRest

-----------------------------------------------------------------------------
\* The steps of one call that settle none.

\* A side effect starts alone, after every call before it has settled.
LEMMA LineStart == ASSUME Inv, Line, NEW c \in Calls, Start(c) PROVE Line'
<1>1. /\ c \in Made /\ phase[c] = "todo" /\ Next1(c) /\ ~Blocked(c, op[c])
      /\ turn = "tools" /\ c \in LastRound /\ state[c] = "prepared" /\ body[c] = "none"
  BY DEF Start, Next1, Todo, Inv, Worker, WorkerCall, LastRound
<1>2. /\ UNCHANGED <<n, round, op, ident, answer, turn, passed, acts>>
      /\ state'[c] = "started" /\ phase'[c] = "busy" /\ body'[c] = "working"
      /\ \A d \in Made \ {c} : /\ state'[d] = state[d] /\ phase'[d] = phase[d]
                               /\ body'[d] = body[d]
  BY MadeCalls DEF Start, Inv, TypeOK
<1>3. ASSUME NEW d \in Busy \ {c} PROVE ~SideEffect(c) /\ ~SideEffect(d)
  <2>1. d \in Batch(c)
    BY <1>1 DEF Next1
  <2>2. op[c] \in Parallel
    BY <2>1 DEF Batch
  <2>3. op[d] \in Parallel
    BY <2>1, BatchReads, MadeCalls
  <2> QED BY <2>2, <2>3, ConstantsAssumption DEF ConstantsAssumption, SideEffect
<1>4. ASSUME SideEffect(c), NEW d \in Made, round[d] = round[c], d < c PROVE state[d] \in Settled
  <2>1. d \notin Busy
    BY <1>1, <1>3, <1>4, MadeCalls
  <2>2. d \notin Todo
    BY <1>1, <1>4, MadeCalls DEF Next1
  <2>3. phase[d] = "done"
    BY <2>1, <2>2, MadeCalls DEF Busy, Todo, Inv, TypeOK
  <2> QED BY <1>1, <1>4, <2>3 DEF Line, InTurn, LastRound
<1>5. ident'[c] \in Identity(c)
  BY <1>1, <1>2 DEF Line, Named
<1>6. passed[c] = 0
  BY <1>1, MadeCalls DEF Line, Bodies, Inv, TypeOK
<1>7. SideEffect(c) => Cleared(c)'
  BY <1>1, <1>2, <1>6 DEF Cleared, Blocked, Prior, Made
<1> QED BY <1>1, <1>2, <1>3, <1>4, <1>5, <1>7, LineQuiet DEF Settled

LEMMA LineGate ==
  ASSUME Inv, Line, NEW c \in Calls, GateAllows(c) \/ GateAsks(c)
  PROVE  Line'
<1>1. /\ c \in Made /\ AtGate(c) /\ phase[c] = "busy" /\ c \in Busy /\ body[c] = "working"
      /\ state[c] = "started" /\ ~Blocked(c, Action(c)) /\ Rename(c)
  BY DEF GateAllows, GateAsks, AtGate, Busy, Inv, Worker, WorkerCall, AtWork, AtAsk
<1>2. /\ UNCHANGED <<n, round, op, answer, turn, phase, acts>>
      /\ state'[c] \in {"started", "waiting_for_approval"} /\ body'[c] \in {"working", "gate"}
      /\ \A d \in Made \ {c} : /\ state'[d] = state[d] /\ passed'[d] = passed[d]
                               /\ body'[d] = body[d] /\ ident'[d] = ident[d]
      /\ ident'[c] = IF SideEffect(c) THEN Action(c) ELSE ident[c]
  BY <1>1, MadeCalls DEF GateAllows, GateAsks, Rename, Inv, TypeOK
<1>3. \A d \in Busy \ {c} : ~SideEffect(c) /\ ~SideEffect(d)
  BY <1>1 DEF Line, Alone
<1>4. ident'[c] \in Identity(c)
  BY <1>1, <1>2, GateIdentity DEF Line, Named
<1>5. ASSUME SideEffect(c) PROVE Cleared(c)'
  <2>1. Cleared(c)
    BY <1>1, <1>5 DEF Line, Checked
  <2>2. \A d \in Made \ {c} : state[d] \in {"unknown", "started"} => ident[d] # Action(c)
    BY <1>1, <1>5 DEF Blocked, Prior
  <2>3. \A d \in Made \ {c} : state[d] \in {"unknown", "started"} => ident[d] # Gates[op[c]][1]
    BY <1>1, <2>1, <2>2, GateIdentity DEF Cleared
  <2> QED BY <1>2, <2>1, <2>3 DEF Cleared, Made
<1> QED BY <1>1, <1>2, <1>3, <1>4, <1>5, LineQuiet DEF Settled

LEMMA LineApprove == ASSUME Inv, Line, NEW c \in Calls, Approve(c) PROVE Line'
<1>1. /\ c \in Made /\ phase[c] = "busy" /\ c \in Busy /\ body[c] = "gate"
      /\ state[c] = "waiting_for_approval"
  BY DEF Approve, Busy, Inv, Worker, WorkerCall, AtWork, AtAsk
<1>2. /\ UNCHANGED <<n, round, op, ident, answer, turn, phase, acts>>
      /\ state'[c] = "started" /\ body'[c] = "working"
      /\ \A d \in Made \ {c} : /\ state'[d] = state[d] /\ passed'[d] = passed[d]
                               /\ body'[d] = body[d]
  BY <1>1, MadeCalls DEF Approve, Inv, TypeOK
<1>3. \A d \in Busy \ {c} : ~SideEffect(c) /\ ~SideEffect(d)
  BY <1>1 DEF Line, Alone
<1>4. ident'[c] \in Identity(c)
  BY <1>1, <1>2 DEF Line, Named
<1>5. ASSUME SideEffect(c) PROVE Cleared(c)'
  <2>1. Cleared(c)
    BY <1>1, <1>5 DEF Line, Checked
  <2> QED BY <1>1, <1>2, <2>1 DEF Cleared, Made
<1> QED BY <1>1, <1>2, <1>3, <1>4, <1>5, LineQuiet DEF Settled

\* The body goes on or ends: nothing but its effects and itself changes.
LEMMA LineBody ==
  ASSUME Inv, Line, NEW c \in Calls,
         Act(c) \/ GateThrows(c) \/ (Return(c) /\ phase[c] # "busy")
  PROVE  Line'
<1>1. /\ c \in Made /\ body[c] = "working" /\ state[c] # "absent"
      /\ phase[c] \in {"busy", "done"}
  BY DEF Act, GateThrows, Return, AtGate, Inv, TypeOK, Worker, WorkerCall, Acted, Settled
<1>2. /\ UNCHANGED <<n, round, op, state, ident, answer, turn, phase, passed>>
      /\ body'[c] \in {"working", "over"} /\ (phase[c] = "busy" => body'[c] = body[c])
      /\ \A d \in Made \ {c} : body'[d] = body[d] /\ acts'[d] = acts[d]
  BY <1>1, MadeCalls DEF Act, GateThrows, Return, durable, Inv, TypeOK
<1>3. phase[c] = "busy" => \A d \in Busy \ {c} : ~SideEffect(c) /\ ~SideEffect(d)
  BY <1>1 DEF Line, Alone, Busy
<1>4. ident'[c] \in Identity(c)
  BY <1>1, <1>2 DEF Line, Named
<1>5. phase[c] = "busy" /\ SideEffect(c) => Cleared(c)'
  BY <1>1, <1>2 DEF Line, Checked, Busy, Cleared, Made
<1> QED BY <1>1, <1>2, <1>3, <1>4, <1>5, LineQuiet DEF Settled

-----------------------------------------------------------------------------
LEMMA LineRespond ==
  ASSUME Inv, Line, NEW s \in Responses, n + Len(s) <= MaxCalls, Respond(s) \/ RespondThenDie(s)
  PROVE  Line'
<1>0. /\ Made' = Made \cup NewCalls(s) /\ n' \in NewCalls(s)
      /\ \A d \in Made : d \notin NewCalls(s) /\ d \in Calls
      /\ NewCalls(s) \subseteq Calls /\ round' \in [Calls -> Nat]
      /\ UNCHANGED <<answer, passed, acts>> /\ turn = "model"
  BY RespondFacts
<1>1. \A d \in Made : /\ round'[d] = round[d] /\ round'[d] # round'[n'] /\ op'[d] = op[d]
                      /\ phase'[d] = "done" /\ state'[d] = state[d] /\ ident'[d] = ident[d]
                      /\ body'[d] = "none" <=> body[d] = "none"
  <2>1. \A d \in Made : /\ round'[d] = round[d] /\ round'[d] < round'[n'] /\ op'[d] = op[d]
                        /\ phase'[d] = "done" /\ state'[d] = state[d] /\ ident'[d] = ident[d]
                        /\ body'[d] = body[d] \/ (body[d] # "none" /\ body'[d] = "over")
    BY RespondFacts
  <2>2. \A d \in Made : round'[d] \in Nat /\ round'[n'] \in Nat
    BY <1>0
  <2> QED BY <2>1, <2>2
<1>2. \A d \in NewCalls(s) :
        /\ round'[d] = round'[n'] /\ passed'[d] = 0 /\ acts'[d] = 0 /\ body'[d] = "none"
        /\ \/ turn' = "tools" /\ phase'[d] = "todo" /\ ident'[d] = op'[d]
           \/ turn' = "off" /\ phase'[d] = "done" /\ state'[d] = "absent"
  <2>1. \A d \in NewCalls(s) : round'[d] = round'[n'] /\ FreshCall(d)
    BY RespondFacts
  <2>2. \A d \in NewCalls(s) :
          \/ /\ turn' = "tools" /\ state'[d] = "prepared" /\ phase'[d] = "todo"
             /\ body'[d] = "none" /\ ident'[d] = op'[d]
          \/ /\ turn' = "off" /\ state'[d] = "absent" /\ phase'[d] = "done"
             /\ body'[d] = "none"
    BY RespondFacts
  <2> QED BY <1>0, <2>1, <2>2 DEF FreshCall
<1>3. turn' # "model"
  BY <1>0, <1>2
<1>4. EveryCallAnswered' /\ Past'
  BY <1>0, <1>1, <1>2, <1>3 DEF Line, EveryCallAnswered, Past
<1>5. InTurn'
  BY <1>0, <1>1, <1>2 DEF InTurn, LastRound
<1>6. Ordered'
  <2> SUFFICES ASSUME NEW a \in Made', NEW b \in Made', round'[a] = round'[b], a < b,
                      SideEffect(b)', body'[b] # "none"
               PROVE  state'[a] \in Settled
    BY DEF Ordered
  <2>1. b \in Made /\ a \in Made
    BY <1>0, <1>1, <1>2
  <2> QED BY <1>1, <2>1 DEF Line, Ordered, SideEffect
<1>7. Bodies'
  BY <1>0, <1>1, <1>2 DEF Line, Bodies
<1>8. Alone' /\ Checked'
  BY <1>0, <1>1, <1>2 DEF Alone, Checked, Busy
<1>9. Named'
  <2> SUFFICES ASSUME NEW d \in Made', state'[d] # "absent" PROVE ident'[d] \in Identity(d)'
    BY DEF Named
  <2>1. CASE d \in Made
    BY <1>1, <2>1 DEF Line, Named, Identity
  <2>2. CASE d \in NewCalls(s)
    BY <1>2, <2>2 DEF Identity
  <2> QED BY <1>0, <2>1, <2>2
<1> QED BY <1>4, <1>5, <1>6, <1>7, <1>8, <1>9 DEF Line

LEMMA LineStutter == ASSUME Inv, Line, UNCHANGED vars PROVE Line'
<1>1. EveryCallAnswered' /\ Past' /\ Ordered' /\ Bodies' /\ Named'
  BY DEF vars, Line, EveryCallAnswered, Past, Ordered, Bodies, Named, Identity, SideEffect, Made
<1>2. Alone' /\ Checked'
  BY DEF vars, Line, Alone, Checked, Cleared, SideEffect, Busy, Made
<1>3. /\ LastRound' = LastRound /\ Open' = Open
      /\ \A c \in LastRound : Batch(c)' = Batch(c)
  BY DEF vars, LastRound, Open, Busy, Todo, Batch, Made
<1>4. InTurn'
  BY <1>3 DEF vars, Line, InTurn
<1> QED BY <1>1, <1>2, <1>4 DEF Line

LEMMA LineNext == Inv /\ Line /\ [Next]_vars => Line'
<1> SUFFICES ASSUME Inv, Line, [Next]_vars PROVE Line'
  OBVIOUS
<1>1. CASE Crash \/ NewTurn \/ EndTurn \/ Abort
  BY <1>1, LineRests
<1>2. CASE Model
  BY <1>2, LineRespond DEF Model
<1>3. ASSUME NEW c \in Calls, Call(c) PROVE Line'
  <2>1. CASE ReturnThenDie(c) \/ AbortThenDie(c) \/ Fault(c)
    BY <2>1, LineRests
  <2>2. CASE Start(c) \/ GateAllows(c) \/ GateAsks(c) \/ Approve(c) \/ Act(c) \/ GateThrows(c)
    BY <2>2, LineStart, LineGate, LineApprove, LineBody
  <2>3. CASE Reconcile(c) \/ GateBlocks(c) \/ Deny(c)
    BY <2>3, LineSettles
  <2>4. CASE Return(c)
    BY <2>4, LineSettles, LineBody
  <2>5. CASE Deadline(c)
    BY <2>5, LineSettles, LineDeadline
  <2> QED BY <1>3, <2>1, <2>2, <2>3, <2>4, <2>5 DEF Call
<1>4. CASE UNCHANGED vars
  BY <1>4, LineStutter
<1> QED BY <1>1, <1>2, <1>3, <1>4 DEF Next

LEMMA LineHolds == Spec => [](Inv /\ Line)
<1>1. Init => Inv /\ Line
  BY InitInv, LineInit
<1>2. (Inv /\ Line) /\ [Next]_vars => (Inv /\ Line)'
  BY NextInv, LineNext
<1> QED BY <1>1, <1>2, PTL DEF Spec

\* A request to the model answers every call of the transcript, and no answer
\* contradicts its row: the batches, their workers, stop, pause, deadlines,
\* failed writes, crashes and repair included.
THEOREM CallsAnsweredTheorem == Spec => []CallsAnswered
<1>1. Inv /\ Line => CallsAnswered
  BY DEF Inv, Answered, AnsweredCall, AnswersAgree, Line, CallsAnswered
<1> QED BY <1>1, LineHolds, PTL

\* Nothing behind a call of unknown outcome has an effect in its response, for
\* any batches and any number of workers and gates.
THEOREM NothingAfterUnknownTheorem == Spec => []NothingAfterUnknown
<1>1. Inv /\ Line => NothingAfterUnknown
  <2> SUFFICES ASSUME Inv, Line, NEW c \in Made, NEW d \in Made, round[c] = round[d], c < d,
                      state[c] = "unknown", acts[d] # 0
               PROVE  FALSE
    BY DEF NothingAfterUnknown
  <2>1. acts[d] > 0
    BY MadeCalls DEF Inv, TypeOK
  <2>2. SideEffect(d) /\ body[d] # "none"
    BY <2>1 DEF Inv, Effects, EffectsCall, Line, Bodies
  <2> QED BY <2>2 DEF Line, Ordered, Settled
<1> QED BY <1>1, LineHolds, PTL

\* No call takes effect while an equal one has an unknown outcome, when no tool
\* passes two gates: the row keeps the identity of the last gate only.
THEOREM NoRepeatOfUnknownTheorem ==
  ASSUME OneGate PROVE Spec => NoRepeatOfUnknown
<1>1. ASSUME Inv, Line, Next, NEW c \in Made, NEW d \in Busy, acts'[d] # acts[d], c # d,
             op[c] = op[d], state[c] \in {"unknown", "started"}
      PROVE  FALSE
  <2>1. Act(d)
    <3>1. ASSUME NEW e \in Calls, Act(e) PROVE e = d
      BY <1>1, <3>1, MadeCalls DEF Act, Busy, Inv, TypeOK
    <3>2. acts' # acts
      BY <1>1
    <3>3. PICK e \in Calls : Act(e)
      BY <1>1, <3>2
         DEF Next, NewTurn, EndTurn, Model, Respond, RespondThenDie, Abort, Crash, Call, Start,
             Reconcile, GateAllows, GateAsks, GateBlocks, GateThrows, Approve, Deny, Return,
             ReturnThenDie, AbortThenDie, Deadline, Fault
    <3> QED BY <3>1, <3>3
  <2>2. /\ SideEffect(d) /\ d \in Made
        /\ Gates[op[d]] = <<>> \/ passed[d] > 0
    BY <1>1, <2>1, MadeCalls DEF Act, Inv, TypeOK
  <2>3. ident[c] # op[c] /\ (passed[d] > 0 => ident[c] # Gates[op[c]][1])
    BY <1>1, <2>2 DEF Line, Checked, Cleared
  <2>4. ident[c] \in Identity(c)
    BY <1>1 DEF Line, Named
  <2>5. op[c] \in Ops /\ Len(Gates[op[c]]) \in Nat /\ Len(Gates[op[c]]) <= 1
    BY <1>1, GatesType DEF OneGate, Inv, Known
  <2>6. PICK i \in 1..Len(Gates[op[c]]) : ident[c] = Gates[op[c]][i]
    BY <2>3, <2>4 DEF Identity
  <2>7. i = 1 /\ Gates[op[c]] # <<>>
    BY <2>5, <2>6
  <2> QED BY <1>1, <2>2, <2>3, <2>6, <2>7
<1>2. Inv /\ Line /\ [Next]_vars =>
        [\A c \in Made, d \in Busy :
           acts'[d] # acts[d] /\ c # d /\ op[c] = op[d] =>
             state[c] \notin {"unknown", "started"}]_vars
  BY <1>1
<1> QED BY <1>2, LineHolds, PTL DEF Spec, NoRepeatOfUnknown

====
