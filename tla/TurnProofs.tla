----------------------------- MODULE TurnProofs -----------------------------
(***************************************************************************)
(* Proofs about Turn for any number of turns, messages and commands.       *)
(*                                                                         *)
(* InTurn orders the turns, which gives their exclusion; Steered says      *)
(* where a message can be while its turn runs; Entries and Owned say where *)
(* a command's entry in the inbox and its completion can be.  Each rests   *)
(* on the ones before it.                                                  *)
(***************************************************************************)
EXTENDS Turn, TLAPS

\* The types of turns, of steering and of commands.
TurnType ==
  /\ kind \in [Turns -> {"chat", "bash", "report"}]
  /\ pc \in [Turns -> {"none", "queued", "setup", "top", "round", "tools", "wait", "end", "over"}]
  /\ after \in [Turns -> 0..N]
  /\ outcome \in [Turns -> {"none", "answered", "stopped", "failed", "crashed"}]
  /\ abort \in [Turns -> BOOLEAN] /\ tail \in 0..N /\ ctl \in 0..N
SteerType ==
  /\ status \in [Msgs -> {"absent", "queued", "returned", "delivered", "cancelled"}]
  /\ run \in [Msgs -> 0..N] /\ bad \in [Msgs -> BOOLEAN]
  /\ session \in 0..N /\ checked \in BOOLEAN /\ got \in [Msgs -> Nat]
CommandType ==
  /\ proc \in [Cmds -> {"none", "launching", "running", "dying", "exited"}]
  /\ owner \in [Cmds -> 0..N] /\ reg \in [Cmds -> {"no", "new", "ready"}]
  /\ queued \subseteq Cmds /\ held \subseteq Cmds /\ cancelled \subseteq Turns
  /\ waits \in [Turns -> {"no", "waiting", "woken"}] /\ ids \in [Turns -> SUBSET Cmds]
  /\ first \in [Cmds -> BOOLEAN] /\ told \in [Cmds -> Nat]

LEMMA TypeParts == TypeOK <=> TurnType /\ SteerType /\ CommandType
BY DEF TypeOK, TurnType, SteerType, CommandType

LEMMA InitType == Init => TypeOK
<1> USE ConstantsAssumption DEF ConstantsAssumption, Init
<1>1. Init => TurnType BY DEF TurnType
<1>b. Init => checked \in BOOLEAN OBVIOUS
<1>2. Init => SteerType BY <1>b DEF SteerType
<1>3. Init => CommandType BY DEF CommandType
<1> QED BY <1>1, <1>2, <1>3, TypeParts

\* What the end of the loop leaves of the types.
LEMMA FinallyType ==
  ASSUME TypeOK, NEW t \in Turns, NEW o \in {"answered", "stopped", "failed"},
         NEW st \in [Msgs -> {"absent", "queued", "returned", "delivered", "cancelled"}],
         NEW rg \in [Cmds -> {"no", "new", "ready"}], Finally(t, o, st, rg),
         got' \in [Msgs -> Nat], held' \in SUBSET Cmds,
         first' \in [Cmds -> BOOLEAN], told' \in [Cmds -> Nat]
  PROVE  TypeOK'
<1>t. TurnType /\ SteerType /\ CommandType BY TypeParts
<1>b. checked' \in BOOLEAN BY <1>t DEF Finally, SteerType
<1>1. TurnType' BY <1>t DEF TurnType, Finally, order
<1>2. SteerType'
  <2>1. status' \in [Msgs -> {"absent", "queued", "returned", "delivered", "cancelled"}]
    BY DEF Finally
  <2>2. session' \in 0..N
    BY <1>t, ConstantsAssumption DEF SteerType, Finally, ConstantsAssumption
  <2>3. UNCHANGED <<run, bad>> BY DEF Finally
  <2> QED BY <2>1, <2>2, <2>3, <1>t, <1>b DEF SteerType
<1>3. CommandType' BY <1>t DEF CommandType, Finally, NoWaiter, Own, order
<1> QED BY <1>1, <1>2, <1>3 DEF TypeOK, TurnType, SteerType, CommandType

LEMMA NextType == TypeOK /\ [Next]_vars => TypeOK'
<1> SUFFICES ASSUME TypeOK, [Next]_vars PROVE TypeOK'
  OBVIOUS
<1> USE ConstantsAssumption DEF ConstantsAssumption, order, turnVars, steerVars, inboxVars
<1>1. ASSUME NEW t \in Turns, NEW k \in {"chat", "bash", "report"}, Ask(t, k) PROVE TypeOK'
  BY <1>1 DEF TypeOK, Ask, Turns
<1>2. ASSUME NEW t \in Turns, Begin(t) PROVE TypeOK'
  <2>b. checked' \in BOOLEAN BY <1>2 DEF TypeOK, Begin
  <2> QED BY <1>2, <2>b DEF TypeOK, Begin, Turns
<1>3. ASSUME NEW t \in Turns, SetUp(t) PROVE TypeOK'
  BY <1>3 DEF TypeOK, SetUp
<1>4. ASSUME NEW t \in Turns, NEW next \in {"round", "top"}, TakeSteering(t, next) PROVE TypeOK'
  <2>1. AfterSteering(t) \in [Msgs -> {"absent", "queued", "returned", "delivered", "cancelled"}]
    BY DEF TypeOK, AfterSteering
  <2>2. got' \in [Msgs -> Nat] /\ UNCHANGED <<held, first, told>>
    BY <1>4 DEF TakeSteering, TypeOK
  <2>3. CASE Passed(t) = Waiting(t)
    BY <2>1, <2>2, <2>3, <1>4, SMTT(20) DEF TakeSteering, TypeOK
  <2>4. CASE Passed(t) # Waiting(t)
    BY <2>1, <2>2, <2>4, <1>4, FinallyType, ZenonT(30) DEF TakeSteering, TypeOK
  <2> QED BY <2>3, <2>4
<1>5. ASSUME NEW t \in Turns, Top(t) \/ AnswerSteered(t) PROVE TypeOK'
  BY <1>4, <1>5 DEF Top, AnswerSteered
<1>6. ASSUME NEW t \in Turns, CallTools(t) \/ AnswerWaits(t) \/ Resume(t) \/ ToolsDone(t) PROVE TypeOK'
  <2>1. CASE CallTools(t) BY <2>1 DEF TypeOK, CallTools
  <2>2. CASE AnswerWaits(t) BY <2>2 DEF TypeOK, AnswerWaits
  <2>3. CASE Resume(t) BY <2>3 DEF TypeOK, Resume, Deliver, NoWaiter, Ready
  <2>4. CASE ToolsDone(t) BY <2>4 DEF TypeOK, ToolsDone, Deliver, Ready
  <2> QED BY <1>6, <2>1, <2>2, <2>3, <2>4
<1>7. ASSUME NEW t \in Turns, Answer(t) \/ Fails(t) PROVE TypeOK'
  BY <1>7, FinallyType DEF Answer, Fails, TypeOK
<1>8. ASSUME NEW t \in Turns, NEW S \in SUBSET Cmds, Recorded(t, S)
      PROVE /\ first' \in [Cmds -> BOOLEAN] /\ told' \in [Cmds -> Nat] /\ held' \in SUBSET Cmds
            /\ Persisted(t) \in [Cmds -> {"no", "new", "ready"}]
  BY <1>8 DEF Recorded, Persisted, TypeOK
<1>9. ASSUME NEW t \in Turns, FailsUnknown(t) \/ Stopped(t) PROVE TypeOK'
  <2>1. Results(t) \in SUBSET Cmds /\ Results(t) \cup (Own(t) \cap queued) \in SUBSET Cmds
    BY DEF Results, Own, TypeOK
  <2>2. CASE FailsUnknown(t)
    BY <2>1, <2>2, <1>8, FinallyType DEF FailsUnknown, TypeOK
  <2>3. CASE Stopped(t)
    BY <2>1, <2>3, <1>8, FinallyType DEF Stopped, TypeOK
  <2> QED BY <1>9, <2>2, <2>3
<1>10. ASSUME NEW t \in Turns, EventsCome(t) \/ Publish(t) \/ End(t) PROVE TypeOK'
  <2>1. CASE EventsCome(t) BY <2>1 DEF TypeOK, EventsCome, NoWaiter, Ready
  <2>2. CASE Publish(t)
    <3>1. Results(t) \in SUBSET Cmds BY DEF Results, Own, TypeOK
    <3> QED BY <2>2, <3>1, <1>8 DEF TypeOK, Publish
  <2>3. CASE End(t) BY <2>3 DEF TypeOK, End
  <2> QED BY <1>10, <2>1, <2>2, <2>3
<1>11. ASSUME NEW t \in Turns, NEW c \in Cmds, Launch(t, c) PROVE TypeOK'
  BY <1>11 DEF TypeOK, Launch, Turns
<1>12. ASSUME NEW t \in Turns, NEW S \in SUBSET Cmds, WaitForEvents(t, S) PROVE TypeOK'
  BY <1>12 DEF TypeOK, WaitForEvents, Ready
<1>13. ASSUME NEW m \in Msgs, CancelSteer(m) PROVE TypeOK'
  BY <1>13 DEF TypeOK, CancelSteer
<1>14. ASSUME NEW m \in Msgs, NEW b \in BOOLEAN, Steer(m, b) PROVE TypeOK'
  BY <1>14 DEF TypeOK, Steer
<1>15. ASSUME NEW c \in Cmds, Spawn(c) \/ NoSpawn(c) \/ Exit(c) PROVE TypeOK'
  BY <1>15 DEF TypeOK, Spawn, NoSpawn, Exit
<1>16. CASE Stop BY <1>16 DEF TypeOK, Stop
<1>17. CASE Crash
  <2>b. checked' \in BOOLEAN BY <1>17 DEF Crash
  <2>1. TurnType' BY <1>17, TypeParts DEF TurnType, Crash
  <2>2. SteerType' BY <1>17, <2>b, TypeParts DEF SteerType, Crash
  <2>3. CommandType' BY <1>17, TypeParts DEF CommandType, Crash
  <2> QED BY <2>1, <2>2, <2>3 DEF TypeOK, TurnType, SteerType, CommandType
<1>18. CASE UNCHANGED vars BY <1>18 DEF TypeOK, vars
<1> QED BY <1>1, <1>2, <1>3, <1>5, <1>6, <1>7, <1>9, <1>10, <1>11, <1>12, <1>13, <1>14,
           <1>15, <1>16, <1>17, <1>18 DEF Next, Loop

\* Every variable of Turn keeps its type.
THEOREM TypeCorrect == Spec => []TypeOK
<1>1. Init => TypeOK BY InitType
<1>2. TypeOK /\ [Next]_vars => TypeOK' BY NextType
<1> QED BY <1>1, <1>2, PTL DEF Spec

-----------------------------------------------------------------------------
(* The order of turns. *)

\* Turns are asked for, begin and end in one order; the tail is the last that
\* is not over, and a turn waits for the one before it.
InTurn ==
  /\ \A t, u \in Turns : u < t =>
       /\ pc[t] # "none" => pc[u] # "none"
       /\ pc[t] \notin {"none", "queued"} => pc[u] = "over"
       /\ pc[t] = "queued" /\ after[t] = 0 => pc[u] = "over"
  /\ \A t \in Turns : pc[t] = "queued" /\ after[t] # 0 => after[t] = t - 1 /\ after[t] \in Turns
  /\ tail = 0 => \A t \in Turns : pc[t] \in {"none", "over"}
  /\ tail # 0 => /\ tail \in Turns /\ pc[tail] \notin {"none", "over"}
                 /\ \A u \in Turns : u > tail => pc[u] = "none"
  /\ \A t \in Turns : Running(t) => ctl = t

LEMMA OneRuns == TypeOK /\ InTurn => OneTurn
BY ConstantsAssumption DEF ConstantsAssumption, InTurn, OneTurn, Running, Turns

\* A step of a turn that runs and still runs after it.
LEMMA WithinTurn ==
  ASSUME TypeOK, InTurn, UNCHANGED <<after, tail, ctl>>,
         \/ UNCHANGED pc
         \/ \E t \in Turns : \E p \in {"setup", "top", "round", "tools", "wait", "end"} :
              Running(t) /\ pc' = [pc EXCEPT ![t] = p]
  PROVE  InTurn'
<1>1. CASE UNCHANGED pc BY <1>1 DEF InTurn, Running
<1>2. ASSUME NEW t \in Turns, NEW p \in {"setup", "top", "round", "tools", "wait", "end"},
             Running(t), pc' = [pc EXCEPT ![t] = p]
      PROVE  InTurn'
  <2>1. /\ \A u \in Turns : pc'[u] = IF u = t THEN p ELSE pc[u]
        /\ p \notin {"none", "queued", "over"} /\ pc[t] \notin {"none", "queued", "over"}
        /\ UNCHANGED <<after, tail, ctl>>
    BY <1>2 DEF Running, TypeOK
  <2>2. \A u, v \in Turns : v < u =>
          /\ pc'[u] # "none" => pc'[v] # "none"
          /\ pc'[u] \notin {"none", "queued"} => pc'[v] = "over"
          /\ pc'[u] = "queued" /\ after'[u] = 0 => pc'[v] = "over"
    BY <2>1 DEF InTurn
  <2>3. \A u \in Turns : Running(u)' => Running(u)
    BY <2>1, <1>2 DEF Running
  <2> QED BY <2>1, <2>2, <2>3 DEF InTurn
<1> QED BY <1>1, <1>2

LEMMA NextInTurn == TypeOK /\ InTurn /\ [Next]_vars => InTurn'
<1> SUFFICES ASSUME TypeOK, InTurn, [Next]_vars PROVE InTurn'
  OBVIOUS
<1> DEFINE Step == \/ UNCHANGED pc
                   \/ \E t \in Turns : \E p \in {"setup", "top", "round", "tools", "wait", "end"} :
                        Running(t) /\ pc' = [pc EXCEPT ![t] = p]
<1> USE DEF order, turnVars
<1>1. ASSUME NEW t \in Turns, NEW k \in {"chat", "bash", "report"}, Ask(t, k) PROVE InTurn'
  <2>1. /\ \A u \in Turns : u < t => pc[u] # "none"
        /\ \A u \in Turns : t <= u => pc[u] = "none"
    BY <1>1, ConstantsAssumption DEF Ask, InTurn, Turns, ConstantsAssumption
  <2>2. tail # 0 => tail = t - 1
    <3> SUFFICES ASSUME tail # 0 PROVE tail = t - 1
      OBVIOUS
    <3>1. tail \in Turns /\ pc[tail] # "none" /\ \A u \in Turns : u > tail => pc[u] = "none"
      BY DEF InTurn
    <3>2. t \in Nat /\ t # 0 /\ tail \in Nat /\ tail # 0 /\ ~(t <= tail)
      BY <2>1, <3>1, ConstantsAssumption DEF Turns, ConstantsAssumption
    <3>3. t > 1 /\ t - 1 \in Turns /\ pc[t - 1] # "none"
      BY <1>1, <3>2, ConstantsAssumption DEF Ask, Turns, ConstantsAssumption
    <3> QED BY <3>1, <3>2, <3>3
  <2>3. t \in Nat /\ t # 0 /\ pc' = [pc EXCEPT ![t] = "queued"] /\ tail' = t
        /\ after' = [after EXCEPT ![t] = tail] /\ ctl' = ctl
    BY <1>1 DEF Ask, Turns
  <2> QED BY <2>1, <2>2, <2>3 DEF InTurn, Running, TypeOK, Turns
<1>2. ASSUME NEW t \in Turns, Begin(t) PROVE InTurn'
  <2>1. \A u \in Turns : u < t => pc[u] = "over"
    BY <1>2, ConstantsAssumption DEF Begin, Free, InTurn, Turns, TypeOK, ConstantsAssumption
  <2>2. \A u \in Turns : u > t => pc[u] \in {"none", "queued"}
    BY <1>2, ConstantsAssumption DEF Begin, InTurn, Turns, TypeOK, ConstantsAssumption
  <2>3. pc' = [pc EXCEPT ![t] = "setup"] /\ ctl' = t /\ UNCHANGED <<after, tail>>
        /\ pc[t] = "queued"
    BY <1>2 DEF Begin
  <2> QED BY <2>1, <2>2, <2>3 DEF InTurn, Running, TypeOK, Turns
<1>3. ASSUME NEW t \in Turns, SetUp(t) \/ CallTools(t) \/ AnswerWaits(t) \/ Resume(t)
                              \/ ToolsDone(t) \/ EventsCome(t) \/ Publish(t)
      PROVE Step /\ UNCHANGED <<after, tail, ctl>>
  BY <1>3 DEF SetUp, CallTools, AnswerWaits, Resume, ToolsDone, EventsCome, Publish, Running
<1>4. ASSUME NEW t \in Turns, Top(t) \/ AnswerSteered(t)
      PROVE Step /\ UNCHANGED <<after, tail, ctl>>
  BY <1>4 DEF Top, AnswerSteered, TakeSteering, Finally, Running
<1>5. ASSUME NEW t \in Turns, Answer(t) \/ Fails(t) \/ FailsUnknown(t) \/ Stopped(t)
      PROVE Step /\ UNCHANGED <<after, tail, ctl>>
  <2>1. Running(t) BY <1>5 DEF Answer, Fails, FailsUnknown, Stopped, Running, InLoop
  <2>2. pc' = [pc EXCEPT ![t] = "end"] /\ UNCHANGED <<after, tail, ctl>>
    BY <1>5 DEF Answer, Fails, FailsUnknown, Stopped, Finally
  <2> QED BY <2>1, <2>2
<1>6. ASSUME NEW t \in Turns, End(t) PROVE InTurn'
  <2>1. /\ \A u \in Turns : u < t => pc[u] = "over"
        /\ \A u \in Turns : u > t => pc[u] \in {"none", "queued"}
    BY <1>6, ConstantsAssumption DEF End, InTurn, Turns, TypeOK, ConstantsAssumption
  <2>2. /\ pc' = [pc EXCEPT ![t] = "over"] /\ UNCHANGED after /\ pc[t] = "end"
        /\ tail' = IF tail = t THEN 0 ELSE tail
        /\ ctl' = IF ctl = t THEN 0 ELSE ctl
    BY <1>6 DEF End
  <2>3. tail = t => \A u \in Turns : pc'[u] \in {"none", "over"}
    BY <2>1, <2>2 DEF InTurn, TypeOK, Turns
  <2> QED BY <2>1, <2>2, <2>3 DEF InTurn, Running, TypeOK, Turns
<1>7. ASSUME NEW t \in Turns, NEW c \in Cmds, Launch(t, c)
      PROVE Step /\ UNCHANGED <<after, tail, ctl>>
  BY <1>7 DEF Launch
<1>8. ASSUME NEW t \in Turns, NEW S \in SUBSET Cmds, WaitForEvents(t, S)
      PROVE Step /\ UNCHANGED <<after, tail, ctl>>
  BY <1>8 DEF WaitForEvents
<1>9. ASSUME NEW m \in Msgs, NEW b \in BOOLEAN, CancelSteer(m) \/ Steer(m, b)
      PROVE Step /\ UNCHANGED <<after, tail, ctl>>
  BY <1>9 DEF CancelSteer, Steer
<1>10. ASSUME NEW c \in Cmds, Spawn(c) \/ NoSpawn(c) \/ Exit(c)
       PROVE Step /\ UNCHANGED <<after, tail, ctl>>
  BY <1>10 DEF Spawn, NoSpawn, Exit
<1>11. CASE Stop BY <1>11, WithinTurn DEF Stop
<1>12. CASE Crash BY <1>12 DEF Crash, InTurn, Running, TypeOK
<1>13. CASE UNCHANGED vars BY <1>13, WithinTurn DEF vars
<1> HIDE DEF Step
<1>14. Step /\ UNCHANGED <<after, tail, ctl>> => InTurn'
  BY WithinTurn DEF Step
<1> QED BY <1>1, <1>2, <1>3, <1>4, <1>5, <1>6, <1>7, <1>8, <1>9, <1>10, <1>11, <1>12,
           <1>13, <1>14 DEF Next, Loop

\* serializeConversationTurn(): one turn of a conversation runs at a time,
\* however the ones before it ended, and Stop reaches that one.
THEOREM TurnsExclude == Spec => []OneTurn
<1>1. Init => InTurn BY DEF Init, InTurn, Running
<1>2. TypeOK /\ InTurn /\ [Next]_vars => InTurn' BY NextInTurn
<1> QED BY <1>1, <1>2, OneRuns, TypeCorrect, PTL DEF Spec

-----------------------------------------------------------------------------
(* Steering. *)

\* A turn has an outcome once its loop has ended.
Undecided == \A t \in Turns : pc[t] \notin {"end", "over"} => outcome[t] = "none"

\* Only a turn in its loop has the session, and the messages of such a turn
\* wait there, are delivered or withdrawn.
Steered ==
  /\ session # 0 => session \in Turns /\ InLoop(session)
  /\ \A m \in Msgs :
       /\ status[m] = "absent" => run[m] = 0
       /\ run[m] # 0 => run[m] \in Turns /\ pc[run[m]] \notin {"none", "queued"}
       /\ run[m] # 0 /\ InLoop(run[m]) /\ status[m] \notin {"delivered", "cancelled"} =>
            status[m] = "queued" /\ session = run[m]

\* What AnswerLeavesNothing says of messages.
MessagesAnswered ==
  \A t \in Turns : outcome[t] = "answered" =>
    \A m \in Msgs : run[m] = t => status[m] \in {"delivered", "cancelled"}

SteerInv == TypeOK /\ InTurn /\ Undecided /\ Steered /\ MessagesAnswered /\ SteeredOnce

LEMMA InitSteer == Init => SteerInv
<1> SUFFICES ASSUME Init PROVE SteerInv
  OBVIOUS
<1>1. InTurn BY DEF Init, InTurn, Running
<1>2. Undecided /\ Steered /\ MessagesAnswered /\ SteeredOnce
  BY DEF Init, Undecided, Steered, MessagesAnswered, SteeredOnce
<1> QED BY <1>1, <1>2, InitType DEF SteerInv

\* The loop of turn t ends with outcome o; messages that waited were passed on
\* (got' counts those) or are returned.
LEMMA FinallySteer ==
  ASSUME SteerInv, NEW t \in Turns, InLoop(t), NEW o \in {"answered", "stopped", "failed"},
         NEW st \in [Msgs -> {"absent", "queued", "returned", "delivered", "cancelled"}],
         NEW rg, Finally(t, o, st, rg), got' \in [Msgs -> Nat],
         \A m \in Msgs : st[m] = status[m] \/ (status[m] = "queued" /\ st[m] = "delivered"),
         \A m \in Msgs : got'[m] = IF st[m] = "delivered" THEN 1 ELSE 0,
         o = "answered" => Waiting(t) = {} /\ st = status
  PROVE  Undecided' /\ Steered' /\ MessagesAnswered' /\ SteeredOnce'
<1>1. /\ \A u \in Turns : pc'[u] = IF u = t THEN "end" ELSE pc[u]
      /\ \A u \in Turns : outcome'[u] = IF u = t THEN o ELSE outcome[u]
      /\ \A m \in Msgs : status'[m] = IF session = t /\ run[m] = t /\ st[m] = "queued"
                                      THEN "returned" ELSE st[m]
      /\ session' = IF session = t THEN 0 ELSE session
      /\ run' = run
  BY DEF Finally, SteerInv, TypeOK
<1>2. \A u \in Turns : InLoop(u)' => FALSE
  BY <1>1, OneRuns DEF InLoop, Running, OneTurn, SteerInv
<1>3. \A u \in Turns : u # t => ~InLoop(u)
  BY OneRuns DEF InLoop, OneTurn, SteerInv
<1>4. session' = 0
  BY <1>1, <1>3 DEF SteerInv, Steered
<1>5. Undecided' BY <1>1 DEF Undecided, SteerInv
<1>6. Steered' BY <1>1, <1>2, <1>4 DEF Steered, SteerInv, InLoop, Running
<1>7. SteeredOnce' BY <1>1 DEF SteeredOnce
<1>8. MessagesAnswered'
  <2>1. ASSUME NEW u \in Turns, outcome'[u] = "answered", NEW m \in Msgs, run[m] = u, u # t
        PROVE  status'[m] \in {"delivered", "cancelled"}
    BY <1>1, <2>1 DEF MessagesAnswered, SteerInv
  <2>2. ASSUME o = "answered", NEW m \in Msgs, run[m] = t
        PROVE  status'[m] \in {"delivered", "cancelled"}
    <3>1. t # 0 BY ConstantsAssumption DEF Turns, ConstantsAssumption
    <3> QED BY <1>1, <2>2, <3>1 DEF Steered, SteerInv, Waiting
  <2> QED BY <1>1, <2>1, <2>2 DEF MessagesAnswered
<1> QED BY <1>5, <1>6, <1>7, <1>8

\* A step that leaves the messages alone and ends no loop.
LEMMA SteerSame ==
  ASSUME SteerInv, UNCHANGED <<outcome, status, run, session, got>>,
         \/ UNCHANGED pc
         \/ \E t \in Turns : InLoop(t) /\ \E p \in {"setup", "top", "round", "tools", "wait"} :
              pc' = [pc EXCEPT ![t] = p]
  PROVE  Undecided' /\ Steered' /\ MessagesAnswered' /\ SteeredOnce'
<1>1. \A u \in Turns : /\ InLoop(u)' <=> InLoop(u)
                       /\ pc'[u] \in {"none", "queued"} <=> pc[u] \in {"none", "queued"}
                       /\ pc'[u] \in {"end", "over"} <=> pc[u] \in {"end", "over"}
  BY DEF InLoop, Running, SteerInv, TypeOK
<1> QED BY <1>1 DEF SteerInv, Undecided, Steered, MessagesAnswered, SteeredOnce

LEMMA NextSteer == SteerInv /\ [Next]_vars => SteerInv'
<1> SUFFICES ASSUME SteerInv, [Next]_vars
             PROVE  Undecided' /\ Steered' /\ MessagesAnswered' /\ SteeredOnce'
  BY NextType, NextInTurn DEF SteerInv
<1> DEFINE Goal == Undecided' /\ Steered' /\ MessagesAnswered' /\ SteeredOnce'
<1> DEFINE Step == /\ UNCHANGED <<outcome, status, run, session, got>>
                   /\ \/ UNCHANGED pc
                      \/ \E t \in Turns : InLoop(t) /\ \E p \in {"setup", "top", "round", "tools", "wait"} :
                           pc' = [pc EXCEPT ![t] = p]
<1> USE DEF order, turnVars, steerVars
<1>0. Step => Goal BY SteerSame
<1>1. ASSUME NEW t \in Turns, NEW k \in {"chat", "bash", "report"}, Ask(t, k) PROVE Goal
  <2>1. /\ pc[t] = "none" /\ UNCHANGED <<outcome, status, run, session, got>>
        /\ \A u \in Turns : pc'[u] = IF u = t THEN "queued" ELSE pc[u]
    BY <1>1 DEF Ask, SteerInv, TypeOK
  <2> QED BY <2>1 DEF SteerInv, Undecided, Steered, MessagesAnswered, SteeredOnce, InLoop, Running
<1>2. ASSUME NEW t \in Turns, Begin(t) PROVE Goal
  <2>1. /\ pc[t] = "queued" /\ UNCHANGED <<outcome, run, got>>
        /\ \A u \in Turns : pc'[u] = IF u = t THEN "setup" ELSE pc[u]
        /\ \A m \in Msgs : status'[m] = status[m] \/ (status[m] = "queued" /\ status'[m] = "returned")
        /\ session' = t \/ (session' = session /\ status' = status)
    <3>1. TypeOK BY DEF SteerInv
    <3>2. pc[t] = "queued" /\ pc' = [pc EXCEPT ![t] = "setup"] /\ UNCHANGED <<outcome, run, got>>
      BY <1>2 DEF Begin
    <3>3. CASE kind[t] = "chat" BY <3>1, <3>2, <3>3, <1>2 DEF Begin, TypeOK
    <3>4. CASE kind[t] # "chat" BY <3>1, <3>2, <3>4, <1>2 DEF Begin, TypeOK
    <3> QED BY <3>3, <3>4
  <2>2. Running(t)' /\ InLoop(t)' BY <2>1 DEF Running, InLoop
  <2>3. \A u \in Turns : u # t => ~InLoop(u)
    <3>1. OneTurn' BY OneRuns, NextType, NextInTurn DEF SteerInv, OneTurn, InTurn, Running, Turns
    <3> QED BY <2>1, <2>2, <3>1 DEF OneTurn, Running, InLoop
  <2>4. session' = 0 \/ session' = t
    BY <2>1, <2>3 DEF SteerInv, Steered, InLoop, Running
  <2>5. \A u \in Turns : InLoop(u)' => u = t
    BY <2>1, <2>3 DEF InLoop, Running
  <2>6. \A m \in Msgs : run[m] # t
    BY <2>1, ConstantsAssumption DEF SteerInv, Steered, Turns, ConstantsAssumption
  <2> QED BY <2>1, <2>2, <2>4, <2>5, <2>6
          DEF SteerInv, Undecided, Steered, MessagesAnswered, SteeredOnce
<1>3. ASSUME NEW t \in Turns, SetUp(t) \/ CallTools(t) \/ AnswerWaits(t) \/ Resume(t)
                              \/ ToolsDone(t) \/ EventsCome(t) \/ Publish(t)
      PROVE Step
  BY <1>3 DEF SetUp, CallTools, AnswerWaits, Resume, ToolsDone, EventsCome, Publish, InLoop, Running
<1>4. ASSUME NEW t \in Turns, NEW next \in {"round", "top"}, InLoop(t), TakeSteering(t, next)
      PROVE Goal
  <2>1. /\ AfterSteering(t) \in [Msgs -> {"absent", "queued", "returned", "delivered", "cancelled"}]
        /\ \A m \in Msgs : \/ AfterSteering(t)[m] = status[m]
                           \/ (status[m] = "queued" /\ AfterSteering(t)[m] = "delivered")
        /\ \A m \in Msgs : m \in Passed(t) <=> status[m] # "delivered" /\ AfterSteering(t)[m] = "delivered"
    <3>1. \A m \in Passed(t) : m \in Msgs /\ status[m] = "queued" BY DEF Passed, Waiting
    <3>2. TypeOK BY DEF SteerInv
    <3>3. \A m \in Msgs : AfterSteering(t)[m] = IF m \in Passed(t) THEN "delivered" ELSE status[m]
      BY DEF AfterSteering
    <3>4. AfterSteering(t) \in [Msgs -> {"absent", "queued", "returned", "delivered", "cancelled"}]
      BY <3>2 DEF AfterSteering, TypeOK
    <3> QED BY <3>1, <3>3, <3>4
  <2>2. /\ got' \in [Msgs -> Nat]
        /\ \A m \in Msgs : got'[m] = IF AfterSteering(t)[m] = "delivered" THEN 1 ELSE 0
    BY <2>1, <1>4 DEF TakeSteering, SteerInv, TypeOK, SteeredOnce
  <2>3. CASE Passed(t) = Waiting(t)
    <3>1. /\ status' = AfterSteering(t) /\ UNCHANGED <<outcome, run, session>>
          /\ pc' = [pc EXCEPT ![t] = next]
      BY <1>4, <2>3 DEF TakeSteering
    <3>2. \A u \in Turns : /\ InLoop(u)' <=> InLoop(u)
                           /\ pc'[u] \in {"none", "queued"} <=> pc[u] \in {"none", "queued"}
                           /\ pc'[u] \in {"end", "over"} <=> pc[u] \in {"end", "over"}
      BY <1>4, <3>1 DEF InLoop, Running, SteerInv, TypeOK
    <3> QED BY <2>1, <2>2, <3>1, <3>2
            DEF SteerInv, Undecided, Steered, MessagesAnswered, SteeredOnce
  <2>4. CASE Passed(t) # Waiting(t)
    BY <2>1, <2>2, <2>4, <1>4, FinallySteer DEF TakeSteering
  <2> QED BY <2>3, <2>4
<1>5. ASSUME NEW t \in Turns, Top(t) \/ AnswerSteered(t) PROVE Goal
  BY <1>4, <1>5 DEF Top, AnswerSteered, InLoop, Running
<1>6. ASSUME NEW t \in Turns, Answer(t) \/ Fails(t) \/ FailsUnknown(t) \/ Stopped(t) PROVE Goal
  <2>1. InLoop(t) /\ got' \in [Msgs -> Nat]
        /\ \A m \in Msgs : got'[m] = IF status[m] = "delivered" THEN 1 ELSE 0
    BY <1>6 DEF Answer, Fails, FailsUnknown, Stopped, InLoop, Running, SteerInv, TypeOK, SteeredOnce
  <2>2. status \in [Msgs -> {"absent", "queued", "returned", "delivered", "cancelled"}]
    BY DEF SteerInv, TypeOK
  <2>3. PICK o \in {"answered", "stopped", "failed"}, rg \in {reg, Persisted(t)} :
          Finally(t, o, status, rg) /\ (o = "answered" => Waiting(t) = {})
    BY <1>6 DEF Answer, Fails, FailsUnknown, Stopped
  <2>4. \A m \in Msgs : status[m] = status[m] \/ (status[m] = "queued" /\ status[m] = "delivered")
    OBVIOUS
  <2> HIDE DEF Goal
  <2>5. Undecided' /\ Steered' /\ MessagesAnswered' /\ SteeredOnce'
    BY <2>1, <2>2, <2>3, <2>4, FinallySteer
  <2> QED BY <2>5 DEF Goal
<1>7. ASSUME NEW t \in Turns, End(t) PROVE Goal
  <2>1. /\ pc[t] = "end" /\ UNCHANGED <<outcome, status, run, session, got>>
        /\ \A u \in Turns : pc'[u] = IF u = t THEN "over" ELSE pc[u]
    BY <1>7 DEF End, SteerInv, TypeOK
  <2> QED BY <2>1 DEF SteerInv, Undecided, Steered, MessagesAnswered, SteeredOnce, InLoop, Running
<1>8. ASSUME NEW t \in Turns, NEW c \in Cmds, Launch(t, c) PROVE Step
  BY <1>8 DEF Launch
<1>9. ASSUME NEW t \in Turns, NEW S \in SUBSET Cmds, WaitForEvents(t, S) PROVE Step
  BY <1>9 DEF WaitForEvents
<1>10. ASSUME NEW m \in Msgs, CancelSteer(m) PROVE Goal
  <2>1. /\ UNCHANGED <<pc, outcome, run, session, got>> /\ status[m] \in {"queued", "returned"}
        /\ \A k \in Msgs : status'[k] = IF k = m THEN "cancelled" ELSE status[k]
    BY <1>10 DEF CancelSteer, SteerInv, TypeOK
  <2> QED BY <2>1 DEF SteerInv, Undecided, Steered, MessagesAnswered, SteeredOnce, InLoop, Running
<1>11. ASSUME NEW m \in Msgs, NEW b \in BOOLEAN, Steer(m, b) PROVE Goal
  <2>1. CASE status[m] = "absent"
    <3>1. /\ UNCHANGED <<pc, outcome, session, got>> /\ session # 0
          /\ \A k \in Msgs : status'[k] = IF k = m THEN "queued" ELSE status[k]
          /\ \A k \in Msgs : run'[k] = IF k = m THEN session ELSE run[k]
      BY <1>11, <2>1 DEF Steer, SteerInv, TypeOK
    <3>2. session \in Turns /\ InLoop(session) /\ outcome[session] = "none"
      BY <3>1 DEF SteerInv, Steered, Undecided, InLoop, Running
    <3> QED BY <2>1, <3>1, <3>2
            DEF SteerInv, Undecided, Steered, MessagesAnswered, SteeredOnce, InLoop, Running
  <2>2. CASE status[m] # "absent"
    BY <1>11, <2>2, <1>0 DEF Steer
  <2> QED BY <2>1, <2>2
<1>12. ASSUME NEW c \in Cmds, Spawn(c) \/ NoSpawn(c) \/ Exit(c) PROVE Step
  BY <1>12 DEF Spawn, NoSpawn, Exit
<1>13. CASE Stop BY <1>13, <1>0 DEF Stop
<1>14. CASE Crash
  <2>1. /\ UNCHANGED <<status, run, got>> /\ session' = 0
        /\ \A u \in Turns : pc'[u] = IF pc[u] = "none" THEN "none" ELSE "over"
        /\ \A u \in Turns : outcome'[u] = outcome[u] \/ (outcome'[u] = "crashed" /\ pc'[u] = "over")
    <3>1. TypeOK BY DEF SteerInv
    <3>2. \A u \in Turns : /\ pc'[u] = IF pc[u] = "none" THEN "none" ELSE "over"
                           /\ outcome'[u] = IF Running(u) /\ outcome[u] = "none" THEN "crashed"
                                           ELSE outcome[u]
      BY <1>14 DEF Crash
    <3> QED BY <1>14, <3>1, <3>2 DEF Crash, Running
  <2> QED BY <2>1 DEF SteerInv, Undecided, Steered, MessagesAnswered, SteeredOnce, InLoop, Running
<1>15. CASE UNCHANGED vars BY <1>15, <1>0 DEF vars
<1> HIDE DEF Goal, Step
<1>16. ASSUME NEW t \in Turns, Loop(t) PROVE Goal
  BY <1>0, <1>2, <1>3, <1>5, <1>6, <1>7, <1>16 DEF Loop
<1>17. ASSUME NEW t \in Turns, NEW c \in Cmds,
              Launch(t, c) \/ WaitForEvents(t, {c}) \/ WaitForEvents(t, Cmds) PROVE Goal
  BY <1>0, <1>8, <1>9, <1>17
<1>18. ASSUME NEW t \in Turns, WaitForEvents(t, Cmds) PROVE Goal
  BY <1>0, <1>9, <1>18
<1>19. ASSUME NEW c \in Cmds, Spawn(c) \/ NoSpawn(c) \/ Exit(c) PROVE Goal
  BY <1>0, <1>12, <1>19
<1>20. Goal
  BY <1>1, <1>10, <1>11, <1>13, <1>14, <1>15, <1>16, <1>17, <1>18, <1>19 DEF Next, Goal
<1> QED BY <1>20 DEF Goal

\* consumeSteering(): a message enters the transcript once, or never if it is
\* returned or withdrawn.
THEOREM SteeringOnce == Spec => []SteeredOnce
<1>1. SteerInv => SteeredOnce BY DEF SteerInv
<1> QED BY <1>1, InitSteer, NextSteer, PTL DEF Spec

-----------------------------------------------------------------------------
(* Commands. *)

\* Where the entry of a command in the inbox and its completion can be.
EntryOf(c) ==
  /\ c \in queued \cup held => told[c] = 0 /\ proc[c] = "exited"
  /\ ~(c \in queued /\ c \in held)
  /\ told[c] <= 1
  /\ told[c] # 0 => first[c] /\ proc[c] = "exited"
  /\ reg[c] = "ready" \/ c \in held \/ (c \in queued /\ reg[c] # "new") => first[c]
  /\ reg[c] # "no" \/ first[c] => proc[c] \notin {"none", "launching"}
  /\ proc[c] = "none" => owner[c] = 0
Entries == \A c \in Cmds : EntryOf(c)

\* What turn t still has of its command c.
OwnedBy(t, c) ==
  /\ pc[t] \notin {"none", "queued"}
  /\ t \in cancelled => reg[c] = "no" /\ c \notin queued
  /\ InLoop(t) /\ pc[t] # "tools" => c \notin held
  /\ InLoop(t) /\ first[c] /\ told[c] = 0 =>
       reg[c] = "ready" \/ c \in queued \/ c \in held
  /\ outcome[t] = "answered" /\ first[c] => told[c] = 1
  /\ outcome[t] = "stopped" =>
       reg[c] = "no" /\ c \notin queued /\ (t \in cancelled \/ proc[c] = "exited")
Owned == \A t \in Turns : \A c \in Own(t) : OwnedBy(t, c)

CommandInv == SteerInv /\ Entries /\ Owned /\ \A t \in cancelled : pc[t] \in {"end", "over"}

LEMMA InitCommand == Init => CommandInv
<1> SUFFICES ASSUME Init PROVE CommandInv
  OBVIOUS
<1>1. Entries BY DEF Init, Entries, EntryOf
<1>2. \A t \in Turns : Own(t) = {}
  BY ConstantsAssumption DEF Init, Own, Turns, ConstantsAssumption
<1> QED BY <1>1, <1>2, InitSteer DEF CommandInv, Owned, Init

\* What a step that leaves the commands alone may do to turn t.
LastsOn(t) ==
  \/ pc'[t] = pc[t] /\ outcome'[t] = outcome[t]
  \/ pc[t] \in {"none", "queued"} /\ Own(t) = {}
  \/ /\ InLoop(t) /\ pc[t] # "tools" /\ pc'[t] \in {"top", "round", "tools", "wait"}
     /\ outcome'[t] = outcome[t]
  \/ pc'[t] \in {"end", "over"} /\ outcome'[t] \in {outcome[t], "failed", "crashed"}

LEMMA CommandSame ==
  ASSUME CommandInv, UNCHANGED <<proc, owner, reg, queued, cancelled, held, first, told>>,
         \A t \in Turns : LastsOn(t)
  PROVE  Entries' /\ Owned' /\ \A t \in cancelled' : pc'[t] \in {"end", "over"}
<1>1. Entries' BY DEF CommandInv, Entries, EntryOf
<1>2. ASSUME NEW t \in Turns, NEW c \in Own(t) PROVE OwnedBy(t, c)'
  BY <1>2 DEF CommandInv, Owned, OwnedBy, InLoop, Running, LastsOn
<1>3. \A t \in Turns : Own(t)' = Own(t) BY DEF Own
<1>4. ASSUME NEW t \in cancelled PROVE pc'[t] \in {"end", "over"}
  BY <1>4 DEF CommandInv, SteerInv, TypeOK, InLoop, Running, LastsOn
<1> QED BY <1>1, <1>2, <1>3, <1>4 DEF Owned

\* Records of a batch of turn t: its fresh results, and the completions S.
LEMMA RecordedCommands ==
  ASSUME CommandInv, NEW t \in Turns, NEW S \in SUBSET Cmds, Recorded(t, S)
  PROVE  \A c \in Cmds :
           /\ first'[c] = (first[c] \/ (c \in Own(t) /\ reg[c] = "new"))
           /\ told'[c] = IF c \in S THEN told[c] + 1 ELSE told[c]
           /\ c \in held' <=> c \in held /\ c \notin Own(t)
BY DEF Recorded, Fresh, Own

LEMMA NextCommand == CommandInv /\ [Next]_vars => CommandInv'
<1> SUFFICES ASSUME CommandInv, [Next]_vars
             PROVE  Entries' /\ Owned' /\ \A t \in cancelled' : pc'[t] \in {"end", "over"}
  BY NextSteer DEF CommandInv
<1> DEFINE Goal == Entries' /\ Owned' /\ \A t \in cancelled' : pc'[t] \in {"end", "over"}
<1> DEFINE Step == /\ UNCHANGED <<proc, owner, reg, queued, cancelled, held, first, told>>
                   /\ \A t \in Turns : LastsOn(t)
<1>0. Step => Goal BY CommandSame
<1> HIDE DEF Goal
<1> USE DEF order, turnVars, steerVars, inboxVars
<1>t. TypeOK /\ InTurn /\ OneTurn /\ Undecided
  BY OneRuns DEF CommandInv, SteerInv
<1>e. \A c \in Cmds : EntryOf(c)
  BY DEF CommandInv, Entries
<1>o. \A t \in Turns : \A c \in Own(t) : OwnedBy(t, c)
  BY DEF CommandInv, Owned
<1>c. \A t \in cancelled : t \in Turns /\ pc[t] \in {"end", "over"}
  BY <1>t DEF CommandInv, TypeOK
<1>1. ASSUME NEW t \in Turns, NEW k \in {"chat", "bash", "report"}, Ask(t, k) PROVE Step
  <2>1. Own(t) = {} BY <1>1, <1>o DEF Ask, OwnedBy
  <2> QED BY <2>1, <1>1, <1>t DEF LastsOn, Ask, TypeOK, InLoop, Running
<1>2. ASSUME NEW t \in Turns, Begin(t) PROVE Step
  <2>1. Own(t) = {} BY <1>2, <1>o DEF Begin, OwnedBy
  <2> QED BY <2>1, <1>2, <1>t DEF LastsOn, Begin, TypeOK, InLoop, Running
<1>3. ASSUME NEW t \in Turns, SetUp(t) \/ CallTools(t) \/ AnswerWaits(t) PROVE Step
  <2>1. CASE SetUp(t)
    BY <2>1, <1>t DEF LastsOn, SetUp, TypeOK, InLoop, Running
  <2>2. CASE CallTools(t)
    BY <2>2, <1>t DEF LastsOn, CallTools, TypeOK, InLoop, Running
  <2>3. CASE AnswerWaits(t)
    BY <2>3, <1>t DEF LastsOn, AnswerWaits, TypeOK, InLoop, Running
  <2> QED BY <1>3, <2>1, <2>2, <2>3
<1>4. ASSUME NEW t \in Turns, NEW st, Finally(t, "failed", st, reg), ~abort[t],
             UNCHANGED <<first, told, held>>
      PROVE  Step
  BY <1>4, <1>t DEF LastsOn, Finally, TypeOK
<1>5. ASSUME NEW t \in Turns, Top(t) \/ AnswerSteered(t) PROVE Step
  <2>1. PICK next \in {"round", "top"} :
          TakeSteering(t, next) /\ ~abort[t] /\ InLoop(t) /\ pc[t] # "tools"
    BY <1>5 DEF Top, AnswerSteered, InLoop, Running
  <2>2. CASE Passed(t) = Waiting(t)
    BY <2>1, <2>2, <1>t DEF LastsOn, TakeSteering, TypeOK
  <2>3. CASE Passed(t) # Waiting(t)
    BY <2>1, <2>3, <1>4 DEF TakeSteering
  <2> QED BY <2>2, <2>3
<1>6. ASSUME NEW t \in Turns, Fails(t) PROVE Step
  BY <1>6, <1>4 DEF Fails
<1>7. ASSUME NEW t \in Turns, End(t) PROVE Step
  BY <1>7, <1>t DEF LastsOn, End, TypeOK
<1>8. ASSUME NEW m \in Msgs, CancelSteer(m) PROVE Step
  BY <1>8 DEF LastsOn, CancelSteer
<1>9. ASSUME NEW m \in Msgs, NEW b \in BOOLEAN, Steer(m, b) PROVE Step
  BY <1>9 DEF LastsOn, Steer
<1>10. Stop => Step BY DEF Stop, LastsOn
<1>11. UNCHANGED vars => Step BY DEF vars, LastsOn
<1>12. ASSUME NEW t \in Turns, Answer(t) PROVE Goal
  <2>1. /\ pc[t] = "round" /\ InLoop(t) /\ ~abort[t]
        /\ \A c \in Own(t) : reg[c] = "no" /\ c \notin queued
    BY <1>12 DEF Answer, Pending, Ready, InLoop, Running, Own
  <2>2. \A c \in Own(t) : first[c] => told[c] = 1
    <3> SUFFICES ASSUME NEW c \in Own(t), first[c] PROVE told[c] = 1
      OBVIOUS
    <3>1. OwnedBy(t, c) /\ EntryOf(c) /\ told[c] \in Nat
      BY <1>o, <1>e, <1>t DEF Own, TypeOK
    <3> QED BY <2>1, <3>1 DEF OwnedBy, EntryOf
  <2>3. /\ UNCHANGED <<proc, owner, queued, cancelled, held, first, told>> /\ reg' = reg
        /\ pc' = [pc EXCEPT ![t] = "end"] /\ outcome' = [outcome EXCEPT ![t] = "answered"]
    BY <1>12, <2>1 DEF Answer, Finally
  <2>4. Entries' BY <2>3, <1>e DEF Entries, EntryOf
  <2>5. ASSUME NEW u \in Turns, NEW c \in Own(u) PROVE OwnedBy(u, c)'
    BY <2>1, <2>2, <2>3, <1>o, <1>t DEF OwnedBy, InLoop, Running, TypeOK
  <2>6. \A u \in Turns : Own(u)' = Own(u) BY <2>3 DEF Own
  <2>7. \A u \in cancelled' : pc'[u] \in {"end", "over"}
    BY <2>3, <1>c, <1>t DEF TypeOK
  <2> QED BY <2>4, <2>5, <2>6, <2>7 DEF Owned, Goal
<1>13. ASSUME NEW t \in Turns, Resume(t) \/ ToolsDone(t) PROVE Goal
  <2>1. /\ InLoop(t) /\ pc' = [pc EXCEPT ![t] = "top"]
        /\ UNCHANGED <<outcome, proc, owner, reg, cancelled, held, first>>
        /\ Deliver(Ready(t, Cmds))
        /\ \A c \in Own(t) : c \notin held
    BY <1>13, <1>o DEF Resume, ToolsDone, Idle, Results, InLoop, Running, OwnedBy
  <2>2. \A c \in Cmds :
          \/ told'[c] = told[c] /\ (c \in queued' <=> c \in queued)
          \/ told'[c] = told[c] + 1 /\ c \in queued /\ c \notin queued' /\ c \in Own(t) /\ reg[c] # "new"
    BY <2>1 DEF Deliver, Ready
  <2>3. Entries' BY <2>1, <2>2, <1>e DEF Entries, EntryOf
  <2>4. ASSUME NEW u \in Turns, NEW c \in Own(u) PROVE OwnedBy(u, c)'
    <3>1. c \in Cmds /\ EntryOf(c) /\ OwnedBy(u, c) /\ EntryOf(c)'
      BY <1>e, <1>o, <2>3 DEF Own, Entries
    <3>2. /\ pc'[u] = IF u = t THEN "top" ELSE pc[u]
          /\ t = u => c \notin held
      BY <2>1, <1>t DEF TypeOK
    <3> QED BY <2>1, <2>2, <3>1, <3>2, <1>t DEF OwnedBy, EntryOf, InLoop, Running, TypeOK
  <2>5. \A u \in Turns : Own(u)' = Own(u) BY <2>1 DEF Own
  <2>6. \A u \in cancelled' : pc'[u] \in {"end", "over"}
    BY <2>1, <1>c, <1>t DEF TypeOK, InLoop, Running
  <2> QED BY <2>3, <2>4, <2>5, <2>6 DEF Owned, Goal
<1>14. ASSUME NEW t \in Turns, FailsUnknown(t) \/ Publish(t) PROVE Goal
  <2>1. /\ InLoop(t) /\ pc[t] = "tools" /\ Recorded(t, Results(t)) /\ reg' = Persisted(t)
        /\ UNCHANGED <<proc, owner, queued, cancelled>>
        /\ \/ UNCHANGED <<pc, outcome>>
           \/ pc' = [pc EXCEPT ![t] = "end"] /\ outcome' = [outcome EXCEPT ![t] = "failed"]
    BY <1>14 DEF FailsUnknown, Publish, Finally, InLoop, Running
  <2>2. Results(t) \in SUBSET Cmds /\ \A c \in Cmds : c \in Results(t) <=> c \in held /\ c \in Own(t)
    BY DEF Results, Own
  <2>3. \A c \in Cmds :
          /\ first'[c] = (first[c] \/ (c \in Own(t) /\ reg[c] = "new"))
          /\ told'[c] = IF c \in held /\ c \in Own(t) THEN told[c] + 1 ELSE told[c]
          /\ c \in held' <=> c \in held /\ c \notin Own(t)
    BY <2>1, <2>2, RecordedCommands
  <2>4. \A c \in Cmds : reg'[c] = IF c \in Own(t) /\ reg[c] = "new"
                                  THEN IF c \in queued THEN "no" ELSE "ready" ELSE reg[c]
    BY <2>1 DEF Persisted, Fresh, Own
  <2>5. Entries'
    <3> SUFFICES ASSUME NEW c \in Cmds PROVE EntryOf(c)'
      BY DEF Entries
    <3>1. EntryOf(c) /\ told[c] \in Nat BY <1>e, <1>t DEF TypeOK
    <3>2. UNCHANGED <<proc, owner, queued>> BY <2>1
    <3>3. CASE c \notin Own(t)
      <4>1. first'[c] = first[c] /\ told'[c] = told[c] /\ reg'[c] = reg[c] /\ (c \in held' <=> c \in held)
        BY <2>3, <2>4, <3>3, <1>t DEF TypeOK
      <4> QED BY <3>1, <3>2, <4>1 DEF EntryOf
    <3>4. CASE c \in Own(t)
      <4>1. /\ first'[c] = (first[c] \/ reg[c] = "new") /\ c \notin held'
            /\ told'[c] = IF c \in held THEN told[c] + 1 ELSE told[c]
            /\ reg'[c] = IF reg[c] # "new" THEN reg[c] ELSE IF c \in queued THEN "no" ELSE "ready"
        BY <2>3, <2>4, <3>4
      <4>2. CASE c \in held
        <5>1. told[c] = 0 /\ first[c] /\ proc[c] = "exited" /\ c \notin queued
          BY <3>1, <4>2 DEF EntryOf
        <5>2. told'[c] = 1 BY <4>1, <4>2, <5>1
        <5>3. first'[c] BY <4>1, <5>1
        <5> QED BY <3>2, <4>1, <5>1, <5>2, <5>3 DEF EntryOf
      <4>3. CASE c \notin held
        BY <3>1, <3>2, <4>1, <4>3 DEF EntryOf
      <4> QED BY <4>2, <4>3
    <3> QED BY <3>3, <3>4
  <2>6. ASSUME NEW u \in Turns, NEW c \in Own(u) PROVE OwnedBy(u, c)'
    <3>1. c \in Cmds /\ EntryOf(c) /\ OwnedBy(u, c) /\ EntryOf(c)' /\ (u # t => c \notin Own(t))
      BY <1>e, <1>o, <2>5 DEF Own, Entries
    <3>2. outcome[t] = "none" /\ t \notin cancelled
      BY <2>1, <1>t, <1>c DEF Undecided
    <3>3. CASE u # t
      BY <2>1, <2>3, <2>4, <3>1, <3>3, <1>t DEF OwnedBy, InLoop, Running, TypeOK
    <3>4. CASE u = t
      BY <2>1, <2>3, <2>4, <3>1, <3>2, <3>4, <1>t DEF OwnedBy, EntryOf, InLoop, Running, TypeOK
    <3> QED BY <3>3, <3>4
  <2>7. \A u \in Turns : Own(u)' = Own(u) BY <2>1 DEF Own
  <2>8. \A u \in cancelled' : pc'[u] \in {"end", "over"}
    BY <2>1, <1>c, <1>t DEF TypeOK
  <2> QED BY <2>5, <2>6, <2>7, <2>8 DEF Owned, Goal
<1>15. ASSUME NEW t \in Turns, EventsCome(t) \/ \E S \in SUBSET Cmds : WaitForEvents(t, S)
       PROVE  Goal
  <2>1. /\ pc[t] = "tools" /\ UNCHANGED <<pc, outcome, proc, owner, reg, cancelled, first, told>>
        /\ \A c \in Cmds : \/ (c \in held' <=> c \in held) /\ (c \in queued' <=> c \in queued)
                           \/ /\ c \in queued /\ c \notin queued' /\ c \in held'
                              /\ c \in Own(t) /\ reg[c] # "new"
    BY <1>15 DEF EventsCome, WaitForEvents, Ready
  <2>2. Entries' BY <2>1, <1>e DEF Entries, EntryOf
  <2>3. ASSUME NEW u \in Turns, NEW c \in Own(u) PROVE OwnedBy(u, c)'
    <3>1. c \in Cmds /\ EntryOf(c) /\ OwnedBy(u, c) /\ (u # t => c \notin Own(t))
      BY <1>e, <1>o DEF Own
    <3> QED BY <2>1, <3>1 DEF OwnedBy, EntryOf, InLoop, Running
  <2>4. \A u \in Turns : Own(u)' = Own(u) BY <2>1 DEF Own
  <2>5. \A u \in cancelled' : pc'[u] \in {"end", "over"} BY <2>1, <1>c
  <2> QED BY <2>2, <2>3, <2>4, <2>5 DEF Owned, Goal
<1>16. ASSUME NEW t \in Turns, Stopped(t) PROVE Goal
  <2>1. /\ InLoop(t) /\ abort[t] /\ cancelled' = cancelled \cup {t} /\ UNCHANGED owner
        /\ pc' = [pc EXCEPT ![t] = "end"] /\ outcome' = [outcome EXCEPT ![t] = "stopped"]
        /\ \A c \in Cmds :
             /\ reg'[c] = IF c \in Own(t) THEN "no" ELSE reg[c]
             /\ c \in queued' <=> c \in queued /\ c \notin Own(t)
             /\ proc'[c] = proc[c] \/ (proc[c] = "running" /\ proc'[c] = "dying")
    BY <1>16, <1>t DEF Stopped, Finally, TypeOK
  <2>2. Results(t) \cup (Own(t) \cap queued) \in SUBSET Cmds
    BY DEF Results, Own
  <2>3. \A c \in Cmds :
          /\ first'[c] = first[c] \/ (first'[c] = TRUE /\ c \in Own(t) /\ reg[c] = "new")
          /\ told'[c] = told[c] \/ (told'[c] = told[c] + 1 /\ first'[c] /\ c \in Own(t)
                                    /\ c \in queued \cup held)
          /\ c \in held' => c \in held
          /\ pc[t] = "tools" /\ c \in Own(t) => c \notin held'
          /\ c \in held' => told'[c] = told[c]
    <3>1. CASE pc[t] = "tools"
      <4>1. \A c \in Cmds :
              /\ first'[c] = (first[c] \/ (c \in Own(t) /\ reg[c] = "new"))
              /\ told'[c] = IF c \in Results(t) \cup (Own(t) \cap queued) THEN told[c] + 1 ELSE told[c]
              /\ c \in held' <=> c \in held /\ c \notin Own(t)
        BY <3>1, <1>16, <2>2, RecordedCommands DEF Stopped
      <4>2. \A c \in Cmds : c \in Own(t) /\ c \in queued \cup held => first[c] \/ reg[c] = "new"
        BY <1>e DEF EntryOf
      <4>3. \A c \in Cmds : c \in Results(t) \cup (Own(t) \cap queued)
                             <=> c \in Own(t) /\ c \in queued \cup held
        BY DEF Results
      <4> QED BY <4>1, <4>2, <4>3, <1>t DEF TypeOK
    <3>2. CASE pc[t] # "tools"
      BY <3>2, <1>16 DEF Stopped
    <3> QED BY <3>1, <3>2
  <2>4. Entries' BY <2>1, <2>3, <1>e, <1>t DEF Entries, EntryOf, TypeOK
  <2>5. ASSUME NEW u \in Turns, NEW c \in Own(u) PROVE OwnedBy(u, c)'
    <3>1. c \in Cmds /\ EntryOf(c) /\ OwnedBy(u, c) /\ EntryOf(c)' /\ (u # t => c \notin Own(t))
      BY <1>e, <1>o, <2>4 DEF Own, Entries
    <3>2. CASE u # t
      <4>1. ~InLoop(u) /\ pc'[u] = pc[u] /\ outcome'[u] = outcome[u]
        BY <2>1, <3>2, <1>t DEF OneTurn, InLoop, TypeOK
      <4>2. /\ first'[c] = first[c] /\ told'[c] = told[c] /\ reg'[c] = reg[c]
            /\ c \in queued' <=> c \in queued
            /\ u \in cancelled' <=> u \in cancelled
            /\ proc[c] = "exited" => proc'[c] = "exited"
        BY <2>1, <2>3, <3>1, <3>2
      <4> QED BY <3>1, <4>1, <4>2 DEF OwnedBy, InLoop, Running
    <3>3. CASE u = t
      BY <2>1, <3>1, <3>3, <1>t DEF OwnedBy, InLoop, Running, TypeOK
    <3> QED BY <3>2, <3>3
  <2>6. \A u \in Turns : Own(u)' = Own(u) BY <2>1 DEF Own
  <2>7. \A u \in cancelled' : pc'[u] \in {"end", "over"} BY <2>1, <1>c, <1>t DEF TypeOK
  <2> QED BY <2>4, <2>5, <2>6, <2>7 DEF Owned, Goal
<1>17. ASSUME NEW t \in Turns, NEW c \in Cmds, Launch(t, c) PROVE Goal
  <2>1. /\ InLoop(t) /\ proc[c] = "none" /\ pc[t] = "tools"
        /\ UNCHANGED <<pc, outcome, reg, queued, cancelled, held, first, told>>
        /\ \A d \in Cmds : proc'[d] = IF d = c THEN "launching" ELSE proc[d]
        /\ \A d \in Cmds : owner'[d] = IF d = c THEN t ELSE owner[d]
    BY <1>17, <1>t DEF Launch, InLoop, Running, TypeOK
  <2>2. Entries' BY <2>1, <1>e DEF Entries, EntryOf
  <2>3. outcome[t] = "none" /\ t \notin cancelled BY <2>1, <1>t, <1>c DEF Undecided
  <2>4. ASSUME NEW u \in Turns, NEW d \in Own(u)' PROVE OwnedBy(u, d)'
    <3>1. CASE d = c
      <4>1. u = t BY <2>1, <3>1, <2>4 DEF Own
      <4>2. reg[c] = "no" /\ ~first[c] /\ c \notin queued /\ c \notin held
        BY <2>1, <1>e DEF EntryOf
      <4> QED BY <2>1, <2>3, <3>1, <4>1, <4>2 DEF OwnedBy, InLoop, Running
    <3>2. CASE d # c
      <4>1. d \in Own(u) /\ d \in Cmds BY <2>1, <3>2, <2>4 DEF Own
      <4> QED BY <2>1, <3>2, <4>1, <1>o DEF OwnedBy, InLoop, Running
    <3> QED BY <3>1, <3>2
  <2>5. \A u \in cancelled' : pc'[u] \in {"end", "over"} BY <2>1, <1>c
  <2> QED BY <2>2, <2>4, <2>5 DEF Owned, Goal
<1>18. ASSUME NEW c \in Cmds, Spawn(c) \/ NoSpawn(c) PROVE Goal
  <2>1. /\ proc[c] = "launching" /\ UNCHANGED <<pc, outcome, owner, queued, cancelled, held, first, told>>
        /\ \A d \in Cmds \ {c} : proc'[d] = proc[d] /\ reg'[d] = reg[d]
        /\ proc'[c] \in {"running", "dying", "exited"}
        /\ reg'[c] = IF owner[c] \in cancelled \/ proc'[c] = "exited" THEN "no" ELSE "new"
    <3>1. CASE Spawn(c) BY <3>1, <1>t DEF Spawn, TypeOK
    <3>2. CASE NoSpawn(c) BY <3>2, <1>t, <1>e DEF NoSpawn, TypeOK, EntryOf
    <3> QED BY <1>18, <3>1, <3>2
  <2>2. /\ reg[c] = "no" /\ ~first[c] /\ c \notin queued /\ c \notin held /\ told[c] = 0
    BY <2>1, <1>e DEF EntryOf
  <2>3. Entries' BY <2>1, <2>2, <1>e DEF Entries, EntryOf
  <2>4. ASSUME NEW u \in Turns, NEW d \in Own(u) PROVE OwnedBy(u, d)'
    <3>1. d \in Cmds /\ owner[d] = u /\ OwnedBy(u, d) BY <1>o DEF Own
    <3> QED BY <2>1, <2>2, <3>1 DEF OwnedBy, InLoop, Running
  <2>5. \A u \in Turns : Own(u)' = Own(u) BY <2>1 DEF Own
  <2>6. \A u \in cancelled' : pc'[u] \in {"end", "over"} BY <2>1, <1>c
  <2> QED BY <2>3, <2>4, <2>5, <2>6 DEF Owned, Goal
<1>19. ASSUME NEW c \in Cmds, Exit(c) PROVE Goal
  <2>1. /\ proc[c] \in {"running", "dying"} /\ UNCHANGED <<pc, outcome, owner, cancelled, held, first, told>>
        /\ \A d \in Cmds \ {c} : proc'[d] = proc[d] /\ reg'[d] = reg[d] /\ (d \in queued' <=> d \in queued)
        /\ proc'[c] = "exited"
        /\ \/ reg'[c] = reg[c] /\ (c \in queued' <=> c \in queued) /\ (reg[c] = "no" \/ owner[c] \in cancelled)
           \/ /\ reg[c] # "no" /\ owner[c] \notin cancelled /\ c \in queued'
              /\ reg'[c] = IF reg[c] = "ready" THEN "no" ELSE reg[c]
    BY <1>19, <1>t DEF Exit, TypeOK
  <2>2. Entries' BY <2>1, <1>e, <1>t DEF Entries, EntryOf, TypeOK
  <2>3. ASSUME NEW u \in Turns, NEW d \in Own(u) PROVE OwnedBy(u, d)'
    <3>1. d \in Cmds /\ owner[d] = u /\ OwnedBy(u, d) /\ EntryOf(d) BY <1>o, <1>e DEF Own
    <3> QED BY <2>1, <3>1 DEF OwnedBy, EntryOf, InLoop, Running
  <2>4. \A u \in Turns : Own(u)' = Own(u) BY <2>1 DEF Own
  <2>5. \A u \in cancelled' : pc'[u] \in {"end", "over"} BY <2>1, <1>c
  <2> QED BY <2>2, <2>3, <2>4, <2>5 DEF Owned, Goal
<1>20. ASSUME Crash PROVE Goal
  <2>1. /\ UNCHANGED <<owner, first, told>> /\ queued' = {} /\ cancelled' = {} /\ held' = {}
        /\ \A c \in Cmds : proc'[c] = (IF proc[c] = "none" THEN "none" ELSE "exited") /\ reg'[c] = "no"
    BY <1>20 DEF Crash
  <2>2. \A u \in Turns : /\ pc'[u] = IF pc[u] = "none" THEN "none" ELSE "over"
                         /\ outcome'[u] = outcome[u] \/ outcome'[u] = "crashed"
    BY <1>20, <1>t DEF Crash, TypeOK
  <2>3. Entries' BY <2>1, <1>e DEF Entries, EntryOf
  <2>4. ASSUME NEW u \in Turns, NEW d \in Own(u) PROVE OwnedBy(u, d)'
    <3>1. d \in Cmds /\ owner[d] = u /\ OwnedBy(u, d) /\ EntryOf(d) BY <1>o, <1>e DEF Own
    <3>2. u # 0 BY ConstantsAssumption DEF Turns, ConstantsAssumption
    <3>3. proc[d] # "none" BY <3>1, <3>2 DEF EntryOf
    <3> QED BY <2>1, <2>2, <3>1, <3>3 DEF OwnedBy, InLoop, Running
  <2>5. \A u \in Turns : Own(u)' = Own(u) BY <2>1 DEF Own
  <2> QED BY <2>1, <2>3, <2>4, <2>5 DEF Owned, Goal
<1> HIDE DEF Step
<1>21. ASSUME NEW t \in Turns, Loop(t) PROVE Goal
  BY <1>0, <1>2, <1>3, <1>5, <1>6, <1>7, <1>12, <1>13, <1>14, <1>15, <1>16, <1>21 DEF Loop
<1>22. ASSUME NEW t \in Turns, NEW c \in Cmds, WaitForEvents(t, {c}) \/ WaitForEvents(t, Cmds)
       PROVE  Goal
  BY <1>15, <1>22
<1>23. ASSUME NEW t \in Turns, WaitForEvents(t, Cmds) PROVE Goal
  BY <1>15, <1>23
<1> QED
  BY <1>0, <1>1, <1>8, <1>9, <1>10, <1>11, <1>17, <1>18, <1>19, <1>20, <1>21, <1>22, <1>23
     DEF Next, Goal

\* A turn that answers has delivered every message it accepted and told the
\* completion of every command whose first result it recorded.
THEOREM AnswersComplete == Spec => []AnswerLeavesNothing
<1>1. CommandInv => AnswerLeavesNothing
  BY DEF CommandInv, SteerInv, MessagesAnswered, Owned, OwnedBy, AnswerLeavesNothing
<1> QED BY <1>1, InitCommand, NextCommand, PTL DEF Spec

\* The inbox tells a completion once, behind the first result of its command.
THEOREM CompletionsOnce == Spec => []ToldOnce
<1>1. CommandInv => ToldOnce
  BY DEF CommandInv, Entries, EntryOf, ToldOnce
<1> QED BY <1>1, InitCommand, NextCommand, PTL DEF Spec

\* cancelRun(): after a stop the inbox holds nothing of the run, also when its
\* commands start or exit later.
THEOREM StoppedRunsHoldNothing == Spec => []StoppedHoldsNothing
<1>1. CommandInv => StoppedHoldsNothing
  BY DEF CommandInv, Owned, OwnedBy, StoppedHoldsNothing
<1> QED BY <1>1, InitCommand, NextCommand, PTL DEF Spec

\* However a turn is over, by an answer or by Stop, it leaves nothing behind.
THEOREM TurnsLeaveNothing == Spec => []LeavesNothing
<1>1. AnswerLeavesNothing /\ StoppedHoldsNothing => LeavesNothing BY DEF LeavesNothing
<1> QED BY <1>1, AnswersComplete, StoppedRunsHoldNothing, PTL

\* Messages of the user and completions of commands enter the transcript once.
THEOREM DeliveredOnce == Spec => []ToldAndSteeredOnce
<1>1. SteeredOnce /\ ToldOnce => ToldAndSteeredOnce BY DEF ToldAndSteeredOnce
<1> QED BY <1>1, SteeringOnce, CompletionsOnce, PTL
=============================================================================
