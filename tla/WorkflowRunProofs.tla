-------------------------- MODULE WorkflowRunProofs --------------------------
(***************************************************************************)
(* Proofs about WorkflowRun: its types, that steps run in order and only   *)
(* a run of completed steps is completed (InOrder, CompletedMeansAll), that *)
(* no save undoes a completed step (CompletedStays), that corrections are  *)
(* not refunded (CorrectionsHold), that surfaces are held by steps that    *)
(* take turns (SurfacesHold), and that feedback reaches the step it is for *)
(* (FeedbackHolds); for every set of runs and every number of steps.       *)
(*                                                                         *)
(* The inductive invariant compares the two copies of a run: the row and   *)
(* the executor's copy have the same completed steps, count every          *)
(* correction, and hold no feedback for a step after the next one (Fits),  *)
(* so either may be saved over the other.                                  *)
(***************************************************************************)
EXTENDS WorkflowRun, FiniteSetTheorems, WellFoundedInduction, TLAPS

Done(d) == {i \in Steps : d.status[i] = "completed"}

\* The next step to do when `done` are.
Lead(done, i) == i \in Steps \ done /\ \A j \in Steps : j < i => j \in done

\* A copy of a run, in memory or in the database, that may be saved: its completed
\* steps are `done`, it counts the corrections, and holds what the user said for the
\* next step, unless a control met the executor.
Fits(d, done, ordered, text, met) ==
  /\ d \in RunRow /\ Done(d) = done
  /\ \A i \in Steps : ordered[i] <= d.attempts[i]
  /\ \A i \in Steps : Lead(done, i) =>
       /\ ~met => d.feedback[i] = text
       /\ \A j \in Steps : i < j => d.feedback[j] = NoFeedback

Sound(r) ==
  /\ Fits(row[r], Done(row[r]), corrected[r], said[r], meddled[r])
  /\ copy[r] \in RunRow /\ Done(copy[r]) = Done(row[r])
  /\ pc[r] # "off" => Fits(copy[r], Done(row[r]), corrected[r], said[r], meddled[r])
  /\ pc[r] \in Turning => Lead(Done(row[r]), at[r])
  /\ pc[r] = "release" => 1 .. at[r] \subseteq Done(row[r])
  /\ pc[r] = "close" => out[r] # "content"
  /\ task[r] = "completed" => Done(row[r]) = Steps
  /\ task[r] = "none" => row[r] = NewRow
  /\ pc[r] # "off" => task[r] = "running"

IndInv ==
  /\ TypeOK /\ IsFiniteSet(holders) /\ SurfacesHold
  /\ \A r \in Runs : Sound(r)

\* What a step leaves.
Keeps ==
  /\ IndInv'
  /\ \A r \in Runs : Done(row[r]) \subseteq Done(row'[r])

\* What a step of the executor of r does to the variables it may change, when `done`
\* are completed by then and the history is <<ordered, text, met>>.
Effect(r, done, ordered, text, met) ==
  /\ row' \in [Runs -> RunRow] /\ copy' \in [Runs -> RunRow]
  /\ task' \in [Runs -> {"none", "queued", "running", "paused", "cancelled",
                         "failed", "interrupted", "completed"}]
  /\ pc' \in [Runs -> Turning \cup {"off", "index", "release", "close"}]
  /\ at' \in [Runs -> Steps] /\ continued' \in [Runs -> 0 .. MaxContinued]
  /\ reason' \in [Runs -> {"none", "pause", "cancel", "shutdown"}]
  /\ out' \in [Runs -> {"content", "stopped", "error"}]
  /\ Fits(row'[r], done, ordered, text, met) /\ Fits(copy'[r], done, ordered, text, met)
  /\ pc'[r] \in Turning => Lead(done, at'[r])
  /\ pc'[r] = "release" => 1 .. at'[r] \subseteq done
  /\ pc'[r] = "close" => out'[r] # "content"
  /\ task'[r] # "none" /\ (task'[r] = "completed" => done = Steps)
  /\ pc'[r] # "off" => task'[r] = "running"
  /\ \A q \in Runs \ {r} :
       /\ row'[q] = row[q] /\ copy'[q] = copy[q] /\ task'[q] = task[q]
       /\ pc'[q] = pc[q] /\ at'[q] = at[q] /\ out'[q] = out[q]
  /\ holders' \subseteq Runs \X Steps /\ IsFiniteSet(holders')
  /\ Cardinality(holders') + others <= MaxSurfaces
  /\ \A q \in Runs, i \in Steps :
       <<q, i>> \in holders' <=> i \in Surfaced /\ pc'[q] \in Turning /\ at'[q] = i

-----------------------------------------------------------------------------
(* Lemmas about steps and copies.  *)

\* A set of numbers has a least one.
LEMMA LeastExists ==
  ASSUME NEW S \in SUBSET Nat, S # {}
  PROVE  \E n \in S : \A k \in S : n <= k
<1> DEFINE R == OpToRel(<, Nat)
<1>1. IsWellFoundedOn(R, Nat)
  BY NatLessThanWellFounded
<1>2. R = {ss \in Nat \X Nat : ss[1] < ss[2]}
  BY DEF OpToRel
<1> HIDE DEF R
<1>3. PICK n \in S : \A k \in S : ~(<<k, n>> \in R)
  BY <1>1, WFMin
<1>4. \A k \in S : k < n => <<k, n>> \in R
  BY <1>2
<1>5. \A k \in S : ~(k < n)
  BY <1>3, <1>4
<1>6. \A k \in S : n <= k
  BY <1>5
<1> QED
  BY <1>6

\* First() is the least of some steps.
LEMMA FirstIsLeast ==
  ASSUME NEW S \in SUBSET Steps, S # {}
  PROVE  First(S) \in S /\ \A k \in S : First(S) <= k
<1>1. S \in SUBSET Nat
  BY WorkflowAssumption DEF Steps
<1> QED
  BY <1>1, LeastExists DEF First

\* The first of the steps to do from i on is the next one, when all before i are done.
LEMMA TodoLead ==
  ASSUME NEW d, NEW i \in Nat, 1 .. i - 1 \subseteq Done(d), i > 0
  PROVE  /\ Todo(d, i) = {} => Done(d) = Steps
         /\ Todo(d, i) # {} => Lead(Done(d), First(Todo(d, i)))
<1>1. Todo(d, i) = {j \in i .. N : d.status[j] # "completed"} /\ N \in Nat
  BY WorkflowAssumption DEF Todo
<1>2. Todo(d, i) \subseteq Steps /\ \A j \in Steps \ Done(d) : j \in Todo(d, i)
  BY <1>1 DEF Steps, Done
<1>3. CASE Todo(d, i) = {}
  BY <1>2, <1>3 DEF Done
<1>4. CASE Todo(d, i) # {}
  <2>1. First(Todo(d, i)) \in Todo(d, i) /\ \A k \in Todo(d, i) : First(Todo(d, i)) <= k
    BY <1>2, <1>4, FirstIsLeast
  <2>2. First(Todo(d, i)) \in Steps \ Done(d)
    BY <1>1, <1>2, <2>1 DEF Done
  <2>3. ASSUME NEW j \in Steps, j < First(Todo(d, i)), j \notin Done(d) PROVE FALSE
    BY <1>2, <2>1, <2>2, <2>3, WorkflowAssumption DEF Steps
  <2> QED
    BY <1>4, <2>2, <2>3 DEF Lead
<1> QED
  BY <1>3, <1>4

\* There is at most one next step.
LEMMA LeadIsOne ==
  ASSUME NEW done, NEW i, NEW j, Lead(done, i), Lead(done, j)
  PROVE  i = j
BY WorkflowAssumption DEF Lead, Steps

\* A copy still fits when the status of steps that are not completed changes.
LEMMA StatusFits ==
  ASSUME NEW d, NEW done, NEW ordered, NEW text, NEW met, Fits(d, done, ordered, text, met),
         NEW e \in RunRow, e.attempts = d.attempts, e.feedback = d.feedback, Done(e) = Done(d)
  PROVE  Fits(e, done, ordered, text, met)
BY DEF Fits

LEMMA OpenedFits ==
  ASSUME NEW d, NEW done, NEW ordered, NEW text, NEW met, Fits(d, done, ordered, text, met),
         NEW i \in Steps \ done
  PROVE  Fits(Opened(d, i), done, ordered, text, met)
<1>1. d \in RunRow /\ Done(d) = done
  BY DEF Fits
<1>2. /\ Opened(d, i) \in RunRow
      /\ Opened(d, i).attempts = d.attempts /\ Opened(d, i).feedback = d.feedback
      /\ Opened(d, i).status = [d.status EXCEPT ![i] = "active"]
  BY <1>1 DEF Opened, RunRow, StepStatus
<1>3. Done(Opened(d, i)) = done
  BY <1>1, <1>2 DEF Done, RunRow
<1> QED
  BY <1>1, <1>2, <1>3, StatusFits

LEMMA FailedFits ==
  ASSUME NEW d, NEW done, NEW ordered, NEW text, NEW met, Fits(d, done, ordered, text, met)
  PROVE  Fits(Failed(d), done, ordered, text, met)
<1>1. d \in RunRow /\ Done(d) = done
  BY DEF Fits
<1> DEFINE status == [i \in Steps |->
              IF d.status[i] = "active" /\ \A j \in 1 .. i - 1 : d.status[j] # "active"
              THEN "failed" ELSE d.status[i]]
<1>2. status \in [Steps -> StepStatus]
  BY <1>1 DEF RunRow, StepStatus
<1>3. \A i \in Steps : status[i] = "completed" <=> d.status[i] = "completed"
  OBVIOUS
<1>4. Failed(d) = [d EXCEPT !.status = status]
  BY DEF Failed
<1> HIDE DEF status
<1>5. /\ Failed(d) \in RunRow /\ Failed(d).status = status
      /\ Failed(d).attempts = d.attempts /\ Failed(d).feedback = d.feedback
  BY <1>1, <1>2, <1>4 DEF RunRow
<1>6. Done(Failed(d)) = Done(d)
  BY <1>3, <1>5 DEF Done
<1> QED
  BY <1>5, <1>6, StatusFits

-----------------------------------------------------------------------------
(* What the executor does when it ends, goes on, or takes another turn.  *)

\* Types of what an executor changes besides the two copies.
LEMMA Kinds ==
  ASSUME IndInv
  PROVE  /\ row \in [Runs -> RunRow] /\ copy \in [Runs -> RunRow]
         /\ task \in [Runs -> {"none", "queued", "running", "paused", "cancelled",
                               "failed", "interrupted", "completed"}]
         /\ pc \in [Runs -> Turning \cup {"off", "index", "release", "close"}]
         /\ at \in [Runs -> Steps] /\ continued \in [Runs -> 0 .. MaxContinued]
         /\ reason \in [Runs -> {"none", "pause", "cancel", "shutdown"}]
         /\ out \in [Runs -> {"content", "stopped", "error"}]
         /\ holders \subseteq Runs \X Steps /\ IsFiniteSet(holders)
         /\ Cardinality(holders) + others <= MaxSurfaces
         /\ \A q \in Runs, i \in Steps :
              <<q, i>> \in holders <=> i \in Surfaced /\ pc[q] \in Turning /\ at[q] = i
         /\ 1 \in Steps /\ 0 \in 0 .. MaxContinued /\ N \in Nat
<1>1. 1 \in Steps /\ 0 \in 0 .. MaxContinued /\ N \in Nat
  BY WorkflowAssumption DEF Steps
<1>2. TypeOK /\ IsFiniteSet(holders) /\ SurfacesHold
  BY DEF IndInv
<1>3. /\ Cardinality(holders) + others <= MaxSurfaces
      /\ \A q \in Runs, i \in Steps :
           <<q, i>> \in holders <=> i \in Surfaced /\ pc[q] \in Turning /\ at[q] = i
  BY <1>2 DEF SurfacesHold
<1> QED
  BY <1>1, <1>2, <1>3, Zenon DEF TypeOK

\* It returns.
LEMMA OverEffect ==
  ASSUME IndInv, NEW r \in Runs, NEW data, NEW result \in {"content", "stopped", "error"},
         NEW done, NEW ordered, NEW text, NEW met, Fits(data, done, ordered, text, met),
         result = "content" => done = Steps,
         \A i \in Steps : <<r, i>> \notin holders,
         Over(r, data, result), UNCHANGED holders
  PROVE  Effect(r, done, ordered, text, met)
<1> USE Kinds
<1>1. data \in RunRow
  BY DEF Fits
<1>2. /\ Settled(result, reason[r]) \in {"running", "paused", "cancelled", "failed", "completed"}
      /\ Settled(result, reason[r]) = "completed" => result = "content"
  BY DEF Settled
<1>3. /\ row' = [row EXCEPT ![r] = data] /\ copy' = [copy EXCEPT ![r] = data]
      /\ task' = [task EXCEPT ![r] = Settled(result, reason[r])]
      /\ pc' = [pc EXCEPT ![r] = "off"] /\ at' = [at EXCEPT ![r] = 1]
      /\ continued' = [continued EXCEPT ![r] = 0]
      /\ reason' = [reason EXCEPT ![r] = "none"] /\ out' = [out EXCEPT ![r] = "content"]
  BY DEF Over
<1>4. \A q \in Runs, i \in Steps :
        <<q, i>> \in holders' <=> i \in Surfaced /\ pc'[q] \in Turning /\ at'[q] = i
  BY <1>3, ZenonT(30) DEF Turning
<1>5. "off" \notin Turning
  BY DEF Turning
<1> QED
  BY <1>1, <1>2, <1>3, <1>4, <1>5 DEF Effect

\* A step gives up its surfaces.
LEMMA GivesUp ==
  ASSUME IndInv, NEW r \in Runs, holders' = holders \ {<<r, at[r]>>}, pc[r] \in Turning,
         NEW next \in {"close", "release"}, pc' = [pc EXCEPT ![r] = next], at' = at
  PROVE  /\ holders' \subseteq Runs \X Steps /\ IsFiniteSet(holders')
         /\ Cardinality(holders') + others <= MaxSurfaces
         /\ \A q \in Runs, i \in Steps :
              <<q, i>> \in holders' <=> i \in Surfaced /\ pc'[q] \in Turning /\ at'[q] = i
<1> USE Kinds
<1>1. IsFiniteSet(holders') /\ Cardinality(holders') <= Cardinality(holders)
      /\ Cardinality(holders') \in Nat /\ Cardinality(holders) \in Nat
  BY FS_Subset, FS_CardinalityType
<1>2. others \in Nat /\ MaxSurfaces \in Nat
  BY WorkflowAssumption DEF IndInv, TypeOK
<1>3. ASSUME NEW q \in Runs, NEW i \in Steps
      PROVE  <<q, i>> \in holders' <=> i \in Surfaced /\ pc'[q] \in Turning /\ at'[q] = i
  BY DEF Turning
<1> QED
  BY <1>1, <1>2, <1>3

\* It returns once its surfaces are closed.
LEMMA LeavesEffect ==
  ASSUME IndInv, NEW r \in Runs, NEW data, NEW result \in {"stopped", "error"},
         NEW done, NEW ordered, NEW text, NEW met, Fits(data, done, ordered, text, met),
         pc[r] \in Turning, Leaves(r, data, result)
  PROVE  Effect(r, done, ordered, text, met)
<1> USE Kinds
<1>1. CASE <<r, at[r]>> \in holders
  <2>1. /\ holders' = holders \ {<<r, at[r]>>}
        /\ row' = [row EXCEPT ![r] = data] /\ copy' = [copy EXCEPT ![r] = data]
        /\ pc' = [pc EXCEPT ![r] = "close"] /\ out' = [out EXCEPT ![r] = result]
        /\ UNCHANGED <<task, at, continued, reason>>
    BY <1>1 DEF Leaves
  <2>2. data \in RunRow /\ task[r] = "running"
    BY DEF Fits, IndInv, Sound, Turning
  <2>3. /\ holders' \subseteq Runs \X Steps /\ IsFiniteSet(holders')
        /\ Cardinality(holders') + others <= MaxSurfaces
        /\ \A q \in Runs, i \in Steps :
             <<q, i>> \in holders' <=> i \in Surfaced /\ pc'[q] \in Turning /\ at'[q] = i
    BY <2>1, GivesUp
  <2> QED
    BY <2>1, <2>2, <2>3 DEF Effect, Turning
<1>2. CASE <<r, at[r]>> \notin holders
  <2>1. Over(r, data, result) /\ UNCHANGED holders
    BY <1>2 DEF Leaves
  <2>2. \A i \in Steps : <<r, i>> \notin holders
    BY <1>2
  <2> QED
    BY <2>1, <2>2, OverEffect
<1> QED
  BY <1>1, <1>2

\* It goes on with the next step, or ends.
LEMMA AdvanceEffect ==
  ASSUME IndInv, NEW r \in Runs, NEW data, NEW saved, NEW i \in Nat \ {0},
         NEW done, NEW ordered, NEW text, NEW met,
         Fits(data, done, ordered, text, met), Fits(saved, done, ordered, text, met),
         1 .. i - 1 \subseteq done, \A k \in Steps : <<r, k>> \notin holders,
         pc[r] # "off", Advance(r, data, i, saved)
  PROVE  Effect(r, done, ordered, text, met)
<1> USE Kinds
<1> DEFINE todo == Todo(data, i)
           next == First(todo)
<1>1. Done(data) = done
  BY DEF Fits
<1>2. /\ todo = {} => done = Steps
      /\ todo # {} => Lead(done, next)
  BY <1>1, TodoLead
<1>3. todo # {} => next \in Steps \ done
  BY <1>2 DEF Lead
<1> HIDE DEF next, todo
<1>4. todo # {} => Fits(Opened(data, next), done, ordered, text, met)
  BY <1>3, OpenedFits
<1>5. CASE todo = {} /\ Over(r, saved, "content") /\ UNCHANGED holders
  BY <1>2, <1>5, OverEffect
<1>6. CASE Over(r, saved, "stopped") /\ UNCHANGED holders
  BY <1>6, OverEffect
<1>7. CASE Over(r, Failed(data), "error") /\ UNCHANGED holders
  <2>1. Fits(Failed(data), done, ordered, text, met)
    BY FailedFits
  <2> QED
    BY <1>7, <2>1, OverEffect
<1>8. CASE todo # {} /\ Over(r, Failed(Opened(data, next)), "error") /\ UNCHANGED holders
  <2>1. Fits(Failed(Opened(data, next)), done, ordered, text, met)
    BY <1>4, <1>8, FailedFits
  <2> QED
    BY <1>8, <2>1, OverEffect
<1>9. ASSUME todo # {}, next \in Surfaced => Room,
             row' = [row EXCEPT ![r] = Opened(data, next)],
             copy' = [copy EXCEPT ![r] = Opened(data, next)],
             pc' = [pc EXCEPT ![r] = "work"], at' = [at EXCEPT ![r] = next],
             continued' = [continued EXCEPT ![r] = 0],
             holders' = holders \cup (IF next \in Surfaced THEN {<<r, next>>} ELSE {}),
             UNCHANGED <<task, reason, out>>
      PROVE  Effect(r, done, ordered, text, met)
  <2>1. Opened(data, next) \in RunRow /\ next \in Steps /\ Lead(done, next)
    BY <1>2, <1>3, <1>4, <1>9 DEF Fits
  <2>2. task[r] = "running" /\ "work" \in Turning
    BY DEF IndInv, Sound, Turning
  <2>3. IsFiniteSet(holders') /\ Cardinality(holders') + others <= MaxSurfaces
    <3>1. CASE next \in Surfaced
      <4>1. holders' = holders \cup {<<r, next>>} /\ <<r, next>> \notin holders
        BY <1>9, <2>1, <3>1
      <4>2. IsFiniteSet(holders') /\ Cardinality(holders') = Cardinality(holders) + 1
        BY <4>1, FS_AddElement
      <4>3. Cardinality(holders) + others < MaxSurfaces
        BY <1>9, <3>1 DEF Room
      <4>4. Cardinality(holders) \in Nat /\ others \in Nat /\ MaxSurfaces \in Nat
        BY FS_CardinalityType, WorkflowAssumption DEF IndInv, TypeOK
      <4> QED
        BY <4>2, <4>3, <4>4
    <3>2. CASE next \notin Surfaced
      BY <1>9, <3>2
    <3> QED
      BY <3>1, <3>2
  <2>4. ASSUME NEW q \in Runs, NEW k \in Steps
        PROVE  <<q, k>> \in holders' <=> k \in Surfaced /\ pc'[q] \in Turning /\ at'[q] = k
    <3>1. CASE q = r
      BY <1>9, <2>1, <2>2, <3>1
    <3>2. CASE q # r
      BY <1>9, <2>1, <3>2
    <3> QED
      BY <3>1, <3>2
  <2>5. holders' \subseteq Runs \X Steps
    BY <1>9, <2>1
  <2>6. pc' \in [Runs -> Turning \cup {"off", "index", "release", "close"}]
    BY <1>9, <2>2
  <2> QED
    BY <1>4, <1>9, <2>1, <2>2, <2>3, <2>4, <2>5, <2>6 DEF Effect, Turning
<1> QED
  BY <1>5, <1>6, <1>7, <1>8, <1>9 DEF Advance, next, todo

\* A step is completed: what was said is spent, and the executor goes on or closes surfaces.
LEMMA CompletesEffect ==
  ASSUME IndInv, NEW r \in Runs, pc[r] \in Turning, Completes(r)
  PROVE  /\ Effect(r, Done(row[r]) \cup {at[r]}, corrected[r], NoFeedback, FALSE)
         /\ at[r] \in Steps
<1> USE Kinds
<1> DEFINE done == Done(row[r]) \cup {at[r]}
           data == [copy[r] EXCEPT !.status[at[r]] = "completed", !.feedback[at[r]] = NoFeedback]
<1>1. /\ Fits(copy[r], Done(row[r]), corrected[r], said[r], meddled[r])
      /\ Lead(Done(row[r]), at[r]) /\ task[r] = "running"
  BY DEF IndInv, Sound, Turning
<1>2. copy[r] \in RunRow /\ Done(copy[r]) = Done(row[r]) /\ at[r] \in Steps
  BY <1>1 DEF Fits
<1>3. /\ data \in RunRow /\ data.attempts = copy[r].attempts
      /\ data.status = [copy[r].status EXCEPT ![at[r]] = "completed"]
      /\ data.feedback = [copy[r].feedback EXCEPT ![at[r]] = NoFeedback]
  BY <1>2 DEF RunRow, StepStatus
<1>4. Done(data) = done
  BY <1>2, <1>3 DEF Done, RunRow
<1>5. ASSUME NEW i \in Steps, Lead(done, i)
      PROVE  /\ data.feedback[i] = NoFeedback
             /\ \A j \in Steps : i < j => data.feedback[j] = NoFeedback
  <2>1. at[r] < i
    <3> HIDE Kinds
    <3>1. i \in Nat /\ at[r] \in Nat
      BY <1>2, WorkflowAssumption DEF Steps
    <3>2. i \notin Done(row[r]) /\ i # at[r]
      BY <1>5 DEF Lead
    <3>3. ~(i < at[r])
      BY <1>1, <3>2 DEF Lead
    <3> QED
      BY <3>1, <3>2, <3>3
  <2>2. \A j \in Steps : at[r] < j => copy[r].feedback[j] = NoFeedback
    BY <1>1, <1>2 DEF Fits
  <2>3. \A j \in Steps : i < j => at[r] < j
    BY <1>2, <2>1, WorkflowAssumption DEF Steps
  <2> QED
    BY <1>2, <1>3, <2>1, <2>2, <2>3 DEF RunRow
<1>6. Fits(data, done, corrected[r], NoFeedback, FALSE)
  BY <1>1, <1>3, <1>4, <1>5 DEF Fits
<1>7. 1 .. at[r] \subseteq done /\ at[r] \in Nat \ {0}
  <2> HIDE Kinds
  <2>1. at[r] \in Nat \ {0} /\ \A j \in 1 .. at[r] : j \in Steps /\ (j < at[r] \/ j = at[r])
    BY <1>2, WorkflowAssumption DEF Steps
  <2> QED
    BY <1>1, <2>1 DEF Lead
<1>8. CASE <<r, at[r]>> \in holders
  <2>1. /\ holders' = holders \ {<<r, at[r]>>}
        /\ row' = [row EXCEPT ![r] = data] /\ copy' = [copy EXCEPT ![r] = data]
        /\ pc' = [pc EXCEPT ![r] = "release"] /\ UNCHANGED <<task, at, continued, reason, out>>
    BY <1>8 DEF Completes, data
  <2>2. /\ holders' \subseteq Runs \X Steps /\ IsFiniteSet(holders')
        /\ Cardinality(holders') + others <= MaxSurfaces
        /\ \A q \in Runs, i \in Steps :
             <<q, i>> \in holders' <=> i \in Surfaced /\ pc'[q] \in Turning /\ at'[q] = i
    BY <2>1, GivesUp
  <2> HIDE DEF done
  <2>3. "release" \notin Turning
    BY DEF Turning
  <2>4. 1 .. at'[r] \subseteq done
    BY <1>7, <2>1 DEF done
  <2>5. /\ row' \in [Runs -> RunRow] /\ copy' \in [Runs -> RunRow]
        /\ row'[r] = data /\ copy'[r] = data
        /\ pc' \in [Runs -> Turning \cup {"off", "index", "release", "close"}]
        /\ pc'[r] = "release" /\ task'[r] = "running"
        /\ \A q \in Runs \ {r} : row'[q] = row[q] /\ copy'[q] = copy[q] /\ pc'[q] = pc[q]
    BY <1>1, <1>3, <2>1
  <2>6. UNCHANGED <<task, at, continued, reason, out>>
    BY <2>1
  <2>7. /\ task' \in [Runs -> {"none", "queued", "running", "paused", "cancelled",
                             "failed", "interrupted", "completed"}]
        /\ at' \in [Runs -> Steps] /\ continued' \in [Runs -> 0 .. MaxContinued]
        /\ reason' \in [Runs -> {"none", "pause", "cancel", "shutdown"}]
        /\ out' \in [Runs -> {"content", "stopped", "error"}]
    BY <2>6
  <2> HIDE Kinds
  <2> QED
    BY <1>2, <1>6, <2>2, <2>3, <2>4, <2>5, <2>6, <2>7 DEF Effect, done
<1>9. CASE <<r, at[r]>> \notin holders
  <2>1. Advance(r, data, at[r] + 1, data)
    BY <1>9 DEF Completes, data
  <2>2. \A k \in Steps : <<r, k>> \notin holders
    BY <1>9
  <2>3. 1 .. (at[r] + 1) - 1 \subseteq done /\ at[r] + 1 \in Nat \ {0} /\ pc[r] # "off"
    BY <1>7 DEF Turning
  <2> HIDE DEF done
  <2> QED
    BY <1>2, <1>6, <2>1, <2>2, <2>3, AdvanceEffect DEF done
<1> QED
  BY <1>8, <1>9

\* Another turn of the same step.
LEMMA TurnsEffect ==
  ASSUME IndInv, NEW r \in Runs, pc[r] \in Turning, NEW next \in Turning, Turns(r, next),
         continued' \in [Runs -> 0 .. MaxContinued]
  PROVE  Effect(r, Done(row[r]), corrected[r], said[r], meddled[r])
<1> USE Kinds
<1>1. /\ Fits(row[r], Done(row[r]), corrected[r], said[r], meddled[r])
      /\ Fits(copy[r], Done(row[r]), corrected[r], said[r], meddled[r])
      /\ Lead(Done(row[r]), at[r]) /\ task[r] = "running"
  BY DEF IndInv, Sound, Turning
<1> QED
  BY <1>1 DEF Turns, Effect, Turning

\* A step of the executor of r with such an effect keeps the invariant.
LEMMA EffectKeeps ==
  ASSUME IndInv, NEW r \in Runs, NEW done, Done(row[r]) \subseteq done,
         Effect(r, done, corrected'[r], said'[r], meddled'[r]),
         unknown' \in [Runs -> SUBSET Steps], UNCHANGED <<others, quitting>>,
         said' \in [Runs -> Feedback \cup {NoFeedback}], meddled' \in [Runs -> BOOLEAN],
         corrected' \in [Runs -> [Steps -> 0 .. Budget]],
         \A q \in Runs \ {r} : /\ said'[q] = said[q] /\ meddled'[q] = meddled[q]
                               /\ corrected'[q] = corrected[q]
  PROVE  Keeps
<1>1. Done(row'[r]) = done
  BY DEF Effect, Fits
<1>2. TypeOK'
  BY DEF Effect, TypeOK, IndInv, SurfacesHold
<1>3. Sound(r)'
  <2>1. copy'[r] \in RunRow /\ Done(copy'[r]) = done
    BY DEF Effect, Fits
  <2> QED
    BY <1>1, <2>1 DEF Effect, Sound
<1>4. ASSUME NEW q \in Runs \ {r}
      PROVE  Sound(q)' /\ Done(row'[q]) = Done(row[q])
  <2>1. /\ row'[q] = row[q] /\ copy'[q] = copy[q] /\ task'[q] = task[q]
        /\ pc'[q] = pc[q] /\ at'[q] = at[q] /\ out'[q] = out[q]
    BY DEF Effect
  <2>2. Sound(q)
    BY DEF IndInv
  <2> QED
    BY <2>1, <2>2 DEF Sound
<1>5. IsFiniteSet(holders') /\ SurfacesHold'
  BY DEF Effect, SurfacesHold
<1> QED
  BY <1>1, <1>2, <1>3, <1>4, <1>5 DEF IndInv, Keeps

-----------------------------------------------------------------------------
(* The steps of the executor.  *)

\* A turn that is stopped, or fails, ends the execution.
LEMMA StopEffect ==
  ASSUME IndInv, NEW r \in Runs, pc[r] \in Turning, Halts(r) \/ Fails(r)
  PROVE  Effect(r, Done(row[r]), corrected[r], said[r], meddled[r])
<1>1. /\ Fits(copy[r], Done(row[r]), corrected[r], said[r], meddled[r])
      /\ Lead(Done(row[r]), at[r])
  BY DEF IndInv, Sound, Turning
<1>2. CASE Fails(r)
  <2>1. Fits(Failed(copy[r]), Done(row[r]), corrected[r], said[r], meddled[r])
    BY <1>1, FailedFits
  <2> QED
    BY <1>2, <2>1, LeavesEffect DEF Fails
<1>3. CASE Halts(r)
  <2> DEFINE status == CASE reason[r] = "shutdown" -> copy[r].status[at[r]]
                         [] reason[r] = "pause" -> "paused"
                         [] OTHER -> "cancelled"
             data == [copy[r] EXCEPT !.status[at[r]] = status]
  <2>1. /\ copy[r] \in RunRow /\ Done(copy[r]) = Done(row[r])
        /\ at[r] \in Steps /\ at[r] \notin Done(copy[r])
    BY <1>1 DEF Fits, Lead
  <2>2. status \in StepStatus /\ status # "completed"
    BY <2>1 DEF StepStatus, RunRow, Done
  <2>3. Leaves(r, data, "stopped")
    BY <1>3 DEF Halts
  <2> HIDE DEF status
  <2>4. /\ data \in RunRow /\ data.attempts = copy[r].attempts
        /\ data.feedback = copy[r].feedback
        /\ data.status = [copy[r].status EXCEPT ![at[r]] = status]
    BY <2>1, <2>2 DEF RunRow
  <2> HIDE DEF data
  <2>5. Done(data) = Done(copy[r])
    BY <2>1, <2>2, <2>4 DEF Done, RunRow
  <2>6. Fits(data, Done(row[r]), corrected[r], said[r], meddled[r])
    BY <1>1, <2>4, <2>5, StatusFits
  <2> QED
    BY <2>3, <2>6, LeavesEffect
<1> QED
  BY <1>2, <1>3

\* The history and the calls of unknown outcome have their types.
LEMMA HistoryKinds ==
  ASSUME IndInv
  PROVE  /\ unknown \in [Runs -> SUBSET Steps] /\ said \in [Runs -> Feedback \cup {NoFeedback}]
         /\ meddled \in [Runs -> BOOLEAN] /\ corrected \in [Runs -> [Steps -> 0 .. Budget]]
         /\ at \in [Runs -> Steps]
BY DEF IndInv, TypeOK

\* A step of the executor that leaves the history as it is.
LEMMA PlainKeeps ==
  ASSUME IndInv, NEW r \in Runs, Effect(r, Done(row[r]), corrected[r], said[r], meddled[r]),
         unknown' \in [Runs -> SUBSET Steps], UNCHANGED <<others, quitting, history>>
  PROVE  Keeps
<1>1. UNCHANGED <<said, meddled, corrected>>
  BY DEF history
<1> QED
  BY <1>1, HistoryKinds, EffectKeeps

\* A step of the executor that completes the step it is at.
LEMMA SpentKeeps ==
  ASSUME IndInv, NEW r \in Runs, pc[r] \in Turning, Completes(r), Spent(r),
         unknown' \in [Runs -> SUBSET Steps], UNCHANGED <<others, quitting>>
  PROVE  Keeps
<1>1. Effect(r, Done(row[r]) \cup {at[r]}, corrected[r], NoFeedback, FALSE)
  BY CompletesEffect
<1>2. /\ said' = [said EXCEPT ![r] = NoFeedback] /\ corrected' = corrected
      /\ meddled' = [meddled EXCEPT ![r] = FALSE]
  BY DEF Spent
<1>3. said'[r] = NoFeedback /\ said' \in [Runs -> Feedback \cup {NoFeedback}]
  BY <1>2, HistoryKinds
<1>4. meddled'[r] = FALSE /\ meddled' \in [Runs -> BOOLEAN]
  BY <1>2, HistoryKinds, Zenon
<1>5. \A q \in Runs \ {r} : said'[q] = said[q] /\ meddled'[q] = meddled[q]
  BY <1>2, HistoryKinds
<1>6. Effect(r, Done(row[r]) \cup {at[r]}, corrected'[r], said'[r], meddled'[r])
  BY <1>1, <1>2, <1>3, <1>4
<1> DEFINE done == Done(row[r]) \cup {at[r]}
<1>7. Done(row[r]) \subseteq done /\ Effect(r, done, corrected'[r], said'[r], meddled'[r])
  BY <1>6
<1>8. corrected' \in [Runs -> [Steps -> 0 .. Budget]] /\ \A q \in Runs : corrected'[q] = corrected[q]
  BY <1>2, HistoryKinds
<1> HIDE DEF done
<1> QED
  BY <1>3, <1>4, <1>5, <1>7, <1>8, EffectKeeps

LEMMA ActedKinds ==
  ASSUME IndInv, NEW r \in Runs, Acted(r)
  PROVE  unknown' \in [Runs -> SUBSET Steps]
BY HistoryKinds DEF Acted

\* A work turn, or a repair, ends.
LEMMA WorkStep ==
  ASSUME IndInv, NEW r \in Runs, WorkEnds(r)
  PROVE  Keeps
<1>1. pc[r] \in Turning /\ UNCHANGED <<others, quitting>>
  BY DEF WorkEnds, Turning
<1>2. unknown' \in [Runs -> SUBSET Steps]
  BY ActedKinds, HistoryKinds DEF WorkEnds
<1>3. CASE (Halts(r) \/ Fails(r)) /\ UNCHANGED history
  BY <1>1, <1>2, <1>3, StopEffect, PlainKeeps
<1>4. CASE Turns(r, "repair") /\ UNCHANGED <<continued, history>>
  <2>1. "repair" \in Turning /\ continued' \in [Runs -> 0 .. MaxContinued]
    BY <1>4, Kinds DEF Turning
  <2> QED
    BY <1>1, <1>2, <1>4, <2>1, TurnsEffect, PlainKeeps
<1>5. CASE Continues(r) /\ Turns(r, "work") /\ UNCHANGED history
  <2>1. "work" \in Turning /\ continued' \in [Runs -> 0 .. MaxContinued]
    BY <1>5, Kinds, WorkflowAssumption DEF Turning, Continues
  <2> QED
    BY <1>1, <1>2, <1>5, <2>1, TurnsEffect, PlainKeeps
<1>6. CASE Claimed(r)
  <2>1. CASE Turns(r, "validate") /\ UNCHANGED <<continued, history>>
    <3>1. "validate" \in Turning /\ continued' \in [Runs -> 0 .. MaxContinued]
      BY <2>1, Kinds DEF Turning
    <3> QED
      BY <1>1, <1>2, <2>1, <3>1, TurnsEffect, PlainKeeps
  <2>2. CASE Completes(r) /\ Spent(r)
    BY <1>1, <1>2, <2>2, SpentKeeps
  <2> QED
    BY <1>6, <2>1, <2>2 DEF Claimed
<1> QED
  BY <1>3, <1>4, <1>5, <1>6 DEF WorkEnds

\* A correction is ordered: it is counted in both copies.
LEMMA CountedKeeps ==
  ASSUME IndInv, NEW r \in Runs, pc[r] \in Turning, MayCorrect(r), Counted(r),
         corrected' = [corrected EXCEPT ![r][at[r]] = @ + 1], pc' = [pc EXCEPT ![r] = "fold"],
         UNCHANGED <<task, at, continued, reason, out, holders, said, meddled>>,
         UNCHANGED <<unknown, others, quitting>>
  PROVE  Keeps
<1> DEFINE data == [copy[r] EXCEPT !.attempts[at[r]] = @ + 1]
<1> USE Kinds, HistoryKinds
<1>1. /\ Fits(copy[r], Done(row[r]), corrected[r], said[r], meddled[r])
      /\ Lead(Done(row[r]), at[r]) /\ task[r] = "running"
  BY DEF IndInv, Sound, Turning
<1>2. /\ copy[r] \in RunRow /\ at[r] \in Steps /\ Budget \in Nat
      /\ copy[r].attempts[at[r]] < Budget
      /\ \A i \in Steps : corrected[r][i] <= copy[r].attempts[i]
  BY <1>1, WorkflowAssumption DEF Fits, MayCorrect
<1>3. /\ data \in RunRow /\ data.status = copy[r].status /\ data.feedback = copy[r].feedback
      /\ data.attempts = [copy[r].attempts EXCEPT ![at[r]] = @ + 1]
  <2>1. copy[r].attempts \in [Steps -> 0 .. Budget] /\ copy[r].attempts[at[r]] + 1 \in 0 .. Budget
    BY <1>2 DEF RunRow
  <2>2. [copy[r].attempts EXCEPT ![at[r]] = @ + 1] \in [Steps -> 0 .. Budget]
    BY <1>2, <2>1
  <2>3. data = [copy[r] EXCEPT !.attempts = [copy[r].attempts EXCEPT ![at[r]] = @ + 1]]
    BY <1>2 DEF RunRow
  <2> QED
    BY <1>2, <2>2, <2>3 DEF RunRow
<1>4. corrected'[r] = [corrected[r] EXCEPT ![at[r]] = @ + 1]
  OBVIOUS
<1>5. corrected' \in [Runs -> [Steps -> 0 .. Budget]]
  <2>1. corrected[r][at[r]] + 1 \in 0 .. Budget
    BY <1>2 DEF RunRow
  <2> QED
    BY <1>2, <2>1
<1>6. row' = [row EXCEPT ![r] = data] /\ copy' = [copy EXCEPT ![r] = data]
  BY DEF Counted
<1>7. Done(data) = Done(row[r])
  BY <1>1, <1>3 DEF Done, Fits
<1>8. \A i \in Steps : corrected'[r][i] <= data.attempts[i]
  BY <1>2, <1>3, <1>4 DEF RunRow
<1>9. Fits(data, Done(row[r]), corrected'[r], said[r], meddled[r])
  BY <1>1, <1>3, <1>7, <1>8 DEF Fits
<1>10. Effect(r, Done(row[r]), corrected'[r], said[r], meddled[r])
  <2>1. \A q \in Runs, i \in Steps :
          <<q, i>> \in holders' <=> i \in Surfaced /\ pc'[q] \in Turning /\ at'[q] = i
    BY DEF Turning
  <2>2. "fold" \in Turning /\ pc'[r] = "fold"
    BY DEF Turning
  <2> QED
    BY <1>1, <1>3, <1>6, <1>9, <2>1, <2>2 DEF Effect
<1> QED
  BY <1>5, <1>10, EffectKeeps

\* A verdict, a summary or a correction ends.
LEMMA CheckStep ==
  ASSUME IndInv, NEW r \in Runs, ValidateEnds(r) \/ FoldEnds(r) \/ CorrectEnds(r)
  PROVE  Keeps
<1>1. pc[r] \in Turning /\ UNCHANGED <<others, quitting>>
  BY DEF ValidateEnds, FoldEnds, CorrectEnds, Turning
<1>2. unknown' \in [Runs -> SUBSET Steps]
  BY ActedKinds, HistoryKinds DEF ValidateEnds, FoldEnds, CorrectEnds
<1>3. CASE (Halts(r) \/ Fails(r)) /\ UNCHANGED history
  BY <1>1, <1>2, <1>3, StopEffect, PlainKeeps
<1>4. ASSUME NEW next \in {"correct", "validate"}, Turns(r, next), UNCHANGED <<continued, history>>
      PROVE  Keeps
  <2>1. next \in Turning /\ continued' \in [Runs -> 0 .. MaxContinued]
    BY <1>4, Kinds DEF Turning
  <2> QED
    BY <1>1, <1>2, <1>4, <2>1, TurnsEffect, PlainKeeps
<1>5. CASE ValidateEnds(r)
  BY <1>1, <1>2, <1>3, <1>5, SpentKeeps, CountedKeeps DEF ValidateEnds
<1>6. CASE FoldEnds(r)
  BY <1>3, <1>4, <1>6 DEF FoldEnds
<1>7. CASE CorrectEnds(r)
  BY <1>3, <1>4, <1>7 DEF CorrectEnds
<1> QED
  BY <1>5, <1>6, <1>7

\* The loop begins, goes on after surfaces are closed, or returns.
LEMMA LoopStep ==
  ASSUME IndInv, NEW r \in Runs, Indexed(r) \/ Released(r) \/ Closed(r)
  PROVE  Keeps
<1> DEFINE done == Done(row[r])
<1>1. /\ pc[r] \notin Turning /\ pc[r] # "off" /\ unknown' \in [Runs -> SUBSET Steps]
      /\ UNCHANGED <<others, quitting, history>>
  BY HistoryKinds DEF Indexed, Released, Closed, Turning
<1>2. /\ Fits(row[r], done, corrected[r], said[r], meddled[r])
      /\ Fits(copy[r], done, corrected[r], said[r], meddled[r])
  BY <1>1 DEF IndInv, Sound
<1>3. \A k \in Steps : <<r, k>> \notin holders
  BY <1>1, Kinds
<1>4. CASE Indexed(r)
  <2>1. PICK saved \in {row[r], copy[r]} : Advance(r, copy[r], 1, saved)
    BY <1>4 DEF Indexed
  <2>2. Fits(saved, done, corrected[r], said[r], meddled[r])
    BY <1>2
  <2>3. 1 .. 1 - 1 \subseteq done /\ 1 \in Nat \ {0}
    OBVIOUS
  <2> HIDE DEF done
  <2>4. Effect(r, done, corrected[r], said[r], meddled[r])
    BY <1>1, <1>2, <1>3, <2>1, <2>2, <2>3, AdvanceEffect
  <2> QED
    BY <1>1, <2>4, PlainKeeps DEF done
<1>5. CASE Released(r)
  <2>1. Advance(r, copy[r], at[r] + 1, row[r])
    BY <1>5 DEF Released
  <2>2. at[r] \in Nat /\ 1 .. at[r] \subseteq done
    BY <1>5, Kinds DEF Released, IndInv, Sound, Steps
  <2>3. 1 .. (at[r] + 1) - 1 \subseteq done /\ at[r] + 1 \in Nat \ {0}
    BY <2>2
  <2> HIDE DEF done
  <2>4. Effect(r, done, corrected[r], said[r], meddled[r])
    BY <1>1, <1>2, <1>3, <2>1, <2>3, AdvanceEffect
  <2> QED
    BY <1>1, <2>4, PlainKeeps DEF done
<1>6. CASE Closed(r)
  <2>1. Over(r, row[r], out[r]) /\ UNCHANGED holders
    BY <1>6 DEF Closed
  <2>2. out[r] \in {"stopped", "error"}
    BY <1>6, Kinds DEF Closed, IndInv, Sound
  <2> HIDE DEF done
  <2>3. Effect(r, done, corrected[r], said[r], meddled[r])
    BY <1>2, <1>3, <2>1, <2>2, OverEffect
  <2> QED
    BY <1>1, <2>3, PlainKeeps DEF done
<1> QED
  BY <1>4, <1>5, <1>6

-----------------------------------------------------------------------------
(* The other steps of a run.  *)

\* A step that leaves the executor where it is, and the surfaces, keeps the invariant.
LEMMA RowKeeps ==
  ASSUME IndInv, NEW r \in Runs, TypeOK', Sound(r)', Done(row'[r]) = Done(row[r]),
         UNCHANGED <<pc, copy, at, out, holders, others>>,
         \A q \in Runs \ {r} :
           /\ row'[q] = row[q] /\ task'[q] = task[q] /\ said'[q] = said[q]
           /\ meddled'[q] = meddled[q] /\ corrected'[q] = corrected[q]
  PROVE  Keeps
<1>1. ASSUME NEW q \in Runs \ {r} PROVE Sound(q)'
  <2>1. Sound(q)
    BY DEF IndInv
  <2> QED
    BY <2>1 DEF Sound
<1>2. IsFiniteSet(holders') /\ SurfacesHold'
  BY DEF IndInv, SurfacesHold
<1> QED
  BY <1>1, <1>2 DEF IndInv, Keeps

\* A run starts: its row is a new one already.
LEMMA StartStep ==
  ASSUME IndInv, NEW r \in Runs, Start(r)
  PROVE  Keeps
<1> USE Kinds
<1>1. /\ row[r] = NewRow /\ Sound(r) /\ pc[r] = "off"
  BY DEF Start, IndInv, Sound
<1>2. /\ row' = row /\ task' = [task EXCEPT ![r] = "queued"]
      /\ UNCHANGED <<unknown, pc, copy, at, continued, reason, out, holders, others, quitting>>
      /\ UNCHANGED <<said, meddled, corrected>>
  BY <1>1 DEF Start, history
<1>3. TypeOK'
  BY <1>2 DEF IndInv, TypeOK
<1>4. Sound(r)'
  BY <1>1, <1>2 DEF Sound
<1> QED
  BY <1>2, <1>3, <1>4, RowKeeps

\* The runner queues a run again, pauses or cancels it.
LEMMA TaskStep ==
  ASSUME IndInv, NEW r \in Runs,
         TaskResume(r) \/ \E why \in {"pause", "cancel"} : Halt(r, why)
  PROVE  Keeps
<1> USE Kinds
<1> DEFINE Changed ==
             /\ \/ task' = task
                \/ /\ pc[r] = "off" /\ task[r] # "none"
                   /\ \E status \in {"queued", "paused", "cancelled"} :
                        task' = [task EXCEPT ![r] = status]
             /\ reason' \in [Runs -> {"none", "pause", "cancel", "shutdown"}]
             /\ UNCHANGED <<row, unknown, pc, copy, at, continued, out, holders, others, quitting>>
             /\ UNCHANGED <<said, meddled, corrected>>
<1>1. Changed
  <2>1. Sound(r)
    BY DEF IndInv
  <2>2. CASE TaskResume(r)
    BY <2>1, <2>2 DEF TaskResume, history, Sound
  <2>3. ASSUME NEW why \in {"pause", "cancel"}, Halt(r, why) PROVE Changed
    BY <2>1, <2>3 DEF Halt, history, Sound
  <2> QED
    BY <2>2, <2>3
<1>2. TypeOK'
  <2>1. task' \in [Runs -> {"none", "queued", "running", "paused", "cancelled",
                            "failed", "interrupted", "completed"}]
    BY <1>1
  <2> QED
    BY <1>1, <2>1 DEF IndInv, TypeOK
<1>3. Sound(r)'
  <2>1. Sound(r) /\ (task'[r] = "none" => task[r] = "none")
        /\ (task'[r] = "completed" => task[r] = "completed")
        /\ (pc[r] # "off" => task'[r] = task[r])
    BY <1>1 DEF IndInv
  <2> QED
    BY <1>1, <2>1 DEF Sound
<1>4. \A q \in Runs \ {r} : task'[q] = task[q]
  BY <1>1
<1> QED
  BY <1>1, <1>2, <1>3, <1>4, RowKeeps

\* The executor saves its copy while the index is built.
LEMMA IndexingStep ==
  ASSUME IndInv, NEW r \in Runs, Indexing(r)
  PROVE  Keeps
<1> USE Kinds
<1>1. /\ pc[r] = "index" /\ row' = [row EXCEPT ![r] = copy[r]]
      /\ UNCHANGED <<task, unknown, pc, copy, at, continued, reason, out, holders, others, quitting>>
      /\ UNCHANGED <<said, meddled, corrected>>
  BY DEF Indexing, history
<1>2. Sound(r)
  BY DEF IndInv
<1>3. TypeOK'
  BY <1>1 DEF IndInv, TypeOK
<1>4. row'[r] = copy[r] /\ Done(row'[r]) = Done(row[r])
  BY <1>1, <1>2 DEF Sound
<1>5. Sound(r)'
  BY <1>1, <1>2, <1>4 DEF Sound
<1> QED
  BY <1>1, <1>3, <1>4, <1>5, RowKeeps

\* The runner begins a run, or finds its workspace gone.
LEMMA LaunchStep ==
  ASSUME IndInv, NEW r \in Runs, Launch(r) \/ NoWorkspace(r)
  PROVE  Keeps
<1> USE Kinds
<1> DEFINE done == Done(row[r])
<1>1. /\ Sound(r) /\ task[r] = "queued" /\ pc[r] = "off" /\ Fits(row[r], done, corrected[r], said[r], meddled[r])
      /\ UNCHANGED <<unknown, at, continued, reason, out, holders, others, quitting>>
      /\ UNCHANGED <<said, meddled, corrected>>
  BY DEF Launch, NoWorkspace, history, IndInv, Sound
<1>2. \A i \in Steps : <<r, i>> \notin holders
  BY <1>1 DEF Turning
<1>3. UNCHANGED <<others, quitting, history>> /\ unknown' \in [Runs -> SUBSET Steps]
  BY <1>1, HistoryKinds DEF history
<1> HIDE DEF done
<1>4. CASE Launch(r)
  <2>1. /\ row' = row /\ copy' = [copy EXCEPT ![r] = row[r]]
        /\ task' = [task EXCEPT ![r] = "running"] /\ pc' = [pc EXCEPT ![r] = "index"]
    BY <1>4 DEF Launch
  <2>2. \A q \in Runs, i \in Steps :
          <<q, i>> \in holders' <=> i \in Surfaced /\ pc'[q] \in Turning /\ at'[q] = i
    BY <1>1, <2>1 DEF Turning
  <2>3. Effect(r, done, corrected[r], said[r], meddled[r])
    BY <1>1, <2>1, <2>2 DEF Effect, Turning
  <2> QED
    BY <1>3, <2>3, PlainKeeps DEF done
<1>5. CASE NoWorkspace(r)
  <2> DEFINE data == Failed(row[r])
  <2>1. Fits(data, done, corrected[r], said[r], meddled[r])
    BY <1>1, FailedFits
  <2>2. data \in RunRow
    BY <2>1 DEF Fits
  <2>3. /\ row' = [row EXCEPT ![r] = data] /\ copy' = [copy EXCEPT ![r] = data]
        /\ task' = [task EXCEPT ![r] = "failed"] /\ pc' = pc
    BY <1>5 DEF NoWorkspace
  <2> HIDE DEF data
  <2>4. Effect(r, done, corrected[r], said[r], meddled[r])
    BY <1>1, <2>1, <2>2, <2>3 DEF Effect, Turning
  <2> QED
    BY <1>3, <2>4, PlainKeeps DEF done
<1> QED
  BY <1>4, <1>5

-----------------------------------------------------------------------------
(* The user's controls.  *)

\* What the user said by a control, and whether it met an executor, for every run.
LEMMA SaysNext ==
  ASSUME IndInv, NEW r \in Runs, NEW new \in Feedback \cup {NoFeedback}, NEW clear \in BOOLEAN,
         Says(r, new, clear)
  PROVE  /\ said'[r] = IF Done(row[r]) # Steps /\ (new # NoFeedback \/ clear) THEN new ELSE said[r]
         /\ meddled'[r] <=> pc[r] # "off" \/ (meddled[r] /\ new = NoFeedback /\ ~clear)
         /\ said' \in [Runs -> Feedback \cup {NoFeedback}] /\ meddled' \in [Runs -> BOOLEAN]
         /\ \A q \in Runs \ {r} : said'[q] = said[q] /\ meddled'[q] = meddled[q]
<1> DEFINE gives == new # NoFeedback \/ clear
           meets == pc[r] # "off" \/ (meddled[r] /\ new = NoFeedback /\ ~clear)
<1>1. Unfinished(r) # {} <=> Done(row[r]) # Steps
  BY DEF Unfinished, Done
<1>2. /\ said' = [said EXCEPT ![r] = IF Unfinished(r) # {} /\ gives THEN new ELSE said[r]]
      /\ meddled' = [meddled EXCEPT ![r] = meets]
  BY DEF Says
<1>3. meets \in BOOLEAN
  OBVIOUS
<1> HIDE DEF gives, meets
<1>4. /\ said'[r] = IF Done(row[r]) # Steps /\ gives THEN new ELSE said[r]
      /\ said' \in [Runs -> Feedback \cup {NoFeedback}]
      /\ \A q \in Runs \ {r} : said'[q] = said[q]
  BY <1>1, <1>2, HistoryKinds
<1>5. /\ meddled'[r] = meets /\ meddled' \in [Runs -> BOOLEAN]
      /\ \A q \in Runs \ {r} : meddled'[q] = meddled[q]
  BY <1>2, <1>3, HistoryKinds, Zenon
<1> QED
  BY <1>4, <1>5 DEF gives, meets

\* What a control leaves in the row: its text for the next step, if it gives one.
LEMMA ControlFits ==
  ASSUME IndInv, NEW r \in Runs, NEW new \in Feedback \cup {NoFeedback}, NEW clear \in BOOLEAN,
         Says(r, new, clear), NEW e, e = Steered(row[r], new, clear)
  PROVE  /\ e \in RunRow /\ e.status = row[r].status /\ e.attempts = row[r].attempts
         /\ Done(e) = Done(row[r])
         /\ Fits(e, Done(row[r]), corrected[r], said'[r], meddled'[r])
         /\ pc[r] # "off" => meddled'[r]
<1> DEFINE d == row[r]
           done == Done(row[r])
           gives == new # NoFeedback \/ clear
           feedback == [i \in Steps |-> IF Todo(d, 1) # {} /\ i = First(Todo(d, 1)) /\ gives
                                        THEN new ELSE d.feedback[i]]
<1>0. /\ said'[r] = IF done # Steps /\ gives THEN new ELSE said[r]
      /\ meddled'[r] <=> pc[r] # "off" \/ (meddled[r] /\ ~gives)
  BY SaysNext
<1>1. /\ d \in RunRow /\ Done(d) = done
      /\ \A i \in Steps : corrected[r][i] <= d.attempts[i]
      /\ \A i \in Steps : Lead(done, i) =>
           /\ ~meddled[r] => d.feedback[i] = said[r]
           /\ \A j \in Steps : i < j => d.feedback[j] = NoFeedback
  BY DEF IndInv, Sound, Fits
<1>2. e = [d EXCEPT !.feedback = feedback]
  BY <1>1 DEF Steered, RunRow
<1>a. pc[r] # "off" => meddled'[r]
  BY <1>0
<1>b. ~meddled'[r] /\ ~gives => ~meddled[r]
  BY <1>0
<1>c. said'[r] = IF done # Steps /\ gives THEN new ELSE said[r]
  BY <1>0
<1> HIDE DEF gives
<1>3. feedback \in [Steps -> Feedback \cup {NoFeedback}]
  BY <1>1 DEF RunRow
<1> HIDE DEF done, d
<1>4. \A i \in Steps : Lead(done, i) => Todo(d, 1) # {} /\ i = First(Todo(d, 1))
  <2>1. 1 .. 1 - 1 \subseteq Done(d) /\ 1 \in Nat /\ 1 > 0
    OBVIOUS
  <2>2. /\ Todo(d, 1) = {} => Done(d) = Steps
        /\ Todo(d, 1) # {} => Lead(Done(d), First(Todo(d, 1)))
    BY <2>1, TodoLead
  <2>3. ASSUME NEW i \in Steps, Lead(done, i) PROVE Todo(d, 1) # {} /\ i = First(Todo(d, 1))
    <3>1. done # Steps
      BY <2>3 DEF Lead
    <3> QED
      BY <1>1, <2>2, <2>3, <3>1, LeadIsOne
  <2> QED
    BY <2>3
<1>5. ASSUME NEW i \in Steps, Lead(done, i)
      PROVE  /\ ~meddled'[r] => feedback[i] = said'[r]
             /\ \A j \in Steps : i < j => feedback[j] = NoFeedback
  <2>1. done # Steps /\ Todo(d, 1) # {} /\ i = First(Todo(d, 1))
    BY <1>4, <1>5 DEF Lead
  <2>2. feedback[i] = IF gives THEN new ELSE d.feedback[i]
    BY <2>1
  <2>3. \A j \in Steps : j # i => feedback[j] = d.feedback[j]
    BY <2>1
  <2>4. \A j \in Steps : i < j => j # i
    BY WorkflowAssumption DEF Steps
  <2> HIDE DEF feedback
  <2> QED
    BY <1>1, <1>b, <1>c, <1>5, <2>1, <2>2, <2>3, <2>4
<1> HIDE DEF feedback
<1>6. /\ e \in RunRow /\ e.status = d.status /\ e.attempts = d.attempts /\ e.feedback = feedback
  BY <1>1, <1>2, <1>3 DEF RunRow
<1>7. Done(e) = done
  BY <1>1, <1>6 DEF Done
<1>8. Fits(e, done, corrected[r], said'[r], meddled'[r])
  BY <1>1, <1>5, <1>6, <1>7 DEF Fits
<1> QED
  BY <1>6, <1>7, <1>8, <1>a DEF d, done

\* A control that queues the run again.
LEMMA QueuesAgain ==
  ASSUME IndInv, NEW r \in Runs, task[r] # "none",
         NEW status \in {task[r], "queued"}, task[r] = "running" => status = "running",
         task' = [task EXCEPT ![r] = status]
  PROVE  /\ task' \in [Runs -> {"none", "queued", "running", "paused", "cancelled",
                                "failed", "interrupted", "completed"}]
         /\ \A q \in Runs \ {r} : task'[q] = task[q]
         /\ task'[r] # "none" /\ (task'[r] = "completed" => task[r] = "completed")
         /\ pc[r] # "off" => task'[r] = "running"
<1>1. pc[r] # "off" => task[r] = "running"
  BY DEF IndInv, Sound
<1> QED
  BY <1>1, Kinds

\* The user resumes a run.
LEMMA ResumeStep ==
  ASSUME IndInv, NEW r \in Runs, NEW text \in Feedback \cup {NoFeedback}, Resume(r, text)
  PROVE  Keeps
<1> DEFINE done == Done(row[r])
           data == Steered(row[r], text, FALSE)
           status == IF task[r] \in {"interrupted", "paused"} THEN "queued" ELSE task[r]
<1> USE Kinds, HistoryKinds
<1>1. /\ row' = [row EXCEPT ![r] = data] /\ Says(r, text, FALSE) /\ task[r] # "none"
      /\ task' = [task EXCEPT ![r] = status]
      /\ UNCHANGED <<unknown, pc, copy, at, continued, reason, out, holders, others, quitting,
                     corrected>>
  BY DEF Resume
<1>2. /\ Fits(row[r], done, corrected[r], said[r], meddled[r])
      /\ copy[r] \in RunRow /\ Done(copy[r]) = done /\ Sound(r)
  BY DEF IndInv, Sound
<1>d. data = Steered(row[r], text, FALSE) /\ FALSE \in BOOLEAN
  OBVIOUS
<1>q. status \in {task[r], "queued"} /\ (task[r] = "running" => status = "running")
  OBVIOUS
<1> HIDE DEF data, status
<1>4. /\ data \in RunRow /\ Done(data) = done /\ data.status = row[r].status
      /\ data.attempts = row[r].attempts /\ (pc[r] # "off" => meddled'[r])
      /\ Fits(data, done, corrected[r], said'[r], meddled'[r])
  <2>1. /\ Steered(row[r], text, FALSE) \in RunRow
        /\ Steered(row[r], text, FALSE).status = row[r].status
        /\ Steered(row[r], text, FALSE).attempts = row[r].attempts
        /\ Done(Steered(row[r], text, FALSE)) = Done(row[r])
        /\ Fits(Steered(row[r], text, FALSE), Done(row[r]), corrected[r], said'[r], meddled'[r])
        /\ pc[r] # "off" => meddled'[r]
    <3> HIDE Kinds, HistoryKinds
    <3> QED
      BY <1>1, ControlFits, ZenonT(30)
  <2> QED
    BY <2>1, <1>d, Zenon
<1> HIDE DEF done
<1>5. /\ said' \in [Runs -> Feedback \cup {NoFeedback}] /\ meddled' \in [Runs -> BOOLEAN]
      /\ \A q \in Runs \ {r} : said'[q] = said[q] /\ meddled'[q] = meddled[q]
  BY <1>1, <1>d, SaysNext
<1>6. /\ task' \in [Runs -> {"none", "queued", "running", "paused", "cancelled",
                             "failed", "interrupted", "completed"}]
      /\ \A q \in Runs \ {r} : task'[q] = task[q]
      /\ task'[r] # "none" /\ (task'[r] = "completed" => task[r] = "completed")
      /\ pc[r] # "off" => task'[r] = "running"
  BY <1>1, <1>q, QueuesAgain
<1>7. TypeOK'
  BY <1>1, <1>4, <1>5, <1>6 DEF IndInv, TypeOK
<1>8. row'[r] = data /\ Done(row'[r]) = Done(row[r])
  BY <1>1, <1>4 DEF done
<1>9. Fits(row'[r], done, corrected'[r], said'[r], meddled'[r])
  BY <1>1, <1>4, <1>5, <1>8 DEF Fits
<1>10. pc'[r] # "off" => Fits(copy'[r], done, corrected'[r], said'[r], meddled'[r])
  <2>1. pc[r] # "off" => meddled'[r] /\ Fits(copy[r], done, corrected[r], said[r], meddled[r])
    BY <1>2, <1>4 DEF Sound, done
  <2> QED
    BY <1>1, <2>1 DEF Fits
<1>11. Sound(r)'
  BY <1>1, <1>2, <1>6, <1>8, <1>9, <1>10 DEF Sound, done
<1> QED
  BY <1>1, <1>5, <1>6, <1>7, <1>8, <1>11, RowKeeps

\* The user retries a run: the unfinished steps have their corrections again.
LEMMA RetryStep ==
  ASSUME IndInv, NEW r \in Runs, NEW text \in Feedback \cup {NoFeedback}, Retry(r, text)
  PROVE  Keeps
<1> DEFINE done == Done(row[r])
           data == Steered(row[r], text, TRUE)
           attempts == [i \in Steps |-> IF data.status[i] = "completed" THEN data.attempts[i] ELSE 0]
           saved == [data EXCEPT !.attempts = attempts]
           ordered == [i \in Steps |-> IF row[r].status[i] = "completed" THEN corrected[r][i] ELSE 0]
           status == IF task[r] = "failed" THEN "queued" ELSE task[r]
<1> USE Kinds, HistoryKinds
<1>0. 0 \in 0 .. Budget
  BY WorkflowAssumption
<1>1. /\ row' = [row EXCEPT ![r] = saved] /\ Says(r, text, TRUE) /\ task[r] # "none"
      /\ corrected' = [corrected EXCEPT ![r] = ordered]
      /\ task' = [task EXCEPT ![r] = status]
      /\ UNCHANGED <<unknown, pc, copy, at, continued, reason, out, holders, others, quitting>>
  BY DEF Retry
<1>2. /\ Fits(row[r], done, corrected[r], said[r], meddled[r])
      /\ copy[r] \in RunRow /\ Done(copy[r]) = done /\ Sound(r)
  BY DEF IndInv, Sound
<1>d. data = Steered(row[r], text, TRUE) /\ TRUE \in BOOLEAN
  OBVIOUS
<1>q. status \in {task[r], "queued"} /\ (task[r] = "running" => status = "running")
  OBVIOUS
<1> HIDE DEF data, status
<1>4. /\ data \in RunRow /\ Done(data) = done /\ data.status = row[r].status
      /\ data.attempts = row[r].attempts /\ (pc[r] # "off" => meddled'[r])
      /\ Fits(data, done, corrected[r], said'[r], meddled'[r])
  <2>1. /\ Steered(row[r], text, TRUE) \in RunRow
        /\ Steered(row[r], text, TRUE).status = row[r].status
        /\ Steered(row[r], text, TRUE).attempts = row[r].attempts
        /\ Done(Steered(row[r], text, TRUE)) = Done(row[r])
        /\ Fits(Steered(row[r], text, TRUE), Done(row[r]), corrected[r], said'[r], meddled'[r])
        /\ pc[r] # "off" => meddled'[r]
    <3> HIDE Kinds, HistoryKinds
    <3> QED
      BY <1>1, ControlFits, ZenonT(30)
  <2> QED
    BY <2>1, <1>d, Zenon
<1> HIDE DEF done
<1>5. attempts \in [Steps -> 0 .. Budget] /\ ordered \in [Steps -> 0 .. Budget]
  BY <1>0, <1>4 DEF RunRow
<1>6. \A i \in Steps : ordered[i] <= attempts[i] /\ ordered[i] <= corrected[r][i]
  <2>1. \A i \in Steps : corrected[r][i] <= data.attempts[i] /\ corrected[r][i] \in 0 .. Budget
    BY <1>4 DEF Fits
  <2> QED
    BY <1>4, <2>1, WorkflowAssumption
<1>7. /\ saved \in RunRow /\ saved.status = data.status /\ saved.attempts = attempts
      /\ saved.feedback = data.feedback
  BY <1>4, <1>5 DEF RunRow
<1> HIDE DEF attempts, ordered, saved
<1>8. Done(saved) = done /\ Fits(saved, done, ordered, said'[r], meddled'[r])
  BY <1>4, <1>6, <1>7 DEF Fits, Done
<1>9. /\ said' \in [Runs -> Feedback \cup {NoFeedback}] /\ meddled' \in [Runs -> BOOLEAN]
      /\ \A q \in Runs \ {r} : said'[q] = said[q] /\ meddled'[q] = meddled[q]
  BY <1>1, <1>d, SaysNext
<1>10. /\ task' \in [Runs -> {"none", "queued", "running", "paused", "cancelled",
                              "failed", "interrupted", "completed"}]
       /\ \A q \in Runs \ {r} : task'[q] = task[q]
       /\ task'[r] # "none" /\ (task'[r] = "completed" => task[r] = "completed")
       /\ pc[r] # "off" => task'[r] = "running"
  BY <1>1, <1>q, QueuesAgain
<1>11. corrected' \in [Runs -> [Steps -> 0 .. Budget]] /\ corrected'[r] = ordered
  BY <1>1, <1>5
<1>12. TypeOK'
  BY <1>1, <1>7, <1>9, <1>10, <1>11 DEF IndInv, TypeOK
<1>13. row'[r] = saved /\ Done(row'[r]) = Done(row[r])
  BY <1>1, <1>8 DEF done
<1>14. Fits(row'[r], done, corrected'[r], said'[r], meddled'[r])
  BY <1>8, <1>9, <1>11, <1>13 DEF Fits
<1>15. pc'[r] # "off" => Fits(copy'[r], done, corrected'[r], said'[r], meddled'[r])
  <2>1. pc[r] # "off" => meddled'[r] /\ Fits(copy[r], done, corrected[r], said[r], meddled[r])
    BY <1>2, <1>4 DEF Sound, done
  <2>2. ASSUME NEW i \in Steps, corrected[r][i] <= copy[r].attempts[i]
        PROVE  corrected'[r][i] <= copy[r].attempts[i]
    <3>1. ordered[i] \in Nat /\ corrected[r][i] \in Nat /\ copy[r].attempts[i] \in Nat
      BY <1>2, <1>5, WorkflowAssumption DEF RunRow
    <3> QED
      BY <1>6, <1>11, <2>2, <3>1
  <2> QED
    BY <1>1, <2>1, <2>2 DEF Fits
<1>16. Sound(r)'
  BY <1>1, <1>2, <1>10, <1>13, <1>14, <1>15 DEF Sound, done
<1> QED
  BY <1>1, <1>9, <1>10, <1>12, <1>13, <1>16, RowKeeps
-----------------------------------------------------------------------------
(* The process, and the whole specification.  *)

\* A step of another run takes surfaces or gives them up.
LEMMA OthersStep ==
  ASSUME IndInv, OtherTakes \/ OtherGives
  PROVE  Keeps
<1> USE Kinds
<1>1. UNCHANGED <<row, task, unknown, pc, copy, at, continued, reason, out, holders, quitting,
                  said, meddled, corrected>>
  BY DEF OtherTakes, OtherGives, history
<1>2. Cardinality(holders) \in Nat /\ others \in Nat /\ MaxSurfaces \in Nat
  BY FS_CardinalityType, WorkflowAssumption DEF IndInv, TypeOK
<1>3. others' \in 0 .. MaxSurfaces /\ Cardinality(holders) + others' <= MaxSurfaces
  BY <1>2 DEF OtherTakes, OtherGives, Room
<1>4. TypeOK'
  BY <1>1, <1>3 DEF IndInv, TypeOK
<1>5. IsFiniteSet(holders') /\ SurfacesHold'
  BY <1>1, <1>3 DEF IndInv, SurfacesHold
<1>6. ASSUME NEW r \in Runs PROVE Sound(r)'
  BY <1>1 DEF IndInv, Sound
<1> QED
  BY <1>1, <1>4, <1>5, <1>6 DEF IndInv, Keeps

\* The app quits: every run that is driven is told to stop.
LEMMA QuitStep ==
  ASSUME IndInv, Quit
  PROVE  Keeps
<1> USE Kinds
<1>1. /\ UNCHANGED <<row, task, unknown, pc, copy, at, continued, out, holders, others,
                     said, meddled, corrected>>
      /\ quitting' = TRUE
      /\ reason' = [r \in Runs |-> IF pc[r] # "off" /\ reason[r] = "none" THEN "shutdown"
                                   ELSE reason[r]]
  BY DEF Quit, history
<1>2. reason' \in [Runs -> {"none", "pause", "cancel", "shutdown"}] /\ quitting' \in BOOLEAN
  BY <1>1
<1>3. TypeOK'
  BY <1>1, <1>2 DEF IndInv, TypeOK
<1>4. IsFiniteSet(holders') /\ SurfacesHold'
  BY <1>1 DEF IndInv, SurfacesHold
<1>5. ASSUME NEW r \in Runs PROVE Sound(r)'
  BY <1>1 DEF IndInv, Sound
<1> QED
  BY <1>1, <1>3, <1>4, <1>5 DEF IndInv, Keeps

\* The process starts again: only the rows are left.
LEMMA RestartStep ==
  ASSUME IndInv, Restart
  PROVE  Keeps
<1> USE Kinds, HistoryKinds
<1>1. /\ task' = [r \in Runs |-> IF task[r] = "running" THEN "interrupted" ELSE task[r]]
      /\ pc' = [r \in Runs |-> "off"] /\ copy' = row
      /\ at' = [r \in Runs |-> 1] /\ continued' = [r \in Runs |-> 0]
      /\ reason' = [r \in Runs |-> "none"] /\ out' = [r \in Runs |-> "content"]
      /\ holders' = {} /\ others' = 0 /\ quitting' = FALSE
      /\ UNCHANGED <<row, said, meddled, corrected>>
  BY DEF Restart, history
<1>2. unknown' \in [Runs -> SUBSET Steps]
  <2>1. PICK S \in SUBSET {r \in Runs : pc[r] \in {"work", "correct"}} :
          unknown' = [r \in Runs |-> IF r \in S THEN unknown[r] \cup {at[r]} ELSE unknown[r]]
    BY DEF Restart
  <2> QED
    BY <2>1
<1>3. /\ task' \in [Runs -> {"none", "queued", "running", "paused", "cancelled",
                             "failed", "interrupted", "completed"}]
      /\ pc' \in [Runs -> Turning \cup {"off", "index", "release", "close"}]
      /\ at' \in [Runs -> Steps] /\ continued' \in [Runs -> 0 .. MaxContinued]
      /\ reason' \in [Runs -> {"none", "pause", "cancel", "shutdown"}]
      /\ out' \in [Runs -> {"content", "stopped", "error"}]
      /\ others' \in 0 .. MaxSurfaces /\ quitting' \in BOOLEAN /\ holders' \subseteq Runs \X Steps
  <2>1. 1 \in Steps /\ 0 \in 0 .. MaxContinued /\ 0 \in 0 .. MaxSurfaces
    BY WorkflowAssumption
  <2>2. task' \in [Runs -> {"none", "queued", "running", "paused", "cancelled",
                            "failed", "interrupted", "completed"}]
    BY <1>1
  <2>3. /\ pc' \in [Runs -> Turning \cup {"off", "index", "release", "close"}]
        /\ reason' \in [Runs -> {"none", "pause", "cancel", "shutdown"}]
        /\ out' \in [Runs -> {"content", "stopped", "error"}]
    BY <1>1
  <2>4. at' \in [Runs -> Steps] /\ continued' \in [Runs -> 0 .. MaxContinued]
    BY <1>1, <2>1
  <2> QED
    BY <1>1, <2>1, <2>2, <2>3, <2>4
<1>4. TypeOK'
  BY <1>1, <1>2, <1>3 DEF IndInv, TypeOK
<1>5. IsFiniteSet(holders') /\ SurfacesHold'
  <2>1. IsFiniteSet(holders') /\ Cardinality(holders') + others' <= MaxSurfaces
    BY <1>1, FS_EmptySet, WorkflowAssumption
  <2>2. \A r \in Runs : pc'[r] \notin Turning
    BY <1>1 DEF Turning
  <2> QED
    BY <1>1, <2>1, <2>2 DEF SurfacesHold
<1>6. ASSUME NEW r \in Runs PROVE Sound(r)'
  <2>1. Sound(r)
    BY DEF IndInv
  <2>2. /\ row'[r] = row[r] /\ copy'[r] = row[r] /\ pc'[r] = "off"
        /\ said'[r] = said[r] /\ meddled'[r] = meddled[r] /\ corrected'[r] = corrected[r]
        /\ task'[r] = "none" => task[r] = "none"
        /\ task'[r] = "completed" => task[r] = "completed"
    BY <1>1
  <2>3. "off" \notin Turning
    BY DEF Turning
  <2> QED
    BY <2>1, <2>2, <2>3 DEF Sound
<1> QED
  BY <1>1, <1>4, <1>5, <1>6 DEF IndInv, Keeps

LEMMA InitInv == Init => IndInv
<1> SUFFICES ASSUME Init PROVE IndInv
  OBVIOUS
<1>1. 1 \in Steps /\ 0 \in 0 .. Budget /\ 0 \in 0 .. MaxContinued /\ 0 \in 0 .. MaxSurfaces
  BY WorkflowAssumption DEF Steps
<1>2. NewRow \in RunRow
  BY <1>1 DEF NewRow, RunRow, StepStatus
<1>3. TypeOK
  BY <1>1, <1>2 DEF Init, TypeOK, Turning
<1>4. IsFiniteSet(holders) /\ SurfacesHold
  BY FS_EmptySet, WorkflowAssumption DEF Init, SurfacesHold, Turning
<1>5. ASSUME NEW r \in Runs PROVE Sound(r)
  <2>1. Fits(NewRow, Done(NewRow), corrected[r], said[r], meddled[r])
    BY <1>2 DEF Init, Fits, NewRow
  <2> QED
    BY <1>2, <2>1 DEF Init, Sound, Turning
<1> QED
  BY <1>3, <1>4, <1>5 DEF IndInv

\* Every step keeps the invariant and the completed steps.
LEMMA NextKeeps == IndInv /\ [Next]_vars => Keeps
<1> SUFFICES ASSUME IndInv, [Next]_vars PROVE Keeps
  OBVIOUS
<1>1. ASSUME NEW r \in Runs, Turned(r) PROVE Keeps
  BY <1>1, WorkStep, CheckStep, LoopStep DEF Turned
<1>2. ASSUME NEW r \in Runs,
             Start(r) \/ Launch(r) \/ NoWorkspace(r) \/ Indexing(r) \/ TaskResume(r)
               \/ \E why \in {"pause", "cancel"} : Halt(r, why)
      PROVE  Keeps
  BY <1>2, StartStep, LaunchStep, IndexingStep, TaskStep
<1>3. ASSUME NEW r \in Runs, NEW text \in Feedback \cup {NoFeedback},
             Resume(r, text) \/ Retry(r, text)
      PROVE  Keeps
  BY <1>3, ResumeStep, RetryStep
<1>4. CASE UNCHANGED vars
  <2>1. UNCHANGED <<row, task, unknown, pc, copy, at, continued, reason, out, holders, others,
                    quitting, said, meddled, corrected>>
    BY <1>4 DEF vars
  <2>2. TypeOK' /\ IsFiniteSet(holders') /\ SurfacesHold'
    BY <2>1 DEF IndInv, TypeOK, SurfacesHold
  <2>3. ASSUME NEW r \in Runs PROVE Sound(r)'
    BY <2>1 DEF IndInv, Sound
  <2> QED
    BY <2>1, <2>2, <2>3 DEF IndInv, Keeps
<1> QED
  BY <1>1, <1>2, <1>3, <1>4, OthersStep, QuitStep, RestartStep DEF Next, Turned

LEMMA Inductive == Spec => []IndInv
<1>1. IndInv /\ [Next]_vars => IndInv'
  BY NextKeeps DEF Keeps
<1> QED
  BY <1>1, InitInv, PTL DEF Spec

\* WorkflowRun.TypeOK, for every set of runs and every bound.
THEOREM TypeCorrect == Spec => []TypeOK
<1>1. IndInv => TypeOK
  BY DEF IndInv
<1> QED
  BY <1>1, Inductive, PTL

\* What the invariant says of the steps that are not completed.
LEMMA UnfinishedLead ==
  ASSUME NEW r \in Runs, Unfinished(r) # {}
  PROVE  Lead(Done(row[r]), First(Unfinished(r)))
<1>1. Unfinished(r) = Steps \ Done(row[r])
  BY DEF Unfinished, Done
<1>2. First(Unfinished(r)) \in Unfinished(r) /\ \A k \in Unfinished(r) : First(Unfinished(r)) <= k
  BY <1>1, FirstIsLeast
<1>3. \A j \in Steps : j < First(Unfinished(r)) => j \in Done(row[r])
  BY <1>1, <1>2, WorkflowAssumption DEF Steps
<1> QED
  BY <1>1, <1>2, <1>3 DEF Lead

\* service.ts:358: whatever was saved, resumed or crashed in between, a turn runs only for
\* the first step that the row does not hold completed.
THEOREM StepsInOrder == Spec => []InOrder
<1>1. IndInv => InOrder
  <2> SUFFICES ASSUME IndInv, NEW r \in Runs, pc[r] \in Turning
               PROVE  Unfinished(r) # {} /\ at[r] = First(Unfinished(r))
    BY DEF InOrder
  <2>1. Lead(Done(row[r]), at[r])
    BY DEF IndInv, Sound
  <2>2. Unfinished(r) # {}
    BY <2>1 DEF Lead, Unfinished, Done
  <2> QED
    BY <2>1, <2>2, UnfinishedLead, LeadIsOne
<1> QED
  BY <1>1, Inductive, PTL

\* A task is completed only when the row holds every step of the run completed.
THEOREM CompletedRunsAreDone == Spec => []CompletedMeansAll
<1>1. IndInv => CompletedMeansAll
  BY DEF IndInv, Sound, CompletedMeansAll, Unfinished, Done
<1> QED
  BY <1>1, Inductive, PTL

\* No save of a control, or of an executor with an old copy, undoes a completed step.
THEOREM CompletedIsFinal == Spec => CompletedStays
<1>1. Keeps => \A r \in Runs : Unfinished(r)' \subseteq Unfinished(r)
  BY DEF Keeps, Unfinished, Done
<1>2. IndInv /\ [Next]_vars => [\A r \in Runs : Unfinished(r)' \subseteq Unfinished(r)]_row
  BY <1>1, NextKeeps
<1> QED
  BY <1>2, Inductive, PTL DEF Spec, CompletedStays

\* service.ts:565: the row, and the copy of an executor at work, count every correction
\* since the user's last retry.
THEOREM CorrectionsCounted == Spec => []CorrectionsHold
<1>1. IndInv => CorrectionsHold
  <2> SUFFICES ASSUME IndInv, NEW r \in Runs, NEW i \in Steps
               PROVE  /\ corrected[r][i] <= row[r].attempts[i]
                      /\ pc[r] \in Turning => corrected[r][i] <= copy[r].attempts[i]
    BY DEF CorrectionsHold
  <2>1. Sound(r) /\ "off" \notin Turning
    BY DEF IndInv, Turning
  <2> QED
    BY <2>1 DEF Sound, Fits
<1> QED
  BY <1>1, Inductive, PTL

\* Surfaces are held by exactly the steps that take turns, within the limit.
THEOREM SurfacesAreHeld == Spec => []SurfacesHold
<1>1. IndInv => SurfacesHold
  BY DEF IndInv
<1> QED
  BY <1>1, Inductive, PTL

\* service.ts:325: unless a control met an executor at work, the row and the copy at work
\* hold the feedback that the user last gave.
THEOREM FeedbackReaches == Spec => []FeedbackHolds
<1>1. IndInv => FeedbackHolds
  <2> SUFFICES ASSUME IndInv, NEW r \in Runs, ~meddled[r], Unfinished(r) # {}
               PROVE  /\ row[r].feedback[First(Unfinished(r))] = said[r]
                      /\ pc[r] \in Turning => copy[r].feedback[at[r]] = said[r]
    BY DEF FeedbackHolds
  <2>1. Sound(r) /\ "off" \notin Turning
    BY DEF IndInv, Turning
  <2>2. Lead(Done(row[r]), First(Unfinished(r))) /\ First(Unfinished(r)) \in Steps
    BY UnfinishedLead DEF Lead
  <2>3. row[r].feedback[First(Unfinished(r))] = said[r]
    BY <2>1, <2>2 DEF Sound, Fits
  <2>4. pc[r] \in Turning => copy[r].feedback[at[r]] = said[r]
    BY <2>1 DEF Sound, Fits, Lead
  <2> QED
    BY <2>3, <2>4
<1> QED
  BY <1>1, Inductive, PTL
=============================================================================
