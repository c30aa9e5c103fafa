--------------------------- MODULE FilePatchProofs ---------------------------
(***************************************************************************)
(* Proofs about FilePatch: its types, that a crash leaves a change done or *)
(* recoverable (AllOrNothing), that no edit of another program is lost     *)
(* (EditsKept), and that the answer of the tool is so (AnswerHolds).  The  *)
(* second and third follow from one inductive invariant, IndInv, which     *)
(* says for every point of the commit and of its rollback where each old   *)
(* content and each edit is.  The answer rests on Named besides: what is   *)
(* left of a file that the clean-up or the rollback has done is named.     *)
(***************************************************************************)
EXTENDS FilePatch, FiniteSetTheorems, TLAPS

Loop1 == {"plan", "check", "stage", "recheck"}
Undoing == {"undo", "act"}

\* What the loop that runs says of the whole change.
Control ==
  /\ \A f \in Files : op[f] = "moved" => from[f] \in Files
  /\ pc \in {"stage", "install"} => left \subseteq Writes
  /\ pc \in {"backup", "verify"} => left \subseteq Backs
  /\ pc \notin Undoing \cup {"done"} => cause = "-" /\ seen = "none"
  /\ pc \in Undoing => cause # "-"
  /\ kind = "write" => \A f, g \in Involved : f = g
  /\ seen = "unread" => kind = "write"
  /\ pc = "undo" /\ seen = "unread" => left = {}
  /\ kind = "write" /\ pc \in Undoing => installed = {}
  /\ pc \notin {"install", "clean", "done"} \cup Undoing => installed = {}
  /\ pc = "install" => installed \cap left = {} /\ Writes \ left \subseteq installed
  /\ Committed => Writes \subseteq installed

\* Which files have a backup.
Backed(f) ==
  /\ backup[f] # "none" => f \in Backs
  /\ pc \in Loop1 => backup[f] = "none"
  /\ pc = "backup" /\ f \in left => backup[f] = "none"
  /\ pc = "verify" /\ f \in left /\ ~First(f) => backup[f] = "none"
  /\ pc \in {"backup", "verify"} /\ f \in Backs \ left => backup[f] # "none"
  /\ pc = "verify" /\ First(f) => backup[f] # "none"
  /\ pc = "install" /\ f \in Backs => backup[f] # "none"
  /\ pc \in Undoing /\ f \in left \cap Backs \cap installed => backup[f] # "none"

\* Where the contents are.
Held(f) ==
  /\ disk[f] = "new" => f \in installed
  /\ backup[f] # "new"
  /\ f \in Backs /\ last[f] = "-" /\ before[f] # "-" /\ backup[f] # "none" => backup[f] = before[f]
  /\ f \in Backs /\ last[f] = "-" /\ before[f] # "-" /\ backup[f] = "none"
       /\ ~Committed /\ ~Unreadable => disk[f] = before[f]
  /\ last[f] = "-" /\ backup[f] # "none" /\ f \notin installed => disk[f] = "none"
  /\ last[f] = "-" /\ cause = "-" /\ f \in installed => disk[f] = "new"
  /\ last[f] = "-" /\ Committed /\ f \in Backs \ installed => disk[f] = "none"
  /\ pc = "act" /\ kind = "write" /\ f \in left /\ seen \notin {"none", "unread"} => last[f] # "-"

\* Where the edits are.
Kept(f) ==
  /\ {disk[f], backup[f], before[f], last[f]} \cap Edits \subseteq used
  /\ f \in Backs /\ last[f] \in Edits => before[f] # last[f]
  /\ cause = "-" /\ backup[f] # "none" /\ ~(pc = "verify" /\ First(f)) => backup[f] = before[f]
  /\ last[f] \in Edits /\ last[f] = backup[f] /\ f \notin installed => disk[f] = "none"
  /\ last[f] \in Edits \ late => last[f] \in {disk[f], backup[f]}
  /\ pc = "act" /\ Last(f) /\ last[f] \in Edits \ late =>
       IF kind = "write" /\ seen # "none" THEN last[f] = disk[f]
                                          ELSE seen \in {"none", "new"} => last[f] = backup[f]

IndInv == TypeOK /\ Control /\ \A f \in Files : Backed(f) /\ Held(f) /\ Kept(f)

-----------------------------------------------------------------------------
(* Lemmas about the loops.  *)

\* The files a loop goes through are files of the change.
LEMMA EntriesInvolved ==
  /\ Writes \subseteq Involved /\ Backs \subseteq Involved /\ Involved \subseteq Files
  /\ \A p : Entries(p) \subseteq Involved
BY DEF Writes, Backs, Involved, Entries

\* No more than one file is the first of a loop, or the last.
LEMMA FirstIsOne ==
  ASSUME NEW f \in Files, NEW g \in Files, left \subseteq Files
  PROVE  (First(f) /\ First(g) => f = g) /\ (Last(f) /\ Last(g) => f = g)
BY NAssumption DEF First, Last, Files

\* What fails in one step is counted.
LEMMA FailedCount ==
  ASSUME NEW a, NEW b, NEW S \in SUBSET {a, b}
  PROVE  Cardinality(S) \in Nat
<1>1. IsFiniteSet({a})
  BY FS_Singleton
<1>2. IsFiniteSet({a} \cup {b})
  BY <1>1, FS_AddElement
<1>3. {a, b} = {a} \cup {b}
  OBVIOUS
<1>4. IsFiniteSet(S)
  BY <1>2, <1>3, FS_Subset
<1> QED
  BY <1>4, FS_CardinalityType

-----------------------------------------------------------------------------
(* The types.  *)

LEMMA InitType == Init => TypeOK
BY NAssumption DEF Init, TypeOK, Involved, Writes, Contents, Temps

\* One step of a file keeps the types.
LEMMA StepType ==
  ASSUME TypeOK, Control, NEW f \in Files, Kept(f), Steps(f)
  PROVE  TypeOK'
<1>0. /\ MaxFaults \in Nat /\ Writes \subseteq Involved /\ Backs \subseteq Involved
      /\ Involved \subseteq Files
  BY NAssumption, EntriesInvolved
<1> USE <1>0
<1>1. CASE Plan(f)
  <2>1. CASE Reads(f)
    <3>1. before' \in [Files -> Contents \cup {"-", "none"}]
      BY <1>1, <2>1 DEF Plan, TypeOK, Control, Reads, Refused
    <3>2. pc' = "plan" /\ left' = left \ {f} /\ last' = [last EXCEPT ![f] = "-"] /\ UNCHANGED cause
      BY <1>1, <2>1 DEF Plan, Onward
    <3> QED
      BY <1>1, <3>1, <3>2 DEF Plan, TypeOK, Involved, Writes, Contents, fs
  <2>2. CASE ~Reads(f)
    BY <1>1, <2>2 DEF Plan, TypeOK, Refused, Involved, Writes, Contents, fs
  <2> QED
    BY <2>1, <2>2
<1>2. CASE Validate(f)
  BY <1>2 DEF Validate, TypeOK, First, Onward, Fault, Fails, Involved, Writes, fs, others
<1>3. CASE Stage(f)
  <2>1. staged' \in [Files -> BOOLEAN]
    BY <1>3, Zenon DEF Stage, TypeOK
  <2> QED
    BY <1>3, <2>1 DEF Stage, TypeOK, First, Onward, Fault, Fails, Involved, Writes, others
<1>4. CASE BackUp(f)
  BY <1>4 DEF BackUp, TypeOK, First, Fault, Fails, Involved, Writes, others
<1>5. CASE Verify(f)
  BY <1>5 DEF Verify, TypeOK, First, Onward, Fault, Fails, Involved, Writes, fs, others
<1>6. CASE Install(f)
  BY <1>6 DEF Install, TypeOK, Control, First, Onward, Fault, Fails, Involved, Writes, Contents,
              others
<1>7. CASE Clean(f)
  <2>1. PICK stay \in SUBSET {t \in {"staged", "backup"} :
                                IF t = "staged" THEN staged[f] ELSE backup[f] # "none"} :
          /\ faults + Cardinality(stay) <= MaxFaults /\ faults' = faults + Cardinality(stay)
          /\ reported' = reported \cup (stay \X {f})
          /\ staged' = [staged EXCEPT ![f] = "staged" \in stay]
          /\ backup' = [backup EXCEPT ![f] = IF "backup" \in stay THEN @ ELSE "none"]
    BY <1>7 DEF Clean
  <2>2. Cardinality(stay) \in Nat
    BY FailedCount
  <2>. DEFINE kept == "staged" \in stay
  <2>a. kept \in BOOLEAN /\ staged' = [staged EXCEPT ![f] = kept]
    BY <2>1
  <2> HIDE DEF kept
  <2>3. staged' \in [Files -> BOOLEAN]
    BY <2>a, Zenon DEF TypeOK
  <2>4. faults' \in 0 .. MaxFaults
    BY <2>1, <2>2 DEF TypeOK
  <2>5. reported' \subseteq Temps
    BY <2>1 DEF Temps, TypeOK
  <2> QED
    BY <1>7, <2>1, <2>3, <2>4, <2>5
    DEF Clean, TypeOK, First, Onward, Involved, Writes, Contents, others
<1>8. CASE Undo(f)
  <2>1. PICK stays \in {s \in BOOLEAN : s => staged[f]},
             failed \in SUBSET {"staged", "read"} :
          /\ faults + Cardinality(failed) <= MaxFaults
          /\ faults' = faults + Cardinality(failed)
          /\ staged' = [staged EXCEPT ![f] = stays]
          /\ reported' = reported \cup (IF stays THEN {<<"staged", f>>} ELSE {})
    BY <1>8 DEF Undo
  <2>2. Cardinality(failed) \in Nat
    BY FailedCount
  <2>3. staged' \in [Files -> BOOLEAN]
    BY <2>1, Zenon DEF TypeOK
  <2>4. faults' \in 0 .. MaxFaults
    BY <2>1, <2>2 DEF TypeOK
  <2>5. reported' \subseteq Temps
    BY <2>1 DEF Temps, TypeOK
  <2>6. /\ seen' \in Contents \cup {"none", "unread"} /\ late' \subseteq used
        /\ pc' \in {"undo", "act"} /\ left' \subseteq left
    BY <1>8 DEF Undo, TypeOK, Kept, Onward
  <2> QED
    BY <1>8, <2>3, <2>4, <2>5, <2>6 DEF Undo, TypeOK, Involved, Writes, Contents
<1>9. CASE Restore(f)
  BY <1>9 DEF Restore, Rollback, TypeOK, Last, Onward, Fault, Involved, Writes, Contents, Temps,
              others
<1>10. CASE Withdraw(f)
  BY <1>10 DEF Withdraw, Rollback, TypeOK, Last, Onward, Fault, Involved, Writes, Contents, others
<1>11. CASE Conflict(f)
  BY <1>11 DEF Conflict, Rollback, TypeOK, Last, Onward, Involved, Writes, fs, others
<1>12. CASE Yield(f)
  BY <1>12 DEF Yield, Rollback, TypeOK, Last, Onward, Fault, Involved, Writes, Contents, Temps,
               others
<1> QED
  BY <1>1, <1>2, <1>3, <1>4, <1>5, <1>6, <1>7, <1>8, <1>9, <1>10, <1>11, <1>12 DEF Steps

-----------------------------------------------------------------------------
(* The control of the change.  *)

\* A step of a file keeps what the loop says of the change.
LEMMA StepControl ==
  ASSUME IndInv, NEW f \in Files, Steps(f)
  PROVE  Control'
<1> USE NAssumption
<1>1. CASE Plan(f)
  BY <1>1 DEF Plan, Onward, Fails, Fault, Refused, First, Last, fs, others, Involved, Writes, Backs, Undoing, Control, Committed, TypeOK, IndInv
<1>2. CASE Validate(f)
  BY <1>2 DEF Validate, Onward, Fails, Fault, Refused, First, Last, fs, others, Involved, Writes, Backs, Undoing, Control, Committed, TypeOK, IndInv
<1>3. CASE Stage(f)
  BY <1>3 DEF Stage, Onward, Fails, Fault, Refused, First, Last, fs, others, Involved, Writes, Backs, Undoing, Control, Committed, TypeOK, IndInv
<1>4. CASE BackUp(f)
  BY <1>4 DEF BackUp, Onward, Fails, Fault, Refused, First, Last, fs, others, Involved, Writes, Backs, Undoing, Control, Committed, TypeOK, IndInv
<1>5. CASE Verify(f)
  BY <1>5 DEF Verify, Onward, Fails, Fault, Refused, First, Last, fs, others, Involved, Writes, Backs, Undoing, Control, Committed, TypeOK, IndInv
<1>6. CASE Install(f)
  BY <1>6 DEF Install, Onward, Fails, Fault, Refused, First, Last, fs, others, Involved, Writes, Backs, Undoing, Control, Committed, TypeOK, IndInv
<1>7. CASE Clean(f)
  BY <1>7 DEF Clean, Onward, Fails, Fault, Refused, First, Last, fs, others, Involved, Writes, Backs, Undoing, Control, Committed, TypeOK, IndInv
<1>8. CASE Undo(f)
  <2>1. /\ Last(f) /\ pc = "undo"
        /\ pc' = "act" \/ (pc' = "undo" /\ UNCHANGED seen)
        /\ left' \subseteq left
        /\ seen' = "unread" => kind = "write" \/ seen = "unread"
        /\ UNCHANGED <<kind, op, from, cause, installed>>
    <3>1. CASE Owes(f)
      BY <1>8, <3>1, EditsAssumption DEF Undo, IndInv, TypeOK, Contents
    <3>2. CASE ~Owes(f)
      BY <1>8, <3>2 DEF Undo, Onward
    <3> QED
      BY <3>1, <3>2
  <2> QED
    <3>1. Control /\ cause # "-" /\ pc' \in Undoing /\ (kind = "write" => installed = {})
      BY <2>1 DEF IndInv, Control, Undoing
    <3>2. seen # "unread"
      BY <2>1 DEF IndInv, Control, Last
    <3> QED
      BY <2>1, <3>1, <3>2 DEF Involved, Writes, Undoing, Control, Committed
<1>9. CASE Restore(f)
  BY <1>9 DEF Restore, Rollback, Onward, Fails, Fault, Refused, First, Last, fs, others, Involved, Writes, Backs, Undoing, Control, Committed, TypeOK, IndInv
<1>10. CASE Withdraw(f)
  BY <1>10 DEF Withdraw, Rollback, Onward, Fails, Fault, Refused, First, Last, fs, others, Involved, Writes, Backs, Undoing, Control, Committed, TypeOK, IndInv
<1>11. CASE Conflict(f)
  BY <1>11 DEF Conflict, Rollback, Onward, Fails, Fault, Refused, First, Last, fs, others, Involved, Writes, Backs, Undoing, Control, Committed, TypeOK, IndInv
<1>12. CASE Yield(f)
  BY <1>12 DEF Yield, Rollback, Onward, Fails, Fault, Refused, First, Last, fs, others, Involved, Writes, Backs, Undoing, Control, Committed, TypeOK, IndInv
<1> QED
  BY <1>1, <1>2, <1>3, <1>4, <1>5, <1>6, <1>7, <1>8, <1>9, <1>10, <1>11, <1>12 DEF Steps

-----------------------------------------------------------------------------
(* The backups.  *)

\* A step of a file keeps, of every file, which have a backup.
LEMMA StepBacked ==
  ASSUME IndInv, NEW f \in Files, Steps(f), NEW g \in Files
  PROVE  Backed(g)'
<1> USE NAssumption
<1>1. CASE Plan(f)
  BY <1>1 DEF Plan, Onward, Fails, Fault, Refused, First, Last, fs, others, Involved, Writes, Backs, Undoing, Loop1, Control, Backed, Files, TypeOK, IndInv
<1>2. CASE Validate(f)
  BY <1>2 DEF Validate, Onward, Fails, Fault, Refused, First, Last, fs, others, Involved, Writes, Backs, Undoing, Loop1, Control, Backed, Files, TypeOK, IndInv
<1>3. CASE Stage(f)
  BY <1>3 DEF Stage, Onward, Fails, Fault, Refused, First, Last, fs, others, Involved, Writes, Backs, Undoing, Loop1, Control, Backed, Files, TypeOK, IndInv
<1>4. CASE BackUp(f)
  <2>1. /\ pc = "backup" /\ First(f) /\ left \subseteq Backs /\ left \subseteq Files
        /\ UNCHANGED <<op, installed>>
    BY <1>4 DEF BackUp, IndInv, Control, TypeOK, Involved
  <2>2. CASE pc' = "verify"
    <3>1. backup' = [backup EXCEPT ![f] = disk[f]] /\ disk[f] # "none" /\ UNCHANGED left
      BY <1>4, <2>1, <2>2 DEF BackUp, Fails
    <3> QED
      BY <2>1, <2>2, <3>1 DEF IndInv, TypeOK, Backed, First, Files, Backs, Loop1, Undoing
  <2>3. CASE pc' # "verify"
    BY <1>4, <2>1, <2>3
    DEF BackUp, Fails, IndInv, TypeOK, Control, Backed, Backs, Loop1, Undoing
  <2> QED
    BY <2>2, <2>3
<1>5. CASE Verify(f)
  BY <1>5 DEF Verify, Onward, Fails, Fault, Refused, First, Last, fs, others, Involved, Writes, Backs, Undoing, Loop1, Control, Backed, Files, TypeOK, IndInv
<1>6. CASE Install(f)
  BY <1>6 DEF Install, Onward, Fails, Fault, Refused, First, Last, fs, others, Involved, Writes, Backs, Undoing, Loop1, Control, Backed, Files, TypeOK, IndInv
<1>7. CASE Clean(f)
  <2>1. /\ pc = "clean" /\ pc' = "clean" /\ UNCHANGED <<op, installed>>
        /\ backup'[g] \in {backup[g], "none"}
    BY <1>7 DEF Clean, Onward, IndInv, TypeOK
  <2> QED
    BY <2>1 DEF IndInv, Backed, Backs, Loop1, Undoing
<1>8. CASE Undo(f)
  BY <1>8 DEF Undo, Onward, Fails, Fault, Refused, First, Last, fs, others, Involved, Writes, Backs, Undoing, Loop1, Control, Backed, Files, TypeOK, IndInv
<1>9. CASE Restore(f)
  BY <1>9 DEF Restore, Rollback, Onward, Fails, Fault, Refused, First, Last, fs, others, Involved, Writes, Backs, Undoing, Loop1, Control, Backed, Files, TypeOK, IndInv
<1>10. CASE Withdraw(f)
  BY <1>10 DEF Withdraw, Rollback, Onward, Fails, Fault, Refused, First, Last, fs, others, Involved, Writes, Backs, Undoing, Loop1, Control, Backed, Files, TypeOK, IndInv
<1>11. CASE Conflict(f)
  BY <1>11 DEF Conflict, Rollback, Onward, Fails, Fault, Refused, First, Last, fs, others, Involved, Writes, Backs, Undoing, Loop1, Control, Backed, Files, TypeOK, IndInv
<1>12. CASE Yield(f)
  BY <1>12 DEF Yield, Rollback, Onward, Fails, Fault, Refused, First, Last, fs, others, Involved, Writes, Backs, Undoing, Loop1, Control, Backed, Files, TypeOK, IndInv
<1> QED
  BY <1>1, <1>2, <1>3, <1>4, <1>5, <1>6, <1>7, <1>8, <1>9, <1>10, <1>11, <1>12 DEF Steps

\* A step of a file keeps, of every file, where its contents are.
LEMMA StepHeld ==
  ASSUME IndInv, NEW f \in Files, Steps(f), NEW g \in Files
  PROVE  Held(g)'
<1> USE NAssumption, EditsAssumption
<1>1. CASE Plan(f)
  BY <1>1 DEF Plan, Onward, Fails, Fault, Refused, First, Last, fs, others, Involved, Writes, Backs, Undoing, Loop1, Control, Backed, Held, Committed, Unreadable, Owes, Files, TypeOK, IndInv
<1>2. CASE Validate(f)
  BY <1>2 DEF Validate, Onward, Fails, Fault, Refused, First, Last, fs, others, Involved, Writes, Backs, Undoing, Loop1, Control, Backed, Held, Committed, Unreadable, Owes, Files, TypeOK, IndInv
<1>3. CASE Stage(f)
  BY <1>3 DEF Stage, Onward, Fails, Fault, Refused, First, Last, fs, others, Involved, Writes, Backs, Undoing, Loop1, Control, Backed, Held, Committed, Unreadable, Owes, Files, TypeOK, IndInv
<1>4. CASE BackUp(f)
  BY <1>4 DEF BackUp, Onward, Fails, Fault, Refused, First, Last, fs, others, Involved, Writes, Backs, Undoing, Loop1, Control, Backed, Held, Committed, Unreadable, Owes, Files, TypeOK, IndInv
<1>5. CASE Verify(f)
  BY <1>5 DEF Verify, Onward, Fails, Fault, Refused, First, Last, fs, others, Involved, Writes, Backs, Undoing, Loop1, Control, Backed, Held, Committed, Unreadable, Owes, Files, TypeOK, IndInv
<1>6. CASE Install(f)
  BY <1>6 DEF Install, Onward, Fails, Fault, Refused, First, Last, fs, others, Involved, Writes, Backs, Undoing, Loop1, Control, Backed, Held, Committed, Unreadable, Owes, Files, TypeOK, IndInv
<1>7. CASE Clean(f)
  BY <1>7 DEF Clean, Onward, Fails, Fault, Refused, First, Last, fs, others, Involved, Writes, Backs, Undoing, Loop1, Control, Backed, Held, Committed, Unreadable, Owes, Files, TypeOK, IndInv
<1>8. CASE Undo(f)
  BY <1>8 DEF Undo, Onward, Fails, Fault, Refused, First, Last, fs, others, Involved, Writes, Backs, Undoing, Loop1, Control, Backed, Held, Committed, Unreadable, Owes, Files, TypeOK, IndInv
<1>9. CASE Restore(f)
  BY <1>9 DEF Restore, Rollback, Onward, Fails, Fault, Refused, First, Last, fs, others, Involved, Writes, Backs, Undoing, Loop1, Control, Backed, Held, Committed, Unreadable, Owes, Files, TypeOK, IndInv
<1>10. CASE Withdraw(f)
  BY <1>10 DEF Withdraw, Rollback, Onward, Fails, Fault, Refused, First, Last, fs, others, Involved, Writes, Backs, Undoing, Loop1, Control, Backed, Held, Committed, Unreadable, Owes, Files, TypeOK, IndInv
<1>11. CASE Conflict(f)
  BY <1>11 DEF Conflict, Rollback, Onward, Fails, Fault, Refused, First, Last, fs, others, Involved, Writes, Backs, Undoing, Loop1, Control, Backed, Held, Committed, Unreadable, Owes, Files, TypeOK, IndInv
<1>12. CASE Yield(f)
  BY <1>12 DEF Yield, Rollback, Onward, Fails, Fault, Refused, First, Last, fs, others, Involved, Writes, Backs, Undoing, Loop1, Control, Backed, Held, Committed, Unreadable, Owes, Files, TypeOK, IndInv
<1> QED
  BY <1>1, <1>2, <1>3, <1>4, <1>5, <1>6, <1>7, <1>8, <1>9, <1>10, <1>11, <1>12 DEF Steps

\* A step of a file keeps, of every file, where the edits are.
LEMMA StepKept ==
  ASSUME IndInv, NEW f \in Files, Steps(f), NEW g \in Files
  PROVE  Kept(g)'
<1> USE NAssumption, EditsAssumption
<1>1. CASE Plan(f)
  BY <1>1 DEF Plan, Onward, Fails, Fault, Refused, First, Last, fs, others, Involved, Writes, Backs, Undoing, Loop1, Control, Backed, Kept, Owes, Files, TypeOK, IndInv
<1>2. CASE Validate(f)
  BY <1>2 DEF Validate, Onward, Fails, Fault, Refused, First, Last, fs, others, Involved, Writes, Backs, Undoing, Loop1, Control, Backed, Kept, Owes, Files, TypeOK, IndInv
<1>3. CASE Stage(f)
  BY <1>3 DEF Stage, Onward, Fails, Fault, Refused, First, Last, fs, others, Involved, Writes, Backs, Undoing, Loop1, Control, Backed, Kept, Owes, Files, TypeOK, IndInv
<1>4. CASE BackUp(f)
  <2>1. /\ pc = "backup" /\ First(f) /\ f \in Backs /\ left \subseteq Files /\ cause = "-"
        /\ UNCHANGED <<op, installed, before, used, last, late>>
    BY <1>4 DEF BackUp, First, IndInv, Control, TypeOK, Involved, Undoing, others
  <2>2. CASE pc' = "verify"
    <3>1. /\ backup' = [backup EXCEPT ![f] = disk[f]] /\ disk' = [disk EXCEPT ![f] = "none"]
          /\ disk[f] # "none" /\ UNCHANGED <<left, cause>>
      BY <1>4, <2>1, <2>2 DEF BackUp, Fails
    <3>2. First(f)'
      BY <2>1, <3>1 DEF First
    <3>3. backup[f] = "none"
      BY <2>1 DEF IndInv, Backed, First
    <3> QED
      BY <2>1, <2>2, <3>1, <3>2, <3>3 DEF IndInv, TypeOK, Kept, Backs
  <2>3. CASE pc' # "verify"
    BY <1>4, <2>1, <2>3 DEF BackUp, Fails, IndInv, TypeOK, Kept, Backs
  <2> QED
    BY <2>2, <2>3
<1>5. CASE Verify(f)
  BY <1>5 DEF Verify, Onward, Fails, Fault, Refused, First, Last, fs, others, Involved, Writes, Backs, Undoing, Loop1, Control, Backed, Kept, Owes, Files, TypeOK, IndInv
<1>6. CASE Install(f)
  BY <1>6 DEF Install, Onward, Fails, Fault, Refused, First, Last, fs, others, Involved, Writes, Backs, Undoing, Loop1, Control, Backed, Kept, Owes, Files, TypeOK, IndInv
<1>7. CASE Clean(f)
  BY <1>7 DEF Clean, Onward, Fails, Fault, Refused, First, Last, fs, others, Involved, Writes, Backs, Undoing, Loop1, Control, Backed, Kept, Owes, Files, TypeOK, IndInv
<1>8. CASE Undo(f)
  BY <1>8 DEF Undo, Onward, Fails, Fault, Refused, First, Last, fs, others, Involved, Writes, Backs, Undoing, Loop1, Control, Backed, Kept, Owes, Files, TypeOK, IndInv
<1>9. CASE Restore(f)
  BY <1>9 DEF Restore, Rollback, Onward, Fails, Fault, Refused, First, Last, fs, others, Involved, Writes, Backs, Undoing, Loop1, Control, Backed, Kept, Owes, Files, TypeOK, IndInv
<1>10. CASE Withdraw(f)
  BY <1>10 DEF Withdraw, Rollback, Onward, Fails, Fault, Refused, First, Last, fs, others, Involved, Writes, Backs, Undoing, Loop1, Control, Backed, Kept, Owes, Files, TypeOK, IndInv
<1>11. CASE Conflict(f)
  BY <1>11 DEF Conflict, Rollback, Onward, Fails, Fault, Refused, First, Last, fs, others, Involved, Writes, Backs, Undoing, Loop1, Control, Backed, Kept, Owes, Files, TypeOK, IndInv
<1>12. CASE Yield(f)
  BY <1>12 DEF Yield, Rollback, Onward, Fails, Fault, Refused, First, Last, fs, others, Involved, Writes, Backs, Undoing, Loop1, Control, Backed, Kept, Owes, Files, TypeOK, IndInv
<1> QED
  BY <1>1, <1>2, <1>3, <1>4, <1>5, <1>6, <1>7, <1>8, <1>9, <1>10, <1>11, <1>12 DEF Steps

-----------------------------------------------------------------------------
(* The other steps, and the theorems.  *)

\* The start of a loop, or the approval of the change, keeps the invariant.
LEMMA LoopStep == IndInv /\ (Loop \/ Decide) => IndInv'
<1> SUFFICES ASSUME IndInv, Loop \/ Decide PROVE IndInv'
  OBVIOUS
<1> USE EntriesInvolved
<1>1. /\ UNCHANGED <<kind, op, from, disk, staged, backup, before, installed, seen, errors>>
      /\ UNCHANGED <<reported, used, last, late, faults>>
      /\ left = {} /\ pc \in Loops \cup {"plan"}
  BY DEF Loop, Decide, Refused, fs, others
<1>2. \/ pc = "plan" /\ pc' = "check" /\ left' = Involved /\ UNCHANGED cause
      \/ pc = "plan" /\ pc' = "done" /\ left' = {} /\ cause' = "refused"
      \/ pc \in Loops /\ pc' = Follow[pc] /\ left' = Entries(pc') /\ UNCHANGED cause
  BY <1>1 DEF Loop, Decide, Refused
<1>3. /\ pc' \in Loops \cup {"done"} /\ pc' \notin {"undo", "plan"}
      /\ left' \subseteq Involved /\ (pc' = "done" => left' = {})
      /\ pc' \in {"stage", "install"} => left' = Writes
      /\ pc' = "backup" => left' = Backs
  BY <1>2 DEF Loops, Follow, Entries
<1>4. TypeOK'
  BY <1>1, <1>2, <1>3 DEF IndInv, TypeOK, Loops, Involved, Writes
<1>5. Control'
  BY <1>1, <1>2, <1>3
  DEF IndInv, TypeOK, Control, Loops, Follow, Involved, Writes, Backs, Undoing, Committed
<1>6. ASSUME NEW f \in Files PROVE Backed(f)'
  BY <1>1, <1>2, <1>3
  DEF IndInv, TypeOK, Control, Backed, Loops, Follow, Backs, Undoing, Loop1, First
<1>7. ASSUME NEW f \in Files PROVE Held(f)'
  BY <1>1, <1>2, <1>3
  DEF IndInv, TypeOK, Control, Backed, Held, Loops, Follow, Writes, Backs, Undoing, Committed,
      Unreadable
<1>8. ASSUME NEW f \in Files PROVE Kept(f)'
  BY <1>1, <1>2, <1>3 DEF IndInv, TypeOK, Control, Kept, Loops, Follow, Backs, First
<1> QED
  BY <1>4, <1>5, <1>6, <1>7, <1>8 DEF IndInv, Files

\* So does what another program does to a file.
LEMMA OtherStep ==
  ASSUME IndInv, NEW f \in Files, NEW e \in Edits, Write(f, e) \/ Delete(f, e)
  PROVE  IndInv'
<1>1. /\ UNCHANGED <<kind, op, from, before, seen, cause, errors, pc, left, installed>>
      /\ UNCHANGED <<staged, backup, reported, faults>>
      /\ e \notin used /\ used' = used \cup {e}
      /\ \E c \in {e, "none"} : /\ disk' = [disk EXCEPT ![f] = c]
                                /\ last' = [last EXCEPT ![f] = c]
                                /\ late' = late \cup (IF c = e /\ Rollback(f) THEN {e} ELSE {})
  BY EditsAssumption DEF Write, Delete, tool
<1>2. /\ e \notin {"old", "new", "none", "-"}
      /\ late' \subseteq used' /\ late \subseteq late'
      /\ disk'[f] \in {e, "none"} /\ last'[f] = disk'[f]
      /\ last'[f] = e /\ Rollback(f) => e \in late'
      /\ \A g \in Files \ {f} : disk'[g] = disk[g] /\ last'[g] = last[g]
  BY <1>1, EditsAssumption DEF IndInv, TypeOK
<1>3. TypeOK'
  BY <1>1, <1>2 DEF IndInv, TypeOK, Involved, Writes, Contents
<1>4. Control'
  BY <1>1 DEF IndInv, Control, Involved, Writes, Backs, Undoing, Committed
<1>5. ASSUME NEW g \in Files PROVE Backed(g)'
  BY <1>1 DEF IndInv, Backed, Backs, Undoing, Loop1, First
<1>6. ASSUME NEW g \in Files PROVE Held(g)'
  BY <1>1, <1>2 DEF IndInv, TypeOK, Held, Backs, Committed, Unreadable
<1>7. ASSUME NEW g \in Files PROVE Kept(g)'
  <2>1. Kept(g) /\ UNCHANGED <<First(g), Last(g), Backs>>
    BY <1>1 DEF IndInv, First, Last, Backs
  <2>2. CASE g = f
    <3>1. /\ {disk[f], backup[f], before[f], last[f]} \cap Edits \subseteq used
          /\ before'[f] = before[f] /\ backup'[f] = backup[f]
      BY <1>1, <2>1, <2>2 DEF Kept
    <3>2. backup[f] # e /\ before[f] # e
      BY <1>1, <3>1
    <3>3. last'[f] \in Edits => last'[f] = e /\ disk'[f] = e
      BY <1>2, EditsAssumption
    <3>4. pc' = "act" /\ Last(f)' => Rollback(f)
      BY <1>1 DEF Rollback, Last
    <3> QED
      BY <1>1, <1>2, <2>1, <2>2, <3>1, <3>2, <3>3, <3>4 DEF Kept
  <2>3. CASE g # f
    <3>1. disk'[g] = disk[g] /\ last'[g] = last[g] /\ late \subseteq late' /\ used \subseteq used'
      BY <1>1, <1>2, <2>3
    <3> QED
      BY <1>1, <2>1, <3>1 DEF Kept
  <2> QED
    BY <2>2, <2>3
<1> QED
  BY <1>3, <1>4, <1>5, <1>6, <1>7 DEF IndInv, Files

\* The invariant holds at first.
LEMMA InitInv == Init => IndInv
<1> SUFFICES ASSUME Init PROVE IndInv
  OBVIOUS
<1>1. TypeOK
  BY InitType
<1>2. Control
  BY NAssumption DEF Init, Control, Involved, Undoing, Committed
<1>3. ASSUME NEW f \in Files PROVE Backed(f) /\ Held(f) /\ Kept(f)
  BY EditsAssumption DEF Init, Backed, Held, Kept, Undoing, Loop1, Committed
<1> QED
  BY <1>1, <1>2, <1>3 DEF IndInv

\* Every step keeps it.
LEMMA NextInv == IndInv /\ [Next]_vars => IndInv'
<1> SUFFICES ASSUME IndInv, [Next]_vars PROVE IndInv'
  OBVIOUS
<1>1. ASSUME NEW f \in Files, Steps(f) PROVE IndInv'
  BY <1>1, StepType, StepControl, StepBacked, StepHeld, StepKept DEF IndInv, Files
<1>2. CASE Loop \/ Decide
  BY <1>2, LoopStep
<1>3. ASSUME NEW f \in Files, NEW e \in Edits, Write(f, e) \/ Delete(f, e) PROVE IndInv'
  BY <1>3, OtherStep
<1>4. CASE UNCHANGED vars
  <2>1. /\ UNCHANGED <<kind, op, from, before, seen, cause, errors, pc, left, installed>>
        /\ UNCHANGED <<disk, staged, backup, used, last, late, reported, faults>>
    BY <1>4 DEF vars, tool, fs, others
  <2> QED
    BY <2>1 DEF IndInv, TypeOK, Control, Backed, Held, Kept, Involved, Writes, Backs, Committed,
                Unreadable, First, Last
<1> QED
  BY <1>1, <1>2, <1>3, <1>4 DEF Next

LEMMA Inductive == Spec => []IndInv
BY InitInv, NextInv, PTL DEF Spec

\* Every variable keeps its type, and the loops of a commit go only through files of the change.
THEOREM TypeCorrect == Spec => []TypeOK
<1>1. IndInv => TypeOK
  BY DEF IndInv
<1> QED
  BY Inductive, <1>1, PTL

\* Wherever a commit or its rollback is cut, by a crash or by a call that fails, the change is
\* all done, or each old content another program has not replaced is at its path or in a
\* backup (commitPatch, atomicWriteChecked).
THEOREM CommitRecoverable == Spec => []AllOrNothing
<1>1. IndInv => AllOrNothing
  BY DEF IndInv, TypeOK, Control, Backed, Held, AllOrNothing, Committed, Involved, Writes, Backs,
         Undoing
<1> QED
  BY Inductive, <1>1, PTL

\* What another program writes to a file of the change stays at its path or in a backup,
\* except an edit made between a read of the rollback and the call that follows it.
THEOREM EditsSurvive == Spec => []EditsKept
<1>1. IndInv => EditsKept
  BY DEF IndInv, Kept, EditsKept
<1> QED
  BY Inductive, <1>1, PTL

-----------------------------------------------------------------------------
(***************************************************************************)
(* What the tool answers: the leftovers and failures it owes a name.       *)
(***************************************************************************)
\* The loop that runs, or the last that ran, has done f.
Over(f) == f \in Involved \ left

\* What the answer will have to name: what is left of temporary files and backups, and
\* the files whose rollback failed, where new content may have stayed.
Named(f) ==
  /\ staged[f] => f \in Involved /\ pc \notin {"plan", "check"}
  /\ pc \in Undoing \cup {"clean", "done"} /\ Over(f) =>
       /\ staged[f] => <<"staged", f>> \in reported
       /\ backup[f] # "none" => <<"backup", f>> \in reported \/ f \in errors
  /\ pc = "act" /\ Last(f) /\ staged[f] => <<"staged", f>> \in reported
  /\ pc \in Undoing \cup {"done"} /\ cause # "-" /\ Over(f) => disk[f] # "new" \/ f \in errors

\* A loop before the commit is done names nothing yet.
LEMMA EarlyNamed ==
  ASSUME NEW g \in Files, pc' \notin Undoing \cup {"clean", "done"}, UNCHANGED op,
         staged'[g] => g \in Involved /\ pc' \notin {"plan", "check"}
  PROVE  Named(g)'
BY DEF Named, Undoing, Involved

\* A failure sends the change to its rollback, or ends it where nothing was staged.
LEMMA FailsNamed ==
  ASSUME IndInv, NEW g \in Files, Named(g), NEW why, Fails(why), why # "refused",
         pc \in {"check", "recheck", "stage", "backup", "verify", "install"}, UNCHANGED op,
         staged'[g] => g \in Involved,
         pc = "check" => UNCHANGED <<disk, staged, backup>>
  PROVE  Named(g)'
<1>1. CASE pc = "check"
  <2>1. pc' = "done" /\ UNCHANGED <<disk, staged, backup>>
    BY <1>1 DEF Fails
  <2>2. ~staged[g] /\ backup[g] = "none" /\ disk[g] # "new"
    BY <1>1 DEF Named, IndInv, Backed, Held, Control, Loop1, Undoing
  <2> QED
    BY <2>1, <2>2 DEF Named
<1>2. CASE pc # "check"
  <2>1. pc' = "undo" /\ left' = Involved
    BY <1>2 DEF Fails
  <2>2. ~Over(g)'
    BY <2>1 DEF Over, Involved
  <2> QED
    BY <2>1, <2>2 DEF Named, Involved
<1> QED
  BY <1>1, <1>2

\* The rollback has done f, or goes on to its second part.
LEMMA RolledNamed ==
  ASSUME IndInv, NEW f \in Files, NEW g \in Files, Named(g), pc \in Undoing, f \in left,
         UNCHANGED <<op, cause>>, pc' \in Undoing,
         left' = left \/ left' = left \ {f},
         reported \subseteq reported', errors \subseteq errors',
         g # f => disk'[g] = disk[g] /\ staged'[g] = staged[g] /\ backup'[g] = backup[g],
         staged'[f] => staged[f], Last(f),
         pc' = "act" => left' = left /\ (staged'[f] => <<"staged", f>> \in reported'),
         left' = left \ {f} =>
           /\ staged'[f] => <<"staged", f>> \in reported'
           /\ backup'[f] # "none" => <<"backup", f>> \in reported' \/ f \in errors'
           /\ disk'[f] # "new" \/ f \in errors'
  PROVE  Named(g)'
<1>0. Involved' = Involved
  BY DEF Involved
<1>3. pc' = "act" /\ Last(g)' => g = f
  <2>1. left \subseteq Files
    BY EntriesInvolved DEF IndInv, TypeOK
  <2>2. left' = left /\ Last(g)' => Last(g)
    BY DEF Last
  <2> QED
    BY <2>1, <2>2, FirstIsOne
<1>1. CASE g = f
  <2>1. CASE left' = left \ {f}
    BY <1>0, <1>1, <2>1 DEF Named, Over, Undoing
  <2>2. CASE left' = left
    BY <1>0, <1>1, <2>2 DEF Named, Over, Undoing
  <2> QED
    BY <2>1, <2>2
<1>2. CASE g # f
  <2>1. Over(g)' => Over(g)
    BY <1>0, <1>2 DEF Over
  <2> QED
    BY <1>0, <1>2, <1>3, <2>1 DEF Named, Undoing
<1> QED
  BY <1>1, <1>2

\* A step of a file keeps, of every file, what is named.
LEMMA StepNamed ==
  ASSUME IndInv, NEW f \in Files, Steps(f), NEW g \in Files, Named(f), Named(g)
  PROVE  Named(g)'
<1> USE EditsAssumption
<1>0. TypeOK /\ Control /\ left \subseteq Files /\ Writes \subseteq Involved
  BY EntriesInvolved DEF IndInv, TypeOK
<1>1. CASE Plan(f)
  <2>1. /\ pc = "plan" /\ UNCHANGED <<op, disk, staged, backup>>
        /\ pc' = "plan" \/ (pc' = "done")
    BY <1>1 DEF Plan, Onward, Refused, fs
  <2>2. ~staged[g] /\ backup[g] = "none" /\ disk[g] # "new"
    BY <2>1 DEF Named, IndInv, Backed, Held, Control, Loop1, Undoing
  <2> QED
    BY <2>1, <2>2 DEF Named
<1>2. CASE Validate(f)
  <2>1. pc \in {"check", "recheck"} /\ UNCHANGED <<op, disk, staged, backup>>
    BY <1>2 DEF Validate, fs
  <2>2. CASE Onward(pc, f)
    BY <2>1, <2>2, EarlyNamed DEF Onward, Named, Undoing
  <2>3. CASE Fails("stale_file") \/ Fails("commit_failed")
    BY <2>1, <2>3, FailsNamed DEF Named
  <2> QED
    BY <1>2, <2>2, <2>3 DEF Validate
<1>3. CASE Stage(f)
  <2>1. /\ pc = "stage" /\ f \in Involved /\ UNCHANGED <<op, disk, backup>>
        /\ \E made \in BOOLEAN : staged' = [staged EXCEPT ![f] = made]
    BY <1>3, <1>0 DEF Stage, First, Control
  <2>2. staged'[g] => g \in Involved
    BY <1>0, <2>1 DEF Named, TypeOK
  <2>3. CASE Onward("stage", f)
    BY <2>1, <2>2, <2>3, EarlyNamed DEF Onward, Undoing
  <2>4. CASE Fails("commit_failed")
    BY <2>1, <2>2, <2>4, FailsNamed
  <2> QED
    BY <1>3, <2>3, <2>4 DEF Stage
<1>4. CASE BackUp(f)
  <2>1. pc = "backup" /\ UNCHANGED <<op, staged>>
    BY <1>4 DEF BackUp
  <2>2. CASE pc' = "verify"
    BY <2>1, <2>2, EarlyNamed DEF Named, Undoing
  <2>3. CASE Fails("commit_failed")
    BY <2>1, <2>3, FailsNamed DEF Named
  <2> QED
    BY <1>4, <2>2, <2>3 DEF BackUp
<1>5. CASE Verify(f)
  <2>1. pc = "verify" /\ UNCHANGED <<op, staged>>
    BY <1>5 DEF Verify, fs
  <2>2. CASE pc' = "backup"
    BY <2>1, <2>2, EarlyNamed DEF Named, Undoing
  <2>3. CASE Fails("commit_failed") \/ Fails("stale_file")
    BY <2>1, <2>3, FailsNamed DEF Named
  <2> QED
    BY <1>5, <2>2, <2>3 DEF Verify, Onward
<1>6. CASE Install(f)
  <2>1. pc = "install" /\ UNCHANGED <<op, staged>>
    BY <1>6 DEF Install
  <2>2. CASE pc' = "install"
    BY <2>1, <2>2, EarlyNamed DEF Named, Undoing
  <2>3. CASE Fails("commit_failed") \/ Fails("stale_file")
    BY <2>1, <2>3, FailsNamed DEF Named
  <2> QED
    BY <1>6, <2>2, <2>3 DEF Install, Onward
<1>7. CASE Clean(f)
  <2>1. PICK stay \in SUBSET {t \in {"staged", "backup"} :
                                IF t = "staged" THEN staged[f] ELSE backup[f] # "none"} :
          /\ reported' = reported \cup (stay \X {f})
          /\ staged' = [staged EXCEPT ![f] = "staged" \in stay]
          /\ backup' = [backup EXCEPT ![f] = IF "backup" \in stay THEN @ ELSE "none"]
    BY <1>7 DEF Clean
  <2>2. /\ pc = "clean" /\ pc' = "clean" /\ left' = left \ {f} /\ UNCHANGED <<op, errors, disk>>
    BY <1>7 DEF Clean, Onward
  <2>3. Involved' = Involved
    BY <2>2 DEF Involved
  <2>4. CASE g = f
    <3>1. staged'[f] = ("staged" \in stay) /\ (staged'[f] => staged[f])
      BY <1>0, <2>1 DEF TypeOK
    <3>2. backup'[f] # "none" => "backup" \in stay
      BY <1>0, <2>1 DEF TypeOK
    <3>3. \A t \in stay : <<t, f>> \in reported'
      BY <2>1
    <3> QED
      BY <2>2, <2>3, <2>4, <3>1, <3>2, <3>3 DEF Named, Undoing
  <2>5. CASE g # f
    <3>1. staged'[g] = staged[g] /\ backup'[g] = backup[g] /\ reported \subseteq reported'
      BY <1>0, <2>1, <2>5 DEF TypeOK
    <3>2. Over(g)' => Over(g)
      BY <2>2, <2>3, <2>5 DEF Over
    <3> QED
      BY <2>2, <2>3, <3>1, <3>2 DEF Named, Undoing
  <2> QED
    BY <2>4, <2>5
<1>8. CASE Undo(f)
  <2>1. PICK stays \in {s \in BOOLEAN : s => staged[f]} :
          /\ staged' = [staged EXCEPT ![f] = stays]
          /\ reported' = reported \cup (IF stays THEN {<<"staged", f>>} ELSE {})
          /\ \/ pc' = "act" /\ left' = left
             \/ pc' = "undo" /\ left' = left \ {f} /\ ~Owes(f)
    BY <1>8 DEF Undo, Onward
  <2>2. pc = "undo" /\ f \in left /\ Last(f) /\ UNCHANGED <<op, cause, errors, disk, backup>>
    BY <1>8 DEF Undo, Last
  <2>3. /\ staged'[f] = stays /\ (stays => staged[f])
        /\ g # f => staged'[g] = staged[g]
    BY <1>0, <2>1 DEF TypeOK
  <2>4. ~Owes(f) => backup[f] = "none" /\ disk[f] # "new"
    BY DEF Owes, IndInv, Held
  <2>5. reported \subseteq reported' /\ (stays => <<"staged", f>> \in reported')
    BY <2>1
  <2>6. pc \in Undoing /\ pc' \in Undoing /\ (left' = left \/ left' = left \ {f})
    BY <2>1, <2>2 DEF Undoing
  <2>7. pc' = "act" => left' = left
    BY <2>1, <2>2
  <2>8. left' = left \ {f} =>
           /\ staged'[f] => <<"staged", f>> \in reported'
           /\ backup'[f] # "none" => <<"backup", f>> \in reported' \/ f \in errors'
           /\ disk'[f] # "new" \/ f \in errors'
    BY <2>1, <2>2, <2>3, <2>4, <2>5
  <2> QED
    BY <2>2, <2>3, <2>4, <2>5, <2>6, <2>7, <2>8, RolledNamed
<1>9. CASE Restore(f) \/ Withdraw(f) \/ Conflict(f) \/ Yield(f)
  <2>1. /\ pc = "act" /\ f \in left /\ UNCHANGED <<op, cause, staged>>
        /\ \/ pc' = "undo" /\ left' = left \ {f}
           \/ pc' = "act" /\ left' = left
    BY <1>9 DEF Restore, Withdraw, Conflict, Yield, Rollback, Last, Onward, fs
  <2>2. /\ reported \subseteq reported' /\ errors \subseteq errors'
        /\ g # f => disk'[g] = disk[g] /\ backup'[g] = backup[g]
    BY <1>0, <1>9 DEF Restore, Withdraw, Conflict, Yield, fs, TypeOK
  <2>3. pc' = "undo" =>
          /\ backup'[f] # "none" => <<"backup", f>> \in reported' \/ f \in errors'
          /\ disk'[f] # "new" \/ f \in errors'
    <3>0. /\ kind = "write" => disk[f] # "new"
          /\ backup[f] # "new" /\ kind \in {"patch", "write"}
      BY <2>1 DEF IndInv, TypeOK, Control, Held, Undoing
    <3>1. CASE Restore(f)
      BY <1>0, <3>0, <3>1 DEF Restore, TypeOK
    <3>2. CASE Withdraw(f)
      BY <1>0, <2>1, <3>2 DEF Withdraw, TypeOK
    <3>3. CASE Conflict(f)
      BY <3>3 DEF Conflict
    <3>4. CASE Yield(f)
      BY <1>0, <3>0, <3>4 DEF Yield, TypeOK
    <3> QED
      BY <1>9, <3>1, <3>2, <3>3, <3>4
  <2>4. Last(f) /\ (staged[f] => <<"staged", f>> \in reported)
    BY <1>9, <2>1 DEF Restore, Withdraw, Conflict, Yield, Rollback, Named
  <2> QED
    BY <2>1, <2>2, <2>3, <2>4, RolledNamed DEF Undoing
<1> QED
  BY <1>1, <1>2, <1>3, <1>4, <1>5, <1>6, <1>7, <1>8, <1>9 DEF Steps

\* So does the start of a loop, the approval, and another program.
LEMMA RestNamed ==
  ASSUME IndInv, NEW g \in Files, Named(g),
         \/ Loop \/ Decide \/ UNCHANGED vars
         \/ \E f \in Files, e \in Edits : Write(f, e) \/ Delete(f, e)
  PROVE  Named(g)'
<1> USE EditsAssumption
<1>1. CASE Loop \/ Decide
  <2>1. /\ UNCHANGED <<kind, op, disk, staged, backup, installed, errors, reported>>
        /\ left = {} /\ pc \in Loops \cup {"plan"}
    BY <1>1 DEF Loop, Decide, Refused, fs, others
  <2>2. \/ pc = "plan" /\ pc' = "check" /\ left' = Involved /\ UNCHANGED cause
        \/ pc = "plan" /\ pc' = "done" /\ left' = {} /\ cause' = "refused"
        \/ pc \in Loops /\ pc' = Follow[pc] /\ left' = Entries(pc') /\ UNCHANGED cause
    BY <1>1 DEF Loop, Decide, Refused
  <2> QED
    BY <2>1, <2>2
    DEF Loops, Follow, Entries, Named, Over, Last, Undoing, Loop1, Involved, IndInv, Control, Backed,
        Held, TypeOK
<1>2. ASSUME NEW f \in Files, NEW e \in Edits, Write(f, e) \/ Delete(f, e)
      PROVE  Named(g)'
  <2>1. /\ UNCHANGED <<op, cause, errors, pc, left, staged, backup, reported>>
        /\ \E c \in {e, "none"} : disk' = [disk EXCEPT ![f] = c]
    BY <1>2 DEF Write, Delete, tool
  <2>2. disk'[g] = disk[g] \/ disk'[g] # "new"
    BY <2>1 DEF IndInv, TypeOK
  <2> QED
    BY <2>1, <2>2 DEF Named, Over, Involved, Last
<1>3. CASE UNCHANGED vars
  BY <1>3 DEF vars, tool, fs, Named, Over, Involved, Last
<1> QED
  BY <1>1, <1>2, <1>3

\* What the tool answers is so: "ok" is a change without leftovers, a failure leaves nothing
\* of it but what the answer names, whatever fails and whoever else writes.
THEOREM AnswerTheorem == Spec => []AnswerHolds
<1> DEFINE AnswerInv == /\ IndInv /\ (cause = "-" => errors = {})
                        /\ \A f \in Files : Named(f)
<1>1. Init => AnswerInv
  <2>1. Init => (cause = "-" => errors = {}) /\ \A f \in Files : Named(f)
    BY DEF Init, Named, Over, Undoing
  <2> QED
    BY <2>1, InitInv
<1>2. AnswerInv /\ [Next]_vars => AnswerInv'
  <2> SUFFICES ASSUME AnswerInv, [Next]_vars PROVE AnswerInv'
    OBVIOUS
  <2>1. ASSUME NEW g \in Files PROVE Named(g)'
    BY StepNamed, RestNamed DEF Next
  <2>2. cause' = "-" => errors' = {}
    <3>1. ASSUME NEW f \in Files, Steps(f) PROVE cause' = "-" => errors' = {}
      <4>1. pc = "act" => cause # "-"
        BY DEF IndInv, Control, Undoing
      <4>2. CASE Restore(f) \/ Withdraw(f) \/ Conflict(f) \/ Yield(f)
        BY <4>1, <4>2 DEF Restore, Withdraw, Conflict, Yield, Rollback
      <4>3. CASE Plan(f) \/ Validate(f) \/ Stage(f) \/ BackUp(f) \/ Verify(f) \/ Install(f)
        BY <4>3 DEF Plan, Validate, Stage, BackUp, Verify, Install, Fails, Refused
      <4>4. CASE Clean(f) \/ Undo(f)
        BY <4>4 DEF Clean, Undo
      <4> QED
        BY <3>1, <4>2, <4>3, <4>4 DEF Steps
    <3>2. ASSUME Loop \/ Decide \/ UNCHANGED vars
                 \/ \E f \in Files, e \in Edits : Write(f, e) \/ Delete(f, e)
          PROVE  cause' = "-" => errors' = {}
      BY <3>2 DEF Loop, Decide, Refused, Write, Delete, vars, tool
    <3> QED
      BY <3>1, <3>2 DEF Next
  <2> QED
    BY <2>1, <2>2, NextInv DEF Files
<1>3. AnswerInv => AnswerHolds
  <2> SUFFICES ASSUME AnswerInv, pc = "done" PROVE AnswerHolds
    BY DEF AnswerHolds, Outcome
  <2>1. left = {} /\ \A f \in Involved : f \in Files /\ Over(f)
    BY DEF IndInv, TypeOK, Over, Involved
  <2>2. ASSUME NEW f \in Involved, cause # "-", errors = {}
        PROVE  /\ disk[f] # "new"
               /\ f \in Backs /\ before[f] # "-" /\ last[f] = "-" /\ ~Unreadable
                    => disk[f] = before[f] \/ (backup[f] = before[f] /\ <<"backup", f>> \in reported)
    BY <2>1, <2>2 DEF IndInv, Held, Named, Undoing, Committed
  <2>3. ASSUME NEW f \in Files, errors = {}
        PROVE  /\ staged[f] => <<"staged", f>> \in reported
               /\ backup[f] # "none" => <<"backup", f>> \in reported
    BY <2>1, <2>3 DEF IndInv, Backed, Named, Undoing, Backs, Involved
  <2>4. Outcome \in {"refused", "stale_file", "commit_failed"} => cause # "-" /\ errors = {}
    BY DEF Outcome
  <2>5. Outcome \notin {"-", "rollback_failed"} => errors = {}
    BY DEF Outcome
  <2> QED
    BY <2>2, <2>3, <2>4, <2>5 DEF AnswerHolds
<1> QED
  BY <1>1, <1>2, <1>3, PTL DEF Spec
=============================================================================
