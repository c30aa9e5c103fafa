------------------------------ MODULE FilePatch ------------------------------
(***************************************************************************)
(* How the file tools change the workspace: apply_patch_tool commits a     *)
(* patch of several files (agent/tools/file/patch.ts, planPatch and        *)
(* commitPatch), write_file_tool and edit_file_tool one file               *)
(* (mutation.ts, atomicWriteChecked).  Both read the files, wait for an    *)
(* approval, stage the new contents beside them, move the old ones to      *)
(* backups, install the new ones without replacing anything, and undo what *)
(* they did when a step fails.  There is no lock: between any two awaits   *)
(* another program may write or delete the same files, and any call to the *)
(* file system may fail.  Nothing is logged for a restart, so a crash      *)
(* leaves the disk of some reachable state, and what has to hold after one *)
(* is asked of every state.                                                *)
(*                                                                         *)
(* Contents are tokens, and stand for the bytes with the mode: "old" what  *)
(* a file held at first, "new" what the change makes of it, and one value  *)
(* of Edits for each write of another program.  A file is a number, in the *)
(* order of the paths.                                                     *)
(***************************************************************************)
EXTENDS Naturals, FiniteSets

CONSTANTS N,            \* how many files
          Edits,        \* what other programs write, each value once
          MaxFaults     \* bound: calls to the file system that fail

ASSUME NAssumption == N \in Nat \ {0} /\ MaxFaults \in Nat
ASSUME EditsAssumption == Edits \cap {"old", "new", "none", "-", "unread"} = {}

Files == 1 .. N

VARIABLES
  kind,       \* "patch": apply_patch_tool, "write": write_file_tool, edit_file_tool
  op,         \* f -> its PlannedPatchFile.status, "-" for a file left alone
  from,       \* f -> the file it is moved from, or 0
  disk,       \* f -> what its path holds
  staged,     \* f -> whether its temporary file is on disk
  backup,     \* f -> what its backup holds
  before,     \* f -> what planPatch read, "-" before it did
  installed,  \* the files whose new content was linked in place
  pc, left,   \* the loop that runs, and the files it has not done yet
  seen,       \* what the rollback last read of a path
  cause,      \* why the change failed, "-" while it has not
  errors,     \* the files whose rollback failed
  reported,   \* the temporary files and backups cleanupErrors names
  used,       \* the edits that have been made
  last,       \* f -> what another program last left there since it was read
  late,       \* the edits made between a read of the rollback and what it did next
  faults      \* how many calls have failed

tool == <<kind, op, from, before, seen, cause, errors, pc, left, installed>>
fs == <<disk, staged, backup>>
others == <<used, last, late>>
vars == <<tool, fs, others, reported, faults>>

Involved == {f \in Files : op[f] # "-"}
Writes == {f \in Files : op[f] \in {"updated", "added", "moved"}}
Backs == {f \in Files : op[f] \in {"updated", "deleted"}}   \* entry.existed

Contents == {"old", "new"} \cup Edits
Temps == {"staged", "backup"} \X Files

TypeOK ==
  /\ kind \in {"patch", "write"}
  /\ op \in [Files -> {"updated", "added", "moved", "deleted", "-"}]
  /\ from \in [Files -> Files \cup {0}]
  /\ disk \in [Files -> Contents \cup {"none"}]
  /\ staged \in [Files -> BOOLEAN]
  /\ backup \in [Files -> Contents \cup {"none"}]
  /\ before \in [Files -> Contents \cup {"-", "none"}]
  /\ pc \in {"plan", "check", "stage", "recheck", "backup", "verify", "install",
             "clean", "undo", "act", "done"}
  /\ left \subseteq Involved /\ (pc = "done" => left = {})
  /\ installed \subseteq Writes /\ errors \subseteq Involved
  /\ seen \in Contents \cup {"none", "unread"}
  /\ cause \in {"-", "refused", "stale_file", "commit_failed"}
  /\ reported \subseteq Temps
  /\ used \subseteq Edits /\ late \subseteq used
  /\ last \in [Files -> Edits \cup {"-", "none"}]
  /\ faults \in 0 .. MaxFaults

\* The patches parsePatchOperations lets through, and the single files of the write
\* tools: a move is the deletion of its source and a new file.
Init ==
  /\ kind \in {"patch", "write"}
  /\ op \in [Files -> {"updated", "added", "moved", "deleted", "-"}]
  /\ from \in [Files -> Files \cup {0}]
  /\ \A f \in Files : IF op[f] = "moved" THEN from[f] # 0 /\ op[from[f]] = "deleted"
                                         ELSE from[f] = 0
  /\ \A f, g \in Files : from[f] = from[g] /\ from[f] # 0 => f = g
  /\ Involved # {}
  /\ kind = "write" => \E f \in Files : Involved = {f} /\ op[f] \in {"updated", "added"}
  /\ disk \in [Files -> {"old", "none"}]
  /\ staged = [f \in Files |-> FALSE] /\ backup = [f \in Files |-> "none"]
  /\ before = [f \in Files |-> "-"] /\ installed = {}
  /\ pc = "plan" /\ left = Involved
  /\ seen = "none" /\ cause = "-" /\ errors = {} /\ reported = {}
  /\ used = {} /\ last = [f \in Files |-> "-"] /\ late = {} /\ faults = 0

-----------------------------------------------------------------------------
(* The loops of commitPatch, in order, and the files each goes through.  *)

Entries(p) ==
  CASE p \in {"stage", "install"} -> Writes
    [] p = "backup" -> Backs
    [] p = "done" -> {}
    [] OTHER -> Involved

Loops == {"check", "stage", "recheck", "backup", "install", "clean", "undo"}

\* Mutant: the backups go before the new files are in place.
MutFollow ==
  [p \in Loops |-> CASE p = "check" -> "stage"
                     [] p = "stage" -> "recheck"
                     [] p = "recheck" -> "backup"
                     [] p = "backup" -> "clean"
                     [] p = "clean" -> "install"
                     [] OTHER -> "done"]

Follow ==
  [p \in Loops |-> CASE p = "check" -> "stage"
                     [] p = "stage" -> "recheck"
                     [] p = "recheck" -> "backup"
                     [] p = "backup" -> "install"
                     [] p = "install" -> "clean"
                     [] OTHER -> "done"]

First(f) == f \in left /\ \A g \in left : f <= g
Last(f) == f \in left /\ \A g \in left : g <= f

\* The loop has done f.
Onward(p, f) == pc' = p /\ left' = left \ {f}

\* No file is left: the next loop.
Loop ==
  /\ pc \in Loops /\ left = {}
  /\ pc' = Follow[pc] /\ left' = Entries(pc')
  /\ UNCHANGED <<kind, op, from, before, seen, cause, errors, installed, fs, others, reported,
                 faults>>

\* A return or a throw: every staged file is removed, and what was done is undone,
\* entry by entry from the last one.
Fails(why) ==
  /\ cause' = why
  /\ IF pc = "check" THEN pc' = "done" /\ left' = {} ELSE pc' = "undo" /\ left' = Involved

\* A call to the file system fails, for a reason of its own.
Fault == faults < MaxFaults /\ faults' = faults + 1

Refused == cause' = "refused" /\ pc' = "done" /\ left' = {}

-----------------------------------------------------------------------------
(* planPatch, and the first reads of the write tools.  *)

Source(f) == IF op[f] = "moved" THEN from[f] ELSE f

\* A file to change must be there, and is read; one to create must not be.  A move
\* reads its source once, in the entry that deletes it.
Reads(f) ==
  CASE op[f] = "added" -> disk[f] = "none"
    [] op[f] = "moved" -> disk[f] = "none" /\ before[from[f]] # "-"
    [] OTHER -> disk[f] # "none"

Plan(f) ==
  /\ pc = "plan" /\ f \in left
  /\ op[f] = "moved" => before[from[f]] # "-"
  /\ \/ /\ Reads(f)
        /\ before' = [before EXCEPT ![f] = IF op[f] = "moved" THEN before[from[f]] ELSE disk[f]]
        /\ last' = [last EXCEPT ![f] = "-"]
        /\ Onward("plan", f)
        /\ UNCHANGED cause
     \/ /\ ~Reads(f)
        /\ Refused
        /\ UNCHANGED <<before, last>>
  /\ UNCHANGED <<kind, op, from, seen, errors, installed, fs, used, late, reported, faults>>

\* The gate answers: commitPatch starts, or the tool returns.
Decide ==
  /\ pc = "plan" /\ left = {}
  /\ \/ pc' = "check" /\ left' = Involved /\ UNCHANGED cause
     \/ Refused
  /\ UNCHANGED <<kind, op, from, before, seen, errors, installed, fs, others, reported, faults>>

-----------------------------------------------------------------------------
(* commitPatch and atomicWriteChecked up to the commit.  *)

\* One entry of validatePlannedPatch, before anything is staged and once more after.
Fresh(f) == /\ disk[Source(f)] = before[f]
            /\ op[f] = "moved" => disk[f] = "none"

Validate(f) ==
  /\ pc \in {"check", "recheck"} /\ First(f)
  /\ \/ Fresh(f) /\ Onward(pc, f) /\ UNCHANGED <<cause, faults>>
     \/ ~Fresh(f) /\ Fails("stale_file") /\ UNCHANGED faults
     \/ Fault /\ Fails("commit_failed")
  /\ UNCHANGED <<kind, op, from, before, seen, errors, installed, fs, others, reported>>

\* A write that fails may have created the temporary file.
Stage(f) ==
  /\ pc = "stage" /\ First(f)
  /\ \/ staged' = [staged EXCEPT ![f] = TRUE] /\ Onward("stage", f) /\ UNCHANGED <<cause, faults>>
     \/ /\ \E made \in BOOLEAN : staged' = [staged EXCEPT ![f] = made]
        /\ Fault /\ Fails("commit_failed")
  /\ UNCHANGED <<kind, op, from, before, seen, errors, installed, disk, backup, others, reported>>

\* The old content goes to the backup, whatever it is by now.
BackUp(f) ==
  /\ pc = "backup" /\ First(f)
  /\ \/ /\ disk[f] # "none"
        /\ backup' = [backup EXCEPT ![f] = disk[f]] /\ disk' = [disk EXCEPT ![f] = "none"]
        /\ pc' = "verify" /\ UNCHANGED <<left, cause, faults>>
     \/ /\ \/ disk[f] = "none" /\ UNCHANGED faults
           \/ Fault
        /\ UNCHANGED <<disk, backup>> /\ Fails("commit_failed")
  /\ UNCHANGED <<kind, op, from, before, seen, errors, installed, staged, others, reported>>

\* Mutant: the backup is not read again.
MutVerify(f) ==
  /\ pc = "verify" /\ First(f) /\ Onward("backup", f)
  /\ UNCHANGED <<kind, op, from, before, seen, cause, errors, installed, fs, others, reported,
                 faults>>

\* validateBackupAfterMove: what was moved must be what was read.
Verify(f) ==
  /\ pc = "verify" /\ First(f)
  /\ \/ backup[f] = before[f] /\ Onward("backup", f) /\ UNCHANGED <<cause, faults>>
     \/ backup[f] # before[f] /\ Fails("stale_file") /\ UNCHANGED faults
     \/ Fault /\ Fails("commit_failed")
  /\ UNCHANGED <<kind, op, from, before, seen, errors, installed, fs, others, reported>>

\* The link fails on a path that exists.  A write reports every failure as stale.
Install(f) ==
  /\ pc = "install" /\ First(f)
  /\ \/ /\ disk[f] = "none"
        /\ disk' = [disk EXCEPT ![f] = "new"] /\ installed' = installed \cup {f}
        /\ Onward("install", f) /\ UNCHANGED <<cause, faults>>
     \/ /\ UNCHANGED <<disk, installed>>
        /\ \/ disk[f] # "none" /\ Fails("stale_file") /\ UNCHANGED faults
           \/ Fault /\ Fails(IF disk[f] # "none" \/ kind = "write" THEN "stale_file"
                                                                   ELSE "commit_failed")
  /\ UNCHANGED <<kind, op, from, before, seen, errors, staged, backup, others, reported>>

\* After the commit the temporary files and the backups are removed, or reported.
Clean(f) ==
  /\ pc = "clean" /\ First(f)
  /\ \E stay \in SUBSET {t \in {"staged", "backup"} :
                           IF t = "staged" THEN staged[f] ELSE backup[f] # "none"} :
        /\ faults + Cardinality(stay) <= MaxFaults /\ faults' = faults + Cardinality(stay)
        /\ reported' = reported \cup (stay \X {f})
        /\ staged' = [staged EXCEPT ![f] = "staged" \in stay]
        /\ backup' = [backup EXCEPT ![f] = IF "backup" \in stay THEN @ ELSE "none"]
  /\ Onward("clean", f)
  /\ UNCHANGED <<kind, op, from, before, seen, cause, errors, installed, disk, others>>

-----------------------------------------------------------------------------
(* The rollback, from the last entry to the first.  *)

\* Mutant: only what has a backup is undone.
MutOwes(f) == backup[f] # "none"

Owes(f) == backup[f] # "none" \/ f \in installed

\* The staged file is removed, and the path is read if there is something to undo.
\* A patch takes a path it cannot read for a missing one, a write for one that exists.
Undo(f) ==
  /\ pc = "undo" /\ Last(f)
  /\ \E stays \in {s \in BOOLEAN : s => staged[f]}, unread \in {u \in BOOLEAN : u => Owes(f)} :
        LET failed == {x \in {"staged", "read"} : IF x = "staged" THEN stays ELSE unread}
        IN /\ faults + Cardinality(failed) <= MaxFaults
           /\ faults' = faults + Cardinality(failed)
           /\ staged' = [staged EXCEPT ![f] = stays]
           /\ reported' = reported \cup (IF stays THEN {<<"staged", f>>} ELSE {})
           /\ IF Owes(f)
                THEN /\ seen' = (IF ~unread THEN disk[f]
                                 ELSE IF kind = "patch" THEN "none" ELSE "unread")
                     /\ late' = late \cup (IF unread THEN {disk[f], backup[f]} \cap Edits ELSE {})
                     /\ pc' = "act" /\ UNCHANGED left
                ELSE UNCHANGED <<seen, late>> /\ Onward("undo", f)
  /\ UNCHANGED <<kind, op, from, before, cause, errors, installed, disk, backup, used, last>>

Rollback(f) == pc = "act" /\ Last(f)

\* rename() of the backup over the path that was found missing.
Restore(f) ==
  /\ Rollback(f)
  /\ backup[f] # "none" /\ seen = "none"
  /\ \/ /\ disk' = [disk EXCEPT ![f] = backup[f]] /\ backup' = [backup EXCEPT ![f] = "none"]
        /\ UNCHANGED <<errors, reported, faults>>
     \/ /\ Fault /\ UNCHANGED <<disk, backup>>
        /\ reported' = reported \cup {<<"backup", f>>}   \* the error of rename() names it
        /\ errors' = (IF kind = "patch" THEN errors \cup {f} ELSE errors)
  /\ Onward("undo", f)
  /\ UNCHANGED <<kind, op, from, before, seen, cause, installed, staged, others>>

\* removeFile() of the new content that was found there, before the backup comes back.
Withdraw(f) ==
  /\ Rollback(f) /\ kind = "patch" /\ f \in installed /\ seen = "new"
  /\ \/ /\ disk[f] # "none"
        /\ disk' = [disk EXCEPT ![f] = "none"] /\ seen' = "none"
        /\ installed' = installed \ {f}
        /\ IF backup[f] # "none" THEN UNCHANGED <<pc, left>> ELSE Onward("undo", f)
        /\ UNCHANGED <<errors, faults>>
     \/ /\ \/ disk[f] = "none" /\ UNCHANGED faults
           \/ Fault
        /\ errors' = errors \cup {f} /\ Onward("undo", f) /\ UNCHANGED <<disk, seen, installed>>
  /\ UNCHANGED <<kind, op, from, before, cause, staged, backup, others, reported>>

\* rollback_conflict: something else is there, and stays, and so does the backup.
Conflict(f) ==
  /\ Rollback(f) /\ kind = "patch"
  /\ IF backup[f] # "none" THEN seen # "none" /\ ~(f \in installed /\ seen = "new")
                           ELSE seen # "new"
  /\ errors' = errors \cup {f} /\ Onward("undo", f)
  /\ UNCHANGED <<kind, op, from, before, seen, cause, installed, fs, others, reported, faults>>

\* cleanupUncommitted of a write whose path exists, or cannot be read: the backup goes.
Yield(f) ==
  /\ Rollback(f) /\ kind = "write" /\ seen # "none"
  /\ \/ backup' = [backup EXCEPT ![f] = "none"] /\ UNCHANGED <<reported, faults>>
     \/ Fault /\ reported' = reported \cup {<<"backup", f>>} /\ UNCHANGED backup
  /\ Onward("undo", f)
  /\ UNCHANGED <<kind, op, from, before, seen, cause, errors, installed, disk, staged, others>>

-----------------------------------------------------------------------------
(* Another program: an editor, a formatter, a tool of another conversation.  *)

Write(f, e) ==
  /\ e \notin used /\ used' = used \cup {e}
  /\ disk' = [disk EXCEPT ![f] = e] /\ last' = [last EXCEPT ![f] = e]
  /\ late' = late \cup (IF Rollback(f) THEN {e} ELSE {})
  /\ UNCHANGED <<tool, staged, backup, reported, faults>>

Delete(f, e) ==
  /\ e \notin used /\ used' = used \cup {e}
  /\ disk[f] # "none"
  /\ disk' = [disk EXCEPT ![f] = "none"] /\ last' = [last EXCEPT ![f] = "none"]
  /\ UNCHANGED <<tool, staged, backup, late, reported, faults>>

Steps(f) ==
  \/ Plan(f) \/ Validate(f) \/ Stage(f) \/ BackUp(f) \/ Verify(f) \/ Install(f) \/ Clean(f)
  \/ Undo(f) \/ Restore(f) \/ Withdraw(f) \/ Conflict(f) \/ Yield(f)

Next ==
  \/ \E f \in Files : Steps(f)
  \/ Loop \/ Decide
  \/ pc # "done" /\ \E f \in Files, e \in Edits : Write(f, e) \/ Delete(f, e)

Spec == Init /\ [][Next]_vars

-----------------------------------------------------------------------------
(* Properties.  *)

Outcome ==
  IF pc # "done" THEN "-"
  ELSE IF cause = "-" THEN (IF reported = {} THEN "ok" ELSE "cleanup_failed")
  ELSE IF errors # {} THEN "rollback_failed" ELSE cause

\* The only state a write may lose the file in: its rollback could not read the path.
Unreadable == kind = "write" /\ seen = "unread"

Committed == cause = "-" /\ pc \in {"clean", "done"}

\* A crash at any point leaves a patch all done or all recoverable: until every new file
\* is in place each old content is at its path or in a backup, and from then on every new
\* one is at its path, unless another program has changed that file.
AllOrNothing ==
  IF Committed
    THEN \A f \in Involved : last[f] = "-" => disk[f] = IF f \in Writes THEN "new" ELSE "none"
    ELSE \A f \in Backs : last[f] = "-" /\ before[f] # "-" /\ ~Unreadable
                             => before[f] \in {disk[f], backup[f]}

\* What another program writes while a change is planned, approved and committed is never
\* lost, whatever fails: only an edit made between a read of the rollback and the call that
\* follows it may be.
EditsKept ==
  \A f \in Files : last[f] \in Edits \ late => last[f] \in {disk[f], backup[f]}

\* What the tool answers is so.  A refusal, stale_file or commit_failed: nothing of the
\* change is left, and the old contents are back, or in a backup the answer names.  Unless
\* the rollback itself failed the answer names every temporary file and backup that is
\* left, and "ok" says that none is.
AnswerHolds ==
  /\ Outcome \in {"refused", "stale_file", "commit_failed"} =>
       \A f \in Involved :
          /\ disk[f] # "new"
          /\ f \in Backs /\ before[f] # "-" /\ last[f] = "-" /\ ~Unreadable
               => disk[f] = before[f] \/ (backup[f] = before[f] /\ <<"backup", f>> \in reported)
  /\ Outcome \notin {"-", "rollback_failed"} =>
       \A f \in Files : /\ staged[f] => <<"staged", f>> \in reported
                        /\ backup[f] # "none" => <<"backup", f>> \in reported
=============================================================================
