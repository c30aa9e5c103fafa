----------------------------- MODULE IndexFiles -----------------------------
(***************************************************************************)
(* The executor of index runs (index/service.ts): it walks a workspace,    *)
(* hashes what a stat says may have changed, and extracts symbols from     *)
(* what is dirty, file by file, while the files change under it.  A run    *)
(* may be aborted at any await, the index cleared under it, the process    *)
(* may end; the next run starts from the top.  IndexWatch says when runs   *)
(* are asked for; here one begins whenever none is at work (there is one   *)
(* background slot).                                                       *)
(*                                                                         *)
(* An action goes from one await to the next.  A file is a text and a      *)
(* stat, its size and mtime.  Files the walk never yields (ignored, too    *)
(* large, no regular files) count as absent.  Metadata rows, progress and  *)
(* priorities are left out.                                                *)
(*                                                                         *)
(* No name here is one of IndexWatch: IndexProofs extends both.            *)
(***************************************************************************)
EXTENDS Naturals, FiniteSets

CONSTANTS
  Paths,      \* files the workspace may have
  Texts,      \* what a file may hold
  BatchSize,  \* BATCH_SIZE (200 in the code)
  MaxEdits,   \* bound: changes of the disk
  Absent,     \* no file
  NoRow,      \* no row
  Nothing     \* no symbols, no file

Stat == 0..MaxEdits
File == [text : Texts, stat : Stat]
Row == [stat : Stat, hash : Texts, stage : {"file_map", "symbols"}]

ASSUME IndexAssumption ==
  /\ BatchSize \in Nat \ {0} /\ MaxEdits \in Nat
  /\ IsFiniteSet(Paths) /\ Texts # {}
  /\ Absent \notin File /\ NoRow \notin Row /\ Nothing \notin Texts
  /\ Nothing \notin [path : Paths, stat : Stat, was : Row \cup {NoRow}]

VARIABLES
  disk,      \* disk[p]: the file, [text, stat] or Absent
  edits,     \* how often the disk has changed: the next stat
  rows,      \* index_files: [stat, hash, stage] or NoRow
  symbols,   \* index_symbols: the text a file's symbols are from, or Nothing
  at,        \* what the executor awaits
  aborted,   \* its signal
  todo,      \* files not walked yet, or dirty ones not extracted yet
  seen,      \* files walked
  reading,   \* the file it reads: path, stat and row when it was walked
  batch,     \* rows not written yet
  disturbed, \* history: a change or a clear under this run
  missed,    \* history: files that are there and this walk passed over
  unread,    \* history: files whose last extraction wrote no symbols
  veiled,    \* history: files whose stat is an earlier one
  fresh,     \* history: a run that met every file and nothing disturbed has
             \* completed; no change and no file passed over since
  raced      \* history: a run was disturbed, or a stat came again, since the
             \* index was last empty

fileVars == <<disk, edits, rows, symbols, at, aborted, todo, seen, reading, batch,
              disturbed, missed, unread, veiled, fresh, raced>>
index == <<rows, symbols, unread>>
world == <<disk, edits, veiled>>

Empty == [p \in Paths |-> NoRow]

\* One of the files is being read; its own row is in no batch yet.
FilesTypeOK ==
  /\ disk \in [Paths -> File \cup {Absent}] /\ edits \in Stat
  /\ rows \in [Paths -> Row \cup {NoRow}] /\ symbols \in [Paths -> Texts \cup {Nothing}]
  /\ at \in {"off", "walk", "hash", "flush", "last", "meta", "symbols"}
  /\ todo \subseteq Paths /\ seen \subseteq Paths
  /\ reading \in [path : Paths, stat : Stat, was : Row \cup {NoRow}] \cup {Nothing}
  /\ (at \in {"hash", "symbols"} <=> reading # Nothing)
  /\ batch \in [Paths -> Row \cup {NoRow}]
  /\ \A p \in Paths : batch[p] # NoRow => at \in {"walk", "hash"} /\ p \in seen
  /\ Cardinality({p \in Paths : batch[p] # NoRow}) < BatchSize
  /\ missed \subseteq Paths /\ unread \subseteq Paths /\ veiled \subseteq Paths
  /\ aborted \in BOOLEAN /\ disturbed \in BOOLEAN /\ fresh \in BOOLEAN /\ raced \in BOOLEAN
  \* ON DELETE CASCADE
  /\ \A p \in Paths : rows[p] = NoRow => symbols[p] = Nothing

Idle ==
  /\ at' = "off" /\ aborted' = FALSE /\ todo' = {} /\ seen' = {} /\ reading' = Nothing
  /\ batch' = Empty /\ disturbed' = FALSE /\ missed' = {}

FilesInit ==
  /\ disk \in [Paths -> [text : Texts, stat : {0}] \cup {Absent}] /\ edits = 0
  /\ rows = Empty /\ symbols = [p \in Paths |-> Nothing]
  /\ at = "off" /\ aborted = FALSE /\ todo = {} /\ seen = {} /\ reading = Nothing
  /\ batch = Empty /\ disturbed = FALSE /\ missed = {} /\ unread = {} /\ veiled = {}
  /\ fresh = FALSE /\ raced = FALSE

-----------------------------------------------------------------------------
(* A run. *)

\* execute(): the file map walks the tree from the top.
Execute ==
  /\ at = "off"
  /\ at' = "walk" /\ todo' = Paths
  /\ UNCHANGED <<world, index, aborted, seen, reading, batch, disturbed, missed, fresh, raced>>

\* execute() returns: stopped, failed, or done with all three stages.
Stops == Idle /\ UNCHANGED <<index, fresh, raced>>
Completes == Idle /\ fresh' = (fresh \/ (~disturbed /\ missed = {}))

\* classifyFile(): the fast path.
Same(p) == rows[p] # NoRow /\ rows[p].stat = disk[p].stat

\* One file of the walk.  A stat that fails and a directory that cannot be read
\* pass over files that are there; a stat that the row has already is taken at
\* its word.
Walked(p) ==
  /\ at = "walk" /\ p \in todo
  /\ UNCHANGED world
  /\ \/ /\ disk[p] = Absent
        /\ todo' = todo \ {p}
        /\ UNCHANGED <<index, at, aborted, seen, reading, batch, disturbed, missed, fresh, raced>>
     \/ /\ disk[p] # Absent
        /\ todo' = todo \ {p} /\ missed' = missed \cup {p} /\ fresh' = FALSE
        /\ UNCHANGED <<index, at, aborted, seen, reading, batch, disturbed, raced>>
     \/ /\ disk[p] # Absent /\ aborted
        /\ Stops
     \/ /\ disk[p] # Absent /\ ~aborted /\ Same(p)
        /\ todo' = todo \ {p} /\ seen' = seen \cup {p}
        /\ UNCHANGED <<index, at, aborted, reading, batch, disturbed, missed, fresh, raced>>
     \/ /\ disk[p] # Absent /\ ~aborted /\ ~Same(p)
        /\ todo' = todo \ {p} /\ seen' = seen \cup {p}
        /\ at' = "hash"
        /\ reading' = [path |-> p, stat |-> disk[p].stat, was |-> rows[p]]
        /\ UNCHANGED <<index, aborted, batch, disturbed, missed, fresh, raced>>

\* Mutant: a file that changed keeps the stage it had.
MutBuilt(text, file) ==
  [stat |-> file.stat, hash |-> text,
   stage |-> IF file.was # NoRow THEN file.was.stage ELSE "file_map"]

\* classifyAndBuild(): only a touched file keeps its stage.
Built(text, file) ==
  [stat |-> file.stat, hash |-> text,
   stage |-> IF file.was # NoRow /\ file.was.hash = text THEN file.was.stage ELSE "file_map"]

\* Mutant: the batch is not started afresh.
MutUpserted(b) ==
  /\ rows' = [p \in Paths |-> IF b[p] = NoRow THEN rows[p] ELSE b[p]]
  /\ UNCHANGED <<symbols, unread, batch>>

\* upsertFiles(): the rows of a batch.
Upserted(b) ==
  /\ rows' = [p \in Paths |-> IF b[p] = NoRow THEN rows[p] ELSE b[p]]
  /\ batch' = Empty
  /\ UNCHANGED <<symbols, unread>>

\* The file is read, later than its stat; a read that fails, as it does when the
\* file is gone, fails the run.  A full batch is written.
Hashed ==
  /\ at = "hash"
  /\ UNCHANGED world
  /\ LET p == reading.path
         more == [batch EXCEPT ![p] = Built(disk[p].text, reading)]
     IN \/ Stops
        \/ /\ disk[p] # Absent
           /\ IF Cardinality({q \in Paths : more[q] # NoRow}) >= BatchSize
              THEN at' = "flush" /\ Upserted(more)
              ELSE at' = "walk" /\ batch' = more /\ UNCHANGED index
           /\ reading' = Nothing
           /\ UNCHANGED <<aborted, todo, seen, disturbed, missed, fresh, raced>>

\* The walk is over, or stops at the signal: what is left is written either way.
WalkEnds ==
  /\ at = "walk" /\ (todo = {} \/ aborted)
  /\ Upserted(batch)
  /\ at' = "last" /\ todo' = {}
  /\ UNCHANGED <<world, aborted, seen, reading, disturbed, missed, fresh, raced>>

\* The sleep after a full batch ends.
FlushEnds ==
  /\ at = "flush"
  /\ UNCHANGED world
  /\ IF aborted THEN Stops
     ELSE /\ at' = "walk"
          /\ UNCHANGED <<index, aborted, todo, seen, reading, batch, disturbed, missed, fresh,
                         raced>>

\* Rows of files the walk did not meet.
Unseen == {p \in Paths : rows[p] # NoRow /\ p \notin seen}

\* Mutant: the rows are deleted before the signal is looked at.
MutLastEnds ==
  /\ at = "last"
  /\ rows' = [p \in Paths |-> IF p \in Unseen THEN NoRow ELSE rows[p]]
  /\ symbols' = [p \in Paths |-> IF p \in Unseen THEN Nothing ELSE symbols[p]]
  /\ at' = "meta" /\ seen' = {}
  /\ UNCHANGED <<world, unread, aborted, todo, reading, batch, disturbed, missed, fresh, raced>>

\* The sleep after the last batch ends: the deletions.
LastEnds ==
  /\ at = "last"
  /\ UNCHANGED world
  /\ IF aborted THEN Stops
     ELSE /\ rows' = [p \in Paths |-> IF p \in Unseen THEN NoRow ELSE rows[p]]
          /\ symbols' = [p \in Paths |-> IF p \in Unseen THEN Nothing ELSE symbols[p]]
          /\ at' = "meta" /\ seen' = {}
          /\ UNCHANGED <<unread, aborted, todo, reading, batch, disturbed, missed, fresh, raced>>

Dirty == {p \in Paths : rows[p] # NoRow /\ rows[p].stage = "file_map"}

\* The next of the dirty files is read, unless the signal is aborted.
Extracts(dirty) ==
  \/ dirty = {} /\ Completes
  \/ dirty # {} /\ aborted /\ Idle /\ UNCHANGED fresh
  \/ /\ ~aborted
     /\ \E p \in dirty : /\ reading' = [path |-> p, stat |-> 0, was |-> NoRow]
                         /\ todo' = dirty \ {p}
     /\ at' = "symbols"
     /\ UNCHANGED <<aborted, seen, batch, disturbed, missed, fresh>>

\* The metadata is written, and the dirty rows are listed.
MetaEnds ==
  /\ at = "meta"
  /\ UNCHANGED <<world, index, raced>>
  /\ IF aborted THEN Idle /\ UNCHANGED fresh ELSE Extracts(Dirty)

\* One file, whose row is done with either way: its symbols are replaced by those
\* of what it holds now, or, when it cannot be read, is binary or defeats the
\* extractor, they stay as they are.  A row that is gone stays gone.
Extracted ==
  /\ at = "symbols"
  /\ UNCHANGED <<world, raced>>
  /\ LET p == reading.path
     IN \/ rows[p] = NoRow /\ UNCHANGED index
        \/ /\ rows[p] # NoRow
           /\ rows' = [rows EXCEPT ![p].stage = "symbols"]
           /\ \/ /\ disk[p] # Absent
                 /\ symbols' = [symbols EXCEPT ![p] = disk[p].text]
                 /\ unread' = unread \ {p}
              \/ unread' = unread \cup {p} /\ UNCHANGED symbols
  /\ Extracts(todo)

-----------------------------------------------------------------------------
(* What happens to a run. *)

\* A pause or a cancel.
Abort ==
  /\ at # "off" /\ ~aborted /\ aborted' = TRUE
  /\ UNCHANGED <<world, index, at, todo, seen, reading, batch, disturbed, missed, fresh, raced>>

\* index:clear: the run at work is cancelled, the rows are dropped at once.
ClearIndex ==
  /\ rows' = Empty /\ symbols' = [p \in Paths |-> Nothing] /\ unread' = {}
  /\ aborted' = (at # "off") /\ disturbed' = (at # "off") /\ raced' = (at # "off")
  /\ veiled' = IF at = "off" THEN {} ELSE veiled
  /\ fresh' = FALSE
  /\ UNCHANGED <<disk, edits, at, todo, seen, reading, batch, missed>>

\* A file is written, touched, made or removed.  A write may leave the size and
\* the mtime some earlier content had.
Edit(p) ==
  /\ edits < MaxEdits
  /\ edits' = edits + 1
  /\ \E file \in [text : Texts, stat : 0..(edits + 1)] \cup {Absent} :
       /\ file # disk[p]
       /\ disk' = [disk EXCEPT ![p] = file]
       /\ IF file # Absent /\ file.stat <= edits
          THEN veiled' = veiled \cup {p} /\ raced' = TRUE
          ELSE veiled' = veiled \ {p} /\ raced' = (raced \/ at # "off")
  /\ fresh' = FALSE /\ disturbed' = (at # "off")
  /\ UNCHANGED <<index, at, aborted, todo, seen, reading, batch, missed>>

\* The process ends, by a quit or a crash.
Crash ==
  /\ at # "off" /\ Idle
  /\ UNCHANGED <<world, index, fresh, raced>>

-----------------------------------------------------------------------------
FilesNext ==
  \/ Execute
  \/ \E p \in Paths : Walked(p)
  \/ Hashed \/ WalkEnds \/ FlushEnds \/ LastEnds \/ MetaEnds \/ Extracted
  \/ Abort \/ ClearIndex \/ Crash
  \/ \E p \in Paths : Edit(p)

FilesSpec == FilesInit /\ [][FilesNext]_fileVars

-----------------------------------------------------------------------------
(* Properties. *)

\* service.ts:153: what a run leaves that met every file and that nothing
\* disturbed is a row of every file and of nothing else, whatever the runs before
\* it were stopped at or raced with; and it stays so until the next change,
\* whatever later runs are stopped at.  A row has the hash of its file, unless
\* the file has an earlier stat; its symbols are the file's, unless an extraction
\* raced with a change or wrote none.
IndexExact ==
  fresh => \A p \in Paths :
    IF disk[p] = Absent THEN rows[p] = NoRow
    ELSE /\ rows[p] # NoRow /\ rows[p].stat = disk[p].stat /\ rows[p].stage = "symbols"
         /\ p \notin veiled => rows[p].hash = disk[p].text
         /\ ~raced /\ p \notin unread => symbols[p] = disk[p].text

\* service.ts:366: symbols are extracted again for every file whose content
\* changed.  A row that is marked extracted has the symbols of its hash but
\* where an extraction wrote none (service.ts:393 means it to): neither the fast
\* path nor a touch, a pause, a crash or a file passed over hides a change.
NothingSkipped ==
  ~raced => \A p \in Paths \ unread :
    rows[p] # NoRow /\ rows[p].stage = "symbols" => symbols[p] = rows[p].hash
=============================================================================
