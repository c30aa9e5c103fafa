---------------------------- MODULE MCTaskRunner ----------------------------
(***************************************************************************)
(* Small instances of TaskRunner: what each task number is.                *)
(***************************************************************************)
EXTENDS TaskRunner

\* Every task has its own forked conversation, as enqueue() makes it.
OwnConv == [t \in 1..N |-> t]
\* Rows 1 and 2 share a conversation (rows the runner finds at its first boot).
SharedConv == [t \in 1..N |-> IF t = 1 THEN 2 ELSE t]

\* An agent chat and background upkeep behind it.
ChatLanes == [t \in 1..N |-> IF t \in Agents THEN "interactive" ELSE "background"]
OneSlot == [l \in {"interactive", "background"} |-> 1]
=============================================================================
