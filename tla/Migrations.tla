----------------------------- MODULE Migrations -----------------------------
(***************************************************************************)
(* Opening the database.  Every process that uses the file, the server and  *)
(* each command of the command line, first brings it to the schema it was   *)
(* built with: a script of CREATE ... IF NOT EXISTS, then four changes of    *)
(* columns older releases did not have, each a look at the table followed   *)
(* by an ALTER.  No transaction holds the statements together, so processes *)
(* interleave between any two of them and a crash leaves any prefix.  A     *)
(* process has one connection, which an open result set keeps to itself.    *)
(***************************************************************************)
EXTENDS Naturals, Sequences

CONSTANTS Procs,         \* processes that open the file, once each
          Script,        \* the tables of the script, in its order
          StoreMayFail   \* may a statement fail (busy for 5 s, I/O)?

\* The columns migrate() brings, in its order; the first is a renamed one.
Changes == << [table |-> "runs", column |-> "trigger_kind"],
              [table |-> "agents", column |-> "project_id"],
              [table |-> "projects", column |-> "stack_preset"],
              [table |-> "projects", column |-> "archived_at"] >>

Tables == {Script[i] : i \in DOMAIN Script}
Changed == {Changes[i].table : i \in DOMAIN Changes}
Columns == {Changes[i] : i \in DOMAIN Changes}

ASSUME ScriptType == Script \in Seq(STRING) /\ Changed \subseteq Tables
ASSUME MayFailType == StoreMayFail \in BOOLEAN

VARIABLES
    tables,   \* the tables there are
    columns,  \* those of Columns their tables have
    active,   \* is there the index idx_projects_active?
    pc,       \* where each process is in Open
    at,       \* ... and in the script or in Changes
    missing,  \* what its last look at a table found
    rows,     \* has it a result set open?
    rivals,   \* history: processes that were in Open at the same time
    refused   \* history: processes one of whose statements was refused

vars == <<tables, columns, active, pc, at, missing, rows, rivals, refused>>
file == <<tables, columns, active>>
history == <<rivals, refused>>

Working == {"script", "query", "scan", "alter", "index"}

TypeOK ==
    /\ tables \in SUBSET Tables
    /\ columns \in SUBSET Columns
    /\ active \in BOOLEAN
    /\ pc \in [Procs -> {"idle", "open", "failed", "dead"} \cup Working]
    /\ at \in [Procs -> Nat]
    /\ missing \in [Procs -> BOOLEAN]
    /\ rows \in [Procs -> BOOLEAN]
    /\ rivals \in [Procs -> SUBSET Procs]
    /\ refused \in SUBSET Procs

Opening(p) == pc[p] \in Working

\* No file, or one of an older release: without the later changes and perhaps
\* without tables that came to the script after it.
Init ==
    /\ \/ tables = {} /\ columns = {} /\ active = FALSE
       \/ /\ tables \in {T \in SUBSET Tables : Changed \subseteq T}
          /\ \E release \in 0..Len(Changes) :
                /\ columns = {Changes[i] : i \in 1..release}
                /\ active = (release = Len(Changes))
    /\ pc = [p \in Procs |-> "idle"]
    /\ at = [p \in Procs |-> 0]
    /\ missing = [p \in Procs |-> FALSE]
    /\ rows = [p \in Procs |-> FALSE]
    /\ rivals = [p \in Procs |-> {}] /\ refused = {}

-----------------------------------------------------------------------------

Goto(p, label) == pc' = [pc EXCEPT ![p] = label]

\* Open is called; whoever is in it already becomes a rival.
Open(p) ==
    /\ pc[p] = "idle" /\ Goto(p, "script")
    /\ at' = [at EXCEPT ![p] = 1]
    /\ rivals' = [q \in Procs |->
                     IF q = p THEN {r \in Procs : Opening(r)}
                              ELSE rivals[q] \cup {r \in {p} : Opening(q)}]
    /\ UNCHANGED <<file, missing, rows, refused>>

\* The script was the last statement; or the last change was.
EndOfScript(p) == at[p] = Len(Script)
LastChange(p) == at[p] = Len(Changes)

\* CREATE TABLE IF NOT EXISTS: a new table has every column, an old one is
\* left alone.
Create(table) ==
    /\ tables' = tables \cup {table}
    /\ columns' = columns \cup
           (IF table \in tables THEN {} ELSE {c \in Columns : c.table = table})

\* One statement of the script; the indexes that go with a table are on columns
\* every release had.
RunScript(p) ==
    /\ pc[p] = "script" /\ ~rows[p]
    /\ Create(Script[at[p]])
    /\ Goto(p, IF EndOfScript(p) THEN "query" ELSE "script")
    /\ at' = [at EXCEPT ![p] = IF EndOfScript(p) THEN 1 ELSE @ + 1]
    /\ UNCHANGED <<active, missing, rows, history>>

\* Mutant: the columns are added without a look.
QueryNothing(p) ==
    /\ pc[p] = "query" /\ ~rows[p]
    /\ missing' = [missing EXCEPT ![p] = TRUE]
    /\ rows' = [rows EXCEPT ![p] = TRUE]
    /\ Goto(p, "scan")
    /\ UNCHANGED <<file, at, history>>

\* PRAGMA table_info: is the old name there, or the new column not?
QueryTable(p) ==
    /\ pc[p] = "query" /\ ~rows[p]
    /\ missing' = [missing EXCEPT ![p] = Changes[at[p]] \notin columns]
    /\ rows' = [rows EXCEPT ![p] = TRUE]
    /\ Goto(p, "scan")
    /\ UNCHANGED <<file, at, history>>

\* Where a process goes after a change.
NextChange(p) ==
    /\ Goto(p, IF LastChange(p) THEN "index" ELSE "query")
    /\ at' = [at EXCEPT ![p] = IF LastChange(p) THEN @ ELSE @ + 1]

\* Mutant: the result set is closed only on the return.
ScanKeepsRows(p) ==
    /\ pc[p] = "scan"
    /\ rows' = [rows EXCEPT ![p] = missing[p]]
    /\ IF missing[p] THEN Goto(p, "alter") /\ UNCHANGED at ELSE NextChange(p)
    /\ UNCHANGED <<file, missing, history>>

\* The result set is read and closed.
ScanTable(p) ==
    /\ pc[p] = "scan"
    /\ rows' = [rows EXCEPT ![p] = FALSE]
    /\ IF missing[p] THEN Goto(p, "alter") /\ UNCHANGED at ELSE NextChange(p)
    /\ UNCHANGED <<file, missing, history>>

\* ALTER TABLE ... RENAME or ADD COLUMN: "no such column" or "duplicate column
\* name" if somebody was faster.
AlterTable(p) ==
    /\ pc[p] = "alter" /\ ~rows[p]
    /\ \/ /\ Changes[at[p]] \notin columns
          /\ columns' = columns \cup {Changes[at[p]]}
          /\ NextChange(p)
       \/ /\ Changes[at[p]] \in columns
          /\ Goto(p, "failed")
          /\ UNCHANGED <<columns, at>>
    /\ UNCHANGED <<tables, active, missing, rows, history>>

\* Mutant: the index goes with the column, as in the other changes.
IndexWithColumn(p) ==
    /\ pc[p] = "index" /\ ~rows[p]
    /\ active' = (active \/ missing[p])
    /\ Goto(p, "open")
    /\ UNCHANGED <<tables, columns, at, missing, rows, history>>

\* CREATE INDEX IF NOT EXISTS idx_projects_active, whether or not the column
\* was missing.
CreateIndex(p) ==
    /\ pc[p] = "index" /\ ~rows[p]
    /\ active' = TRUE
    /\ Goto(p, "open")
    /\ UNCHANGED <<tables, columns, at, missing, rows, history>>

\* A statement fails for a reason of its own: Open closes and returns it.
Refuse(p) ==
    /\ StoreMayFail /\ Opening(p) /\ Goto(p, "failed")
    /\ rows' = [rows EXCEPT ![p] = FALSE]
    /\ refused' = refused \cup {p}
    /\ UNCHANGED <<file, at, missing, rivals>>

Crash(p) ==
    /\ Opening(p) /\ Goto(p, "dead")
    /\ rows' = [rows EXCEPT ![p] = FALSE]
    /\ UNCHANGED <<file, at, missing, history>>

Step(p) ==
    \/ RunScript(p) \/ QueryTable(p) \/ ScanTable(p)
    \/ AlterTable(p) \/ CreateIndex(p)

Next == \E p \in Procs : Open(p) \/ Step(p) \/ Refuse(p) \/ Crash(p)

Spec == Init /\ [][Next]_vars

\* A process that can take a step of Open does; nobody has to start one, to
\* crash or to be refused.
FairSpec == Spec /\ \A p \in Procs : WF_vars(Step(p))

-----------------------------------------------------------------------------
(* What must hold.                                                          *)

Current == tables = Tables /\ columns = Columns /\ active

\* Whoever Open returned a database to finds every table, column and index the
\* statements of the store name, whatever release wrote the file, wherever
\* earlier processes crashed, and whoever else is still migrating it.
OpenedIsCurrent == \A p \in Procs : pc[p] = "open" => Current

Lost(p) == pc[p] = "failed" /\ p \notin refused

\* A process whose statements are not refused fails to open the file only if
\* another was opening it at the same time, and somebody who tried has not lost
\* in this way: a start alone never fails, whatever a crash left behind, and a
\* race has a survivor (db.go:167-212).
FailureNeedsRace ==
    \A p \in Procs : Lost(p) =>
        rivals[p] # {} /\ \E q \in Procs : pc[q] # "idle" /\ ~Lost(q)

\* Once somebody is opening the file somebody has it open, unless one of them
\* crashes or is refused: no process waits for the connection it holds
\* (db.go:239), and of those that race for a change one goes on.
SomebodyOpens ==
    (\E p \in Procs : Opening(p)) ~>
        (refused # {} \/ \E p \in Procs : pc[p] \in {"open", "dead"})
=============================================================================
