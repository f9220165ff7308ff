------------------------------ MODULE Workspace ------------------------------
(***************************************************************************)
(* Materializing a project writes what the database holds of it to a few    *)
(* Markdown files.  The database is read with one query after the other and *)
(* the files are written one after the other, in the order of a Go map;     *)
(* passes, other requests and pat projects materialize go on in between.    *)
(*                                                                          *)
(* The database is its log: an event is a version of the doc or the stack,  *)
(* a decision, a critique, a brief, a reconciliation, or a note on an item  *)
(* of a brief.  What a query returned is the position of the last event it  *)
(* saw, and so is what a file says.                                         *)
(***************************************************************************)
EXTENDS Naturals, Sequences

CONSTANTS Makers,        \* requests and processes that materialize
          Kinds,         \* the kinds of events that happen
          Absent, Torn,  \* a file that is not there; one that is empty or mixed
          None,          \* no maker
          MaxEvents,     \* bound: length of the log
          MaxSeconds,    \* bound: seconds that pass
          StoreMayFail   \* may a query return an error?

Sources == {"doc", "decision", "critique", "brief", "recon", "note", "stack"}

ASSUME KindsType == Kinds \subseteq Sources /\ Kinds # {} /\ Kinds # {"doc"}
ASSUME BoundsType == MaxEvents \in Nat /\ MaxSeconds \in Nat /\ StoreMayFail \in BOOLEAN

\* Kinds slices the system: a query for something that never happens finds
\* nothing whenever it is made, and a file of nothing else is always the same.
\* The queries after the one for the project row are made in this order.
Turn == [decision |-> 1, critique |-> 2, brief |-> 3, recon |-> 4, note |-> 5, stack |-> 6]
Queries == Kinds \ {"doc"}

\* The sources a file is built from.
Sections == [README |-> {"decision", "critique", "brief"},
             DESIGN |-> {"doc"},
             DECISIONS |-> {"decision"},
             STACK |-> {"stack"},
             CRITIQUE |-> {"critique"},
             BRIEF |-> {"brief", "note"},
             BRIEF_RECON |-> {"recon"}]
Uses(f) == Sections[f]
Files == {f \in DOMAIN Sections : f = "README" \/ Uses(f) \cap Kinds # {}}
Always == Files \cap {"README", "DESIGN", "DECISIONS", "STACK"}

ASSUME MarksAreNoContent ==
    \A f \in Files : {Absent, Torn} \cap [Uses(f) -> Nat] = {}
ASSUME NoneIsNothing == None \notin Makers

VARIABLES
    log,    \* the events so far
    pc,     \* where each maker is
    left,   \* the queries it has still to make
    got,    \* what its queries returned
    todo,   \* the files it has still to write
    disk,   \* the directory of the project
    solo,   \* the maker that started last, if it has been alone since
    began,  \* history: length of the log when that maker started
    blind   \* history: its queries that were refused

vars == <<log, pc, left, got, todo, disk, solo, began, blind>>
history == <<solo, began, blind>>

Event == [kind : Kinds, of : Nat, at : Nat]

TypeOK ==
    /\ log \in Seq(Event)
    /\ pc \in [Makers -> {"idle", "read", "write", "done"}]
    /\ left \in [Makers -> SUBSET Queries]
    /\ got \in [Makers -> [Sources -> Nat]]
    /\ todo \in [Makers -> SUBSET Files]
    /\ DOMAIN disk = Files
    /\ \A f \in Files : disk[f] \in [Uses(f) -> Nat] \cup {Absent, Torn}
    /\ solo \in Makers \cup {None}
    /\ began \in Nat
    /\ blind \in SUBSET Queries

Nothing == [s \in Sources |-> 0]

Init ==
    /\ log = <<>>
    /\ pc = [m \in Makers |-> "idle"] /\ left = [m \in Makers |-> {}]
    /\ got = [m \in Makers |-> Nothing]
    /\ todo = [m \in Makers |-> {}]
    /\ disk = [f \in Files |-> Absent]
    /\ solo = None /\ began = 0 /\ blind = {}

Goto(m, label) == pc' = [pc EXCEPT ![m] = label]
Return(m, label) ==
    /\ Goto(m, label)
    /\ left' = [left EXCEPT ![m] = {}] /\ got' = [got EXCEPT ![m] = Nothing]
    /\ todo' = [todo EXCEPT ![m] = {}]
\* The history of the maker that started last, if it was alone.
Watch(m, n) == solo' = m /\ began' = n /\ blind' = {}
InFlight == {m \in Makers : pc[m] \in {"read", "write"}}

-----------------------------------------------------------------------------
(* The database.                                                            *)

\* The last event of a set of positions; 0 when there is none.
LastIn(S) == IF S = {} THEN 0 ELSE CHOOSE i \in S : \A j \in S : j <= i
Positions(kind, n) == {i \in 1..n : i \in DOMAIN log /\ log[i].kind = kind}
LastOf(kind, n) == LastIn(Positions(kind, n))
NotesOn(brief, n) == LastIn({i \in Positions("note", n) : log[i].of = brief})

Now == IF log = <<>> THEN 0 ELSE log[Len(log)].at

\* A pass, a form or a request stores something, in the same second as the
\* last one or later.
Store(kind) ==
    /\ Len(log) < MaxEvents
    /\ \E of \in IF kind = "note" THEN Positions("brief", Len(log)) ELSE {0},
          at \in {Now, Now + 1} \cap 0..MaxSeconds :
             log' = Append(log, [kind |-> kind, of |-> of, at |-> at])
    /\ UNCHANGED <<pc, left, got, todo, disk, history>>

-----------------------------------------------------------------------------
(* Materialize.                                                             *)

\* The project row is read first: its title, status and design doc.
Begin(m) ==
    /\ pc[m] \notin {"read", "write"}
    /\ Goto(m, "read") /\ left' = [left EXCEPT ![m] = Queries]
    /\ got' = [got EXCEPT ![m] = [Nothing EXCEPT !["doc"] = LastOf("doc", Len(log))]]
    /\ IF InFlight = {} THEN Watch(m, Len(log)) ELSE Watch(None, 0)
    /\ UNCHANGED <<log, todo, disk>>

\* The items are those of the brief that was read.
Found(m, source) ==
    IF source = "note" THEN NotesOn(got[m]["brief"], Len(log))
    ELSE LastOf(source, Len(log))

HasRecon(g) ==
    /\ g["recon"] # 0 /\ g["brief"] # 0
    /\ log[g["recon"]].at > log[g["brief"]].at

\* Mutant: a brief without notes gets no file.
CalledForIfNoted(g) ==
    {f \in Files : /\ f = "CRITIQUE" => g["critique"] # 0
                   /\ f = "BRIEF" => g["note"] # 0
                   /\ f = "BRIEF_RECON" => HasRecon(g)}

\* The keys of the map files.
CalledFor(g) ==
    {f \in Files : /\ f = "CRITIQUE" => g["critique"] # 0
                   /\ f = "BRIEF" => g["brief"] # 0
                   /\ f = "BRIEF_RECON" => HasRecon(g)}

\* One query after the other; the error of each is dropped, and nothing found.
\* The last one is followed by the choice of the files.
Query(m, source) ==
    /\ pc[m] = "read"
    /\ source \in left[m] /\ \A other \in left[m] : Turn[source] <= Turn[other]
    /\ left' = [left EXCEPT ![m] = @ \ {source}]
    /\ \/ got' = [got EXCEPT ![m][source] = Found(m, source)] /\ UNCHANGED blind
       \/ /\ StoreMayFail /\ UNCHANGED got
          /\ blind' = IF solo = m THEN blind \cup {source} ELSE blind
    /\ IF left[m] = {source}
       THEN Goto(m, "write") /\ todo' = [todo EXCEPT ![m] = CalledFor(got'[m])]
       ELSE UNCHANGED <<pc, todo>>
    /\ UNCHANGED <<log, disk, solo, began>>

\* The index only tells whether there is a critique or a brief.
Content(f, g) ==
    [s \in Uses(f) |->
        IF f = "README" /\ s # "decision" /\ g[s] # 0 THEN 1 ELSE g[s]]

\* The rest of the files is written when this one is.
Written(m, f) ==
    IF todo[m] = {f} THEN Return(m, "done")
    ELSE todo' = [todo EXCEPT ![m] = @ \ {f}] /\ UNCHANGED <<pc, left, got>>

\* Mutant: the loop ends with its first file.
WriteOneFile(m, f) ==
    /\ pc[m] = "write" /\ f \in todo[m]
    /\ disk' = [disk EXCEPT ![f] = Content(f, got[m])]
    /\ Return(m, "done")
    /\ UNCHANGED <<log, history>>

\* os.WriteFile truncates and then writes, from the start of the file: over
\* the text of somebody who truncated it at the same time, the longer of the
\* two may stand out behind the other.
WriteFile(m, f) ==
    /\ pc[m] = "write" /\ f \in todo[m]
    /\ \/ disk' = [disk EXCEPT ![f] = Content(f, got[m])]
       \/ solo # m /\ disk' = [disk EXCEPT ![f] = Torn]
    /\ Written(m, f)
    /\ UNCHANGED <<log, history>>

\* An error or a crash, between two files or in the middle of one.
Abort(m) ==
    /\ m \in InFlight /\ Return(m, "idle")
    /\ \/ UNCHANGED disk
       \/ \E f \in todo[m] : disk' = [disk EXCEPT ![f] = Torn]
    /\ IF solo = m THEN Watch(None, 0) ELSE UNCHANGED history
    /\ UNCHANGED log

Next ==
    \/ \E kind \in Kinds : Store(kind)
    \/ \E m \in Makers :
          \/ Begin(m) \/ Abort(m)
          \/ \E source \in Queries : Query(m, source)
          \/ \E f \in Files : WriteFile(m, f)

Spec == Init /\ [][Next]_vars

-----------------------------------------------------------------------------
(* What must hold.                                                          *)

Whole(f) == disk[f] \notin {Absent, Torn}

\* A maker that had the directory to itself and has written everything.
Complete(m) == solo = m /\ pc[m] = "done"

\* Whatever was stored while it read, and whichever of its queries failed, the
\* index it leaves agrees with the files: what it links is there and whole, and
\* it counts the decisions DECISIONS.md lists.
Indexed ==
    /\ \A f \in Always : Whole(f)
    /\ disk["README"]["critique"] # 0 => Whole("CRITIQUE")
    /\ disk["README"]["brief"] # 0 => Whole("BRIEF")
    /\ "DECISIONS" \in Files =>
          disk["README"]["decision"] = disk["DECISIONS"]["decision"]
IndexAgrees == \A m \in Makers : Complete(m) => Indexed

\* What stood in the database when a maker that had the directory to itself
\* began is on disk, or something that has replaced it since, as far as the
\* queries for it were not refused: a file its maker was to write is no older
\* than the start, and notes belong to their brief (workspace.go:35).  Nothing
\* is said of a file that is not written this time: the one of a section that
\* was refused, and BRIEF_RECON.md while the reconciliation is no newer than the
\* brief on disk.  They stay as an earlier maker left them (workspace.go:57),
\* though the directory is to be a snapshot (workspace.go:20).
CritiqueSince(n) ==
    LastOf("critique", n) # 0 =>
        Whole("CRITIQUE") /\ disk["CRITIQUE"]["critique"] >= LastOf("critique", n)
BriefSince(n) ==
    LastOf("brief", n) # 0 =>
        /\ Whole("BRIEF") /\ disk["BRIEF"]["brief"] >= LastOf("brief", n)
        /\ disk["BRIEF"]["note"] # 0 =>
              log[disk["BRIEF"]["note"]].of = disk["BRIEF"]["brief"]
NotesSince(n) ==
    LastOf("brief", n) # 0 =>
        disk["BRIEF"]["note"] >= NotesOn(disk["BRIEF"]["brief"], n)
ReconSince(n) ==
    LET recon == LastOf("recon", n)
    IN /\ LastOf("brief", n) # 0 /\ recon # 0
       /\ log[recon].at > log[disk["BRIEF"]["brief"]].at
       => Whole("BRIEF_RECON") /\ disk["BRIEF_RECON"]["recon"] >= recon
Since(n, asked) ==
    /\ \A f \in Always \ {"README"} :
          \A s \in Uses(f) \cap asked : disk[f][s] >= LastOf(s, n)
    /\ "critique" \in asked => CritiqueSince(n)
    /\ "brief" \in asked => BriefSince(n)
    /\ {"brief", "note"} \subseteq asked => NotesSince(n)
    /\ {"brief", "recon"} \subseteq asked => ReconSince(n)
NotOlderThanStart ==
    \A m \in Makers : Complete(m) => Since(began, Sources \ blind)
=============================================================================
