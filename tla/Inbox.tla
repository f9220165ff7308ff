-------------------------------- MODULE Inbox --------------------------------
(***************************************************************************)
(* The inbox: runs of agents that file reports, side by side and with       *)
(* writes that may be refused; the page of a report, which compares it with *)
(* the run before; and the floor, whose tiles lead to the unread reports.   *)
(***************************************************************************)
EXTENDS Naturals, Sequences, FiniteSets, FiniteSetsExt

CONSTANTS Agents, Projects,
          ProjectOf,    \* the project of an agent, NoProject if it has none
          NoProject,
          Viewers,      \* open pages
          MaxRuns       \* bounds the rows of runs

ASSUME AgentsType == ProjectOf \in [Agents -> Projects \cup {NoProject}] /\ NoProject \notin Projects
ASSUME MaxRunsType == MaxRuns \in Nat

VARIABLES
    runs,       \* the rows, a row's id its place, each with where its job stands: asking
                \* the model, filing the report or gone; and whether another run of the
                \* agent went on beside it
    items,      \* the rows of inbox_items
    views,      \* what each viewer has before it
    tiles,      \* the floor as loaded: how many reports each tile says are unread
    since       \* beside: how many of a project were marked read since the floor was loaded,
                \* up to what its tile says

inboxVars == <<runs, items, views, tiles, since>>

NoRun == 0
NoView == [item |-> 0, stage |-> "closed", prev |-> NoRun, raced |-> FALSE]

InboxInit ==
    /\ runs = <<>> /\ items = <<>>
    /\ views = [v \in Viewers |-> NoView]
    /\ tiles = [p \in Projects |-> 0] /\ since = [p \in Projects |-> 0]

-----------------------------------------------------------------------------
(* The runs of agents: scheduled, or asked for in the browser or on the     *)
(* command line; the code keeps none from starting while another goes on.   *)

InFlight(a) == {r \in DOMAIN runs : runs[r].agent = a /\ runs[r].job # "gone"}

StartRun(a) ==
    /\ Len(runs) < MaxRuns
    /\ runs' = Append([r \in DOMAIN runs |-> [runs[r] EXCEPT !.beside = @ \/ r \in InFlight(a)]],
                      [agent |-> a, status |-> "running", job |-> "asking", beside |-> InFlight(a) # {}])
    /\ UNCHANGED <<items, views, tiles, since>>

\* The report is filed whether or not the row could be written.
FinishRun(r) ==
    /\ runs[r].job = "asking"
    /\ \/ runs' = [runs EXCEPT ![r].job = "filing", ![r].status = "ok"]
       \/ runs' = [runs EXCEPT ![r].job = "filing"]
       \/ runs' = [runs EXCEPT ![r].job = "gone", ![r].status = "failed"]
    /\ UNCHANGED <<items, views, tiles, since>>

CreateInboxItem(r) ==
    /\ runs[r].job = "filing"
    /\ runs' = [runs EXCEPT ![r].job = "gone"]
    /\ items' = Append(items, [run |-> r, read |-> FALSE])
    /\ UNCHANGED <<views, tiles, since>>

\* The process dies, or the insert is refused.
Lose(r) ==
    /\ runs[r].job # "gone"
    /\ runs' = [runs EXCEPT ![r].job = "gone"]
    /\ UNCHANGED <<items, views, tiles, since>>

\* The next process marks the rows nobody ends.
Reap ==
    /\ \E r \in DOMAIN runs : runs[r].status = "running"
    /\ \A r \in DOMAIN runs : runs[r].job = "gone"
    /\ runs' = [r \in DOMAIN runs |-> [runs[r] EXCEPT !.status = IF @ = "running" THEN "failed" ELSE @]]
    /\ UNCHANGED <<items, views, tiles, since>>

-----------------------------------------------------------------------------
(* The page of a report: the item, the run before, the mark, one after the  *)
(* other; each but the first may be refused without anybody being told.     *)

Largest(S) == IF S = {} THEN NoRun ELSE Max(S)

\* Mutant: any other run that ended well.
PreviousOfAll(a, run) ==
    Largest({r \in DOMAIN runs : runs[r].agent = a /\ r # run /\ runs[r].status = "ok"})

\* Mutant: however the run before ended.
PreviousOfAny(a, run) == Largest({r \in DOMAIN runs : runs[r].agent = a /\ r < run})

PreviousRun(a, run) ==
    Largest({r \in DOMAIN runs : runs[r].agent = a /\ r < run /\ runs[r].status = "ok"})

GetInboxItem(v, i) ==
    /\ views[v].stage = "closed"
    /\ views' = [views EXCEPT ![v] = [NoView EXCEPT !.item = i, !.stage = "read"]]
    /\ UNCHANGED <<runs, items, tiles, since>>

PreviousRunOutput(v) ==
    /\ views[v].stage = "read"
    /\ LET run == items[views[v].item].run
           a == runs[run].agent
       IN  \/ views' = [views EXCEPT ![v] =
                  [@ EXCEPT !.stage = "compared", !.prev = PreviousRun(a, run),
                            !.raced = \E r \in InFlight(a) : r < run]]
           \/ views' = [views EXCEPT ![v] = [@ EXCEPT !.stage = "compared", !.raced = TRUE]]
    /\ UNCHANGED <<runs, items, tiles, since>>

\* /inbox?filter=unread, where the tile of a project with unread reports leads
\* (pickAction: before all else the project may need).
Unread == {i \in DOMAIN items : ~items[i].read}
OfProject(p, S) == {i \in S : ProjectOf[runs[items[i].run].agent] = p}

Mark(i) ==
    /\ items' = [items EXCEPT ![i].read = TRUE]
    /\ since' = [p \in Projects |-> IF since[p] = tiles[p] THEN tiles[p]
                                          ELSE since[p] + Cardinality(OfProject(p, {i} \cap Unread))]

MarkInboxRead(v) ==
    /\ views[v].stage = "compared"
    /\ views' = [views EXCEPT ![v].stage = "shown"]
    /\ Mark(views[v].item) \/ UNCHANGED <<items, since>>
    /\ UNCHANGED <<runs, tiles>>

Close(v) ==
    /\ views[v].stage = "shown"
    /\ views' = [views EXCEPT ![v] = NoView]
    /\ UNCHANGED <<runs, items, tiles, since>>

\* POST /inbox/{id}/read
PostRead(i) == ~items[i].read /\ Mark(i) /\ UNCHANGED <<runs, views, tiles>>

-----------------------------------------------------------------------------
(* The floor, and the list a tile with unread reports leads to.             *)

\* Mutant: what has been read counts.
UnreadForProjectEver(p) == Cardinality(OfProject(p, DOMAIN items))

UnreadInboxCountForProject(p) == Cardinality(OfProject(p, Unread))

\* A count that is refused is left at zero.
BuildFloorTiles ==
    /\ tiles' \in {[p \in Projects |-> IF p \in refused THEN 0 ELSE UnreadInboxCountForProject(p)] :
                       refused \in SUBSET Projects}
    /\ since' = [p \in Projects |-> 0]
    /\ UNCHANGED <<runs, items, views>>

-----------------------------------------------------------------------------

InboxNext ==
    \/ \E a \in Agents : StartRun(a)
    \/ \E r \in DOMAIN runs : FinishRun(r) \/ CreateInboxItem(r) \/ Lose(r)
    \/ Reap
    \/ \E v \in Viewers : \/ \E i \in DOMAIN items : GetInboxItem(v, i)
                          \/ PreviousRunOutput(v) \/ MarkInboxRead(v) \/ Close(v)
    \/ \E i \in DOMAIN items : PostRead(i)
    \/ BuildFloorTiles

InboxSpec == InboxInit /\ [][InboxNext]_inboxVars

-----------------------------------------------------------------------------

\* What a report was compared with stays what it would be compared with: a page
\* that is opened again, or was opened before the mark was lost, shows the same
\* changes, however many runs end meanwhile, unless an earlier run of the agent
\* was still going on or the query was refused (store.go:845, handlers.go:1823).
ComparisonIsStable ==
    \A v \in Viewers : views[v].stage \in {"compared", "shown"} /\ ~views[v].raced =>
        LET run == items[views[v].item].run
        IN  views[v].prev = PreviousRun(runs[run].agent, run)

ItemsOf(a) == {i \in DOMAIN items : runs[items[i].run].agent = a}

\* A report is compared with the one the inbox lists below it for the agent, though
\* the one order is that of the filing and the other that of the starts, as long as
\* no two of the agent's runs went side by side and each that ended well was filed
\* and each that was filed ended well (scheduler.go:147-157, store.go:509, 847).
ComparesWithReportBelow ==
    \A a \in Agents :
        LET ended == {r \in DOMAIN runs : runs[r].agent = a /\ runs[r].job = "gone"}
            filed == {items[i].run : i \in ItemsOf(a)}
        IN  /\ \A r \in ended : ~runs[r].beside /\ (runs[r].status = "ok" <=> r \in filed)
            => \A i \in ItemsOf(a) :
                   PreviousRun(a, items[i].run) =
                       LET below == {j \in ItemsOf(a) : j < i} IN IF below = {} THEN NoRun ELSE items[Max(below)].run

\* Whenever the list a tile leads to is opened, it has as many reports of the
\* project as the tile said are unread, but for those marked read since the floor
\* was loaded (handlers.go:1719).
TilesLeadToReports ==
    \A p \in Projects : tiles[p] <= Cardinality(OfProject(p, Unread)) + since[p]
=============================================================================
