------------------------------ MODULE Scheduler ------------------------------
(***************************************************************************)
(* The scheduler keeps the cron entries of the enabled agents in step with  *)
(* the table agents.  Handlers that create an agent ping it through a       *)
(* channel of capacity one; a ticker is the backstop for changes nobody     *)
(* pings about, such as an edit of the database by another program.  A sync *)
(* reads the table first and applies what it read later, so the table may   *)
(* have moved on in between.                                                *)
(***************************************************************************)
EXTENDS Naturals, FiniteSets

CONSTANTS Agents,        \* ids of rows of the table agents
          Valid,         \* cron expressions robfig/cron accepts
          Invalid,       \* those it refuses
          Prompts,       \* the rest of a row: prompt, model, project
          Blank,         \* an empty cron column
          None,          \* no row, no entry
          MaxEdits,      \* bound: changes made behind the server's back
          ListMayFail    \* may ListAgents return an error?

Row == [cron : Valid \cup Invalid \cup {Blank}, enabled : BOOLEAN, prompt : Prompts]

ASSUME ExpressionsDisjoint == Valid \cap (Invalid \cup {Blank}) = {}
ASSUME NoneIsNothing ==
    /\ None \notin Row
    /\ None \notin [cron : Valid, born : Nat]
ASSUME EditsType == MaxEdits \in Nat /\ ListMayFail \in BOOLEAN

VARIABLES
    table,     \* the rows of agents
    owed,      \* rows whose handler has inserted them and not pinged yet
    notify,    \* is a ping in the channel?
    loop,      \* where Start, then reloadLoop, is
    snapshot,  \* what ListAgents last returned
    ids,       \* sc.ids: the entry and the expression of each agent
    entries,   \* the entries of the cron runner, each with its captured agent
    born,      \* syncs that added entries: makes entry ids unique
    done,      \* has Stop closed the channel done?
    edits,     \* changes made behind the server's back
    missed     \* history: rows only the ticker can bring to the scheduler

schedulerVars == <<table, owed, notify, loop, snapshot, ids, entries, born, done, edits, missed>>
schedule == <<ids, entries, born>>

SchedulerType ==
    /\ table \in [Agents -> Row \cup {None}]
    /\ owed \in SUBSET Agents
    /\ notify \in BOOLEAN
    /\ loop \in {"boot", "bootapply", "wait", "read", "apply", "exited", "failed"}
    /\ snapshot \in [Agents -> Row \cup {None}]
    /\ ids \in [Agents -> [cron : Valid, born : Nat] \cup {None}]
    /\ entries \in SUBSET [agent : Agents, cron : Valid, prompt : Prompts, born : Nat]
    /\ born \in Nat
    /\ done \in BOOLEAN
    /\ edits \in 0..MaxEdits
    /\ missed \in SUBSET Agents

\* The want-set: enabled, and the cron column is not blank.
Wanted(row) == row # None /\ row.enabled /\ row.cron # Blank

\* What the cron runner can be made to hold for a row.
Entry(row) == IF Wanted(row) /\ row.cron \in Valid THEN row.cron ELSE None

\* What sc.ids holds for an agent.
Scheduled(a) == IF ids[a] = None THEN None ELSE ids[a].cron

SchedulerInit ==
    /\ table \in [Agents -> Row \cup {None}]
    /\ owed = {} /\ notify = FALSE /\ loop = "boot"
    /\ snapshot = [a \in Agents |-> None]
    /\ ids = [a \in Agents |-> None] /\ entries = {} /\ born = 0
    /\ done = FALSE /\ edits = 0 /\ missed = {}

-----------------------------------------------------------------------------
(* Changing the table.                                                      *)

Serving == loop \notin {"boot", "bootapply", "failed"}

\* POST /agents and a standing order: the row is committed first ...
CreateAgent(a) ==
    /\ Serving /\ table[a] = None
    /\ \E r \in Row : r.enabled /\ table' = [table EXCEPT ![a] = r]
    /\ owed' = owed \cup {a}
    /\ missed' = missed \ {a}
    /\ UNCHANGED <<notify, loop, snapshot, schedule, done, edits>>

\* Mutant: a channel without a buffer loses the ping nobody waits for.
ReloadUnbuffered(a) ==
    /\ a \in owed
    /\ owed' = owed \ {a}
    /\ notify' = (notify \/ loop = "wait")
    /\ UNCHANGED <<table, loop, snapshot, schedule, done, edits, missed>>

\* ... and then the handler pings.  A ping finding one in the channel is
\* dropped.
Reload(a) ==
    /\ a \in owed
    /\ owed' = owed \ {a}
    /\ notify' = TRUE
    /\ UNCHANGED <<table, loop, snapshot, schedule, done, edits, missed>>

\* Another program updates, inserts or deletes a row.  (The model lets the id
\* of a deleted row come back; AUTOINCREMENT does not.)
Edit(a) ==
    /\ edits < MaxEdits /\ edits' = edits + 1
    /\ \E r \in Row \cup {None} : r # table[a] /\ table' = [table EXCEPT ![a] = r]
    /\ missed' = missed \cup {a}
    /\ UNCHANGED <<owed, notify, loop, snapshot, schedule, done>>

-----------------------------------------------------------------------------
(* reloadLoop.                                                              *)

Wake ==
    /\ loop = "wait" /\ notify
    /\ notify' = FALSE /\ loop' = "read"
    /\ UNCHANGED <<table, owed, snapshot, schedule, done, edits, missed>>

\* Mutant: the ticker only drains the channel.
TickDrains ==
    /\ loop = "wait" /\ notify
    /\ loop' = "read" /\ notify' = FALSE
    /\ UNCHANGED <<table, owed, snapshot, schedule, done, edits, missed>>

Tick ==
    /\ loop = "wait" /\ loop' = "read"
    /\ UNCHANGED <<table, owed, notify, snapshot, schedule, done, edits, missed>>

LoopExits ==
    /\ loop = "wait" /\ done /\ loop' = "exited"
    /\ UNCHANGED <<table, owed, notify, snapshot, schedule, done, edits, missed>>

-----------------------------------------------------------------------------
(* syncFromDB: ListAgents before the mutex, the rest under it.              *)

ListAgents ==
    /\ loop \in {"boot", "read"}
    /\ snapshot' = table /\ missed' = {}
    /\ loop' = IF loop = "boot" THEN "bootapply" ELSE "apply"
    /\ UNCHANGED <<table, owed, notify, schedule, done, edits>>

\* At the start the error is fatal; in the loop it is logged, and what the
\* ping announced is left to the ticker.
ListAgentsFails ==
    /\ ListMayFail /\ loop \in {"boot", "read"}
    /\ loop' = IF loop = "boot" THEN "failed" ELSE "wait"
    /\ missed' = missed \cup {a \in Agents : table[a] # snapshot[a]}
    /\ UNCHANGED <<table, owed, notify, snapshot, schedule, done, edits>>

\* Mutant: an entry is kept although its expression has changed.
KeptWhateverTheCron(a) == ids[a] # None /\ Wanted(snapshot[a])

Kept(a) ==
    ids[a] # None /\ Wanted(snapshot[a]) /\ snapshot[a].cron = ids[a].cron

\* cron.Remove and the deletion from sc.ids.
Dropped == {a \in Agents : ids[a] # None /\ ~Kept(a)}

\* Mutant: the id is forgotten and its entry left to fire.
RemainingForgotten == entries

Remaining == {e \in entries : ~(e.agent \in Dropped /\ e.born = ids[e.agent].born)}

\* cron.AddFunc, unless it refuses the expression.  The closure captures the
\* agent as it was read.
Added == {a \in Agents : (ids[a] = None \/ a \in Dropped) /\ Entry(snapshot[a]) # None}

Apply ==
    /\ loop \in {"bootapply", "apply"} /\ loop' = "wait"
    /\ born' = IF Added = {} THEN born ELSE born + 1
    /\ ids' = [a \in Agents |->
                  IF a \in Added THEN [cron |-> snapshot[a].cron, born |-> born]
                  ELSE IF a \in Dropped THEN None ELSE ids[a]]
    /\ entries' = Remaining \cup
                  {[agent |-> a, cron |-> snapshot[a].cron,
                    prompt |-> snapshot[a].prompt, born |-> born] : a \in Added}
    /\ UNCHANGED <<table, owed, notify, snapshot, done, edits, missed>>

StopScheduler ==
    /\ Serving /\ ~done /\ done' = TRUE
    /\ UNCHANGED <<table, owed, notify, loop, snapshot, schedule, edits, missed>>

-----------------------------------------------------------------------------
Sync == ListAgents \/ ListAgentsFails \/ Apply
SchedulerNext ==
    \/ \E a \in Agents : CreateAgent(a) \/ Reload(a) \/ Edit(a)
    \/ Wake \/ Tick \/ LoopExits \/ Sync \/ StopScheduler

SchedulerSpec == SchedulerInit /\ [][SchedulerNext]_schedulerVars

\* Handlers finish, the loop runs, and the store does not refuse for ever.
\* The ticker, which the select may prefer to a ping, is fairness of its own.
PingSpec ==
    /\ SchedulerSpec
    /\ \A a \in Agents : WF_schedulerVars(Reload(a))
    /\ WF_schedulerVars(Wake) /\ SF_schedulerVars(ListAgents) /\ WF_schedulerVars(Apply)
Ticking == WF_schedulerVars(Tick) /\ WF_schedulerVars(LoopExits)

-----------------------------------------------------------------------------
(* What must hold.                                                          *)

\* The cron runner holds exactly the entries sc.ids knows: one for each
\* scheduled agent, none twice, and none that nobody can remove any more.
EntriesMatchIds ==
    \A a \in Agents :
        LET mine == {e \in entries : e.agent = a} IN
        IF ids[a] = None THEN mine = {}
        ELSE \E e \in mine :
                /\ mine = {e}
                /\ e.cron = ids[a].cron /\ e.born = ids[a].born

\* The incremental drop and add leave in sc.ids exactly the schedule of the
\* table as it was read: every wanted row with a valid expression, nothing else.
IdsFollow ==
    loop \in {"wait", "read", "exited"} =>
        \A a \in Agents : Scheduled(a) = Entry(snapshot[a])

\* What the runner will fire is the schedule of the table as it was read, one
\* entry for each wanted agent: sc.ids says so, and the runner's entries, which
\* are added and removed apart from it, never drift away from sc.ids.
FollowsSnapshot == EntriesMatchIds /\ IdsFollow

\* A committed row the scheduler has not read is about to be read: its handler
\* still owes the ping, the ping is in the channel, or the loop is between the
\* channel and ListAgents.
NoLostWakeup ==
    \A a \in Agents \ missed :
        table[a] # snapshot[a] =>
            a \in owed \/ notify \/ loop \in {"boot", "read", "exited", "failed"}

InSync == \A a \in Agents : Scheduled(a) = Entry(table[a])

\* With the ticker, changes nobody pinged about reach the cron runner as well,
\* and so do those whose ping was spent on a read that failed.
TickerConverges == Ticking => []<>(InSync \/ done \/ loop = "failed")
=============================================================================
