---------------------------- MODULE RunLifecycle ----------------------------
(***************************************************************************)
(* Every LLM call of the workshop is bracketed by a row of the table runs:  *)
(* StartRun inserts it as 'running', FinishRun overwrites its status, and   *)
(* a start of the server reaps whatever is still 'running'.  This module    *)
(* models the jobs that own those rows, as processes that interleave with   *)
(* each other, with clients that disconnect, and with the server that       *)
(* boots, drains, stops or crashes under them:                              *)
(*                                                                          *)
(*   Streams     streamSSE and its callers        (an HTTP request)         *)
(*   Teams       streamTeamDraft, three passes    (an HTTP request)         *)
(*   Prototypes  streamPrototype                  (an HTTP request)         *)
(*   Manuals     "run now" of an agent            (a Background goroutine)  *)
(*   Crons       a scheduled agent                (a cron goroutine)        *)
(*   Clis        pat agents run                   (a process of its own)    *)
(*                                                                          *)
(* A job is one execution: it starts, runs and ends once.                   *)
(***************************************************************************)
EXTENDS Naturals, FiniteSets

CONSTANTS Streams, Teams, Prototypes, Manuals, Crons, Clis,
          MaxBoots,      \* bound: how often a server process is started
          StoreMayFail,  \* may the store refuse a write (busy, locked, I/O)?
          RivalStarts    \* may a second server be started beside the first?

Streaming == Streams \cup Teams
Http == Streaming \cup Prototypes
Reporters == Manuals \cup Crons \cup Clis
Served == Http \cup Manuals \cup Crons
Jobs == Served \cup Clis

ASSUME KindsDisjoint ==
    /\ Streams \cap (Teams \cup Prototypes \cup Reporters) = {}
    /\ Teams \cap (Prototypes \cup Reporters) = {}
    /\ Prototypes \cap Reporters = {}
    /\ Manuals \cap (Crons \cup Clis) = {}
    /\ Crons \cap Clis = {}
ASSUME BoundsType ==
    MaxBoots \in Nat /\ StoreMayFail \in BOOLEAN /\ RivalStarts \in BOOLEAN

VARIABLES
    server,   \* phase of the server process
    expired,  \* has the 10 s grace period of this shutdown run out?
    boots,    \* server processes started so far
    pc,       \* where each job is
    pass,     \* the pass a team draft is in: planner, critic, drafter
    partial,  \* has the current LLM call streamed any content?
    gone,     \* has the client of the request disconnected?
    outcome,  \* what the current LLM call returned
    row,      \* status of the job's row of runs
    saved,    \* what the job has persisted besides that row
    lost      \* history: jobs one of whose writes the store refused

vars == <<server, expired, boots, pc, pass, partial, gone, outcome, row,
          saved, lost>>
job == <<pass, partial, gone, outcome>>
proc == <<server, expired, boots>>

Terminal == {"ok", "failed", "cancelled"}
Working == {"accepted", "spawned", "llm", "answered", "drafted", "recorded"}
Down == {"stopped", "crashed"}
Things == {"plan", "critique", "doc", "result", "files", "inbox"}

TypeOK ==
    /\ server \in {"booting", "up", "draining", "waiting", "stopping"} \cup Down
    /\ expired \in BOOLEAN
    /\ boots \in 0..MaxBoots
    /\ pc \in [Jobs -> {"idle", "done", "dead"} \cup Working]
    /\ pass \in [Jobs -> 1..3]
    /\ partial \in [Jobs -> BOOLEAN]
    /\ gone \in [Jobs -> BOOLEAN]
    /\ outcome \in [Jobs -> {"none", "ok", "error", "canceled"}]
    /\ row \in [Jobs -> {"none", "running"} \cup Terminal]
    /\ saved \in [Jobs -> SUBSET Things]
    /\ lost \in SUBSET Jobs

InFlight(j) == pc[j] \in Working

Init ==
    /\ server = "stopped" /\ expired = FALSE /\ boots = 0
    /\ pc = [j \in Jobs |-> "idle"]
    /\ pass = [j \in Jobs |-> 1]
    /\ partial = [j \in Jobs |-> FALSE]
    /\ gone = [j \in Jobs |-> FALSE]
    /\ outcome = [j \in Jobs |-> "none"]
    /\ row = [j \in Jobs |-> "none"]
    /\ saved = [j \in Jobs |-> {}]
    /\ lost = {}

Goto(j, label) == pc' = [pc EXCEPT ![j] = label]

-----------------------------------------------------------------------------
(* Starting a job.                                                          *)

\* A request is accepted while the listener is open.
Request(j) ==
    /\ j \in Http \cup Manuals /\ server = "up" /\ pc[j] = "idle"
    /\ Goto(j, "accepted")
    /\ UNCHANGED <<proc, job, row, saved, lost>>

\* The cron goroutine starts due entries until sc.Stop() stops it, so also
\* during the drain.
Fire(j) ==
    /\ j \in Crons /\ server \in {"up", "draining", "waiting"} /\ pc[j] = "idle"
    /\ Goto(j, "accepted")
    /\ UNCHANGED <<proc, job, row, saved, lost>>

\* pat agents run: whatever the server is doing.
Invoke(j) ==
    /\ j \in Clis /\ pc[j] = "idle"
    /\ Goto(j, "accepted")
    /\ UNCHANGED <<proc, job, row, saved, lost>>

\* The handler of "run now" counts a goroutine in and answers 202.
Background(j) ==
    /\ j \in Manuals /\ pc[j] = "accepted"
    /\ Goto(j, "spawned")
    /\ UNCHANGED <<proc, job, row, saved, lost>>

\* A write the store refuses is logged or dropped: nothing retries it.
Refused(j) == StoreMayFail /\ lost' = lost \cup {j}

OpenRow(j) == row' = [row EXCEPT ![j] = "running"]

\* Streaming endpoints answer 500 when the row cannot be inserted; the other
\* jobs drop the error and go on with run id 0.
StartRun(j) ==
    /\ pc[j] = IF j \in Manuals THEN "spawned" ELSE "accepted"
    /\ \/ /\ OpenRow(j)
          /\ Goto(j, "llm")
          /\ UNCHANGED lost
       \/ /\ Refused(j)
          /\ Goto(j, IF j \in Streaming THEN "done" ELSE "llm")
          /\ UNCHANGED row
    /\ UNCHANGED <<proc, job, saved>>

-----------------------------------------------------------------------------
(* The LLM call.                                                            *)

RootCancelled == server \in {"draining", "waiting", "stopping"}

\* The call's context: the request's for streams, RootCtx for the jobs that
\* outlive their request, context.Background() for the command line.
Cancelled(j) ==
    \/ j \in Streaming /\ gone[j]
    \/ j \in Served \ Streaming /\ RootCancelled

Token(j) ==
    /\ j \in Streaming /\ pc[j] = "llm" /\ ~partial[j]
    /\ partial' = [partial EXCEPT ![j] = TRUE]
    /\ UNCHANGED <<proc, pc, pass, gone, outcome, row, saved, lost>>

Disconnect(j) ==
    /\ j \in Streaming /\ InFlight(j) /\ ~gone[j]
    /\ gone' = [gone EXCEPT ![j] = TRUE]
    /\ UNCHANGED <<proc, pc, pass, partial, outcome, row, saved, lost>>

\* The call returns: with a text, with the provider's error or the timeout of
\* the call ("error"), or because its context was cancelled.
Answer(j) ==
    /\ pc[j] = "llm"
    /\ \E r \in {"ok", "error"} \cup (IF Cancelled(j) THEN {"canceled"} ELSE {}) :
            outcome' = [outcome EXCEPT ![j] = r]
    /\ Goto(j, "answered")
    /\ UNCHANGED <<proc, pass, partial, gone, row, saved, lost>>

-----------------------------------------------------------------------------
(* Recording what came of it.                                               *)

\* FinishRun: an UPDATE by id with no condition on the present status; it
\* matches nothing when the insert had failed.
FinishRun(j, status) ==
    \/ /\ row' = [row EXCEPT ![j] = IF row[j] = "none" THEN "none" ELSE status]
       /\ UNCHANGED lost
    \/ Refused(j) /\ UNCHANGED row

\* Mutant: an empty partial counts as content.
VerdictWithoutContent(j) ==
    IF j \in Streaming /\ gone[j] THEN "cancelled" ELSE "failed"

\* Only streamed content whose client is gone is recorded as cancelled; for a
\* team draft that is the content of the pass it was in.
TeamVerdict(j) == IF gone[j] /\ partial[j] THEN "cancelled" ELSE "failed"
Verdict(j) ==
    CASE j \in Streams ->
            IF (gone[j] \/ outcome[j] = "canceled") /\ partial[j]
            THEN "cancelled" ELSE "failed"
      [] j \in Teams -> TeamVerdict(j)
      [] OTHER -> "failed"

\* Mutants: the error path forgets to return, or forgets to finish the run.
FinishErrorFallsThrough(j) ==
    /\ pc[j] = "answered" /\ outcome[j] # "ok"
    /\ FinishRun(j, Verdict(j))
    /\ Goto(j, IF j \in Reporters THEN "recorded" ELSE "done")
    /\ UNCHANGED <<proc, job, saved>>
FinishErrorForgotten(j) ==
    /\ pc[j] = "answered" /\ outcome[j] # "ok"
    /\ Goto(j, "done")
    /\ UNCHANGED <<proc, job, row, saved, lost>>

FinishError(j) ==
    /\ pc[j] = "answered" /\ outcome[j] # "ok"
    /\ FinishRun(j, Verdict(j))
    /\ Goto(j, "done")
    /\ UNCHANGED <<proc, job, saved>>

\* streamSSE and the agents record success first and deliver afterwards.
FinishOk(j) ==
    /\ pc[j] = "answered" /\ outcome[j] = "ok" /\ j \notin Teams
    /\ FinishRun(j, "ok")
    /\ Goto(j, "recorded")
    /\ UNCHANGED <<proc, job, saved>>

Save(j, thing) == saved' = [saved EXCEPT ![j] = @ \cup {thing}]

\* The onSuccess callback of a stream: an artifact or the design doc; nothing
\* when the output does not parse.
OnSuccess(j) ==
    /\ pc[j] = "recorded" /\ j \in Streams
    /\ \/ Save(j, "result") /\ UNCHANGED lost
       \/ UNCHANGED <<saved, lost>>
       \/ Refused(j) /\ UNCHANGED saved
    /\ Goto(j, "done")
    /\ UNCHANGED <<proc, job, row>>

\* The manifest is parsed and its files written; it may yield none.
WriteFiles(j) ==
    /\ pc[j] = "recorded" /\ j \in Prototypes
    /\ Save(j, "files") \/ UNCHANGED saved
    /\ Goto(j, "done")
    /\ UNCHANGED <<proc, job, row, lost>>

\* CreateInboxItem: the foreign key refuses an item of run 0.
CreateInboxItem(j) ==
    /\ pc[j] = "recorded" /\ j \in Reporters
    /\ \/ row[j] # "none" /\ Save(j, "inbox") /\ UNCHANGED lost
       \/ row[j] = "none" /\ UNCHANGED <<saved, lost>>
       \/ Refused(j) /\ UNCHANGED saved
    /\ Goto(j, "done")
    /\ UNCHANGED <<proc, job, row>>

\* A team draft keeps the planner's and the critic's text as artifacts and
\* goes on to its next pass, with an empty partial.
NextPass(j) ==
    /\ pc[j] = "answered" /\ outcome[j] = "ok" /\ j \in Teams /\ pass[j] < 3
    /\ \/ Save(j, IF pass[j] = 1 THEN "plan" ELSE "critique") /\ UNCHANGED lost
       \/ Refused(j) /\ UNCHANGED saved
    /\ pass' = [pass EXCEPT ![j] = @ + 1]
    /\ partial' = [partial EXCEPT ![j] = FALSE]
    /\ outcome' = [outcome EXCEPT ![j] = "none"]
    /\ Goto(j, "llm")
    /\ UNCHANGED <<proc, gone, row>>

\* The drafter's text overwrites the design doc before the run is recorded.
UpdateProjectDoc(j) ==
    /\ pc[j] = "answered" /\ outcome[j] = "ok" /\ j \in Teams /\ pass[j] = 3
    /\ \/ Save(j, "doc") /\ UNCHANGED lost
       \/ Refused(j) /\ UNCHANGED saved
    /\ Goto(j, "drafted")
    /\ UNCHANGED <<proc, job, row>>

FinishTeam(j) ==
    /\ pc[j] = "drafted"
    /\ FinishRun(j, "ok")
    /\ Goto(j, "done")
    /\ UNCHANGED <<proc, job, saved>>

-----------------------------------------------------------------------------
(* The server process.                                                      *)

Boot ==
    /\ server \in Down /\ boots < MaxBoots
    /\ server' = "booting" /\ boots' = boots + 1 /\ expired' = FALSE
    /\ UNCHANGED <<pc, job, row, saved, lost>>

\* UPDATE runs SET status='failed' WHERE status='running'.
ReapOrphanedRuns ==
    row' = [j \in Jobs |-> IF row[j] = "running" THEN "failed" ELSE row[j]]

\* Mutant: the start does not reap.
StartWithoutReap ==
    /\ server = "booting" /\ server' = "up"
    /\ UNCHANGED <<expired, boots, pc, job, row, saved, lost>>

\* A refused reap is logged and the start goes on.
Start ==
    /\ server = "booting" /\ server' = "up"
    /\ \/ ReapOrphanedRuns /\ UNCHANGED lost
       \/ /\ StoreMayFail
          /\ lost' = lost \cup {j \in Jobs : row[j] = "running"}
          /\ UNCHANGED row
    /\ UNCHANGED <<expired, boots, pc, job, saved>>

\* A second server reaps before it finds the port taken and exits.
RivalStart ==
    /\ RivalStarts /\ server = "up" /\ boots < MaxBoots
    /\ boots' = boots + 1
    /\ ReapOrphanedRuns
    /\ UNCHANGED <<server, expired, pc, job, saved, lost>>

\* SIGTERM: RootCtx is cancelled and srv.Shutdown closes the listener.
Signal ==
    /\ server = "up" /\ server' = "draining"
    /\ UNCHANGED <<expired, boots, pc, job, row, saved, lost>>

\* Shutdown and Wait share one context of 10 s.
GraceExpires ==
    /\ server \in {"draining", "waiting"} /\ ~expired /\ expired' = TRUE
    /\ UNCHANGED <<server, boots, pc, job, row, saved, lost>>

Requests == {j \in Http : InFlight(j)} \cup {j \in Manuals : pc[j] = "accepted"}
Goroutines == {j \in Manuals : InFlight(j)}
Fired == {j \in Crons : InFlight(j)}

\* Mutant: srv.Shutdown(context.Background()).
ShutdownForEver ==
    /\ server = "draining" /\ Requests = {}
    /\ server' = "waiting"
    /\ UNCHANGED <<expired, boots, pc, job, row, saved, lost>>

ShutdownReturns ==
    /\ server = "draining" /\ (Requests = {} \/ expired)
    /\ server' = "waiting"
    /\ UNCHANGED <<expired, boots, pc, job, row, saved, lost>>

WaitReturns ==
    /\ server = "waiting" /\ (Goroutines = {} \/ expired)
    /\ server' = "stopping"
    /\ UNCHANGED <<expired, boots, pc, job, row, saved, lost>>

\* The process ends, and with it every job it was serving.
Exit(phase) ==
    /\ server' = phase
    /\ pc' = [j \in Jobs |->
                 IF j \in Served /\ InFlight(j) THEN "dead" ELSE pc[j]]
    /\ UNCHANGED <<expired, boots, job, row, saved, lost>>

\* Mutant: the scheduler is stopped without waiting for its jobs.
StopAtOnce == server = "stopping" /\ Exit("stopped")

\* sc.Stop() waits for running cron jobs, with no deadline; then the database
\* is closed and main returns.
Stop == server = "stopping" /\ Fired = {} /\ Exit("stopped")

Crash == server \notin Down /\ Exit("crashed")

KillCli(j) ==
    /\ j \in Clis /\ InFlight(j)
    /\ Goto(j, "dead")
    /\ UNCHANGED <<proc, job, row, saved, lost>>

-----------------------------------------------------------------------------
Begin(j) == Request(j) \/ Fire(j) \/ Invoke(j)
Step(j) ==
    \/ Background(j) \/ StartRun(j) \/ Answer(j)
    \/ FinishError(j) \/ FinishOk(j) \/ OnSuccess(j) \/ WriteFiles(j)
    \/ CreateInboxItem(j) \/ NextPass(j) \/ UpdateProjectDoc(j) \/ FinishTeam(j)
Environment(j) == Token(j) \/ Disconnect(j) \/ KillCli(j)
Winddown == Start \/ GraceExpires \/ ShutdownReturns \/ WaitReturns \/ Stop

Next ==
    \/ \E j \in Jobs : Begin(j) \/ Step(j) \/ Environment(j)
    \/ Winddown \/ Boot \/ RivalStart \/ Signal \/ Crash

Spec == Init /\ [][Next]_vars

\* A goroutine that can run does.  An LLM call may hang, unless its context
\* has been cancelled: the deadline of that context is minutes away, and so
\* fairness of its own.  Nobody has to send a request, a signal or a
\* disconnect, and nobody has to start the server again.
PromptStep(j) == Step(j) /\ (pc[j] = "llm" => Cancelled(j))
PromptSpec == Spec /\ WF_vars(Winddown) /\ \A j \in Jobs : WF_vars(PromptStep(j))
Deadlines == \A j \in Jobs : WF_vars(Answer(j))

-----------------------------------------------------------------------------
(* What must hold.                                                          *)

\* Once a server has booted, every 'running' row of a served job has a live
\* owner: a crash or an exit between StartRun and FinishRun never leaves a
\* phantom row behind the next start (README.md:41).
NoPhantomRow ==
    server \notin Down \cup {"booting"} =>
        \A j \in Served \ lost : row[j] = "running" => InFlight(j)

\* The row and the rest of the database agree in the direction each job
\* promises, at every step and after every crash: a stream's result, a
\* prototype's files and an agent's report exist only for a row that says ok,
\* while a team row says ok only when plan, critique and doc are all stored.
TakenWritesAgree ==
    \A j \in Jobs \ lost :
        IF j \in Teams
        THEN row[j] = "ok" => {"plan", "critique", "doc"} \subseteq saved[j]
        ELSE saved[j] # {} => row[j] = "ok"

\* That is of a job whose own writes the store took.  A refused write is
\* logged or dropped, and then a result may stand under a row that still says
\* running, or that a later start called failed, and an ok row without its
\* result (handlers.go:1140, scheduler.go:154).  What holds even so: a job
\* whose row was never opened stores nothing but a prototype's files
\* (scheduler.go:147), and a stream recorded as cancelled stores no result.
RefusedWritesLeave ==
    \A j \in lost :
        /\ row[j] = "none" => saved[j] \subseteq {"files"}
        /\ row[j] = "cancelled" /\ j \in Streams => saved[j] = {}

\* Row and results agree, of every job as far as its writes were taken.
ResultAgreesWithRow == TakenWritesAgree /\ RefusedWritesLeave

\* A row says cancelled only for a client that left after content reached it,
\* so its output is never empty (handlers.go:1129).
CancelledKeepsPartial ==
    \A j \in Jobs : row[j] = "cancelled" =>
        j \in Streaming /\ gone[j] /\ partial[j]

\* A stop within the grace period leaves no row 'running', and even one that
\* overran it leaves none of a cron job, which sc.Stop() drains before the
\* database is closed (server.go:112).
StopLeavesNoRunning ==
    server = "stopped" =>
        \A j \in Served \ lost :
            row[j] = "running" => expired /\ j \notin Crons

\* The status a run ended with is never overwritten, by a late FinishRun or by
\* a later start of the server.
TerminalIsFinal ==
    [][\A j \in Jobs : row[j] \in Terminal => row'[j] = row[j]]_vars

\* SIGTERM ends the process although sc.Stop() has no deadline of its own and
\* a stream may hang for longer than the grace period.
ShutdownEnds == server = "draining" ~> server \in Down

\* If LLM calls meet their deadlines, a run does not stay 'running' for ever:
\* it ends, or its process does, or the store refused its last write.
RunsEnd ==
    Deadlines =>
        \A j \in Jobs : row[j] = "running" ~>
            (row[j] # "running" \/ pc[j] = "dead" \/ j \in lost)

\* The history pages see the record of RunRecord, as long as nobody runs
\* agents beside the server and the store takes every write.
Record == INSTANCE RunRecord
    WITH Runs <- Jobs, status <- row,
         reported <- {j \in Jobs : "inbox" \in saved[j]}
ImplementsRecord == Record!Spec
=============================================================================
