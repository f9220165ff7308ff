------------------------------ MODULE RunsProofs ------------------------------
(***************************************************************************)
(* Machine-checked proofs about RunLifecycle, for every set of jobs of each *)
(* kind, every bound on the starts, and a store that may refuse any write;  *)
(* and about Scheduler, which fires the runs of agents, for every set of    *)
(* agents, of cron expressions and of prompts, and for any number of edits. *)
(***************************************************************************)
EXTENDS RunLifecycle, Scheduler, TLAPS

LEMMA TypeStep == TypeOK /\ [Next]_vars => TypeOK'
<1>. SUFFICES ASSUME TypeOK, [Next]_vars PROVE TypeOK'
    OBVIOUS
<1>. USE BoundsType DEF TypeOK, proc, job, Working, Terminal, Down, Things, InFlight
<1>1. ASSUME NEW k \in Jobs, Request(k) PROVE TypeOK'
    BY <1>1 DEF Request, Goto
<1>2. ASSUME NEW k \in Jobs, Fire(k) PROVE TypeOK'
    BY <1>2 DEF Fire, Goto
<1>3. ASSUME NEW k \in Jobs, Invoke(k) PROVE TypeOK'
    BY <1>3 DEF Invoke, Goto
<1>4. ASSUME NEW k \in Jobs, Background(k) PROVE TypeOK'
    BY <1>4 DEF Background, Goto
<1>5. ASSUME NEW k \in Jobs, StartRun(k) PROVE TypeOK'
    BY <1>5 DEF StartRun, OpenRow, Refused, Goto
<1>6. ASSUME NEW k \in Jobs, Token(k) PROVE TypeOK'
    BY <1>6 DEF Token
<1>7. ASSUME NEW k \in Jobs, Disconnect(k) PROVE TypeOK'
    BY <1>7 DEF Disconnect
<1>8. ASSUME NEW k \in Jobs, KillCli(k) PROVE TypeOK'
    BY <1>8 DEF KillCli, Goto
<1>9. ASSUME NEW k \in Jobs, Answer(k) PROVE TypeOK'
    BY <1>9 DEF Answer, Goto
<1>10. ASSUME NEW k \in Jobs, FinishError(k) PROVE TypeOK'
    BY <1>10 DEF FinishError, FinishRun, Refused, Goto, Verdict, TeamVerdict
<1>11. ASSUME NEW k \in Jobs, FinishOk(k) PROVE TypeOK'
    BY <1>11 DEF FinishOk, FinishRun, Refused, Goto
<1>12. ASSUME NEW k \in Jobs, OnSuccess(k) PROVE TypeOK'
    BY <1>12 DEF OnSuccess, Save, Refused, Goto
<1>13. ASSUME NEW k \in Jobs, WriteFiles(k) PROVE TypeOK'
    BY <1>13 DEF WriteFiles, Save, Goto
<1>14. ASSUME NEW k \in Jobs, CreateInboxItem(k) PROVE TypeOK'
    BY <1>14 DEF CreateInboxItem, Save, Refused, Goto
<1>15. ASSUME NEW k \in Jobs, NextPass(k) PROVE TypeOK'
    BY <1>15 DEF NextPass, Save, Refused, Goto
<1>16. ASSUME NEW k \in Jobs, UpdateProjectDoc(k) PROVE TypeOK'
    BY <1>16 DEF UpdateProjectDoc, Save, Refused, Goto
<1>17. ASSUME NEW k \in Jobs, FinishTeam(k) PROVE TypeOK'
    BY <1>17 DEF FinishTeam, FinishRun, Refused, Goto
<1>18. CASE Boot
  <2>1. boots' \in 0..MaxBoots
    BY <1>18 DEF Boot
  <2>. QED
    BY <1>18, <2>1 DEF Boot
<1>19. CASE Start
    BY <1>19 DEF Start, ReapOrphanedRuns
<1>20. CASE RivalStart
    BY <1>20 DEF RivalStart, ReapOrphanedRuns
<1>21. CASE Signal
    BY <1>21 DEF Signal
<1>22. CASE GraceExpires
    BY <1>22 DEF GraceExpires
<1>23. CASE ShutdownReturns
    BY <1>23 DEF ShutdownReturns
<1>24. CASE WaitReturns
    BY <1>24 DEF WaitReturns
<1>25. CASE Stop
    BY <1>25 DEF Stop, Exit
<1>26. CASE Crash
    BY <1>26 DEF Crash, Exit
<1>27. CASE UNCHANGED vars
    BY <1>27 DEF vars
<1>. QED
    BY <1>1, <1>2, <1>3, <1>4, <1>5, <1>6, <1>7, <1>8, <1>9, <1>10, <1>11, <1>12, <1>13, <1>14, <1>15, <1>16, <1>17, <1>18, <1>19, <1>20, <1>21, <1>22, <1>23, <1>24, <1>25, <1>26, <1>27
    DEF Next, Begin, Step, Environment, Winddown

LEMMA TypeInit == Init => TypeOK
<1>. SUFFICES ASSUME Init PROVE TypeOK
    OBVIOUS
<1>1. boots \in 0..MaxBoots
    BY BoundsType DEF Init
<1>2. saved \in [Jobs -> SUBSET Things]
    BY DEF Init
<1>3. pass \in [Jobs -> 1..3]
    BY DEF Init
<1>. QED
    BY <1>1, <1>2, <1>3 DEF Init, TypeOK, Down, Working, Terminal

\* The types of the variables are kept, whatever the bounds.
THEOREM TypeCorrect == Spec => []TypeOK
<1>1. Init => TypeOK
    BY TypeInit
<1>2. TypeOK /\ [Next]_vars => TypeOK'
    BY TypeStep
<1>. QED
    BY <1>1, <1>2, PTL DEF Spec

-----------------------------------------------------------------------------
(* ResultAgreesWithRow.  The strengthening follows a job from step to step:  *)
(* what its row says and what it has saved, if its writes were all taken,    *)
(* and how much less that bounds when one was refused.                       *)

RowFollowsJob ==
    \A j \in Jobs \ lost :
        /\ pc[j] \in {"idle", "accepted", "spawned"} => row[j] = "none"
        /\ pc[j] \in {"llm", "answered", "drafted"} => row[j] \in {"running", "failed"}
        /\ pc[j] = "recorded" => row[j] = "ok" /\ j \notin Teams

SavesInOrder ==
    \A j \in Jobs \ lost :
        /\ j \notin Teams /\ pc[j] \in {"idle", "accepted", "spawned", "llm", "answered", "recorded"}
               => saved[j] = {}
        /\ pc[j] = "drafted" => j \in Teams /\ pass[j] = 3 /\ "doc" \in saved[j]
        /\ j \in Teams /\ pass[j] > 1 => "plan" \in saved[j]
        /\ j \in Teams /\ pass[j] = 3 => "critique" \in saved[j]

\* Whatever was refused: how far a job is bounds what it has stored and
\* whether its row was opened.
LeavesLittle ==
    \A j \in Jobs :
        /\ pc[j] \in {"idle", "accepted", "spawned"} => row[j] = "none" /\ saved[j] = {}
        /\ j \in Streaming /\ pc[j] \in {"llm", "answered", "recorded", "drafted"}
               => row[j] # "none"
        /\ j \notin Teams /\ pc[j] \in {"llm", "answered", "recorded"} => saved[j] = {}
        /\ pc[j] \in Working => row[j] # "cancelled"
        /\ pc[j] = "drafted" => j \in Teams
        /\ row[j] = "none" => saved[j] \subseteq {"files"}
        /\ row[j] = "cancelled" /\ j \in Streams => saved[j] = {}

JobInv ==
    TypeOK /\ RowFollowsJob /\ SavesInOrder /\ LeavesLittle /\ TakenWritesAgree

LEMMA RowStep == TypeOK /\ RowFollowsJob /\ [Next]_vars => RowFollowsJob'
<1>. SUFFICES ASSUME TypeOK, RowFollowsJob, [Next]_vars PROVE RowFollowsJob'
    OBVIOUS
<1>. USE KindsDisjoint DEF TypeOK, RowFollowsJob, proc, job, InFlight, Working
<1>1. ASSUME NEW k \in Jobs, Request(k) PROVE RowFollowsJob'
    BY <1>1 DEF Request, Goto
<1>2. ASSUME NEW k \in Jobs, Fire(k) PROVE RowFollowsJob'
    BY <1>2 DEF Fire, Goto
<1>3. ASSUME NEW k \in Jobs, Invoke(k) PROVE RowFollowsJob'
    BY <1>3 DEF Invoke, Goto
<1>4. ASSUME NEW k \in Jobs, Background(k) PROVE RowFollowsJob'
    BY <1>4 DEF Background, Goto
<1>5. ASSUME NEW k \in Jobs, StartRun(k) PROVE RowFollowsJob'
    BY <1>5 DEF StartRun, OpenRow, Refused, Goto
<1>6. ASSUME NEW k \in Jobs, Token(k) PROVE RowFollowsJob'
    BY <1>6 DEF Token
<1>7. ASSUME NEW k \in Jobs, Disconnect(k) PROVE RowFollowsJob'
    BY <1>7 DEF Disconnect
<1>8. ASSUME NEW k \in Jobs, KillCli(k) PROVE RowFollowsJob'
    BY <1>8 DEF KillCli, Goto
<1>9. ASSUME NEW k \in Jobs, Answer(k) PROVE RowFollowsJob'
    BY <1>9 DEF Answer, Goto
<1>10. ASSUME NEW k \in Jobs, FinishError(k) PROVE RowFollowsJob'
    BY <1>10 DEF FinishError, FinishRun, Refused, Goto, Verdict, TeamVerdict
<1>11. ASSUME NEW k \in Jobs, FinishOk(k) PROVE RowFollowsJob'
    BY <1>11 DEF FinishOk, FinishRun, Refused, Goto
<1>12. ASSUME NEW k \in Jobs, OnSuccess(k) PROVE RowFollowsJob'
    BY <1>12 DEF OnSuccess, Save, Refused, Goto
<1>13. ASSUME NEW k \in Jobs, WriteFiles(k) PROVE RowFollowsJob'
    BY <1>13 DEF WriteFiles, Save, Goto
<1>14. ASSUME NEW k \in Jobs, CreateInboxItem(k) PROVE RowFollowsJob'
    BY <1>14 DEF CreateInboxItem, Save, Refused, Goto
<1>15. ASSUME NEW k \in Jobs, NextPass(k) PROVE RowFollowsJob'
    BY <1>15 DEF NextPass, Save, Refused, Goto
<1>16. ASSUME NEW k \in Jobs, UpdateProjectDoc(k) PROVE RowFollowsJob'
    BY <1>16 DEF UpdateProjectDoc, Save, Refused, Goto
<1>17. ASSUME NEW k \in Jobs, FinishTeam(k) PROVE RowFollowsJob'
    BY <1>17 DEF FinishTeam, FinishRun, Refused, Goto
<1>18. CASE Boot
    BY <1>18 DEF Boot
<1>19. CASE Start
    BY <1>19 DEF Start, ReapOrphanedRuns
<1>20. CASE RivalStart
    BY <1>20 DEF RivalStart, ReapOrphanedRuns
<1>21. CASE Signal
    BY <1>21 DEF Signal
<1>22. CASE GraceExpires
    BY <1>22 DEF GraceExpires
<1>23. CASE ShutdownReturns
    BY <1>23 DEF ShutdownReturns
<1>24. CASE WaitReturns
    BY <1>24 DEF WaitReturns
<1>25. CASE Stop
    BY <1>25 DEF Stop, Exit
<1>26. CASE Crash
    BY <1>26 DEF Crash, Exit
<1>27. CASE UNCHANGED vars
    BY <1>27 DEF vars
<1>. QED
    BY <1>1, <1>2, <1>3, <1>4, <1>5, <1>6, <1>7, <1>8, <1>9, <1>10, <1>11, <1>12, <1>13, <1>14, <1>15, <1>16, <1>17, <1>18, <1>19, <1>20, <1>21, <1>22, <1>23, <1>24, <1>25, <1>26, <1>27
    DEF Next, Begin, Step, Environment, Winddown

LEMMA SavesStep == TypeOK /\ RowFollowsJob /\ SavesInOrder /\ [Next]_vars => SavesInOrder'
<1>. SUFFICES ASSUME TypeOK, RowFollowsJob, SavesInOrder, [Next]_vars PROVE SavesInOrder'
    OBVIOUS
<1>. USE KindsDisjoint DEF TypeOK, RowFollowsJob, SavesInOrder, proc, job, InFlight, Working
<1>1. ASSUME NEW k \in Jobs, Request(k) PROVE SavesInOrder'
    BY <1>1 DEF Request, Goto
<1>2. ASSUME NEW k \in Jobs, Fire(k) PROVE SavesInOrder'
    BY <1>2 DEF Fire, Goto
<1>3. ASSUME NEW k \in Jobs, Invoke(k) PROVE SavesInOrder'
    BY <1>3 DEF Invoke, Goto
<1>4. ASSUME NEW k \in Jobs, Background(k) PROVE SavesInOrder'
    BY <1>4 DEF Background, Goto
<1>5. ASSUME NEW k \in Jobs, StartRun(k) PROVE SavesInOrder'
    BY <1>5 DEF StartRun, OpenRow, Refused, Goto
<1>6. ASSUME NEW k \in Jobs, Token(k) PROVE SavesInOrder'
    BY <1>6 DEF Token
<1>7. ASSUME NEW k \in Jobs, Disconnect(k) PROVE SavesInOrder'
    BY <1>7 DEF Disconnect
<1>8. ASSUME NEW k \in Jobs, KillCli(k) PROVE SavesInOrder'
    BY <1>8 DEF KillCli, Goto
<1>9. ASSUME NEW k \in Jobs, Answer(k) PROVE SavesInOrder'
    BY <1>9 DEF Answer, Goto
<1>10. ASSUME NEW k \in Jobs, FinishError(k) PROVE SavesInOrder'
    BY <1>10 DEF FinishError, FinishRun, Refused, Goto, Verdict, TeamVerdict
<1>11. ASSUME NEW k \in Jobs, FinishOk(k) PROVE SavesInOrder'
    BY <1>11 DEF FinishOk, FinishRun, Refused, Goto
<1>12. ASSUME NEW k \in Jobs, OnSuccess(k) PROVE SavesInOrder'
    BY <1>12 DEF OnSuccess, Save, Refused, Goto
<1>13. ASSUME NEW k \in Jobs, WriteFiles(k) PROVE SavesInOrder'
    BY <1>13 DEF WriteFiles, Save, Goto
<1>14. ASSUME NEW k \in Jobs, CreateInboxItem(k) PROVE SavesInOrder'
    BY <1>14 DEF CreateInboxItem, Save, Refused, Goto
<1>15. ASSUME NEW k \in Jobs, NextPass(k) PROVE SavesInOrder'
    BY <1>15 DEF NextPass, Save, Refused, Goto
<1>16. ASSUME NEW k \in Jobs, UpdateProjectDoc(k) PROVE SavesInOrder'
    BY <1>16 DEF UpdateProjectDoc, Save, Refused, Goto
<1>17. ASSUME NEW k \in Jobs, FinishTeam(k) PROVE SavesInOrder'
    BY <1>17 DEF FinishTeam, FinishRun, Refused, Goto
<1>18. CASE Boot
    BY <1>18 DEF Boot
<1>19. CASE Start
    BY <1>19 DEF Start, ReapOrphanedRuns
<1>20. CASE RivalStart
    BY <1>20 DEF RivalStart, ReapOrphanedRuns
<1>21. CASE Signal
    BY <1>21 DEF Signal
<1>22. CASE GraceExpires
    BY <1>22 DEF GraceExpires
<1>23. CASE ShutdownReturns
    BY <1>23 DEF ShutdownReturns
<1>24. CASE WaitReturns
    BY <1>24 DEF WaitReturns
<1>25. CASE Stop
    BY <1>25 DEF Stop, Exit
<1>26. CASE Crash
    BY <1>26 DEF Crash, Exit
<1>27. CASE UNCHANGED vars
    BY <1>27 DEF vars
<1>. QED
    BY <1>1, <1>2, <1>3, <1>4, <1>5, <1>6, <1>7, <1>8, <1>9, <1>10, <1>11, <1>12, <1>13, <1>14, <1>15, <1>16, <1>17, <1>18, <1>19, <1>20, <1>21, <1>22, <1>23, <1>24, <1>25, <1>26, <1>27
    DEF Next, Begin, Step, Environment, Winddown

LEMMA LeavesStep == TypeOK /\ LeavesLittle /\ [Next]_vars => LeavesLittle'
<1>. SUFFICES ASSUME TypeOK, LeavesLittle, [Next]_vars PROVE LeavesLittle'
    OBVIOUS
<1>. USE KindsDisjoint DEF TypeOK, LeavesLittle, Streaming, proc, job, InFlight, Working
<1>1. ASSUME NEW k \in Jobs, Request(k) PROVE LeavesLittle'
    BY <1>1 DEF Request, Goto
<1>2. ASSUME NEW k \in Jobs, Fire(k) PROVE LeavesLittle'
    BY <1>2 DEF Fire, Goto
<1>3. ASSUME NEW k \in Jobs, Invoke(k) PROVE LeavesLittle'
    BY <1>3 DEF Invoke, Goto
<1>4. ASSUME NEW k \in Jobs, Background(k) PROVE LeavesLittle'
    BY <1>4 DEF Background, Goto
<1>5. ASSUME NEW k \in Jobs, StartRun(k) PROVE LeavesLittle'
    BY <1>5 DEF StartRun, OpenRow, Refused, Goto
<1>6. ASSUME NEW k \in Jobs, Token(k) PROVE LeavesLittle'
    BY <1>6 DEF Token
<1>7. ASSUME NEW k \in Jobs, Disconnect(k) PROVE LeavesLittle'
    BY <1>7 DEF Disconnect
<1>8. ASSUME NEW k \in Jobs, KillCli(k) PROVE LeavesLittle'
    BY <1>8 DEF KillCli, Goto
<1>9. ASSUME NEW k \in Jobs, Answer(k) PROVE LeavesLittle'
    BY <1>9 DEF Answer, Goto
<1>10. ASSUME NEW k \in Jobs, FinishError(k) PROVE LeavesLittle'
    BY <1>10 DEF FinishError, FinishRun, Refused, Goto, Verdict, TeamVerdict
<1>11. ASSUME NEW k \in Jobs, FinishOk(k) PROVE LeavesLittle'
    BY <1>11 DEF FinishOk, FinishRun, Refused, Goto
<1>12. ASSUME NEW k \in Jobs, OnSuccess(k) PROVE LeavesLittle'
    BY <1>12 DEF OnSuccess, Save, Refused, Goto
<1>13. ASSUME NEW k \in Jobs, WriteFiles(k) PROVE LeavesLittle'
    BY <1>13 DEF WriteFiles, Save, Goto
<1>14. ASSUME NEW k \in Jobs, CreateInboxItem(k) PROVE LeavesLittle'
    BY <1>14 DEF CreateInboxItem, Save, Refused, Goto
<1>15. ASSUME NEW k \in Jobs, NextPass(k) PROVE LeavesLittle'
    BY <1>15 DEF NextPass, Save, Refused, Goto
<1>16. ASSUME NEW k \in Jobs, UpdateProjectDoc(k) PROVE LeavesLittle'
    BY <1>16 DEF UpdateProjectDoc, Save, Refused, Goto
<1>17. ASSUME NEW k \in Jobs, FinishTeam(k) PROVE LeavesLittle'
    BY <1>17 DEF FinishTeam, FinishRun, Refused, Goto
<1>18. CASE Boot
    BY <1>18 DEF Boot
<1>19. CASE Start
    BY <1>19 DEF Start, ReapOrphanedRuns
<1>20. CASE RivalStart
    BY <1>20 DEF RivalStart, ReapOrphanedRuns
<1>21. CASE Signal
    BY <1>21 DEF Signal
<1>22. CASE GraceExpires
    BY <1>22 DEF GraceExpires
<1>23. CASE ShutdownReturns
    BY <1>23 DEF ShutdownReturns
<1>24. CASE WaitReturns
    BY <1>24 DEF WaitReturns
<1>25. CASE Stop
    BY <1>25 DEF Stop, Exit
<1>26. CASE Crash
    BY <1>26 DEF Crash, Exit
<1>27. CASE UNCHANGED vars
    BY <1>27 DEF vars
<1>. QED
    BY <1>1, <1>2, <1>3, <1>4, <1>5, <1>6, <1>7, <1>8, <1>9, <1>10, <1>11, <1>12, <1>13, <1>14, <1>15, <1>16, <1>17, <1>18, <1>19, <1>20, <1>21, <1>22, <1>23, <1>24, <1>25, <1>26, <1>27
    DEF Next, Begin, Step, Environment, Winddown

LEMMA TakenStep == JobInv /\ [Next]_vars => TakenWritesAgree'
<1>. SUFFICES ASSUME JobInv, [Next]_vars PROVE TakenWritesAgree'
    OBVIOUS
<1>. USE KindsDisjoint DEF JobInv, TypeOK, RowFollowsJob, SavesInOrder, TakenWritesAgree,
        
         proc, job, InFlight, Working
<1>1. ASSUME NEW k \in Jobs, Request(k) PROVE TakenWritesAgree'
    BY <1>1 DEF Request, Goto
<1>2. ASSUME NEW k \in Jobs, Fire(k) PROVE TakenWritesAgree'
    BY <1>2 DEF Fire, Goto
<1>3. ASSUME NEW k \in Jobs, Invoke(k) PROVE TakenWritesAgree'
    BY <1>3 DEF Invoke, Goto
<1>4. ASSUME NEW k \in Jobs, Background(k) PROVE TakenWritesAgree'
    BY <1>4 DEF Background, Goto
<1>5. ASSUME NEW k \in Jobs, StartRun(k) PROVE TakenWritesAgree'
    BY <1>5 DEF StartRun, OpenRow, Refused, Goto
<1>6. ASSUME NEW k \in Jobs, Token(k) PROVE TakenWritesAgree'
    BY <1>6 DEF Token
<1>7. ASSUME NEW k \in Jobs, Disconnect(k) PROVE TakenWritesAgree'
    BY <1>7 DEF Disconnect
<1>8. ASSUME NEW k \in Jobs, KillCli(k) PROVE TakenWritesAgree'
    BY <1>8 DEF KillCli, Goto
<1>9. ASSUME NEW k \in Jobs, Answer(k) PROVE TakenWritesAgree'
    BY <1>9 DEF Answer, Goto
<1>10. ASSUME NEW k \in Jobs, FinishError(k) PROVE TakenWritesAgree'
    BY <1>10 DEF FinishError, FinishRun, Refused, Goto, Verdict, TeamVerdict
<1>11. ASSUME NEW k \in Jobs, FinishOk(k) PROVE TakenWritesAgree'
    BY <1>11 DEF FinishOk, FinishRun, Refused, Goto
<1>12. ASSUME NEW k \in Jobs, OnSuccess(k) PROVE TakenWritesAgree'
    BY <1>12 DEF OnSuccess, Save, Refused, Goto
<1>13. ASSUME NEW k \in Jobs, WriteFiles(k) PROVE TakenWritesAgree'
    BY <1>13 DEF WriteFiles, Save, Goto
<1>14. ASSUME NEW k \in Jobs, CreateInboxItem(k) PROVE TakenWritesAgree'
    BY <1>14 DEF CreateInboxItem, Save, Refused, Goto
<1>15. ASSUME NEW k \in Jobs, NextPass(k) PROVE TakenWritesAgree'
    BY <1>15 DEF NextPass, Save, Refused, Goto
<1>16. ASSUME NEW k \in Jobs, UpdateProjectDoc(k) PROVE TakenWritesAgree'
    BY <1>16 DEF UpdateProjectDoc, Save, Refused, Goto
<1>17. ASSUME NEW k \in Jobs, FinishTeam(k) PROVE TakenWritesAgree'
    BY <1>17 DEF FinishTeam, FinishRun, Refused, Goto
<1>18. CASE Boot
    BY <1>18 DEF Boot
<1>19. CASE Start
    BY <1>19 DEF Start, ReapOrphanedRuns
<1>20. CASE RivalStart
    BY <1>20 DEF RivalStart, ReapOrphanedRuns
<1>21. CASE Signal
    BY <1>21 DEF Signal
<1>22. CASE GraceExpires
    BY <1>22 DEF GraceExpires
<1>23. CASE ShutdownReturns
    BY <1>23 DEF ShutdownReturns
<1>24. CASE WaitReturns
    BY <1>24 DEF WaitReturns
<1>25. CASE Stop
    BY <1>25 DEF Stop, Exit
<1>26. CASE Crash
    BY <1>26 DEF Crash, Exit
<1>27. CASE UNCHANGED vars
    BY <1>27 DEF vars
<1>. QED
    BY <1>1, <1>2, <1>3, <1>4, <1>5, <1>6, <1>7, <1>8, <1>9, <1>10, <1>11, <1>12, <1>13, <1>14, <1>15, <1>16, <1>17, <1>18, <1>19, <1>20, <1>21, <1>22, <1>23, <1>24, <1>25, <1>26, <1>27
    DEF Next, Begin, Step, Environment, Winddown

-----------------------------------------------------------------------------
(* NoPhantomRow and StopLeavesNoRunning.  The strengthening says that a      *)
(* server that is down serves nothing, and what a drained shutdown has left  *)
(* behind in each phase.                                                     *)

DownIsIdle ==
    server \in Down \cup {"booting"} => \A j \in Served : ~InFlight(j)

Drained ==
    ~expired =>
        /\ server \in {"waiting", "stopping"} =>
               \A j \in Http \cup Manuals : InFlight(j) =>
                   j \in Manuals /\ pc[j] # "accepted"
        /\ server = "stopping" => \A j \in Manuals : ~InFlight(j)

OwnerInv ==
    TypeOK /\ DownIsIdle /\ Drained /\ RowFollowsJob /\ NoPhantomRow /\ StopLeavesNoRunning

LEMMA DownStep == TypeOK /\ DownIsIdle /\ [Next]_vars => DownIsIdle'
<1>. SUFFICES ASSUME TypeOK, DownIsIdle, [Next]_vars PROVE DownIsIdle'
    OBVIOUS
<1>. USE KindsDisjoint DEF TypeOK, DownIsIdle, proc, job, InFlight, Working, Down,
         Jobs, Served, Http, Streaming, Reporters
<1>1. ASSUME NEW k \in Jobs, Request(k) PROVE DownIsIdle'
    BY <1>1 DEF Request, Goto
<1>2. ASSUME NEW k \in Jobs, Fire(k) PROVE DownIsIdle'
    BY <1>2 DEF Fire, Goto
<1>3. ASSUME NEW k \in Jobs, Invoke(k) PROVE DownIsIdle'
    BY <1>3 DEF Invoke, Goto
<1>4. ASSUME NEW k \in Jobs, Background(k) PROVE DownIsIdle'
    BY <1>4 DEF Background, Goto
<1>5. ASSUME NEW k \in Jobs, StartRun(k) PROVE DownIsIdle'
    BY <1>5 DEF StartRun, OpenRow, Refused, Goto
<1>6. ASSUME NEW k \in Jobs, Token(k) PROVE DownIsIdle'
    BY <1>6 DEF Token
<1>7. ASSUME NEW k \in Jobs, Disconnect(k) PROVE DownIsIdle'
    BY <1>7 DEF Disconnect
<1>8. ASSUME NEW k \in Jobs, KillCli(k) PROVE DownIsIdle'
    BY <1>8 DEF KillCli, Goto
<1>9. ASSUME NEW k \in Jobs, Answer(k) PROVE DownIsIdle'
    BY <1>9 DEF Answer, Goto
<1>10. ASSUME NEW k \in Jobs, FinishError(k) PROVE DownIsIdle'
    BY <1>10 DEF FinishError, FinishRun, Refused, Goto, Verdict, TeamVerdict
<1>11. ASSUME NEW k \in Jobs, FinishOk(k) PROVE DownIsIdle'
    BY <1>11 DEF FinishOk, FinishRun, Refused, Goto
<1>12. ASSUME NEW k \in Jobs, OnSuccess(k) PROVE DownIsIdle'
    BY <1>12 DEF OnSuccess, Save, Refused, Goto
<1>13. ASSUME NEW k \in Jobs, WriteFiles(k) PROVE DownIsIdle'
    BY <1>13 DEF WriteFiles, Save, Goto
<1>14. ASSUME NEW k \in Jobs, CreateInboxItem(k) PROVE DownIsIdle'
    BY <1>14 DEF CreateInboxItem, Save, Refused, Goto
<1>15. ASSUME NEW k \in Jobs, NextPass(k) PROVE DownIsIdle'
    BY <1>15 DEF NextPass, Save, Refused, Goto
<1>16. ASSUME NEW k \in Jobs, UpdateProjectDoc(k) PROVE DownIsIdle'
    BY <1>16 DEF UpdateProjectDoc, Save, Refused, Goto
<1>17. ASSUME NEW k \in Jobs, FinishTeam(k) PROVE DownIsIdle'
    BY <1>17 DEF FinishTeam, FinishRun, Refused, Goto
<1>18. CASE Boot
    BY <1>18 DEF Boot
<1>19. CASE Start
    BY <1>19 DEF Start, ReapOrphanedRuns
<1>20. CASE RivalStart
    BY <1>20 DEF RivalStart, ReapOrphanedRuns
<1>21. CASE Signal
    BY <1>21 DEF Signal
<1>22. CASE GraceExpires
    BY <1>22 DEF GraceExpires
<1>23. CASE ShutdownReturns
    BY <1>23 DEF ShutdownReturns
<1>24. CASE WaitReturns
    BY <1>24 DEF WaitReturns
<1>25. CASE Stop
    BY <1>25 DEF Stop, Exit
<1>26. CASE Crash
    BY <1>26 DEF Crash, Exit
<1>27. CASE UNCHANGED vars
    BY <1>27 DEF vars
<1>. QED
    BY <1>1, <1>2, <1>3, <1>4, <1>5, <1>6, <1>7, <1>8, <1>9, <1>10, <1>11, <1>12, <1>13, <1>14, <1>15, <1>16, <1>17, <1>18, <1>19, <1>20, <1>21, <1>22, <1>23, <1>24, <1>25, <1>26, <1>27
    DEF Next, Begin, Step, Environment, Winddown

LEMMA DrainedStep == TypeOK /\ Drained /\ [Next]_vars => Drained'
<1>. SUFFICES ASSUME TypeOK, Drained, [Next]_vars PROVE Drained'
    OBVIOUS
<1>. USE KindsDisjoint DEF TypeOK, Drained, proc, job, InFlight, Working, Down,
         Jobs, Served, Http, Streaming, Reporters
<1>1. ASSUME NEW k \in Jobs, Request(k) PROVE Drained'
    BY <1>1 DEF Request, Goto
<1>2. ASSUME NEW k \in Jobs, Fire(k) PROVE Drained'
    BY <1>2 DEF Fire, Goto
<1>3. ASSUME NEW k \in Jobs, Invoke(k) PROVE Drained'
    BY <1>3 DEF Invoke, Goto
<1>4. ASSUME NEW k \in Jobs, Background(k) PROVE Drained'
    BY <1>4 DEF Background, Goto
<1>5. ASSUME NEW k \in Jobs, StartRun(k) PROVE Drained'
    BY <1>5 DEF StartRun, OpenRow, Refused, Goto
<1>6. ASSUME NEW k \in Jobs, Token(k) PROVE Drained'
    BY <1>6 DEF Token
<1>7. ASSUME NEW k \in Jobs, Disconnect(k) PROVE Drained'
    BY <1>7 DEF Disconnect
<1>8. ASSUME NEW k \in Jobs, KillCli(k) PROVE Drained'
    BY <1>8 DEF KillCli, Goto
<1>9. ASSUME NEW k \in Jobs, Answer(k) PROVE Drained'
    BY <1>9 DEF Answer, Goto
<1>10. ASSUME NEW k \in Jobs, FinishError(k) PROVE Drained'
    BY <1>10 DEF FinishError, FinishRun, Refused, Goto, Verdict, TeamVerdict
<1>11. ASSUME NEW k \in Jobs, FinishOk(k) PROVE Drained'
    BY <1>11 DEF FinishOk, FinishRun, Refused, Goto
<1>12. ASSUME NEW k \in Jobs, OnSuccess(k) PROVE Drained'
    BY <1>12 DEF OnSuccess, Save, Refused, Goto
<1>13. ASSUME NEW k \in Jobs, WriteFiles(k) PROVE Drained'
    BY <1>13 DEF WriteFiles, Save, Goto
<1>14. ASSUME NEW k \in Jobs, CreateInboxItem(k) PROVE Drained'
    BY <1>14 DEF CreateInboxItem, Save, Refused, Goto
<1>15. ASSUME NEW k \in Jobs, NextPass(k) PROVE Drained'
    BY <1>15 DEF NextPass, Save, Refused, Goto
<1>16. ASSUME NEW k \in Jobs, UpdateProjectDoc(k) PROVE Drained'
    BY <1>16 DEF UpdateProjectDoc, Save, Refused, Goto
<1>17. ASSUME NEW k \in Jobs, FinishTeam(k) PROVE Drained'
    BY <1>17 DEF FinishTeam, FinishRun, Refused, Goto
<1>18. CASE Boot
    BY <1>18 DEF Boot
<1>19. CASE Start
    BY <1>19 DEF Start, ReapOrphanedRuns
<1>20. CASE RivalStart
    BY <1>20 DEF RivalStart, ReapOrphanedRuns
<1>21. CASE Signal
    BY <1>21 DEF Signal
<1>22. CASE GraceExpires
    BY <1>22 DEF GraceExpires
<1>23. CASE ShutdownReturns
    BY <1>23 DEF ShutdownReturns, Requests
<1>24. CASE WaitReturns
    BY <1>24 DEF WaitReturns, Goroutines
<1>25. CASE Stop
    BY <1>25 DEF Stop, Exit
<1>26. CASE Crash
    BY <1>26 DEF Crash, Exit
<1>27. CASE UNCHANGED vars
    BY <1>27 DEF vars
<1>. QED
    BY <1>1, <1>2, <1>3, <1>4, <1>5, <1>6, <1>7, <1>8, <1>9, <1>10, <1>11, <1>12, <1>13, <1>14, <1>15, <1>16, <1>17, <1>18, <1>19, <1>20, <1>21, <1>22, <1>23, <1>24, <1>25, <1>26, <1>27
    DEF Next, Begin, Step, Environment, Winddown

LEMMA PhantomStep == TypeOK /\ DownIsIdle /\ RowFollowsJob /\ NoPhantomRow /\ [Next]_vars => NoPhantomRow'
<1>. SUFFICES ASSUME TypeOK, DownIsIdle, RowFollowsJob, NoPhantomRow, [Next]_vars PROVE NoPhantomRow'
    OBVIOUS
<1>. USE KindsDisjoint DEF TypeOK, DownIsIdle, RowFollowsJob, NoPhantomRow, proc, job, InFlight, Working, Down,
         Jobs, Served, Http, Streaming, Reporters
<1>1. ASSUME NEW k \in Jobs, Request(k) PROVE NoPhantomRow'
    BY <1>1 DEF Request, Goto
<1>2. ASSUME NEW k \in Jobs, Fire(k) PROVE NoPhantomRow'
    BY <1>2 DEF Fire, Goto
<1>3. ASSUME NEW k \in Jobs, Invoke(k) PROVE NoPhantomRow'
    BY <1>3 DEF Invoke, Goto
<1>4. ASSUME NEW k \in Jobs, Background(k) PROVE NoPhantomRow'
    BY <1>4 DEF Background, Goto
<1>5. ASSUME NEW k \in Jobs, StartRun(k) PROVE NoPhantomRow'
    BY <1>5 DEF StartRun, OpenRow, Refused, Goto
<1>6. ASSUME NEW k \in Jobs, Token(k) PROVE NoPhantomRow'
    BY <1>6 DEF Token
<1>7. ASSUME NEW k \in Jobs, Disconnect(k) PROVE NoPhantomRow'
    BY <1>7 DEF Disconnect
<1>8. ASSUME NEW k \in Jobs, KillCli(k) PROVE NoPhantomRow'
    BY <1>8 DEF KillCli, Goto
<1>9. ASSUME NEW k \in Jobs, Answer(k) PROVE NoPhantomRow'
    BY <1>9 DEF Answer, Goto
<1>10. ASSUME NEW k \in Jobs, FinishError(k) PROVE NoPhantomRow'
    BY <1>10 DEF FinishError, FinishRun, Refused, Goto, Verdict, TeamVerdict
<1>11. ASSUME NEW k \in Jobs, FinishOk(k) PROVE NoPhantomRow'
    BY <1>11 DEF FinishOk, FinishRun, Refused, Goto
<1>12. ASSUME NEW k \in Jobs, OnSuccess(k) PROVE NoPhantomRow'
    BY <1>12 DEF OnSuccess, Save, Refused, Goto
<1>13. ASSUME NEW k \in Jobs, WriteFiles(k) PROVE NoPhantomRow'
    BY <1>13 DEF WriteFiles, Save, Goto
<1>14. ASSUME NEW k \in Jobs, CreateInboxItem(k) PROVE NoPhantomRow'
    BY <1>14 DEF CreateInboxItem, Save, Refused, Goto
<1>15. ASSUME NEW k \in Jobs, NextPass(k) PROVE NoPhantomRow'
    BY <1>15 DEF NextPass, Save, Refused, Goto
<1>16. ASSUME NEW k \in Jobs, UpdateProjectDoc(k) PROVE NoPhantomRow'
    BY <1>16 DEF UpdateProjectDoc, Save, Refused, Goto
<1>17. ASSUME NEW k \in Jobs, FinishTeam(k) PROVE NoPhantomRow'
    BY <1>17 DEF FinishTeam, FinishRun, Refused, Goto
<1>18. CASE Boot
    BY <1>18 DEF Boot
<1>19. CASE Start
    BY <1>19 DEF Start, ReapOrphanedRuns
<1>20. CASE RivalStart
    BY <1>20 DEF RivalStart, ReapOrphanedRuns
<1>21. CASE Signal
    BY <1>21 DEF Signal
<1>22. CASE GraceExpires
    BY <1>22 DEF GraceExpires
<1>23. CASE ShutdownReturns
    BY <1>23 DEF ShutdownReturns
<1>24. CASE WaitReturns
    BY <1>24 DEF WaitReturns
<1>25. CASE Stop
    BY <1>25 DEF Stop, Exit
<1>26. CASE Crash
    BY <1>26 DEF Crash, Exit
<1>27. CASE UNCHANGED vars
    BY <1>27 DEF vars
<1>. QED
    BY <1>1, <1>2, <1>3, <1>4, <1>5, <1>6, <1>7, <1>8, <1>9, <1>10, <1>11, <1>12, <1>13, <1>14, <1>15, <1>16, <1>17, <1>18, <1>19, <1>20, <1>21, <1>22, <1>23, <1>24, <1>25, <1>26, <1>27
    DEF Next, Begin, Step, Environment, Winddown

LEMMA StopStep == OwnerInv /\ [Next]_vars => StopLeavesNoRunning'
<1>. SUFFICES ASSUME OwnerInv, [Next]_vars PROVE StopLeavesNoRunning'
    OBVIOUS
<1>. USE KindsDisjoint DEF OwnerInv, TypeOK, DownIsIdle, Drained, RowFollowsJob, NoPhantomRow,
         StopLeavesNoRunning, proc, job, InFlight, Working, Down,
         Jobs, Served, Http, Streaming, Reporters
<1>1. ASSUME NEW k \in Jobs, Request(k) PROVE StopLeavesNoRunning'
    BY <1>1 DEF Request, Goto
<1>2. ASSUME NEW k \in Jobs, Fire(k) PROVE StopLeavesNoRunning'
    BY <1>2 DEF Fire, Goto
<1>3. ASSUME NEW k \in Jobs, Invoke(k) PROVE StopLeavesNoRunning'
    BY <1>3 DEF Invoke, Goto
<1>4. ASSUME NEW k \in Jobs, Background(k) PROVE StopLeavesNoRunning'
    BY <1>4 DEF Background, Goto
<1>5. ASSUME NEW k \in Jobs, StartRun(k) PROVE StopLeavesNoRunning'
    BY <1>5 DEF StartRun, OpenRow, Refused, Goto
<1>6. ASSUME NEW k \in Jobs, Token(k) PROVE StopLeavesNoRunning'
    BY <1>6 DEF Token
<1>7. ASSUME NEW k \in Jobs, Disconnect(k) PROVE StopLeavesNoRunning'
    BY <1>7 DEF Disconnect
<1>8. ASSUME NEW k \in Jobs, KillCli(k) PROVE StopLeavesNoRunning'
    BY <1>8 DEF KillCli, Goto
<1>9. ASSUME NEW k \in Jobs, Answer(k) PROVE StopLeavesNoRunning'
    BY <1>9 DEF Answer, Goto
<1>10. ASSUME NEW k \in Jobs, FinishError(k) PROVE StopLeavesNoRunning'
    BY <1>10 DEF FinishError, FinishRun, Refused, Goto, Verdict, TeamVerdict
<1>11. ASSUME NEW k \in Jobs, FinishOk(k) PROVE StopLeavesNoRunning'
    BY <1>11 DEF FinishOk, FinishRun, Refused, Goto
<1>12. ASSUME NEW k \in Jobs, OnSuccess(k) PROVE StopLeavesNoRunning'
    BY <1>12 DEF OnSuccess, Save, Refused, Goto
<1>13. ASSUME NEW k \in Jobs, WriteFiles(k) PROVE StopLeavesNoRunning'
    BY <1>13 DEF WriteFiles, Save, Goto
<1>14. ASSUME NEW k \in Jobs, CreateInboxItem(k) PROVE StopLeavesNoRunning'
    BY <1>14 DEF CreateInboxItem, Save, Refused, Goto
<1>15. ASSUME NEW k \in Jobs, NextPass(k) PROVE StopLeavesNoRunning'
    BY <1>15 DEF NextPass, Save, Refused, Goto
<1>16. ASSUME NEW k \in Jobs, UpdateProjectDoc(k) PROVE StopLeavesNoRunning'
    BY <1>16 DEF UpdateProjectDoc, Save, Refused, Goto
<1>17. ASSUME NEW k \in Jobs, FinishTeam(k) PROVE StopLeavesNoRunning'
    BY <1>17 DEF FinishTeam, FinishRun, Refused, Goto
<1>18. CASE Boot
    BY <1>18 DEF Boot
<1>19. CASE Start
    BY <1>19 DEF Start, ReapOrphanedRuns
<1>20. CASE RivalStart
    BY <1>20 DEF RivalStart, ReapOrphanedRuns
<1>21. CASE Signal
    BY <1>21 DEF Signal
<1>22. CASE GraceExpires
    BY <1>22 DEF GraceExpires
<1>23. CASE ShutdownReturns
    BY <1>23 DEF ShutdownReturns
<1>24. CASE WaitReturns
    BY <1>24 DEF WaitReturns
<1>25. CASE Stop
    BY <1>25 DEF Stop, Exit, Fired
<1>26. CASE Crash
    BY <1>26 DEF Crash, Exit
<1>27. CASE UNCHANGED vars
    BY <1>27 DEF vars
<1>. QED
    BY <1>1, <1>2, <1>3, <1>4, <1>5, <1>6, <1>7, <1>8, <1>9, <1>10, <1>11, <1>12, <1>13, <1>14, <1>15, <1>16, <1>17, <1>18, <1>19, <1>20, <1>21, <1>22, <1>23, <1>24, <1>25, <1>26, <1>27
    DEF Next, Begin, Step, Environment, Winddown

LEMMA InitHolds == Init => JobInv /\ OwnerInv
<1>. SUFFICES ASSUME Init PROVE JobInv /\ OwnerInv
    OBVIOUS
<1>1. TypeOK
    BY TypeInit
<1>2. RowFollowsJob /\ SavesInOrder /\ LeavesLittle /\ TakenWritesAgree
    BY DEF Init, RowFollowsJob, SavesInOrder, LeavesLittle, TakenWritesAgree, Streaming, Working
<1>3. DownIsIdle /\ Drained /\ NoPhantomRow /\ StopLeavesNoRunning
    BY DEF Init, DownIsIdle, Drained, NoPhantomRow, StopLeavesNoRunning, InFlight,
       Working, Down, Served, Jobs
<1>. QED
    BY <1>1, <1>2, <1>3 DEF JobInv, OwnerInv

\* Of a job whose own writes were taken, the results and a row that says ok are
\* stored in the order the job promises, whatever crashes or is reaped between;
\* of any other, a row that was never opened leaves no result but files, and a
\* stream's cancelled row leaves none.
THEOREM ResultsAgree == Spec => []ResultAgreesWithRow
<1>1. Init => JobInv
    BY InitHolds
<1>2. JobInv /\ [Next]_vars => JobInv'
    BY TypeStep, RowStep, SavesStep, LeavesStep, TakenStep DEF JobInv
<1>3. JobInv => ResultAgreesWithRow
    BY DEF JobInv, TypeOK, LeavesLittle, ResultAgreesWithRow, RefusedWritesLeave
<1>. QED
    BY <1>1, <1>2, <1>3, PTL DEF Spec

LEMMA OwnerInvariant == Spec => []OwnerInv
<1>1. Init => OwnerInv
    BY InitHolds
<1>2. OwnerInv /\ [Next]_vars => OwnerInv'
    BY TypeStep, DownStep, DrainedStep, RowStep, PhantomStep, StopStep DEF OwnerInv
<1>. QED
    BY <1>1, <1>2, PTL DEF Spec

\* After every start of the server, each 'running' row of a job it serves has
\* a live owner.
THEOREM NoPhantomRows == Spec => []NoPhantomRow
<1>1. OwnerInv => NoPhantomRow
    BY DEF OwnerInv
<1>. QED
    BY <1>1, OwnerInvariant, PTL

\* A stop within the grace period leaves no row 'running', and no stop leaves
\* one of a cron job.
THEOREM StopIsClean == Spec => []StopLeavesNoRunning
<1>1. OwnerInv => StopLeavesNoRunning
    BY DEF OwnerInv
<1>. QED
    BY <1>1, OwnerInvariant, PTL

-----------------------------------------------------------------------------
(* CancelledKeepsPartial.  No row is cancelled while its job can still be    *)
(* given an empty partial, and a stream's call is cancelled by its client.   *)

Deserved ==
    \A j \in Jobs :
        /\ row[j] = "cancelled" => pc[j] \in {"done", "dead"}
        /\ j \in Streams /\ outcome[j] = "canceled" => gone[j]

CancelInv == TypeOK /\ Deserved /\ CancelledKeepsPartial

LEMMA CancelStep == TypeOK /\ Deserved /\ CancelledKeepsPartial /\ [Next]_vars => Deserved' /\ CancelledKeepsPartial'
<1>. DEFINE Inv == Deserved /\ CancelledKeepsPartial
<1>. SUFFICES ASSUME TypeOK, Inv, [Next]_vars PROVE Inv'
    OBVIOUS
<1>. USE KindsDisjoint DEF TypeOK, Deserved, CancelledKeepsPartial, proc, job, InFlight, Working, Streaming
<1>1. ASSUME NEW k \in Jobs, Request(k) PROVE Inv'
    BY <1>1 DEF Request, Goto
<1>2. ASSUME NEW k \in Jobs, Fire(k) PROVE Inv'
    BY <1>2 DEF Fire, Goto
<1>3. ASSUME NEW k \in Jobs, Invoke(k) PROVE Inv'
    BY <1>3 DEF Invoke, Goto
<1>4. ASSUME NEW k \in Jobs, Background(k) PROVE Inv'
    BY <1>4 DEF Background, Goto
<1>5. ASSUME NEW k \in Jobs, StartRun(k) PROVE Inv'
    BY <1>5 DEF StartRun, OpenRow, Refused, Goto
<1>6. ASSUME NEW k \in Jobs, Token(k) PROVE Inv'
    BY <1>6 DEF Token
<1>7. ASSUME NEW k \in Jobs, Disconnect(k) PROVE Inv'
    BY <1>7 DEF Disconnect
<1>8. ASSUME NEW k \in Jobs, KillCli(k) PROVE Inv'
    BY <1>8 DEF KillCli, Goto
<1>9. ASSUME NEW k \in Jobs, Answer(k) PROVE Inv'
    BY <1>9 DEF Answer, Goto, Cancelled
<1>10. ASSUME NEW k \in Jobs, FinishError(k) PROVE Inv'
    BY <1>10 DEF FinishError, FinishRun, Refused, Goto, Verdict, TeamVerdict
<1>11. ASSUME NEW k \in Jobs, FinishOk(k) PROVE Inv'
    BY <1>11 DEF FinishOk, FinishRun, Refused, Goto
<1>12. ASSUME NEW k \in Jobs, OnSuccess(k) PROVE Inv'
    BY <1>12 DEF OnSuccess, Save, Refused, Goto
<1>13. ASSUME NEW k \in Jobs, WriteFiles(k) PROVE Inv'
    BY <1>13 DEF WriteFiles, Save, Goto
<1>14. ASSUME NEW k \in Jobs, CreateInboxItem(k) PROVE Inv'
    BY <1>14 DEF CreateInboxItem, Save, Refused, Goto
<1>15. ASSUME NEW k \in Jobs, NextPass(k) PROVE Inv'
    BY <1>15 DEF NextPass, Save, Refused, Goto
<1>16. ASSUME NEW k \in Jobs, UpdateProjectDoc(k) PROVE Inv'
    BY <1>16 DEF UpdateProjectDoc, Save, Refused, Goto
<1>17. ASSUME NEW k \in Jobs, FinishTeam(k) PROVE Inv'
    BY <1>17 DEF FinishTeam, FinishRun, Refused, Goto
<1>18. CASE Boot
    BY <1>18 DEF Boot
<1>19. CASE Start
    BY <1>19 DEF Start, ReapOrphanedRuns
<1>20. CASE RivalStart
    BY <1>20 DEF RivalStart, ReapOrphanedRuns
<1>21. CASE Signal
    BY <1>21 DEF Signal
<1>22. CASE GraceExpires
    BY <1>22 DEF GraceExpires
<1>23. CASE ShutdownReturns
    BY <1>23 DEF ShutdownReturns
<1>24. CASE WaitReturns
    BY <1>24 DEF WaitReturns
<1>25. CASE Stop
    BY <1>25 DEF Stop, Exit
<1>26. CASE Crash
    BY <1>26 DEF Crash, Exit
<1>27. CASE UNCHANGED vars
    BY <1>27 DEF vars
<1>. QED
    BY <1>1, <1>2, <1>3, <1>4, <1>5, <1>6, <1>7, <1>8, <1>9, <1>10, <1>11, <1>12, <1>13, <1>14, <1>15, <1>16, <1>17, <1>18, <1>19, <1>20, <1>21, <1>22, <1>23, <1>24, <1>25, <1>26, <1>27
    DEF Next, Begin, Step, Environment, Winddown

\* A row says cancelled only for a client that left after content reached it
\* (handlers.go:1129).
THEOREM CancelledKept == Spec => []CancelledKeepsPartial
<1>1. Init => CancelInv
    BY TypeInit DEF Init, CancelInv, Deserved, CancelledKeepsPartial
<1>2. CancelInv /\ [Next]_vars => CancelInv'
    BY TypeStep, CancelStep DEF CancelInv
<1>3. CancelInv => CancelledKeepsPartial
    BY DEF CancelInv
<1>. QED
    BY <1>1, <1>2, <1>3, PTL DEF Spec

-----------------------------------------------------------------------------
(* Without a command line beside the server, without a rival server and with *)
(* a store that takes every write, a row is only ever touched by its owner   *)
(* or, once the owner is dead, by the reaper.                                *)

Undisturbed == Clis = {} /\ ~StoreMayFail /\ ~RivalStarts

OwnRow ==
    /\ lost = {}
    /\ \A j \in Jobs :
          /\ pc[j] \in {"idle", "accepted", "spawned"} => row[j] = "none"
          /\ pc[j] \in {"llm", "answered", "drafted"} => row[j] = "running"
          /\ pc[j] = "recorded" => row[j] = "ok"

RecordInv == TypeOK /\ DownIsIdle /\ RowFollowsJob /\ SavesInOrder /\ OwnRow

LEMMA OwnRowStep ==
    ASSUME Undisturbed, TypeOK, DownIsIdle, OwnRow, [Next]_vars
    PROVE  OwnRow'
<1>. USE KindsDisjoint DEF Undisturbed, TypeOK, DownIsIdle, OwnRow, proc, job, InFlight,
         Working, Down, Jobs
<1>1. ASSUME NEW k \in Jobs, Request(k) PROVE OwnRow'
    BY <1>1 DEF Request, Goto
<1>2. ASSUME NEW k \in Jobs, Fire(k) PROVE OwnRow'
    BY <1>2 DEF Fire, Goto
<1>3. ASSUME NEW k \in Jobs, Invoke(k) PROVE OwnRow'
    BY <1>3 DEF Invoke, Goto
<1>4. ASSUME NEW k \in Jobs, Background(k) PROVE OwnRow'
    BY <1>4 DEF Background, Goto
<1>5. ASSUME NEW k \in Jobs, StartRun(k) PROVE OwnRow'
    BY <1>5 DEF StartRun, OpenRow, Refused, Goto
<1>6. ASSUME NEW k \in Jobs, Token(k) PROVE OwnRow'
    BY <1>6 DEF Token
<1>7. ASSUME NEW k \in Jobs, Disconnect(k) PROVE OwnRow'
    BY <1>7 DEF Disconnect
<1>8. ASSUME NEW k \in Jobs, KillCli(k) PROVE OwnRow'
    BY <1>8 DEF KillCli, Goto
<1>9. ASSUME NEW k \in Jobs, Answer(k) PROVE OwnRow'
    BY <1>9 DEF Answer, Goto
<1>10. ASSUME NEW k \in Jobs, FinishError(k) PROVE OwnRow'
    BY <1>10 DEF FinishError, FinishRun, Refused, Goto, Verdict, TeamVerdict
<1>11. ASSUME NEW k \in Jobs, FinishOk(k) PROVE OwnRow'
    BY <1>11 DEF FinishOk, FinishRun, Refused, Goto
<1>12. ASSUME NEW k \in Jobs, OnSuccess(k) PROVE OwnRow'
    BY <1>12 DEF OnSuccess, Save, Refused, Goto
<1>13. ASSUME NEW k \in Jobs, WriteFiles(k) PROVE OwnRow'
    BY <1>13 DEF WriteFiles, Save, Goto
<1>14. ASSUME NEW k \in Jobs, CreateInboxItem(k) PROVE OwnRow'
    BY <1>14 DEF CreateInboxItem, Save, Refused, Goto
<1>15. ASSUME NEW k \in Jobs, NextPass(k) PROVE OwnRow'
    BY <1>15 DEF NextPass, Save, Refused, Goto
<1>16. ASSUME NEW k \in Jobs, UpdateProjectDoc(k) PROVE OwnRow'
    BY <1>16 DEF UpdateProjectDoc, Save, Refused, Goto
<1>17. ASSUME NEW k \in Jobs, FinishTeam(k) PROVE OwnRow'
    BY <1>17 DEF FinishTeam, FinishRun, Refused, Goto
<1>18. CASE Boot
    BY <1>18 DEF Boot
<1>19. CASE Start
    BY <1>19 DEF Start, ReapOrphanedRuns
<1>20. CASE RivalStart
    BY <1>20 DEF RivalStart, ReapOrphanedRuns
<1>21. CASE Signal
    BY <1>21 DEF Signal
<1>22. CASE GraceExpires
    BY <1>22 DEF GraceExpires
<1>23. CASE ShutdownReturns
    BY <1>23 DEF ShutdownReturns
<1>24. CASE WaitReturns
    BY <1>24 DEF WaitReturns
<1>25. CASE Stop
    BY <1>25 DEF Stop, Exit
<1>26. CASE Crash
    BY <1>26 DEF Crash, Exit
<1>27. CASE UNCHANGED vars
    BY <1>27 DEF vars
<1>. QED
    BY <1>1, <1>2, <1>3, <1>4, <1>5, <1>6, <1>7, <1>8, <1>9, <1>10, <1>11, <1>12, <1>13, <1>14, <1>15, <1>16, <1>17, <1>18, <1>19, <1>20, <1>21, <1>22, <1>23, <1>24, <1>25, <1>26, <1>27
    DEF Next, Begin, Step, Environment, Winddown

LEMMA RecordInvariant == ASSUME Undisturbed PROVE Spec => []RecordInv
<1>1. Init => RecordInv
    BY InitHolds DEF Init, RecordInv, JobInv, OwnerInv, OwnRow
<1>2. RecordInv /\ [Next]_vars => RecordInv'
    BY TypeStep, DownStep, RowStep, SavesStep, OwnRowStep DEF RecordInv
<1>. QED
    BY <1>1, <1>2, PTL DEF Spec

LEMMA RecordStep ==
    ASSUME Undisturbed, RecordInv, [Next]_vars
    PROVE  [Record!Next]_<<row, {j \in Jobs : "inbox" \in saved[j]}>>
<1>. DEFINE Goal == [Record!Next]_<<row, {j \in Jobs : "inbox" \in saved[j]}>>
<1>. USE KindsDisjoint DEF Undisturbed, RecordInv, TypeOK, DownIsIdle, RowFollowsJob,
         SavesInOrder, OwnRow, proc, job, InFlight, Working, Down, Terminal, Reporters,
         Record!Next, Record!Open, Record!Close, Record!Sweep, Record!Report,
         Record!Closing
<1>1. ASSUME NEW k \in Jobs, Request(k) PROVE Goal
    BY <1>1 DEF Request, Goto
<1>2. ASSUME NEW k \in Jobs, Fire(k) PROVE Goal
    BY <1>2 DEF Fire, Goto
<1>3. ASSUME NEW k \in Jobs, Invoke(k) PROVE Goal
    BY <1>3 DEF Invoke, Goto
<1>4. ASSUME NEW k \in Jobs, Background(k) PROVE Goal
    BY <1>4 DEF Background, Goto
<1>5. ASSUME NEW k \in Jobs, StartRun(k) PROVE Goal
    BY <1>5 DEF StartRun, OpenRow, Refused, Goto
<1>6. ASSUME NEW k \in Jobs, Token(k) PROVE Goal
    BY <1>6 DEF Token
<1>7. ASSUME NEW k \in Jobs, Disconnect(k) PROVE Goal
    BY <1>7 DEF Disconnect
<1>8. ASSUME NEW k \in Jobs, KillCli(k) PROVE Goal
    BY <1>8 DEF KillCli, Goto
<1>9. ASSUME NEW k \in Jobs, Answer(k) PROVE Goal
    BY <1>9 DEF Answer, Goto
<1>10. ASSUME NEW k \in Jobs, FinishError(k) PROVE Goal
    BY <1>10 DEF FinishError, FinishRun, Refused, Goto, Verdict, TeamVerdict
<1>11. ASSUME NEW k \in Jobs, FinishOk(k) PROVE Goal
    BY <1>11 DEF FinishOk, FinishRun, Refused, Goto
<1>12. ASSUME NEW k \in Jobs, OnSuccess(k) PROVE Goal
    BY <1>12 DEF OnSuccess, Save, Refused, Goto
<1>13. ASSUME NEW k \in Jobs, WriteFiles(k) PROVE Goal
    BY <1>13 DEF WriteFiles, Save, Goto
<1>14. ASSUME NEW k \in Jobs, CreateInboxItem(k) PROVE Goal
    BY <1>14 DEF CreateInboxItem, Save, Refused, Goto
<1>15. ASSUME NEW k \in Jobs, NextPass(k) PROVE Goal
    BY <1>15 DEF NextPass, Save, Refused, Goto
<1>16. ASSUME NEW k \in Jobs, UpdateProjectDoc(k) PROVE Goal
    BY <1>16 DEF UpdateProjectDoc, Save, Refused, Goto
<1>17. ASSUME NEW k \in Jobs, FinishTeam(k) PROVE Goal
    BY <1>17 DEF FinishTeam, FinishRun, Refused, Goto
<1>18. CASE Boot
    BY <1>18 DEF Boot
<1>19. CASE Start
  <2>. DEFINE Orphans == {r \in Jobs : row[r] = "running"}
  <2>1. row' = [r \in Jobs |-> IF r \in Orphans THEN "failed" ELSE row[r]]
    BY <1>19 DEF Start, ReapOrphanedRuns
  <2>2. saved' = saved /\ Orphans \in SUBSET Orphans
    BY <1>19 DEF Start
  <2>3. Record!Sweep
    BY <2>1, <2>2 DEF Record!Sweep
  <2>. QED
    BY <2>3 DEF Record!Next
<1>20. CASE RivalStart
    BY <1>20 DEF RivalStart, ReapOrphanedRuns
<1>21. CASE Signal
    BY <1>21 DEF Signal
<1>22. CASE GraceExpires
    BY <1>22 DEF GraceExpires
<1>23. CASE ShutdownReturns
    BY <1>23 DEF ShutdownReturns
<1>24. CASE WaitReturns
    BY <1>24 DEF WaitReturns
<1>25. CASE Stop
    BY <1>25 DEF Stop, Exit
<1>26. CASE Crash
    BY <1>26 DEF Crash, Exit
<1>27. CASE UNCHANGED vars
    BY <1>27 DEF vars
<1>. QED
    BY <1>1, <1>2, <1>3, <1>4, <1>5, <1>6, <1>7, <1>8, <1>9, <1>10, <1>11, <1>12, <1>13, <1>14, <1>15, <1>16, <1>17, <1>18, <1>19, <1>20, <1>21, <1>22, <1>23, <1>24, <1>25, <1>26, <1>27
    DEF Next, Begin, Step, Environment, Winddown

\* Undisturbed, the jobs implement the record the history pages rely on: a row
\* opens, closes once and for good, and only an ok row has a report.
THEOREM RecordRefined == ASSUME Undisturbed PROVE Spec => ImplementsRecord
<1>1. Init => Record!Init
    BY DEF Init, Record!Init
<1>2. RecordInv /\ [Next]_vars => [Record!Next]_<<row, {j \in Jobs : "inbox" \in saved[j]}>>
    BY RecordStep
<1>. QED
    BY <1>1, <1>2, RecordInvariant, PTL DEF Spec, ImplementsRecord, Record!Spec

\* Undisturbed, the status a run ended with is never overwritten.
THEOREM TerminalFinal == ASSUME Undisturbed PROVE Spec => TerminalIsFinal
<1>1. RecordInv /\ [Next]_vars =>
          [\A j \in Jobs : row[j] \in Terminal => row'[j] = row[j]]_vars
  <2>. SUFFICES ASSUME RecordInv, [Next]_vars, NEW j \in Jobs, row[j] \in Terminal
                PROVE  row'[j] = row[j]
    OBVIOUS
  <2>1. [Record!Next]_<<row, {i \in Jobs : "inbox" \in saved[i]}>>
    BY RecordStep
  <2>2. CASE Record!Sweep
    BY <2>2 DEF Record!Sweep, Terminal
  <2>3. ASSUME NEW r \in Jobs, Record!Open(r) \/ Record!Close(r) \/ Record!Report(r)
        PROVE  row'[j] = row[j]
    BY <2>3 DEF RecordInv, TypeOK, Record!Open, Record!Close, Record!Report, Terminal
  <2>. QED
    BY <2>1, <2>2, <2>3 DEF Record!Next
<1>. QED
    BY <1>1, RecordInvariant, PTL DEF Spec, TerminalIsFinal


-----------------------------------------------------------------------------
(* The scheduler.                                                            *)

\* Applying a snapshot leaves exactly its schedule, whatever the entries were:
\* the incremental drop and add agree with the declarative Entry.
LEMMA ApplyAdopts ==
    ASSUME SchedulerType, Apply, NEW a \in Agents
    PROVE  Scheduled(a)' = Entry(snapshot[a])
<1>. USE NoneIsNothing DEF SchedulerType, Apply, Scheduled, Entry
<1>1. CASE a \in Added
  <2>1. ids'[a] = [cron |-> snapshot[a].cron, born |-> born]
    BY <1>1
  <2>2. ids'[a] # None /\ snapshot[a].cron \in Valid
    BY <1>1, <2>1 DEF Added
  <2>. QED
    BY <1>1, <2>1, <2>2 DEF Added
<1>2. CASE a \notin Added /\ a \in Dropped
  <2>1. ids'[a] = None
    BY <1>2
  <2>. QED
    BY <1>2, <2>1 DEF Added
<1>3. CASE a \notin Added /\ a \notin Dropped /\ ids[a] = None
    BY <1>3 DEF Added
<1>4. CASE a \notin Dropped /\ ids[a] # None
  <2>1. a \notin Added /\ ids'[a] = ids[a]
    BY <1>4 DEF Added
  <2>. QED
    BY <1>4, <2>1 DEF Dropped, Kept
<1>. QED
    BY <1>1, <1>2, <1>3, <1>4

LEMMA SchedulerTypeInit == SchedulerInit => SchedulerType
<1>. SUFFICES ASSUME SchedulerInit PROVE SchedulerType
    OBVIOUS
<1>1. edits \in 0..MaxEdits
    BY EditsType DEF SchedulerInit
<1>2. snapshot \in [Agents -> Row \cup {None}]
    BY DEF SchedulerInit
<1>3. ids \in [Agents -> [cron : Valid, born : Nat] \cup {None}]
    BY DEF SchedulerInit
<1>. QED
    BY <1>1, <1>2, <1>3 DEF SchedulerInit, SchedulerType

LEMMA SchedulerTypeStep == SchedulerType /\ [SchedulerNext]_schedulerVars => SchedulerType'
<1>. SUFFICES ASSUME SchedulerType, [SchedulerNext]_schedulerVars PROVE SchedulerType'
    OBVIOUS
<1>. USE DEF SchedulerType, schedule
<1>1. ASSUME NEW a \in Agents, CreateAgent(a) PROVE SchedulerType'
    BY <1>1 DEF CreateAgent
<1>2. ASSUME NEW a \in Agents, Reload(a) PROVE SchedulerType'
    BY <1>2 DEF Reload
<1>3. ASSUME NEW a \in Agents, Edit(a) PROVE SchedulerType'
  <2>1. edits' \in 0..MaxEdits
    BY <1>3, EditsType DEF Edit
  <2>2. table' \in [Agents -> Row \cup {None}]
    BY <1>3 DEF Edit
  <2>. QED
    BY <1>3, <2>1, <2>2 DEF Edit
<1>4. CASE Wake
    BY <1>4 DEF Wake
<1>5. CASE Tick
    BY <1>5 DEF Tick
<1>6. CASE LoopExits
    BY <1>6 DEF LoopExits
<1>7. CASE ListAgents
    BY <1>7 DEF ListAgents
<1>8. CASE ListAgentsFails
    BY <1>8 DEF ListAgentsFails
<1>9. CASE Apply
  <2>1. ids' \in [Agents -> [cron : Valid, born : Nat] \cup {None}]
    BY <1>9 DEF Apply, Added, Entry
  <2>2. \A a \in Added : snapshot[a] \in Row /\ snapshot[a].cron \in Valid
    BY NoneIsNothing DEF Added, Entry, Wanted
  <2>3. entries' \in SUBSET [agent : Agents, cron : Valid, prompt : Prompts, born : Nat]
    BY <1>9, <2>2 DEF Apply, Remaining, Added, Row
  <2>4. born' \in Nat
    BY <1>9 DEF Apply
  <2>. QED
    BY <1>9, <2>1, <2>3, <2>4 DEF Apply
<1>10. CASE StopScheduler
    BY <1>10 DEF StopScheduler
<1>11. CASE UNCHANGED schedulerVars
    BY <1>11 DEF schedulerVars
<1>. QED
    BY <1>1, <1>2, <1>3, <1>4, <1>5, <1>6, <1>7, <1>8, <1>9, <1>10, <1>11 DEF SchedulerNext, Sync

\* The variables of the scheduler keep their types.
THEOREM SchedulerTypeCorrect == SchedulerSpec => []SchedulerType
<1>1. SchedulerType /\ [SchedulerNext]_schedulerVars => SchedulerType'
    BY SchedulerTypeStep
<1>. QED
    BY <1>1, SchedulerTypeInit, PTL DEF SchedulerSpec

-----------------------------------------------------------------------------
\* No committed row is overlooked: it has been read, or the loop is on its way
\* to read it, or only the ticker can know of it.
THEOREM WakeupsKept == SchedulerSpec => []NoLostWakeup
<1>1. SchedulerInit => NoLostWakeup
    BY DEF SchedulerInit, NoLostWakeup
<1>2. SchedulerType /\ NoLostWakeup /\ [SchedulerNext]_schedulerVars => NoLostWakeup'
  <2>. SUFFICES ASSUME SchedulerType, NoLostWakeup, [SchedulerNext]_schedulerVars PROVE NoLostWakeup'
    OBVIOUS
  <2>. USE DEF SchedulerType, NoLostWakeup, schedule
  <2>1. ASSUME NEW a \in Agents, CreateAgent(a) PROVE NoLostWakeup'
    BY <2>1 DEF CreateAgent
  <2>2. ASSUME NEW a \in Agents, Reload(a) PROVE NoLostWakeup'
    BY <2>2 DEF Reload
  <2>3. ASSUME NEW a \in Agents, Edit(a) PROVE NoLostWakeup'
    BY <2>3 DEF Edit
  <2>4. CASE Wake
    BY <2>4 DEF Wake
  <2>5. CASE Tick
    BY <2>5 DEF Tick
  <2>6. CASE LoopExits
    BY <2>6 DEF LoopExits
  <2>7. CASE ListAgents
    BY <2>7 DEF ListAgents
  <2>8. CASE ListAgentsFails
    BY <2>8 DEF ListAgentsFails
  <2>9. CASE Apply
    BY <2>9 DEF Apply
  <2>10. CASE StopScheduler
    BY <2>10 DEF StopScheduler
  <2>11. CASE UNCHANGED schedulerVars
    BY <2>11 DEF schedulerVars
  <2>. QED
    BY <2>1, <2>2, <2>3, <2>4, <2>5, <2>6, <2>7, <2>8, <2>9, <2>10, <2>11 DEF SchedulerNext, Sync
<1>. QED
    BY <1>1, <1>2, SchedulerTypeCorrect, PTL DEF SchedulerSpec

-----------------------------------------------------------------------------
\* Between two syncs sc.ids is that of the table as it was last read.
LEMMA IdsAlwaysFollow == SchedulerSpec => []IdsFollow
<1>1. SchedulerInit => IdsFollow
    BY DEF SchedulerInit, IdsFollow
<1>2. SchedulerType /\ IdsFollow /\ [SchedulerNext]_schedulerVars => IdsFollow'
  <2>. SUFFICES ASSUME SchedulerType, IdsFollow, [SchedulerNext]_schedulerVars PROVE IdsFollow'
    OBVIOUS
  <2>1. CASE Apply
    BY <2>1, ApplyAdopts DEF IdsFollow, Apply, Scheduled, Entry, Wanted
  <2>2. CASE ListAgents
    BY <2>2 DEF IdsFollow, ListAgents
  <2>3. CASE ListAgentsFails \/ Wake \/ Tick \/ LoopExits \/ UNCHANGED schedulerVars
    BY <2>3 DEF IdsFollow, ListAgentsFails, Wake, Tick, LoopExits, schedulerVars, schedule,
                Scheduled, Entry, Wanted
  <2>4. CASE StopScheduler \/ \E a \in Agents : CreateAgent(a) \/ Reload(a) \/ Edit(a)
    BY <2>4 DEF IdsFollow, StopScheduler, CreateAgent, Reload, Edit, schedule,
                Scheduled, Entry, Wanted
  <2>. QED
    BY <2>1, <2>2, <2>3, <2>4 DEF SchedulerNext, Sync
<1>. QED
    BY <1>1, <1>2, SchedulerTypeCorrect, PTL DEF SchedulerSpec

-----------------------------------------------------------------------------
\* The cron runner never holds an entry that sc.ids does not know, nor two for
\* one agent.
THEOREM EntriesMatch == SchedulerSpec => []EntriesMatchIds
<1>1. SchedulerInit => EntriesMatchIds
    BY DEF SchedulerInit, EntriesMatchIds
<1>2. SchedulerType /\ EntriesMatchIds /\ [SchedulerNext]_schedulerVars => EntriesMatchIds'
  <2>. SUFFICES ASSUME SchedulerType, EntriesMatchIds, [SchedulerNext]_schedulerVars PROVE EntriesMatchIds'
    OBVIOUS
  <2>1. CASE Apply
    <3>. SUFFICES ASSUME NEW a \in Agents
                  PROVE  LET mine == {e \in entries' : e.agent = a} IN
                         IF ids'[a] = None THEN mine = {}
                         ELSE \E e \in mine : /\ mine = {e}
                                              /\ e.cron = ids'[a].cron
                                              /\ e.born = ids'[a].born
      BY DEF EntriesMatchIds
    <3>. DEFINE new == [agent |-> a, cron |-> snapshot[a].cron,
                        prompt |-> snapshot[a].prompt, born |-> born]
                mine == {e \in entries' : e.agent = a}
    <3>1. mine = {e \in Remaining : e.agent = a} \cup (IF a \in Added THEN {new} ELSE {})
      BY <2>1 DEF Apply
    <3>2. ids[a] = None \/ a \in Dropped => {e \in Remaining : e.agent = a} = {}
      BY DEF EntriesMatchIds, Remaining, Dropped
    <3>3. CASE a \in Added
      <4>1. mine = {new}
        BY <3>1, <3>2, <3>3 DEF Added
      <4>2. ids'[a] = [cron |-> snapshot[a].cron, born |-> born]
        BY <2>1, <3>3 DEF Apply
      <4>3. snapshot[a].cron \in Valid /\ born \in Nat
        BY NoneIsNothing, <3>3 DEF Added, Entry, SchedulerType
      <4>4. ids'[a] # None
        BY <4>2, <4>3, NoneIsNothing
      <4>5. new \in mine /\ new.cron = ids'[a].cron /\ new.born = ids'[a].born
        BY <4>1, <4>2
      <4>. QED
        BY <4>1, <4>4, <4>5
    <3>4. CASE a \notin Added /\ (ids[a] = None \/ a \in Dropped)
      <4>1. ids'[a] = None /\ mine = {}
        BY <2>1, <3>1, <3>2, <3>4 DEF Apply
      <4>. QED
        BY <4>1
    <3>5. CASE a \notin Added /\ ids[a] # None /\ a \notin Dropped
      <4>1. ids'[a] = ids[a]
        BY <2>1, <3>5 DEF Apply
      <4>2. mine = {e \in entries : e.agent = a}
        BY <3>1, <3>5 DEF Remaining
      <4>. QED
        BY <4>1, <4>2, <3>5 DEF EntriesMatchIds
    <3>. QED
      BY <3>3, <3>4, <3>5
  <2>2. CASE UNCHANGED schedule
    BY <2>2 DEF EntriesMatchIds, schedule
  <2>. QED
    BY <2>1, <2>2 DEF SchedulerNext, Sync, CreateAgent, Reload, Edit, Wake, Tick, LoopExits,
       ListAgents, ListAgentsFails, StopScheduler, schedulerVars, schedule
<1>. QED
    BY <1>1, <1>2, SchedulerTypeCorrect, PTL DEF SchedulerSpec

-----------------------------------------------------------------------------
\* Between two syncs the entries of the runner are those of the table as it was
\* last read, and at any time those sc.ids knows.
THEOREM ScheduleFollows == SchedulerSpec => []FollowsSnapshot
<1>1. EntriesMatchIds /\ IdsFollow => FollowsSnapshot
    BY DEF FollowsSnapshot
<1>. QED
    BY <1>1, IdsAlwaysFollow, EntriesMatch, PTL
=============================================================================
