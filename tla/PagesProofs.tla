----------------------------- MODULE PagesProofs -----------------------------
(***************************************************************************)
(* Machine-checked proofs about three parts of the pages, which share no    *)
(* state: Promote, Inbox and Stack.                                         *)
(***************************************************************************)
EXTENDS Promote, Inbox, Stack, FiniteSetTheorems, SequenceTheorems, WellFoundedInduction, TLAPS

-----------------------------------------------------------------------------
(* Promotion, for any ideas, requests and candidates.                       *)

\* Table: the rows that are there stay what and where they are.
Grown ==
    /\ Len(projects) <= Len(projects)'
    /\ \A n \in Ids : n \in Ids' /\ projects'[n] = projects[n]
    /\ \A n \in Ids' : n > Len(projects) \/ n \in Ids

\* An insert appends one row behind all the others.
LEMMA Inserted ==
    ASSUME TypeOK, NEW slug \in Slugs, NEW idea \in Ideas \cup {None}, Insert(slug, idea)
    PROVE  /\ projects' \in Seq(Project) /\ Grown
           /\ Len(projects) + 1 \in Ids'
           /\ projects'[Len(projects) + 1] = [slug |-> slug, idea |-> idea]
<1>1. [slug |-> slug, idea |-> idea] \in Project
    BY DEF Project
<1>2. projects \in Seq(Project) /\ projects' = Append(projects, [slug |-> slug, idea |-> idea])
    BY DEF Insert, TypeOK
<1>. QED
    BY <1>1, <1>2 DEF Grown, Ids

LEMMA Unmoved == ASSUME TypeOK, UNCHANGED projects PROVE projects' \in Seq(Project) /\ Grown
    BY DEF TypeOK, Grown, Ids

\* The slug a request would insert is one of the candidates.
LEMMA SlugIsCandidate ==
    ASSUME TypeOK, NEW p \in Webs, pc[p] # "idle"
    PROVE  Slug(p) \in Slugs
<1>1. want[p] \in Ideas /\ k[p] \in DOMAIN Candidates[want[p]]
    BY DEF TypeOK
<1>. QED
    BY <1>1 DEF Slug, Slugs

LEMMA FirstIsNotLast ==
    ASSUME NEW i \in Ideas
    PROVE  1 \in DOMAIN Candidates[i] /\ 1 < Len(Candidates[i])
<1>1. Candidates[i] \in Seq(STRING) /\ Len(Candidates[i]) > 1
    BY CandidatesType
<1>2. DOMAIN Candidates[i] = 1..Len(Candidates[i]) /\ Len(Candidates[i]) \in Nat
    BY <1>1
<1>. QED
    BY <1>1, <1>2

LEMMA FirstIsCandidate == ASSUME NEW i \in Ideas PROVE Candidates[i][1] \in Slugs
    BY FirstIsNotLast DEF Slugs

\* Every step keeps the rows of the table.
LEMMA TableGrows == TypeOK /\ [Next]_vars => projects' \in Seq(Project) /\ Grown
<1>. SUFFICES ASSUME TypeOK, [Next]_vars PROVE projects' \in Seq(Project) /\ Grown
    OBVIOUS
<1>1. ASSUME NEW p \in Webs, CreateProject(p) PROVE projects' \in Seq(Project) /\ Grown
  <2>1. want[p] \in Ideas /\ Slug(p) \in Slugs /\ Insert(Slug(p), want[p])
    BY <1>1, SlugIsCandidate DEF CreateProject, TypeOK
  <2>. QED
    BY <2>1, Inserted
<1>2. ASSUME NEW i \in Ideas, PromoteFromCLI(i) PROVE projects' \in Seq(Project) /\ Grown
    BY <1>2, FirstIsCandidate, Inserted DEF PromoteFromCLI
<1>3. ASSUME NEW slug \in Slugs, CreateFromForm(slug) PROVE projects' \in Seq(Project) /\ Grown
    BY <1>3, Inserted DEF CreateFromForm
<1>4. ASSUME NEW p \in Webs, ProjectByIdea(p) \/ ProjectBySlug(p) \/ CreateRefused(p)
      PROVE  UNCHANGED projects
    BY <1>4 DEF ProjectByIdea, ProjectBySlug, CreateRefused
<1>5. ASSUME NEW p \in Webs, NEW i \in Ideas, Begin(p, i) PROVE UNCHANGED projects
    BY <1>5 DEF Begin
<1>6. CASE UNCHANGED vars
    BY <1>6, Unmoved DEF vars
<1>. QED
    BY <1>1, <1>2, <1>3, <1>4, <1>5, <1>6, Unmoved DEF Next, Serve

-----------------------------------------------------------------------------
LEMMA TypeInit == Init => TypeOK
    BY DEF Init, TypeOK, Project

LEMMA TypeStep == TypeOK /\ [Next]_vars => TypeOK'
<1>. SUFFICES ASSUME TypeOK, [Next]_vars PROVE TypeOK'
    OBVIOUS
<1>0. projects' \in Seq(Project)
    BY TableGrows
<1>00. Len(projects) \in Nat
    BY DEF TypeOK
<1>. USE <1>0, <1>00 DEF TypeOK, Goto, history
<1>1. ASSUME NEW p \in Webs, NEW i \in Ideas, Begin(p, i) PROVE TypeOK'
  <2>1. 1 \in DOMAIN Candidates[i] /\ 1 < Len(Candidates[i])
    BY FirstIsNotLast
  <2>2. ASSUME NEW q \in Webs, pc'[q] # "idle"
        PROVE  /\ want'[q] \in Ideas /\ k'[q] \in DOMAIN Candidates[want'[q]]
               /\ pc'[q] \in {"check", "probe"} => k'[q] < Len(Candidates[want'[q]])
    BY <1>1, <2>1, <2>2 DEF Begin
  <2>3. /\ want' \in [Webs -> Ideas \cup {None}] /\ k' \in [Webs -> Nat]
        /\ answer' \in [Webs -> Nat] /\ checked' \in [Webs -> Nat]
    BY <1>1 DEF Begin
  <2>4. /\ pc' \in [Webs -> {"idle", "check", "probe", "insert", "redirected", "failed"}]
        /\ probed' \in [Webs -> Nat] /\ flaky' \in [Webs -> BOOLEAN]
    BY <1>1 DEF Begin
  <2>. QED
    BY <2>2, <2>3, <2>4
<1>2. ASSUME NEW p \in Webs, ProjectByIdea(p) PROVE TypeOK'
  <2>1. FromIdea(want[p]) \subseteq Nat
    BY DEF FromIdea, Ids
  <2>2. want' = want /\ k' = k /\ probed' = probed
    BY <1>2 DEF ProjectByIdea
  <2>3. checked' \in [Webs -> Nat] /\ answer' \in [Webs -> Nat] /\ flaky' \in [Webs -> BOOLEAN]
    <3>1. checked' = [checked EXCEPT ![p] = Len(projects)]
        BY <1>2 DEF ProjectByIdea
    <3>2. answer' = answer \/ \E n \in Nat : answer' = [answer EXCEPT ![p] = n]
        BY <1>2, <2>1 DEF ProjectByIdea
    <3>3. flaky' = flaky \/ flaky' = [flaky EXCEPT ![p] = TRUE]
        BY <1>2 DEF ProjectByIdea
    <3>4. checked' \in [Webs -> Nat]
        BY <3>1
    <3>5. answer' \in [Webs -> Nat]
        BY <3>2
    <3>6. flaky' \in [Webs -> BOOLEAN]
        BY <3>3
    <3>. QED
        BY <3>4, <3>5, <3>6
  <2>4. /\ pc[p] = "check"
        /\ pc' = [pc EXCEPT ![p] = "redirected"] \/ pc' = [pc EXCEPT ![p] = "probe"]
    BY <1>2 DEF ProjectByIdea
  <2>5. pc' \in [Webs -> {"idle", "check", "probe", "insert", "redirected", "failed"}]
    BY <2>4
  <2>6. \A q \in Webs : /\ pc'[q] # "idle" => pc[q] # "idle"
                        /\ pc'[q] \in {"check", "probe"} => pc[q] \in {"check", "probe"}
    BY <2>4
  <2>7. /\ want' \in [Webs -> Ideas \cup {None}] /\ k' \in [Webs -> Nat]
        /\ probed' \in [Webs -> Nat]
    BY <2>2
  <2>8. \A q \in Webs :
            /\ pc'[q] # "idle" => want'[q] \in Ideas /\ k'[q] \in DOMAIN Candidates[want'[q]]
            /\ pc'[q] \in {"check", "probe"} => k'[q] < Len(Candidates[want'[q]])
    <3>1. \A q \in Webs :
              /\ pc[q] # "idle" => want[q] \in Ideas /\ k[q] \in DOMAIN Candidates[want[q]]
              /\ pc[q] \in {"check", "probe"} => k[q] < Len(Candidates[want[q]])
        OBVIOUS
    <3>. HIDE DEF TypeOK
    <3>. QED
        BY <2>2, <2>6, <3>1
  <2>. QED
    BY <2>3, <2>5, <2>7, <2>8
<1>3. ASSUME NEW p \in Webs, ProjectBySlug(p) PROVE TypeOK'
  <2>1. k' \in [Webs -> Nat] /\ want' = want /\ answer' = answer /\ checked' = checked
    <3>1. want' = want /\ answer' = answer /\ checked' = checked
        BY <1>3 DEF ProjectBySlug
    <3>2. k' = k \/ k' = [k EXCEPT ![p] = @ + 1]
        BY <1>3 DEF ProjectBySlug
    <3>3. k \in [Webs -> Nat]
        OBVIOUS
    <3>. HIDE DEF TypeOK
    <3>4. k' \in [Webs -> Nat]
        BY <3>2, <3>3
    <3>. QED
        BY <3>1, <3>4
  <2>2. probed' \in [Webs -> Nat] /\ flaky' \in [Webs -> BOOLEAN]
    <3>1. probed' = probed \/ probed' = [probed EXCEPT ![p] = Len(projects)]
        BY <1>3 DEF ProjectBySlug
    <3>2. flaky' = flaky \/ flaky' = [flaky EXCEPT ![p] = TRUE]
        BY <1>3 DEF ProjectBySlug
    <3>3. probed' \in [Webs -> Nat]
        BY <3>1
    <3>4. flaky' \in [Webs -> BOOLEAN]
        BY <3>2
    <3>. QED
        BY <3>3, <3>4
  <2>3. pc' \in [Webs -> {"idle", "check", "probe", "insert", "redirected", "failed"}]
    <3>1. pc' = [pc EXCEPT ![p] = "insert"] \/ pc' = [pc EXCEPT ![p] = "probe"]
        BY <1>3 DEF ProjectBySlug
    <3>. QED
        BY <3>1
  <2>4. ASSUME NEW q \in Webs, pc'[q] # "idle"
        PROVE  /\ want'[q] \in Ideas /\ k'[q] \in DOMAIN Candidates[want'[q]]
               /\ pc'[q] \in {"check", "probe"} => k'[q] < Len(Candidates[want'[q]])
    <3>1. CASE q # p
        BY <1>3, <2>4, <3>1 DEF ProjectBySlug
    <3>2. CASE q = p
      <4>1. /\ want[p] \in Ideas /\ k[p] \in DOMAIN Candidates[want[p]]
            /\ k[p] < Len(Candidates[want[p]]) /\ k[p] \in Nat
        BY <1>3 DEF ProjectBySlug
      <4>2. /\ DOMAIN Candidates[want[p]] = 1..Len(Candidates[want[p]])
            /\ Len(Candidates[want[p]]) \in Nat
        BY <4>1, CandidatesType
      <4>3. \/ pc'[p] = "insert" /\ k'[p] \in {k[p], k[p] + 1}
            \/ pc'[p] = "probe" /\ k'[p] = k[p] + 1 /\ k[p] + 1 < Len(Candidates[want[p]])
        BY <1>3 DEF ProjectBySlug
      <4>. QED
        BY <2>1, <3>2, <4>1, <4>2, <4>3
    <3>. QED
        BY <3>1, <3>2
  <2>. QED
    BY <2>1, <2>2, <2>3, <2>4
<1>4. ASSUME NEW p \in Webs, CreateProject(p) PROVE TypeOK'
    BY <1>4 DEF CreateProject
<1>5. ASSUME NEW p \in Webs, CreateRefused(p) PROVE TypeOK'
    BY <1>5 DEF CreateRefused
<1>6. ASSUME NEW i \in Ideas, PromoteFromCLI(i) PROVE TypeOK'
    BY <1>6 DEF PromoteFromCLI
<1>7. ASSUME NEW slug \in Slugs, CreateFromForm(slug) PROVE TypeOK'
    BY <1>7 DEF CreateFromForm
<1>8. CASE UNCHANGED vars
    BY <1>8 DEF vars
<1>. QED
    BY <1>1, <1>2, <1>3, <1>4, <1>5, <1>6, <1>7, <1>8 DEF Next, Serve

\* The table and the requests keep their types, and a request stays within its
\* candidates.
THEOREM TypeCorrect == Spec => []TypeOK
<1>1. TypeOK /\ [Next]_vars => TypeOK'
    BY TypeStep
<1>. QED
    BY <1>1, TypeInit, PTL DEF Spec

-----------------------------------------------------------------------------
\* What the requests know of the table.  A request between its look and its
\* insert found every project of its idea that was stored before the look.
LookedUp(p) ==
    pc[p] \in {"probe", "insert"} /\ ~flaky[p] =>
        checked[p] <= Len(projects) /\ \A n \in FromIdea(want[p]) : n > checked[p]

\* A request behind its probe has the last candidate, or one that was free.
FoundFree(p) ==
    pc[p] \in {"insert", "failed"} /\ ~flaky[p] =>
        \/ k[p] = Len(Candidates[want[p]])
        \/ /\ probed[p] <= Len(projects)
           /\ \A n \in Ids : projects[n].slug = Slug(p) => n > probed[p]

Redirected(p) ==
    pc[p] = "redirected" => answer[p] \in Ids /\ projects[answer[p]].idea = want[p]

Refused(p) ==
    pc[p] = "failed" /\ ~flaky[p] =>
        \/ k[p] = Len(Candidates[want[p]])
        \/ \E n \in Ids : n > probed[p] /\ projects[n].slug = Slug(p)

Knows(p) == LookedUp(p) /\ FoundFree(p) /\ Redirected(p) /\ Refused(p)
RequestInv == \A p \in Webs : Knows(p)

\* A request that does not move keeps what it knows while the table grows.
LEMMA KnowledgeKept ==
    ASSUME TypeOK, Grown, NEW p \in Webs, Knows(p),
           pc'[p] = pc[p], want'[p] = want[p], k'[p] = k[p], answer'[p] = answer[p],
           checked'[p] = checked[p], probed'[p] = probed[p], flaky'[p] = flaky[p]
    PROVE  Knows(p)'
<1>. USE DEF Grown, Knows
<1>0. /\ Len(projects) \in Nat /\ Len(projects') \in Nat
      /\ checked[p] \in Nat /\ probed[p] \in Nat
      /\ Ids \subseteq Nat /\ Ids' \subseteq Nat
    BY DEF TypeOK, Ids
<1>1. LookedUp(p)'
  <2>. SUFFICES ASSUME pc[p] \in {"probe", "insert"}, ~flaky[p]
                PROVE  /\ checked[p] <= Len(projects')
                       /\ \A n \in Ids' : projects'[n].idea = want[p] => n > checked[p]
    BY DEF LookedUp, FromIdea
  <2>1. checked[p] <= Len(projects) /\ \A n \in FromIdea(want[p]) : n > checked[p]
    BY DEF LookedUp
  <2>2. ASSUME NEW n \in Ids', projects'[n].idea = want[p] PROVE n > checked[p]
    <3>1. CASE n \in Ids
        BY <2>1, <2>2, <3>1 DEF FromIdea
    <3>2. CASE n > Len(projects)
        BY <1>0, <2>1, <3>2
    <3>. QED
        BY <3>1, <3>2
  <2>3. checked[p] <= Len(projects')
    BY <1>0, <2>1
  <2>. QED
    BY <2>2, <2>3
<1>2. Slug(p)' = Slug(p)
    BY DEF Slug
<1>3. FoundFree(p)'
    BY <1>0, <1>2 DEF FoundFree
<1>4. Redirected(p)'
    BY DEF Redirected
<1>5. Refused(p)'
    BY <1>2 DEF Refused
<1>. QED
    BY <1>1, <1>3, <1>4, <1>5

\* The steps of a request establish what it knows from there on.
LEMMA BeginKnows ==
    ASSUME TypeOK, NEW p \in Webs, NEW i \in Ideas, Begin(p, i) PROVE Knows(p)'
    BY DEF TypeOK, Begin, Goto, Knows, LookedUp, FoundFree, Redirected, Refused

LEMMA ProjectByIdeaKnows ==
    ASSUME TypeOK, NEW p \in Webs, Knows(p), ProjectByIdea(p) PROVE Knows(p)'
<1>. USE DEF TypeOK, ProjectByIdea, Goto, history
<1>1. LookedUp(p)'
    BY DEF LookedUp, FromIdea, Ids
<1>2. Redirected(p)'
    BY DEF Redirected, FromIdea, Ids
<1>3. pc'[p] \in {"probe", "redirected"}
    OBVIOUS
<1>. QED
    BY <1>1, <1>2, <1>3 DEF Knows, FoundFree, Refused

LEMMA ProjectBySlugKnows ==
    ASSUME TypeOK, NEW p \in Webs, Knows(p), ProjectBySlug(p) PROVE Knows(p)'
<1>. USE DEF TypeOK, ProjectBySlug, Goto, history
<1>1. LookedUp(p)'
  <2>1. pc[p] = "probe" /\ projects' = projects /\ want' = want /\ checked' = checked
    OBVIOUS
  <2>2. flaky'[p] = flaky[p] \/ flaky'[p] = TRUE
    OBVIOUS
  <2>. QED
    BY <2>1, <2>2 DEF Knows, LookedUp, FromIdea, Ids
<1>2. FoundFree(p)'
  <2>1. CASE Taken(Slug(p)) /\ k' = [k EXCEPT ![p] = @ + 1]
             /\ Goto(p, IF k[p] + 1 = Len(Candidates[want[p]]) THEN "insert" ELSE "probe")
    BY <2>1 DEF FoundFree
  <2>2. CASE ~Taken(Slug(p)) /\ probed' = [probed EXCEPT ![p] = Len(projects)]
             /\ UNCHANGED <<k, flaky>>
    <3>1. Slug(p)' = Slug(p) /\ Ids' = Ids /\ projects' = projects
        BY <2>2 DEF Slug, Ids
    <3>2. probed'[p] = Len(projects) /\ Len(projects) \in Nat
        BY <2>2
    <3>. QED
        BY <2>2, <3>1, <3>2 DEF FoundFree, Taken
  <2>3. CASE flaky' = [flaky EXCEPT ![p] = TRUE]
    BY <2>3 DEF FoundFree
  <2>. QED
    BY <2>1, <2>2, <2>3
<1>3. pc'[p] \in {"probe", "insert"}
    OBVIOUS
<1>. QED
    BY <1>1, <1>2, <1>3 DEF Knows, Redirected, Refused

LEMMA CreateProjectKnows ==
    ASSUME TypeOK, NEW p \in Webs, Knows(p), CreateProject(p) PROVE Knows(p)'
<1>1. want[p] \in Ideas /\ Slug(p) \in Slugs /\ Insert(Slug(p), want[p])
    BY SlugIsCandidate DEF CreateProject, TypeOK
<1>2. /\ Len(projects) + 1 \in Ids'
      /\ projects'[Len(projects) + 1] = [slug |-> Slug(p), idea |-> want[p]]
    BY <1>1, Inserted
<1>3. pc'[p] = "redirected" /\ want' = want /\ answer'[p] = Len(projects) + 1
    BY DEF CreateProject, Goto, TypeOK
<1>. QED
    BY <1>2, <1>3 DEF Knows, LookedUp, FoundFree, Redirected, Refused

LEMMA CreateRefusedKnows ==
    ASSUME TypeOK, NEW p \in Webs, Knows(p), CreateRefused(p) PROVE Knows(p)'
<1>. USE DEF TypeOK, CreateRefused, Goto
<1>1. Slug(p)' = Slug(p) /\ Ids' = Ids /\ projects' = projects
    BY DEF Slug, Ids
<1>2. pc[p] = "insert" /\ pc'[p] = "failed"
    OBVIOUS
<1>3. CASE Taken(Slug(p)) /\ UNCHANGED flaky
  <2>1. FoundFree(p)'
    BY <1>1, <1>2, <1>3 DEF Knows, FoundFree
  <2>2. Refused(p)'
    BY <1>1, <1>2, <1>3 DEF Knows, FoundFree, Refused, Taken
  <2>. QED
    BY <1>2, <2>1, <2>2 DEF Knows, LookedUp, Redirected
<1>4. CASE flaky' = [flaky EXCEPT ![p] = TRUE]
    BY <1>2, <1>4 DEF Knows, LookedUp, FoundFree, Redirected, Refused
<1>. QED
    BY <1>3, <1>4

LEMMA RequestStep == TypeOK /\ RequestInv /\ [Next]_vars => RequestInv'
<1>. SUFFICES ASSUME TypeOK, RequestInv, [Next]_vars, NEW q \in Webs PROVE Knows(q)'
    BY DEF RequestInv
<1>0. Knows(q) /\ Grown
    BY TableGrows DEF RequestInv
<1>. DEFINE Rests == /\ pc'[q] = pc[q] /\ want'[q] = want[q] /\ k'[q] = k[q]
                     /\ answer'[q] = answer[q] /\ checked'[q] = checked[q]
                     /\ probed'[q] = probed[q] /\ flaky'[q] = flaky[q]
<1>1. ASSUME Rests PROVE Knows(q)'
    BY <1>0, <1>1, KnowledgeKept
<1>2. ASSUME NEW p \in Webs, NEW i \in Ideas, Begin(p, i) PROVE Knows(q)'
  <2>1. CASE p = q
    BY <1>2, <2>1, BeginKnows
  <2>2. CASE p # q
    BY <1>1, <1>2, <2>2 DEF TypeOK, Begin, Goto
  <2>. QED
    BY <2>1, <2>2
<1>3. ASSUME NEW p \in Webs, Serve(p) PROVE Knows(q)'
  <2>1. CASE p = q
    BY <1>0, <1>3, <2>1, ProjectByIdeaKnows, ProjectBySlugKnows, CreateProjectKnows,
       CreateRefusedKnows DEF Serve
  <2>2. CASE p # q
    <3>1. ASSUME ProjectByIdea(p) PROVE Rests
        BY <2>2, <3>1 DEF TypeOK, ProjectByIdea, Goto
    <3>2. ASSUME ProjectBySlug(p) PROVE Rests
        BY <2>2, <3>2 DEF TypeOK, ProjectBySlug, Goto
    <3>3. ASSUME CreateProject(p) PROVE Rests
        BY <2>2, <3>3 DEF TypeOK, CreateProject, Goto, history
    <3>4. ASSUME CreateRefused(p) PROVE Rests
        BY <2>2, <3>4 DEF TypeOK, CreateRefused, Goto
    <3>. QED
        BY <1>1, <1>3, <3>1, <3>2, <3>3, <3>4 DEF Serve
  <2>. QED
    BY <2>1, <2>2
<1>4. ASSUME NEW i \in Ideas, PromoteFromCLI(i) PROVE Knows(q)'
    BY <1>1, <1>4 DEF PromoteFromCLI, history
<1>5. ASSUME NEW slug \in Slugs, CreateFromForm(slug) PROVE Knows(q)'
    BY <1>1, <1>5 DEF CreateFromForm, history
<1>6. CASE UNCHANGED vars
    BY <1>1, <1>6 DEF vars
<1>. QED
    BY <1>2, <1>3, <1>4, <1>5, <1>6 DEF Next

LEMMA RequestInvHolds == Spec => [](TypeOK /\ RequestInv)
<1>1. Init => TypeOK /\ RequestInv
    BY TypeInit DEF Init, RequestInv, Knows, LookedUp, FoundFree, Redirected, Refused
<1>2. TypeOK /\ RequestInv /\ [Next]_vars => (TypeOK /\ RequestInv)'
    BY TypeStep, RequestStep
<1>. QED
    BY <1>1, <1>2, PTL DEF Spec

\* Every redirect, of a first promotion or of a repeated one, leads to a project
\* of the idea, however many requests and tools insert at the same time.
THEOREM RedirectsHome == Spec => []AnswerLeadsHome
<1>1. RequestInv => AnswerLeadsHome
    BY DEF RequestInv, Knows, Redirected, AnswerLeadsHome
<1>. QED
    BY <1>1, RequestInvHolds, PTL

\* A promotion that the database served fails only by losing a race for its slug
\* or by running out of candidates.
THEOREM FailuresExplained == Spec => []FailureNeedsRace
<1>1. RequestInv => FailureNeedsRace
    BY DEF RequestInv, Knows, Refused, FailureNeedsRace
<1>. QED
    BY <1>1, RequestInvHolds, PTL

\* A second project of an idea is stored only by a request that looked before
\* the first one was there.
THEOREM DuplicatesExplained == Spec => DuplicateNeedsRace
<1>1. ASSUME TypeOK, RequestInv, [Next]_vars
      PROVE  [\A p \in Webs : pc[p] = "insert" /\ pc'[p] = "redirected" /\ ~flaky[p] =>
                \A n \in FromIdea(want[p]) : n > checked[p]]_vars
    BY <1>1 DEF RequestInv, Knows, LookedUp
<1>. QED
    BY <1>1, RequestInvHolds, PTL DEF Spec, DuplicateNeedsRace

-----------------------------------------------------------------------------
(* The inbox and the floor, for any agents, projects, viewers and number of *)
(* runs.                                                                    *)

InboxRun == [agent : Agents, status : {"running", "ok", "failed"}, job : {"asking", "filing", "gone"},
             beside : BOOLEAN]
InboxItem == [run : Nat, read : BOOLEAN]
View == [item : Nat, stage : {"closed", "read", "compared", "shown"}, prev : Nat, raced : BOOLEAN]

InboxType ==
    /\ runs \in Seq(InboxRun)
    /\ items \in Seq(InboxItem)
    /\ \A i \in DOMAIN items : items[i].run \in DOMAIN runs
    /\ views \in [Viewers -> View]
    /\ \A v \in Viewers : views[v].stage # "closed" => views[v].item \in DOMAIN items
    /\ tiles \in [Projects -> Nat] /\ since \in [Projects -> Nat]

-----------------------------------------------------------------------------
\* Rows.

LEMMA RowsReplaced ==
    ASSUME NEW T, NEW s \in Seq(T), NEW f \in [DOMAIN s -> T]
    PROVE  f \in Seq(T) /\ Len(f) = Len(s) /\ DOMAIN f = DOMAIN s
<1>1. DOMAIN s = 1..Len(s) /\ Len(s) \in Nat
    OBVIOUS
<1>2. f \in Seq(T)
    BY <1>1, SeqDef
<1>3. DOMAIN f = 1..Len(s)
    BY <1>1
<1>. QED
    BY <1>1, <1>2, <1>3

\* ORDER BY id DESC LIMIT 1 finds the row with the largest id whenever there is one.
LEMMA LargestExists ==
    ASSUME NEW n \in Nat, NEW S \in SUBSET (1..n), S # {}
    PROVE  \E i \in S : \A j \in S : i >= j
<1>. DEFINE Above(i) == {j \in 1..n : j > i}
            tops == {Above(i) : i \in S}
<1>1. \A i \in S : Above(i) \subseteq 1..n /\ IsFiniteSet(Above(i))
  <2>1. IsFiniteSet(1..n)
    BY FS_Interval
  <2>. QED
    BY <2>1, FS_Subset
<1>2. tops \subseteq FiniteSubsetsOf(1..n) /\ tops # {}
    BY <1>1 DEF FiniteSubsetsOf
<1>3. PICK x \in tops : \A y \in tops : ~(<<y, x>> \in StrictSubsetOrdering(1..n))
    BY <1>2, FS_StrictSubsetOrderingWellFounded, WFMin
<1>4. PICK i \in S : x = Above(i)
    OBVIOUS
<1>5. ASSUME NEW j \in S, j > i PROVE FALSE
  <2>1. Above(j) \subseteq Above(i) /\ Above(j) # Above(i)
    BY <1>5
  <2>2. <<Above(j), Above(i)>> \in StrictSubsetOrdering(1..n)
    BY <2>1 DEF StrictSubsetOrdering
  <2>. QED
    BY <1>3, <1>4, <2>2
<1>. QED
    BY <1>5

LEMMA LargestIs ==
    ASSUME NEW n \in Nat, NEW S \in SUBSET (1..n), S # {}
    PROVE  Max(S) \in S /\ Max(S) \in Nat /\ \A j \in S : Max(S) >= j
<1>. DEFINE x == Max(S)
<1>1. x \in S /\ \A j \in S : x >= j
    BY LargestExists, Zenon DEF Max
<1>. HIDE DEF x
<1>2. x \in 1..n
    BY <1>1
<1>3. x \in Nat
    BY <1>2
<1>. QED
    BY <1>1, <1>3 DEF x

LEMMA LargestIsThe ==
    ASSUME NEW n \in Nat, NEW S \in SUBSET (1..n), NEW m \in S, \A j \in S : m >= j
    PROVE  Max(S) = m
<1>. DEFINE x == Max(S)
<1>1. x \in S /\ x >= m /\ m >= x
    BY LargestIs
<1>. HIDE DEF x
<1>2. x \in 1..n /\ m \in 1..n
    BY <1>1
<1>3. x = m
    BY <1>1, <1>2
<1>. QED
    BY <1>3 DEF x

LEMMA RowAdded ==
    ASSUME NEW T, NEW s \in Seq(T), NEW e \in T
    PROVE  /\ Append(s, e) \in Seq(T)
           /\ Len(s) \in Nat /\ DOMAIN s = 1..Len(s)
           /\ DOMAIN Append(s, e) = 1..(Len(s) + 1)
           /\ Append(s, e)[Len(s) + 1] = e
           /\ \A i \in DOMAIN s : Append(s, e)[i] = s[i]
    OBVIOUS

\* What can become of a run: it keeps its agent and its place, once gone it stays
\* gone and as well ended as it was, and was it beside another, it remains so.
GoesOn(r) ==
    /\ r \in DOMAIN runs'
    /\ runs'[r].agent = runs[r].agent
    /\ runs[r].job = "gone" => runs'[r].job = "gone" /\ (runs'[r].status = "ok" <=> runs[r].status = "ok")
    /\ runs[r].beside => runs'[r].beside

\* A run that is new comes last, and is beside those in flight.
Starts(q) ==
    /\ q = Len(runs) + 1
    /\ runs'[q].job = "asking"
    /\ \A r \in DOMAIN runs : runs[r].agent = runs'[q].agent /\ runs[r].job # "gone" => runs'[q].beside

RunsGoOn ==
    /\ runs' \in Seq(InboxRun)
    /\ \A r \in DOMAIN runs : GoesOn(r)
    /\ \A q \in DOMAIN runs' \ DOMAIN runs : Starts(q)

LEMMA StartRunKeeps ==
    ASSUME InboxType, NEW a \in Agents, StartRun(a)
    PROVE  RunsGoOn
<1>. DEFINE marked == [r \in DOMAIN runs |-> [runs[r] EXCEPT !.beside = @ \/ r \in InFlight(a)]]
            new == [agent |-> a, status |-> "running", job |-> "asking", beside |-> InFlight(a) # {}]
<1>1. ASSUME NEW r \in DOMAIN runs
      PROVE  /\ marked[r] \in InboxRun /\ marked[r].agent = runs[r].agent
             /\ marked[r].job = runs[r].job /\ marked[r].status = runs[r].status
             /\ runs[r].beside => marked[r].beside
  <2>. DEFINE b == runs[r].beside \/ r \in InFlight(a)
  <2>1. runs[r] \in InboxRun /\ b \in BOOLEAN /\ (runs[r].beside => b)
    BY DEF InboxType
  <2>2. marked[r] = [runs[r] EXCEPT !.beside = b]
    OBVIOUS
  <2>. HIDE DEF b, marked
  <2>. QED
    BY <2>1, <2>2 DEF InboxRun
<1>2. marked \in [DOMAIN runs -> InboxRun]
    BY <1>1
<1>3. new \in InboxRun
  <2>. DEFINE b == InFlight(a) # {}
  <2>1. b \in BOOLEAN
    OBVIOUS
  <2>. HIDE DEF b
  <2>. QED
    BY <2>1 DEF InboxRun, b
<1>4. runs' = Append(marked, new)
    BY DEF StartRun
<1>5. \A r \in DOMAIN runs : runs[r].agent = a /\ runs[r].job # "gone" => new.beside
    BY DEF InFlight
<1>6. new.agent = a /\ new.job = "asking"
    OBVIOUS
<1>. HIDE DEF marked, new
<1>7. marked \in Seq(InboxRun) /\ Len(marked) = Len(runs) /\ DOMAIN marked = DOMAIN runs
    BY <1>2, RowsReplaced DEF InboxType
<1>8. /\ runs' \in Seq(InboxRun) /\ DOMAIN runs' = 1..(Len(runs) + 1) /\ runs'[Len(runs) + 1] = new
      /\ \A r \in DOMAIN runs : runs'[r] = marked[r]
      /\ DOMAIN runs = 1..Len(runs) /\ Len(runs) \in Nat
    BY <1>3, <1>4, <1>7, RowAdded
<1>9. \A r \in DOMAIN runs : GoesOn(r)
    BY <1>1, <1>8 DEF GoesOn
<1>10. \A q \in DOMAIN runs' \ DOMAIN runs : Starts(q)
    BY <1>5, <1>6, <1>8 DEF Starts
<1>. QED
    BY <1>8, <1>9, <1>10 DEF RunsGoOn

LEMMA OneRunKeeps ==
    ASSUME InboxType, NEW r \in DOMAIN runs, FinishRun(r) \/ CreateInboxItem(r) \/ Lose(r)
    PROVE  RunsGoOn
<1>1. PICK job \in {"filing", "gone"}, status \in {"running", "ok", "failed"} :
          runs' = [runs EXCEPT ![r] = [runs[r] EXCEPT !.job = job, !.status = status]]
  <2>1. runs[r] \in InboxRun
    BY DEF InboxType
  <2>2. runs[r].status \in {"running", "ok", "failed"}
    BY <2>1 DEF InboxRun
  <2>3. \A j : [runs EXCEPT ![r].job = j] = [runs EXCEPT ![r] = [runs[r] EXCEPT !.job = j, !.status = runs[r].status]]
    BY <2>1 DEF InboxRun
  <2>4. \A j, s : [runs EXCEPT ![r].job = j, ![r].status = s] = [runs EXCEPT ![r] = [runs[r] EXCEPT !.job = j, !.status = s]]
    BY <2>1 DEF InboxRun
  <2>5. \/ runs' = [runs EXCEPT ![r].job = "filing", ![r].status = "ok"]
        \/ runs' = [runs EXCEPT ![r].job = "filing"]
        \/ runs' = [runs EXCEPT ![r].job = "gone", ![r].status = "failed"]
        \/ runs' = [runs EXCEPT ![r].job = "gone"]
    BY DEF FinishRun, CreateInboxItem, Lose
  <2>. QED
    BY <2>2, <2>3, <2>4, <2>5
<1>2. runs[r].job # "gone" /\ runs[r] \in InboxRun
    BY DEF FinishRun, CreateInboxItem, Lose, InboxType
<1>3. /\ runs'[r] = [runs[r] EXCEPT !.job = job, !.status = status]
      /\ \A q \in DOMAIN runs \ {r} : runs'[q] = runs[q]
      /\ DOMAIN runs' = DOMAIN runs
    BY <1>1 DEF InboxType
<1>4. runs'[r] \in InboxRun /\ runs'[r].agent = runs[r].agent /\ runs'[r].beside = runs[r].beside
    BY <1>2, <1>3 DEF InboxRun
<1>5. runs' \in [DOMAIN runs -> InboxRun]
    BY <1>1, <1>3, <1>4 DEF InboxType
<1>6. runs' \in Seq(InboxRun)
    BY <1>5, RowsReplaced DEF InboxType
<1>. QED
    BY <1>2, <1>3, <1>4, <1>6 DEF RunsGoOn, GoesOn

LEMMA ReapKeeps ==
    ASSUME InboxType, Reap
    PROVE  RunsGoOn
<1>1. ASSUME NEW r \in DOMAIN runs
      PROVE  /\ runs'[r] \in InboxRun /\ runs'[r].agent = runs[r].agent
             /\ runs'[r].job = runs[r].job /\ runs'[r].beside = runs[r].beside
             /\ runs'[r].status = "ok" <=> runs[r].status = "ok"
  <2>. DEFINE s == IF runs[r].status = "running" THEN "failed" ELSE runs[r].status
  <2>1. runs[r] \in InboxRun
    BY DEF InboxType
  <2>2. s \in {"running", "ok", "failed"} /\ (s = "ok" <=> runs[r].status = "ok")
    BY <2>1 DEF InboxRun
  <2>3. runs'[r] = [runs[r] EXCEPT !.status = s]
    BY DEF Reap
  <2>. HIDE DEF s
  <2>. QED
    BY <2>1, <2>2, <2>3 DEF InboxRun
<1>2. DOMAIN runs' = DOMAIN runs /\ runs' = [r \in DOMAIN runs |-> runs'[r]]
    BY DEF Reap
<1>3. runs' \in Seq(InboxRun)
    BY <1>1, <1>2, RowsReplaced DEF InboxType
<1>. QED
    BY <1>1, <1>2, <1>3 DEF RunsGoOn, GoesOn

LEMMA RunsKept == InboxType /\ [InboxNext]_inboxVars => RunsGoOn
<1>. SUFFICES ASSUME InboxType, [InboxNext]_inboxVars PROVE RunsGoOn
    OBVIOUS
<1>1. CASE runs' = runs
    BY <1>1 DEF RunsGoOn, GoesOn, InboxType
<1>. QED
    BY <1>1, StartRunKeeps, OneRunKeeps, ReapKeeps
       DEF InboxNext, inboxVars, GetInboxItem, PreviousRunOutput, MarkInboxRead, Close, PostRead, BuildFloorTiles

\* What can become of the reports: one that is filed stays, of
\* the same run, and a new one comes last, of a run that goes with it.
Files(i) ==
    LET r == items'[i].run
    IN  /\ r \in DOMAIN runs /\ runs[r].job = "filing" /\ runs'[r].job = "gone"
        /\ DOMAIN items' = DOMAIN items \cup {i} /\ \A j \in DOMAIN items : j < i
ItemsGoOn ==
    /\ items' \in Seq(InboxItem)
    /\ \A i \in DOMAIN items : i \in DOMAIN items' /\ items'[i].run = items[i].run
    /\ \A i \in DOMAIN items' \ DOMAIN items : Files(i)

LEMMA MarkKeeps ==
    ASSUME InboxType, NEW i \in DOMAIN items, items' = [items EXCEPT ![i].read = TRUE]
    PROVE  /\ items' \in Seq(InboxItem) /\ DOMAIN items' = DOMAIN items
           /\ items'[i].run = items[i].run /\ items'[i].read
           /\ \A j \in DOMAIN items : j # i => items'[j] = items[j]
<1>1. items[i] \in InboxItem
    BY DEF InboxType
<1>2. /\ items'[i] = [items[i] EXCEPT !.read = TRUE] /\ DOMAIN items' = DOMAIN items
      /\ \A j \in DOMAIN items : j # i => items'[j] = items[j]
    OBVIOUS
<1>3. items'[i] \in InboxItem /\ items'[i].run = items[i].run /\ items'[i].read
    BY <1>1, <1>2 DEF InboxItem
<1>4. items' \in [DOMAIN items -> InboxItem]
    BY <1>2, <1>3 DEF InboxType
<1>. QED
    BY <1>2, <1>3, <1>4, RowsReplaced DEF InboxType

LEMMA FilingAdds ==
    ASSUME InboxType, NEW r \in DOMAIN runs, CreateInboxItem(r)
    PROVE  /\ items' \in Seq(InboxItem)
           /\ Len(items) \in Nat /\ DOMAIN items = 1..Len(items) /\ DOMAIN items' = 1..(Len(items) + 1)
           /\ items'[Len(items) + 1].run = r /\ ~items'[Len(items) + 1].read
           /\ \A i \in DOMAIN items : items'[i] = items[i]
<1>1. r \in Nat
    BY DEF InboxType
<1>2. [run |-> r, read |-> FALSE] \in InboxItem
    BY <1>1 DEF InboxItem
<1>. QED
    BY <1>2, RowAdded DEF CreateInboxItem, InboxType

LEMMA ItemsKept == InboxType /\ [InboxNext]_inboxVars => ItemsGoOn
<1>. SUFFICES ASSUME InboxType, [InboxNext]_inboxVars PROVE ItemsGoOn
    OBVIOUS
<1>1. CASE items' = items
    BY <1>1 DEF ItemsGoOn, InboxType
<1>2. ASSUME NEW r \in DOMAIN runs, CreateInboxItem(r) PROVE ItemsGoOn
  <2>1. runs[r] \in InboxRun /\ runs'[r] = [runs[r] EXCEPT !.job = "gone"]
    BY <1>2 DEF CreateInboxItem, InboxType
  <2>2. runs[r].job = "filing" /\ runs'[r].job = "gone"
    BY <1>2, <2>1 DEF CreateInboxItem, InboxRun
  <2>3. \A i \in DOMAIN items' \ DOMAIN items :
            /\ items'[i].run = r
            /\ DOMAIN items' = DOMAIN items \cup {i} /\ \A j \in DOMAIN items : j < i
    <3>1. Len(items) \in Nat /\ DOMAIN items = 1..Len(items) /\ DOMAIN items' = 1..(Len(items) + 1)
      BY <1>2, FilingAdds
    <3>2. \A i \in DOMAIN items' \ DOMAIN items : i = Len(items) + 1
      BY <3>1
    <3>3. DOMAIN items' = DOMAIN items \cup {Len(items) + 1} /\ \A j \in DOMAIN items : j < Len(items) + 1
      BY <3>1
    <3>. QED
      BY <1>2, <3>2, <3>3, FilingAdds
  <2>4. items' \in Seq(InboxItem) /\ \A i \in DOMAIN items : i \in DOMAIN items' /\ items'[i].run = items[i].run
    BY <1>2, FilingAdds
  <2>. QED
    BY <2>2, <2>3, <2>4 DEF ItemsGoOn, Files
<1>3. ASSUME NEW i \in DOMAIN items, Mark(i) PROVE ItemsGoOn
    BY <1>3, MarkKeeps DEF ItemsGoOn, Mark
<1>4. ASSUME NEW v \in Viewers, MarkInboxRead(v) PROVE items' = items \/ \E i \in DOMAIN items : Mark(i)
    BY <1>4 DEF MarkInboxRead, InboxType
<1>. QED
    BY <1>1, <1>2, <1>3, <1>4
       DEF InboxNext, inboxVars, StartRun, FinishRun, Lose, Reap, GetInboxItem, PreviousRunOutput, Close, PostRead,
           BuildFloorTiles

-----------------------------------------------------------------------------
\* The types, and what is on the pages.

LEMMA PreviousIsRun ==
    ASSUME InboxType, NEW a, NEW run
    PROVE  PreviousRun(a, run) \in Nat
<1>. DEFINE S == {r \in DOMAIN runs : runs[r].agent = a /\ r < run /\ runs[r].status = "ok"}
<1>1. S \in SUBSET (1..Len(runs)) /\ Len(runs) \in Nat
    BY DEF InboxType
<1>. HIDE DEF S
<1>2. S # {} => Max(S) \in Nat
    BY <1>1, LargestIs
<1>3. Largest(S) \in Nat
  <2>1. CASE S = {}
    BY <2>1 DEF Largest, NoRun
  <2>2. CASE S # {}
    BY <1>1, <1>2, <2>2 DEF Largest
  <2>. QED
    BY <2>1, <2>2
<1>. QED
    BY <1>3 DEF PreviousRun, S

\* What the steps of the page leave of a view.
LEMMA ViewsKept ==
    ASSUME InboxType, [InboxNext]_inboxVars, NEW v \in Viewers
    PROVE  /\ views' \in [Viewers -> View]
           /\ \/ views'[v] = views[v] \/ views'[v].stage = "closed"
              \/ views'[v].stage = "read" /\ views'[v].item \in DOMAIN items
              \/ /\ views[v].stage = "read" /\ views'[v].stage = "compared" /\ views'[v].item = views[v].item
                 /\ UNCHANGED <<runs, items>>
                 /\ \/ views'[v].raced
                    \/ LET run == items[views[v].item].run
                           a == runs[run].agent
                       IN  views'[v].prev = PreviousRun(a, run) /\ \A r \in InFlight(a) : ~(r < run)
              \/ /\ views[v].stage = "compared" /\ views'[v].stage = "shown"
                 /\ views'[v] = [views[v] EXCEPT !.stage = "shown"]
<1>1. CASE views' = views
    BY <1>1 DEF InboxType
<1>2. ASSUME NEW w \in Viewers, NEW x \in View, views' = [views EXCEPT ![w] = x]
      PROVE  /\ views' \in [Viewers -> View] /\ views'[w] = x
             /\ v # w => views'[v] = views[v]
    BY <1>2 DEF InboxType
<1>3. ASSUME NEW w \in Viewers PROVE views[w] \in View
    BY DEF InboxType
<1>4. ASSUME NEW w \in Viewers, NEW i \in DOMAIN items, GetInboxItem(w, i)
      PROVE  \E x \in View : views' = [views EXCEPT ![w] = x] /\ x.stage = "read" /\ x.item = i
  <2>1. i \in Nat
    BY DEF InboxType
  <2>2. [NoView EXCEPT !.item = i, !.stage = "read"] \in View
    BY <2>1 DEF NoView, NoRun, View
  <2>3. views' = [views EXCEPT ![w] = [NoView EXCEPT !.item = i, !.stage = "read"]]
    BY <1>4 DEF GetInboxItem
  <2>4. [NoView EXCEPT !.item = i, !.stage = "read"].stage = "read" /\ [NoView EXCEPT !.item = i, !.stage = "read"].item = i
    BY DEF NoView
  <2>. QED
    BY <2>2, <2>3, <2>4
<1>5. ASSUME NEW w \in Viewers, PreviousRunOutput(w)
      PROVE  /\ views[w].stage = "read" /\ UNCHANGED <<runs, items>>
             /\ \E x \in View :
                 /\ views' = [views EXCEPT ![w] = x] /\ x.stage = "compared" /\ x.item = views[w].item
                 /\ \/ x.raced
                    \/ LET run == items[views[w].item].run
                           a == runs[run].agent
                       IN  x.prev = PreviousRun(a, run) /\ \A r \in InFlight(a) : ~(r < run)
  <2>. DEFINE run == items[views[w].item].run
              a == runs[run].agent
              earlier == \E r \in InFlight(a) : r < run
              found == [views[w] EXCEPT !.stage = "compared", !.prev = PreviousRun(a, run), !.raced = earlier]
              refused == [views[w] EXCEPT !.stage = "compared", !.raced = TRUE]
  <2>1. views[w].stage = "read" /\ UNCHANGED <<runs, items>>
    BY <1>5 DEF PreviousRunOutput
  <2>2. views' = [views EXCEPT ![w] = found] \/ views' = [views EXCEPT ![w] = refused]
    BY <1>5 DEF PreviousRunOutput
  <2>3. views[w] \in View /\ earlier \in BOOLEAN /\ PreviousRun(a, run) \in Nat
    BY <1>3, PreviousIsRun
  <2>4. ~earlier => \A r \in InFlight(a) : ~(r < run)
    OBVIOUS
  <2>. HIDE DEF earlier, run, a
  <2>5. /\ found \in View /\ found.stage = "compared" /\ found.item = views[w].item
        /\ found.prev = PreviousRun(a, run) /\ found.raced = earlier
    BY <2>3 DEF View
  <2>6. refused \in View /\ refused.stage = "compared" /\ refused.item = views[w].item /\ refused.raced
    BY <2>3 DEF View
  <2>. HIDE DEF found, refused
  <2>7. CASE views' = [views EXCEPT ![w] = found]
    BY <2>1, <2>4, <2>5, <2>7 DEF run, a
  <2>8. CASE views' = [views EXCEPT ![w] = refused]
    BY <2>1, <2>6, <2>8
  <2>. QED
    BY <2>2, <2>7, <2>8
<1>6. ASSUME NEW w \in Viewers, MarkInboxRead(w)
      PROVE  /\ views[w].stage = "compared"
             /\ \E x \in View : views' = [views EXCEPT ![w] = x] /\ x = [views[w] EXCEPT !.stage = "shown"] /\ x.stage = "shown"
  <2>1. [views[w] EXCEPT !.stage = "shown"] \in View /\ [views[w] EXCEPT !.stage = "shown"].stage = "shown"
    BY <1>3 DEF View
  <2>2. views' = [views EXCEPT ![w] = [views[w] EXCEPT !.stage = "shown"]] /\ views[w].stage = "compared"
    BY <1>6 DEF MarkInboxRead
  <2>. QED
    BY <2>1, <2>2
<1>7. ASSUME NEW w \in Viewers, Close(w)
      PROVE  \E x \in View : views' = [views EXCEPT ![w] = x] /\ x.stage = "closed"
  <2>1. NoView \in View /\ NoView.stage = "closed"
    BY DEF NoView, NoRun, View
  <2>. QED
    BY <1>7, <2>1 DEF Close
<1>8. CASE \E w \in Viewers, i \in DOMAIN items : GetInboxItem(w, i)
    BY <1>2, <1>4, <1>8
<1>9. CASE \E w \in Viewers : PreviousRunOutput(w)
    BY <1>2, <1>5, <1>9
<1>10. CASE \E w \in Viewers : MarkInboxRead(w)
    BY <1>2, <1>6, <1>10
<1>11. CASE \E w \in Viewers : Close(w)
    BY <1>2, <1>7, <1>11
<1>. QED
    BY <1>1, <1>8, <1>9, <1>10, <1>11
       DEF InboxNext, inboxVars, StartRun, FinishRun, CreateInboxItem, Lose, Reap, PostRead, BuildFloorTiles

-----------------------------------------------------------------------------
\* The floor.

LEMMA UnreadFinite ==
    ASSUME InboxType, NEW p
    PROVE  /\ IsFiniteSet(OfProject(p, Unread)) /\ Cardinality(OfProject(p, Unread)) \in Nat
           /\ \A S \in SUBSET OfProject(p, Unread) :
                IsFiniteSet(S) /\ Cardinality(S) \in Nat /\ Cardinality(S) <= Cardinality(OfProject(p, Unread))
<1>. DEFINE U == OfProject(p, Unread)
<1>1. U \subseteq 1..Len(items) /\ Len(items) \in Nat
    BY DEF OfProject, Unread, InboxType
<1>. HIDE DEF U
<1>2. IsFiniteSet(1..Len(items))
    BY <1>1, FS_Interval
<1>3. IsFiniteSet(U)
    BY <1>1, <1>2, FS_Subset
<1>4. \A S \in SUBSET U : IsFiniteSet(S) /\ Cardinality(S) <= Cardinality(U)
    BY <1>3, FS_Subset
<1>5. \A S \in SUBSET U : Cardinality(S) \in Nat
    BY <1>4, FS_CardinalityType
<1>. QED
    BY <1>3, <1>4, <1>5, FS_CardinalityType DEF U

\* A report read is one less of its project, and counted as such.
LEMMA MarkStep ==
    ASSUME InboxType, TilesLeadToReports, NEW i \in DOMAIN items, Mark(i), UNCHANGED <<runs, tiles>>
    PROVE  since' \in [Projects -> Nat] /\ TilesLeadToReports'
<1>1. /\ DOMAIN items' = DOMAIN items /\ items'[i].read /\ items'[i].run = items[i].run
      /\ \A j \in DOMAIN items : j # i => items'[j] = items[j]
    BY MarkKeeps DEF Mark
<1>2. ASSUME NEW p \in Projects
      PROVE  since'[p] \in Nat /\ tiles'[p] <= Cardinality(OfProject(p, Unread))' + since'[p]
  <2>. DEFINE U == OfProject(p, Unread)
              read == OfProject(p, {i} \cap Unread)
              W == OfProject(p, Unread)'
  <2>1. W = U \ {i}
    BY <1>1 DEF OfProject, Unread
  <2>2. \/ read = {i} /\ i \in U
        \/ read = {} /\ i \notin U
    <3>1. \A j : j \in read <=> j = i /\ i \in U
      BY DEF OfProject, Unread
    <3>. HIDE DEF U, read
    <3>. QED
      BY <3>1
  <2>3. IsFiniteSet(U) /\ Cardinality(U) \in Nat
    BY UnreadFinite
  <2>4. tiles[p] <= Cardinality(U) + since[p] /\ tiles[p] \in Nat /\ since[p] \in Nat
    BY DEF TilesLeadToReports, InboxType
  <2>5. since'[p] = IF since[p] = tiles[p] THEN tiles[p] ELSE since[p] + Cardinality(read)
    BY DEF Mark
  <2>. HIDE DEF U, W, read
  <2>6. IsFiniteSet(W) /\ Cardinality(W) \in Nat
    BY <2>1, <2>3, FS_Subset, FS_CardinalityType
  <2>7. CASE read = {i} /\ i \in U
    <3>1. Cardinality(read) = 1
      BY <2>7, FS_Singleton
    <3>2. Cardinality(W) = Cardinality(U) - 1
      BY <2>1, <2>3, <2>7, FS_RemoveElement
    <3>. QED
      BY <2>3, <2>4, <2>5, <2>6, <3>1, <3>2 DEF W
  <2>8. CASE read = {} /\ i \notin U
    <3>1. Cardinality(read) = 0
      BY <2>8, FS_EmptySet
    <3>2. W = U
      BY <2>1, <2>8
    <3>. QED
      BY <2>3, <2>4, <2>5, <3>1, <3>2 DEF W
  <2>. QED
    BY <2>2, <2>7, <2>8
<1>3. since' = [p \in Projects |-> since'[p]]
    BY DEF Mark
<1>. QED
    BY <1>2, <1>3 DEF TilesLeadToReports

LEMMA FloorStep ==
    ASSUME InboxType, TilesLeadToReports, [InboxNext]_inboxVars
    PROVE  tiles' \in [Projects -> Nat] /\ since' \in [Projects -> Nat] /\ TilesLeadToReports'
<1>1. RunsGoOn /\ ItemsGoOn
    BY RunsKept, ItemsKept
<1>2. CASE UNCHANGED <<items, tiles, since>>
  <2>1. \A i \in DOMAIN items : runs'[items[i].run].agent = runs[items[i].run].agent
    BY <1>1 DEF InboxType, RunsGoOn, GoesOn
  <2>2. ASSUME NEW p PROVE OfProject(p, Unread)' = OfProject(p, Unread)
    BY <1>2, <2>1 DEF OfProject, Unread
  <2>. QED
    BY <1>2, <2>2 DEF TilesLeadToReports, InboxType
<1>3. ASSUME NEW r \in DOMAIN runs, CreateInboxItem(r)
      PROVE  tiles' \in [Projects -> Nat] /\ since' \in [Projects -> Nat] /\ TilesLeadToReports'
  <2>1. UNCHANGED <<tiles, since>>
    BY <1>3 DEF CreateInboxItem
  <2>2. /\ items' \in Seq(InboxItem) /\ Len(items) \in Nat
        /\ DOMAIN items = 1..Len(items) /\ DOMAIN items' = 1..(Len(items) + 1)
        /\ \A i \in DOMAIN items : items'[i] = items[i]
    BY <1>3, FilingAdds
  <2>3. \A i \in DOMAIN items : runs'[items[i].run].agent = runs[items[i].run].agent
    BY <1>1 DEF InboxType, RunsGoOn, GoesOn
  <2>4. ASSUME NEW p \in Projects
        PROVE  tiles'[p] <= Cardinality(OfProject(p, Unread))' + since'[p]
    <3>. DEFINE U == OfProject(p, Unread)
                W == OfProject(p, Unread)'
    <3>1. U \subseteq W /\ W \subseteq 1..(Len(items) + 1)
      BY <2>2, <2>3 DEF OfProject, Unread
    <3>2. tiles[p] <= Cardinality(U) + since[p] /\ tiles[p] \in Nat /\ since[p] \in Nat
      BY DEF TilesLeadToReports, InboxType
    <3>3. Cardinality(U) \in Nat
      BY UnreadFinite
    <3>. HIDE DEF U, W
    <3>4. IsFiniteSet(1..(Len(items) + 1))
      BY <2>2, FS_Interval
    <3>5. IsFiniteSet(W)
      BY <3>1, <3>4, FS_Subset
    <3>6. Cardinality(W) \in Nat /\ Cardinality(U) <= Cardinality(W)
      BY <3>1, <3>5, FS_Subset, FS_CardinalityType
    <3>7. tiles'[p] <= Cardinality(W) + since'[p]
      BY <2>1, <3>2, <3>3, <3>6
    <3>. QED
      BY <3>7 DEF W
  <2>. QED
    BY <2>1, <2>4 DEF TilesLeadToReports, InboxType
<1>4. ASSUME NEW i \in DOMAIN items, Mark(i), UNCHANGED <<runs, tiles>>
      PROVE  tiles' \in [Projects -> Nat] /\ since' \in [Projects -> Nat] /\ TilesLeadToReports'
    BY <1>4, MarkStep DEF InboxType
<1>5. ASSUME NEW v \in Viewers, MarkInboxRead(v)
      PROVE  UNCHANGED <<items, tiles, since>> \/ \E i \in DOMAIN items : Mark(i) /\ UNCHANGED <<runs, tiles>>
    BY <1>5 DEF MarkInboxRead, InboxType
<1>6. ASSUME BuildFloorTiles
      PROVE  tiles' \in [Projects -> Nat] /\ since' \in [Projects -> Nat] /\ TilesLeadToReports'
  <2>1. UNCHANGED <<runs, items>> /\ since' = [p \in Projects |-> 0]
    BY <1>6 DEF BuildFloorTiles
  <2>2. PICK refused \in SUBSET Projects :
            tiles' = [p \in Projects |-> IF p \in refused THEN 0 ELSE UnreadInboxCountForProject(p)]
    BY <1>6 DEF BuildFloorTiles
  <2>3. ASSUME NEW p \in Projects
        PROVE  tiles'[p] \in Nat /\ tiles'[p] <= Cardinality(OfProject(p, Unread)) + 0
    BY <2>2, UnreadFinite DEF UnreadInboxCountForProject
  <2>4. \A p : OfProject(p, Unread)' = OfProject(p, Unread)
    BY <2>1 DEF OfProject, Unread
  <2>. QED
    BY <2>1, <2>2, <2>3, <2>4 DEF TilesLeadToReports
<1>. QED
    BY <1>2, <1>3, <1>4, <1>5, <1>6
       DEF InboxNext, inboxVars, StartRun, FinishRun, Lose, Reap, GetInboxItem, PreviousRunOutput, Close, PostRead

-----------------------------------------------------------------------------
\* The inductive invariant.

\* A run that began while an earlier one of its agent was in flight knows of it.
BesideTold ==
    \A r, q \in DOMAIN runs :
        r < q /\ runs[r].agent = runs[q].agent /\ runs[r].job # "gone" => runs[q].beside

\* A run files once, when it goes.
FiledOnce ==
    /\ \A i \in DOMAIN items : runs[items[i].run].job = "gone"
    /\ \A i, j \in DOMAIN items : items[i].run = items[j].run => i = j

\* Reports of an agent come in the order its runs began, but for a run that
\* began beside the one whose report it came before.
InOrder ==
    \A i, j \in DOMAIN items :
        /\ i < j /\ items[j].run < items[i].run
        /\ runs[items[i].run].agent = runs[items[j].run].agent
        => runs[items[i].run].beside

\* What a report is compared with, and that no run below it can still end well.
Settled(run, prev) ==
    LET a == runs[run].agent
    IN  prev = PreviousRun(a, run) /\ \A r \in InFlight(a) : ~(r < run)
Compared ==
    \A v \in Viewers : views[v].stage \in {"compared", "shown"} /\ ~views[v].raced =>
        Settled(items[views[v].item].run, views[v].prev)

InboxInv == InboxType /\ BesideTold /\ FiledOnce /\ InOrder /\ Compared /\ TilesLeadToReports

LEMMA InboxStarts == InboxInit => InboxInv
<1>. SUFFICES ASSUME InboxInit PROVE InboxInv
    OBVIOUS
<1>1. runs = <<>> /\ items = <<>> /\ DOMAIN runs = {} /\ DOMAIN items = {}
    BY DEF InboxInit
<1>2. \A v \in Viewers : views[v] = NoView
    BY DEF InboxInit
<1>3. NoView \in View /\ NoView.stage = "closed"
    BY DEF NoView, NoRun, View
<1>4. InboxType
    BY <1>1, <1>3 DEF InboxInit, InboxType
<1>5. Compared
    BY <1>2, <1>3 DEF Compared
<1>6. TilesLeadToReports
  <2>1. \A p \in Projects : OfProject(p, Unread) = {}
    BY <1>1 DEF OfProject, Unread
  <2>2. \A p \in Projects : Cardinality(OfProject(p, Unread)) = 0
    BY <2>1, FS_EmptySet
  <2>. QED
    BY <2>1, <2>2 DEF InboxInit, TilesLeadToReports
<1>. QED
    BY <1>1, <1>4, <1>5, <1>6 DEF InboxInv, BesideTold, FiledOnce, InOrder

LEMMA TypeKept ==
    ASSUME InboxInv, [InboxNext]_inboxVars
    PROVE  InboxType'
<1>1. RunsGoOn /\ ItemsGoOn
    BY RunsKept, ItemsKept DEF InboxInv
<1>2. tiles' \in [Projects -> Nat] /\ since' \in [Projects -> Nat]
    BY FloorStep DEF InboxInv
<1>3. ASSUME NEW i \in DOMAIN items' PROVE items'[i].run \in DOMAIN runs'
  <2>1. CASE i \in DOMAIN items
    BY <1>1, <2>1 DEF RunsGoOn, GoesOn, ItemsGoOn, InboxInv, InboxType
  <2>2. CASE i \notin DOMAIN items
    BY <1>1, <2>2 DEF RunsGoOn, GoesOn, ItemsGoOn, Files
  <2>. QED
    BY <2>1, <2>2
<1>4. ASSUME NEW v \in Viewers, views'[v].stage # "closed" PROVE views'[v].item \in DOMAIN items'
  <2>1. views'[v].item \in DOMAIN items
    <3>1. views[v] \in View /\ (views[v].stage # "closed" => views[v].item \in DOMAIN items)
      BY DEF InboxInv, InboxType
    <3>2. CASE views'[v] = views[v]
      BY <1>4, <3>1, <3>2
    <3>3. CASE views'[v].item = views[v].item /\ views[v].stage = "read"
      BY <3>1, <3>3
    <3>4. CASE views[v].stage = "compared" /\ views'[v] = [views[v] EXCEPT !.stage = "shown"]
      BY <3>1, <3>4 DEF View
    <3>. QED
      BY <1>4, <3>2, <3>3, <3>4, ViewsKept DEF InboxInv
  <2>. QED
    BY <1>1, <2>1 DEF ItemsGoOn
<1>5. views' \in [Viewers -> View]
  <2>1. CASE Viewers = {}
    <3>1. views' = views
      BY <2>1 DEF InboxNext, inboxVars, StartRun, FinishRun, CreateInboxItem, Lose, Reap, PostRead, BuildFloorTiles
    <3>. QED
      BY <3>1 DEF InboxInv, InboxType
  <2>2. CASE Viewers # {}
    BY <2>2, ViewsKept DEF InboxInv
  <2>. QED
    BY <2>1, <2>2
<1>. QED
    BY <1>1, <1>2, <1>3, <1>4, <1>5 DEF RunsGoOn, ItemsGoOn, InboxType

LEMMA BesideKept ==
    ASSUME InboxInv, [InboxNext]_inboxVars
    PROVE  BesideTold'
<1>1. RunsGoOn
    BY RunsKept DEF InboxInv
<1>2. DOMAIN runs = 1..Len(runs) /\ Len(runs) \in Nat
    BY DEF InboxInv, InboxType
<1>. SUFFICES ASSUME NEW r \in DOMAIN runs', NEW q \in DOMAIN runs', r < q,
                     runs'[r].agent = runs'[q].agent, runs'[r].job # "gone"
              PROVE  runs'[q].beside
    BY DEF BesideTold
<1>3. r \in DOMAIN runs
  <2>1. CASE r \notin DOMAIN runs
    <3>1. r = Len(runs) + 1
      BY <1>1, <2>1 DEF RunsGoOn, Starts
    <3>2. q \in DOMAIN runs \/ q = Len(runs) + 1
      BY <1>1 DEF RunsGoOn, Starts
    <3>. QED
      BY <1>2, <3>1, <3>2
  <2>. QED
    BY <2>1
<1>4. runs[r].job # "gone" /\ runs'[r].agent = runs[r].agent
    BY <1>1, <1>3 DEF RunsGoOn, GoesOn
<1>5. CASE q \in DOMAIN runs
  <2>1. runs'[q].agent = runs[q].agent /\ (runs[q].beside => runs'[q].beside)
    BY <1>1, <1>5 DEF RunsGoOn, GoesOn
  <2>. QED
    BY <1>3, <1>4, <1>5, <2>1 DEF InboxInv, BesideTold
<1>6. CASE q \notin DOMAIN runs
    BY <1>1, <1>3, <1>4, <1>6 DEF RunsGoOn, Starts
<1>. QED
    BY <1>5, <1>6

LEMMA FilingKept ==
    ASSUME InboxInv, [InboxNext]_inboxVars
    PROVE  FiledOnce' /\ InOrder'
<1>1. RunsGoOn /\ ItemsGoOn
    BY RunsKept, ItemsKept DEF InboxInv
<1>2. ASSUME NEW i \in DOMAIN items
      PROVE  LET r == items[i].run
             IN  /\ i \in DOMAIN items' /\ items'[i].run = r /\ r \in DOMAIN runs
                 /\ runs[r].job = "gone" /\ runs'[r].job = "gone" /\ runs'[r].agent = runs[r].agent
                 /\ runs[r].beside => runs'[r].beside
    BY <1>1 DEF RunsGoOn, GoesOn, ItemsGoOn, InboxInv, InboxType, FiledOnce
<1>3. ASSUME NEW i \in DOMAIN items' \ DOMAIN items
      PROVE  LET r == items'[i].run
             IN  /\ r \in DOMAIN runs /\ runs[r].job = "filing" /\ runs'[r].job = "gone"
                 /\ runs'[r].agent = runs[r].agent
                 /\ DOMAIN items' = DOMAIN items \cup {i} /\ \A j \in DOMAIN items : j < i
    BY <1>1 DEF RunsGoOn, GoesOn, ItemsGoOn, Files
<1>4. ASSUME NEW i \in DOMAIN items' PROVE runs'[items'[i].run].job = "gone"
  <2>1. CASE i \in DOMAIN items
    BY <1>2, <2>1
  <2>2. CASE i \notin DOMAIN items
    BY <1>3, <2>2
  <2>. QED
    BY <2>1, <2>2
<1>5. ASSUME NEW i \in DOMAIN items', NEW j \in DOMAIN items', items'[i].run = items'[j].run PROVE i = j
  <2>1. CASE i \in DOMAIN items /\ j \in DOMAIN items
    BY <1>2, <1>5, <2>1 DEF InboxInv, FiledOnce
  <2>2. CASE i \notin DOMAIN items
    <3>1. runs[items'[i].run].job = "filing" /\ DOMAIN items' = DOMAIN items \cup {i}
      BY <1>3, <2>2
    <3>. QED
      BY <1>2, <1>5, <3>1
  <2>3. CASE j \notin DOMAIN items
    <3>1. runs[items'[j].run].job = "filing" /\ DOMAIN items' = DOMAIN items \cup {j}
      BY <1>3, <2>3
    <3>. QED
      BY <1>2, <1>5, <3>1
  <2>. QED
    BY <2>1, <2>2, <2>3
<1>6. ASSUME NEW i \in DOMAIN items', NEW j \in DOMAIN items', i < j, items'[j].run < items'[i].run,
             runs'[items'[i].run].agent = runs'[items'[j].run].agent
      PROVE  runs'[items'[i].run].beside
  <2>1. i \in DOMAIN items
    <3>1. i \in Nat /\ j \in Nat
      BY <1>1 DEF ItemsGoOn
    <3>2. CASE i \notin DOMAIN items
      <4>1. DOMAIN items' = DOMAIN items \cup {i} /\ \A m \in DOMAIN items : m < i
        BY <1>3, <3>2
      <4>. QED
        BY <1>6, <3>1, <4>1
    <3>. QED
      BY <3>2
  <2>2. CASE j \in DOMAIN items
    BY <1>2, <1>6, <2>1, <2>2 DEF InboxInv, InOrder
  <2>3. CASE j \notin DOMAIN items
    <3>1. /\ items'[j].run \in DOMAIN runs /\ runs[items'[j].run].job = "filing"
          /\ runs'[items'[j].run].agent = runs[items'[j].run].agent
      BY <1>3, <2>3
    <3>2. /\ items[i].run \in DOMAIN runs /\ items'[i].run = items[i].run
          /\ runs'[items[i].run].agent = runs[items[i].run].agent
          /\ runs[items[i].run].beside => runs'[items[i].run].beside
      BY <1>2, <2>1
    <3>3. runs[items[i].run].beside
      BY <1>6, <3>1, <3>2 DEF InboxInv, BesideTold
    <3>. QED
      BY <3>2, <3>3
  <2>. QED
    BY <2>2, <2>3
<1>. QED
    BY <1>4, <1>5, <1>6 DEF FiledOnce, InOrder

\* Below a report whose earlier runs are gone nothing changes any more.
LEMMA PreviousKept ==
    ASSUME InboxType, RunsGoOn, NEW a, NEW run \in DOMAIN runs, \A r \in InFlight(a) : ~(r < run)
    PROVE  PreviousRun(a, run)' = PreviousRun(a, run) /\ \A r \in InFlight(a)' : ~(r < run)
<1>1. DOMAIN runs = 1..Len(runs) /\ Len(runs) \in Nat
    BY DEF InboxType
<1>2. ASSUME NEW r \in DOMAIN runs', r < run
      PROVE  r \in DOMAIN runs /\ runs'[r].agent = runs[r].agent
  <2>1. r \in DOMAIN runs \/ r = Len(runs) + 1
    BY DEF RunsGoOn, Starts
  <2>2. r \in DOMAIN runs
    BY <1>1, <1>2, <2>1
  <2>. QED
    BY <2>2 DEF RunsGoOn, GoesOn
<1>3. ASSUME NEW r \in DOMAIN runs, r < run, runs[r].agent = a
      PROVE  r \in DOMAIN runs' /\ runs'[r].job = "gone" /\ (runs'[r].status = "ok" <=> runs[r].status = "ok")
  <2>1. runs[r].job = "gone"
    BY <1>3 DEF InFlight
  <2>. QED
    BY <2>1 DEF RunsGoOn, GoesOn
<1>4. {r \in DOMAIN runs' : runs'[r].agent = a /\ r < run /\ runs'[r].status = "ok"}
        = {r \in DOMAIN runs : runs[r].agent = a /\ r < run /\ runs[r].status = "ok"}
    BY <1>2, <1>3 DEF RunsGoOn, GoesOn
<1>5. PreviousRun(a, run)' = PreviousRun(a, run)
    BY <1>4 DEF PreviousRun
<1>6. \A r \in InFlight(a)' : ~(r < run)
    BY <1>2, <1>3 DEF InFlight
<1>. QED
    BY <1>5, <1>6

LEMMA ComparedKept ==
    ASSUME InboxInv, [InboxNext]_inboxVars
    PROVE  Compared'
<1>1. RunsGoOn /\ ItemsGoOn
    BY RunsKept, ItemsKept DEF InboxInv
<1>. SUFFICES ASSUME NEW v \in Viewers, views'[v].stage \in {"compared", "shown"}, ~views'[v].raced
              PROVE  Settled(items[views[v].item].run, views[v].prev)'
    BY DEF Compared
<1>2. ASSUME views[v].stage \in {"compared", "shown"}, ~views[v].raced,
             views'[v].item = views[v].item, views'[v].prev = views[v].prev
      PROVE  Settled(items[views[v].item].run, views[v].prev)'
  <2>. DEFINE run == items[views[v].item].run
              a == runs[run].agent
  <2>1. views[v].item \in DOMAIN items /\ run \in DOMAIN runs
    BY <1>2 DEF InboxInv, InboxType
  <2>2. items'[views'[v].item].run = run /\ runs'[run].agent = a
    BY <1>1, <1>2, <2>1 DEF RunsGoOn, GoesOn, ItemsGoOn
  <2>3. views[v].prev = PreviousRun(a, run) /\ \A r \in InFlight(a) : ~(r < run)
    BY <1>2 DEF InboxInv, Compared, Settled
  <2>. HIDE DEF run, a
  <2>4. PICK b, q : b = a /\ q = run
    OBVIOUS
  <2>5. PreviousRun(b, q)' = PreviousRun(b, q) /\ \A r \in InFlight(b)' : ~(r < q)
    BY <1>1, <2>1, <2>3, <2>4, PreviousKept DEF InboxInv
  <2>6. Settled(q, views[v].prev)' = (views'[v].prev = PreviousRun(b, q)' /\ \A r \in InFlight(b)' : ~(r < q))
    BY <2>2, <2>4 DEF Settled, PreviousRun, InFlight
  <2>. QED
    BY <1>2, <2>2, <2>3, <2>4, <2>5, <2>6 DEF Settled, PreviousRun, InFlight
<1>3. CASE views'[v] = views[v]
    BY <1>2, <1>3
<1>4. CASE views[v].stage = "compared" /\ views'[v] = [views[v] EXCEPT !.stage = "shown"]
  <2>1. views[v] \in View
    BY DEF InboxInv, InboxType
  <2>2. /\ views'[v].item = views[v].item /\ views'[v].prev = views[v].prev
        /\ views'[v].raced = views[v].raced
    BY <1>4, <2>1 DEF View
  <2>. QED
    BY <1>2, <1>4, <2>2
<1>5. CASE /\ views[v].stage = "read" /\ views'[v].stage = "compared" /\ views'[v].item = views[v].item
           /\ UNCHANGED <<runs, items>>
           /\ LET run == items[views[v].item].run
                  a == runs[run].agent
              IN  views'[v].prev = PreviousRun(a, run) /\ \A r \in InFlight(a) : ~(r < run)
    BY <1>5 DEF Settled, PreviousRun, InFlight
<1>. QED
    BY <1>3, <1>4, <1>5, ViewsKept DEF InboxInv

LEMMA InboxStep == InboxInv /\ [InboxNext]_inboxVars => InboxInv'
<1>. SUFFICES ASSUME InboxInv, [InboxNext]_inboxVars PROVE InboxInv'
    OBVIOUS
<1>1. TilesLeadToReports'
    BY FloorStep DEF InboxInv
<1>. QED
    BY <1>1, TypeKept, BesideKept, FilingKept, ComparedKept DEF InboxInv

LEMMA InboxAlways == InboxSpec => []InboxInv
    BY InboxStarts, InboxStep, PTL DEF InboxSpec

\* What the floor counts as unread leads to reports, whatever is filed, marked or
\* lost between the load of the floor and the click (handlers.go:1719).
THEOREM TilesLead == InboxSpec => []TilesLeadToReports
<1>1. InboxInv => TilesLeadToReports
    BY DEF InboxInv
<1>. QED
    BY <1>1, InboxAlways, PTL

\* A page shows the comparison that every later look would show.
THEOREM ComparisonStable == InboxSpec => []ComparisonIsStable
<1>1. InboxInv => ComparisonIsStable
    BY DEF InboxInv, Compared, Settled, ComparisonIsStable
<1>. QED
    BY <1>1, InboxAlways, PTL

\* Under what ComparesWithReportBelow asks of an agent's runs, the reports of the
\* agent and its runs that ended well are the same in the same order, so that the
\* run before is that of the report below.
LEMMA BelowIsBefore ==
    ASSUME InboxInv, NEW a \in Agents,
           \A r \in DOMAIN runs : runs[r].agent = a /\ runs[r].job = "gone" =>
               ~runs[r].beside /\ (runs[r].status = "ok" <=> r \in {items[j].run : j \in ItemsOf(a)}),
           NEW i \in ItemsOf(a)
    PROVE  PreviousRun(a, items[i].run) =
               LET below == {j \in ItemsOf(a) : j < i} IN IF below = {} THEN NoRun ELSE items[Max(below)].run
<1>. DEFINE run == items[i].run
            earlier == {r \in DOMAIN runs : runs[r].agent = a /\ r < run /\ runs[r].status = "ok"}
            below == {j \in ItemsOf(a) : j < i}
<1>1. /\ DOMAIN runs = 1..Len(runs) /\ Len(runs) \in Nat
      /\ DOMAIN items = 1..Len(items) /\ Len(items) \in Nat
    BY DEF InboxInv, InboxType
<1>2. ASSUME NEW j \in ItemsOf(a)
      PROVE  /\ j \in DOMAIN items /\ items[j].run \in DOMAIN runs /\ runs[items[j].run].agent = a
             /\ runs[items[j].run].job = "gone" /\ ~runs[items[j].run].beside /\ runs[items[j].run].status = "ok"
  <2>1. j \in DOMAIN items /\ items[j].run \in DOMAIN runs /\ runs[items[j].run].agent = a
    BY DEF ItemsOf, InboxInv, InboxType
  <2>2. runs[items[j].run].job = "gone"
    BY <2>1 DEF InboxInv, FiledOnce
  <2>. QED
    BY <2>1, <2>2
<1>3. ASSUME NEW j \in ItemsOf(a), NEW m \in ItemsOf(a), j < m PROVE items[j].run < items[m].run
  <2>1. items[j].run # items[m].run
    BY <1>1, <1>2, <1>3 DEF InboxInv, FiledOnce
  <2>2. ~(items[m].run < items[j].run)
    BY <1>2, <1>3 DEF InboxInv, InOrder
  <2>3. items[j].run \in Nat /\ items[m].run \in Nat
    BY <1>1, <1>2
  <2>. QED
    BY <2>1, <2>2, <2>3
<1>4. ASSUME NEW r \in earlier PROVE \E j \in below : r = items[j].run
  <2>1. runs[r].job = "gone"
    BY <1>2, <1>4 DEF InboxInv, BesideTold
  <2>2. PICK j \in ItemsOf(a) : r = items[j].run
    BY <1>4, <2>1
  <2>3. j \in Nat /\ i \in Nat /\ items[j].run \in Nat /\ items[i].run \in Nat
    BY <1>1, <1>2
  <2>4. j < i
    BY <1>3, <1>4, <2>2, <2>3
  <2>. QED
    BY <2>2, <2>4
<1>5. ASSUME NEW j \in below PROVE items[j].run \in earlier
    BY <1>2, <1>3
<1>6. CASE below = {}
  <2>1. earlier = {}
    BY <1>4, <1>6
  <2>. QED
    BY <1>6, <2>1 DEF PreviousRun, Largest
<1>7. CASE below # {}
  <2>. DEFINE m == Max(below)
  <2>1. below \in SUBSET (1..Len(items))
    BY <1>1, <1>2
  <2>. HIDE DEF below
  <2>2. m \in below /\ m \in Nat /\ \A j \in below : m >= j
    BY <1>1, <1>7, <2>1, LargestIs
  <2>. HIDE DEF m
  <2>3. items[m].run \in earlier
    BY <1>5, <2>2
  <2>4. ASSUME NEW r \in earlier PROVE items[m].run >= r
    <3>1. PICK j \in below : r = items[j].run
      BY <1>4
    <3>2. j = m \/ j < m
      BY <2>1, <2>2
    <3>3. items[m].run \in Nat /\ r \in Nat
      BY <1>1, <2>3
    <3>. QED
      BY <1>3, <2>2, <3>1, <3>2, <3>3 DEF below
  <2>5. earlier \in SUBSET (1..Len(runs))
    BY <1>1
  <2>. HIDE DEF earlier
  <2>6. Max(earlier) = items[m].run
    BY <1>1, <2>3, <2>4, <2>5, LargestIsThe
  <2>7. PreviousRun(a, items[i].run) = items[m].run
    BY <2>3, <2>6 DEF PreviousRun, Largest, earlier
  <2>. QED
    BY <1>7, <2>7 DEF below, m
<1>. QED
    BY <1>6, <1>7

\* So a report is compared with the one below it.
THEOREM ComparesWithBelow == InboxSpec => []ComparesWithReportBelow
<1>1. ASSUME InboxInv PROVE ComparesWithReportBelow
    BY <1>1, BelowIsBefore DEF ComparesWithReportBelow
<1>. QED
    BY <1>1, InboxAlways, PTL

-----------------------------------------------------------------------------
(* The stack of a project, for any catalogue, presets, forms and requests.  *)

StackRequest == [op : {"idle", "slots", "label", "panel"}, todo : SUBSET Slots, preset : Presets \cup {NoOption},
                 label : Presets \cup {NoOption}, raced : BOOLEAN, touched : SUBSET Slots]

\* No row holds an option that no release has.
StackType ==
    /\ rows = [s \in Slots |-> rows[s]] /\ \A s \in Slots : rows[s].option \in Options \cup {NoOption}
    /\ label \in Presets \cup {NoOption}
    /\ requests \in [Requests -> StackRequest]
    /\ touched \in SUBSET Slots

\* What the rows of some slots must be for a preset to be theirs.
Holds(p, slots) == \A s \in slots : rows[s].option = Preset[p][s]

\* The slots a request has written are still as it left them unless it knows
\* better; a request that goes for the label without slots clears it.
Applied(r) ==
    /\ requests[r].op = "slots" =>
        /\ requests[r].preset \in Presets
        /\ Holds(requests[r].preset, Slots \ (requests[r].todo \cup requests[r].touched))
    /\ requests[r].op = "label" => requests[r].preset = NoOption

LabelInv ==
    /\ label # NoOption => Holds(label, Slots \ touched)
    /\ \A r \in Requests : Applied(r)

\* A request whose panel is next, and that nobody raced, will show the label
\* there is; and when nobody is under way, that has been shown.
PanelInv ==
    /\ \A r \in Requests : requests[r].op = "panel" /\ ~requests[r].raced => requests[r].label = label
    /\ LastPanelIsCurrent

StackInv == StackType /\ LabelInv /\ PanelInv

LEMMA StackStarts == StackInit => StackInv
<1>. SUFFICES ASSUME StackInit PROVE StackInv
    OBVIOUS
<1>. USE DEF StackInit, NoRows, NoPick, Pick, Idle
<1>1. StackType
    BY DEF StackType, StackRequest
<1>2. LabelInv
    BY DEF LabelInv, Applied
<1>3. PanelInv
    BY DEF PanelInv, LastPanelIsCurrent
<1>. QED
    BY <1>1, <1>2, <1>3 DEF StackInv

\* What the other requests are told of a write.
LEMMA WriteNoted ==
    ASSUME StackType, NEW r \in Requests, NEW s \in Slots
    PROVE  /\ NoteWrite(r, s) \in [Requests -> StackRequest]
           /\ NoteWrite(r, s)[r] = requests[r]
           /\ \A q \in Requests \ {r} :
                /\ NoteWrite(r, s)[q].op = requests[q].op
                /\ NoteWrite(r, s)[q].todo = requests[q].todo
                /\ NoteWrite(r, s)[q].preset = requests[q].preset
                /\ NoteWrite(r, s)[q].label = requests[q].label
                /\ NoteWrite(r, s)[q].raced = requests[q].raced
                /\ requests[q].op # "idle" => NoteWrite(r, s)[q].touched = requests[q].touched \cup {s}
    BY DEF NoteWrite, StackType, StackRequest

\* A request that stays as it is, and rows too, is as true as before.
LEMMA OthersApplied ==
    ASSUME StackInv, NEW q \in Requests, requests'[q] = requests[q], rows' = rows
    PROVE  Applied(q)'
    BY DEF Applied, Holds, StackInv, LabelInv

\* Each of the ways a request goes on with another step.
LEMMA UpsertStep ==
    ASSUME StackInv, NEW r \in Requests, NEW s \in Slots, NEW pick \in FormsFor(s), StackUpsert(r, s, pick)
    PROVE  StackInv'
<1>. DEFINE picked == IF pick = Blank THEN NoPick ELSE pick
<1>1. picked.option \in Options \cup {NoOption}
    BY FormsType DEF FormsFor, NoPick, Pick
<1>2. Loaded("panel") \in StackRequest /\ Loaded("panel").op = "panel" /\ Loaded("panel").label = label
    BY DEF Loaded, Idle, StackRequest, StackInv, StackType
<1>3. label' = label /\ panel' = Unsure
    BY DEF StackUpsert
<1>. HIDE DEF picked
<1>4. CASE /\ rows' = [rows EXCEPT ![s] = picked]
           /\ requests' = [NoteWrite(r, s) EXCEPT ![r] = Loaded("panel")]
           /\ touched' = touched \cup {s}
  <2>1. StackType'
    BY <1>1, <1>2, <1>3, <1>4, WriteNoted DEF StackType, StackInv
  <2>2. requests'[r] = Loaded("panel") /\ \A q \in Requests \ {r} : requests'[q] = NoteWrite(r, s)[q]
    BY <1>4, WriteNoted DEF StackInv
  <2>3. \A t \in Slots : t # s => rows'[t] = rows[t]
    BY <1>4 DEF StackInv, StackType
  <2>4. label' # NoOption => Holds(label, Slots \ touched)'
    BY <1>3, <1>4, <2>3 DEF Holds, StackInv, LabelInv
  <2>5. ASSUME NEW q \in Requests PROVE Applied(q)'
    <3>1. CASE q = r
      BY <1>2, <2>2, <3>1 DEF Applied
    <3>2. CASE q # r
      <4>1. /\ requests'[q].op = requests[q].op /\ requests'[q].todo = requests[q].todo
            /\ requests'[q].preset = requests[q].preset
            /\ requests[q].op # "idle" => requests'[q].touched = requests[q].touched \cup {s}
        BY <2>2, <3>2, WriteNoted DEF StackInv
      <4>. QED
        BY <2>3, <4>1 DEF Applied, Holds, StackInv, LabelInv
    <3>. QED
      BY <3>1, <3>2
  <2>6. \A q \in Requests : requests'[q].op = "panel" /\ ~requests'[q].raced => requests'[q].label = label'
    BY <1>2, <1>3, <2>2, WriteNoted DEF StackInv, PanelInv
  <2>7. requests'[r].op # "idle"
    BY <1>2, <2>2
  <2>. QED
    BY <2>1, <2>4, <2>5, <2>6, <2>7 DEF StackInv, LabelInv, PanelInv, LastPanelIsCurrent
<1>5. CASE requests' = [requests EXCEPT ![r] = Loaded("panel")] /\ UNCHANGED <<rows, touched>>
  <2>1. StackType'
    BY <1>2, <1>3, <1>5 DEF StackType, StackInv
  <2>2. requests'[r] = Loaded("panel") /\ \A q \in Requests \ {r} : requests'[q] = requests[q]
    BY <1>5 DEF StackInv, StackType
  <2>3. LabelInv'
    BY <1>2, <1>3, <1>5, <2>2 DEF LabelInv, Applied, Holds, StackInv
  <2>4. PanelInv'
    BY <1>2, <1>3, <2>2 DEF Unsure, PanelInv, LastPanelIsCurrent, StackInv
  <2>. QED
    BY <2>1, <2>3, <2>4 DEF StackInv
<1>. QED
    BY <1>4, <1>5 DEF StackUpsert, picked

LEMMA ApplyStep ==
    ASSUME StackInv, NEW r \in Requests, NEW p \in Presets \cup {NoOption}, StackApplyPreset(r, p)
    PROVE  StackInv'
<1>. DEFINE first == IF p = NoOption THEN "label" ELSE "slots"
            left == IF p = NoOption THEN {} ELSE Slots
            asked == [Idle EXCEPT !.op = first, !.preset = p, !.label = label, !.todo = left]
<1>1. first \in {"slots", "label"} /\ left \in SUBSET Slots
    OBVIOUS
<1>2. p = NoOption => first = "label"
    OBVIOUS
<1>3. p # NoOption => first = "slots" /\ left = Slots
    OBVIOUS
<1>4. /\ asked \in StackRequest
      /\ asked.op = first /\ asked.todo = left /\ asked.preset = p /\ asked.label = label
  <2>. HIDE DEF first, left
  <2>. QED
    BY <1>1 DEF Idle, StackRequest, StackInv, StackType
<1>5. requests' = [requests EXCEPT ![r] = asked] /\ UNCHANGED <<rows, label, touched>>
    BY DEF StackApplyPreset
<1>. HIDE DEF asked, first, left
<1>6. requests'[r] = asked /\ \A q \in Requests \ {r} : requests'[q] = requests[q]
    BY <1>5 DEF StackInv, StackType
<1>7. StackType'
    BY <1>4, <1>5 DEF StackInv, StackType
<1>8. Applied(r)'
    BY <1>4, <1>6, <1>2, <1>3 DEF Applied, Holds
<1>9. LabelInv'
    BY <1>5, <1>6, <1>8, OthersApplied DEF LabelInv, Holds, StackInv
<1>10. PanelInv'
    BY <1>4, <1>5, <1>6, <1>1 DEF PanelInv, LastPanelIsCurrent, StackInv
<1>. QED
    BY <1>7, <1>9, <1>10 DEF StackInv

LEMMA SlotStep ==
    ASSUME StackInv, NEW r \in Requests, NEW s \in Slots, UpsertStackPick(r, s)
    PROVE  StackInv'
<1>. DEFINE p == requests[r].preset
            written == Pick(Preset[p][s], "", "")
<1>1. requests[r].op = "slots" /\ label' = label /\ panel' = panel
    BY DEF UpsertStackPick
<1>2. p \in Presets /\ Preset[p][s] \in Options
    BY <1>1, PresetsType DEF StackInv, LabelInv, Applied
<1>3. written.option = Preset[p][s] /\ written.option \in Options
    BY <1>2 DEF Pick
<1>4. requests[r] \in StackRequest
    BY DEF StackInv, StackType
<1>. HIDE DEF written
<1>5. CASE /\ rows' = [rows EXCEPT ![s] = written]
           /\ requests' = [NoteWrite(r, s) EXCEPT ![r].todo = @ \ {s}, ![r].touched = @ \ {s}]
           /\ touched' = touched \cup {s}
  <2>1. /\ requests'[r] = [requests[r] EXCEPT !.todo = @ \ {s}, !.touched = @ \ {s}]
        /\ \A q \in Requests \ {r} : requests'[q] = NoteWrite(r, s)[q]
        /\ DOMAIN requests' = Requests
    BY <1>5, WriteNoted DEF StackInv
  <2>2. /\ requests'[r] \in StackRequest /\ requests'[r].op = "slots" /\ requests'[r].preset = p
        /\ requests'[r].todo = requests[r].todo \ {s} /\ requests'[r].touched = requests[r].touched \ {s}
    <3>. DEFINE was == requests[r]
    <3>1. was \in StackRequest /\ requests'[r] = [was EXCEPT !.todo = @ \ {s}, !.touched = @ \ {s}]
      BY <1>4, <2>1
    <3>. HIDE DEF was
    <3>2. /\ requests'[r] \in StackRequest /\ requests'[r].op = was.op /\ requests'[r].preset = was.preset
          /\ requests'[r].todo = was.todo \ {s} /\ requests'[r].touched = was.touched \ {s}
      BY <3>1 DEF StackRequest
    <3>. QED
      BY <1>1, <3>2 DEF was
  <2>3. requests' = [q \in Requests |-> requests'[q]] /\ \A q \in Requests : requests'[q] \in StackRequest
    <3>1. requests' = [q \in Requests |-> requests'[q]]
      BY <1>5 DEF NoteWrite
    <3>. QED
      BY <2>1, <2>2, <3>1, WriteNoted DEF StackInv
  <2>4. StackType'
    BY <1>1, <1>3, <1>5, <2>3 DEF StackInv, StackType
  <2>5. rows'[s] = written /\ \A t \in Slots : t # s => rows'[t] = rows[t]
    BY <1>5 DEF StackInv, StackType
  <2>6. label' # NoOption => Holds(label, Slots \ touched)'
    BY <1>1, <1>5, <2>5 DEF Holds, StackInv, LabelInv
  <2>7. ASSUME NEW q \in Requests PROVE Applied(q)'
    <3>1. CASE q = r
      BY <1>1, <1>2, <1>3, <2>2, <2>5, <3>1 DEF Applied, Holds, StackInv, LabelInv
    <3>2. CASE q # r
      <4>1. /\ requests'[q].op = requests[q].op /\ requests'[q].todo = requests[q].todo
            /\ requests'[q].preset = requests[q].preset
            /\ requests[q].op # "idle" => requests'[q].touched = requests[q].touched \cup {s}
        BY <2>1, <3>2, WriteNoted DEF StackInv
      <4>. QED
        BY <2>5, <4>1 DEF Applied, Holds, StackInv, LabelInv
    <3>. QED
      BY <3>1, <3>2
  <2>8. ASSUME NEW q \in Requests, requests'[q].op = "panel", ~requests'[q].raced PROVE requests'[q].label = label'
    <3>1. q # r
      BY <2>2, <2>8
    <3>2. /\ requests'[q].op = requests[q].op /\ requests'[q].label = requests[q].label
          /\ requests'[q].raced = requests[q].raced
      BY <2>1, <3>1, WriteNoted DEF StackInv
    <3>. QED
      BY <1>1, <2>8, <3>2 DEF StackInv, PanelInv
  <2>. QED
    BY <2>2, <2>4, <2>6, <2>7, <2>8 DEF StackInv, LabelInv, PanelInv, LastPanelIsCurrent
<1>6. CASE /\ requests' = [requests EXCEPT ![r].todo = @ \ {s}, ![r].touched = @ \cup {s}]
           /\ UNCHANGED <<rows, touched>>
  <2>1. /\ requests'[r] = [requests[r] EXCEPT !.todo = @ \ {s}, !.touched = @ \cup {s}]
        /\ \A q \in Requests \ {r} : requests'[q] = requests[q]
    BY <1>6 DEF StackInv, StackType
  <2>2. /\ requests'[r] \in StackRequest /\ requests'[r].op = "slots" /\ requests'[r].preset = p
        /\ requests'[r].todo = requests[r].todo \ {s} /\ requests'[r].touched = requests[r].touched \cup {s}
    <3>1. requests[r].touched \cup {s} \in SUBSET Slots /\ requests[r].todo \ {s} \in SUBSET Slots
      BY <1>4 DEF StackRequest
    <3>. QED
      BY <1>1, <1>4, <2>1, <3>1 DEF StackRequest
  <2>3. requests' \in [Requests -> StackRequest]
    BY <1>6, <2>1, <2>2 DEF StackInv, StackType
  <2>4. StackType'
    BY <1>1, <1>6, <2>3 DEF StackInv, StackType
  <2>5. Applied(r)'
    <3>1. Holds(p, Slots \ (requests[r].todo \cup requests[r].touched))
      BY <1>1 DEF Applied, StackInv, LabelInv
    <3>2. \A t \in Slots \ (requests'[r].todo \cup requests'[r].touched) : rows'[t].option = Preset[p][t]
      BY <1>6, <2>2, <3>1 DEF Holds
    <3>. QED
      BY <1>2, <2>2, <3>2 DEF Applied, Holds
  <2>6. LabelInv'
    BY <1>1, <1>6, <2>1, <2>5, OthersApplied DEF LabelInv, Holds, StackInv
  <2>7. PanelInv'
    BY <1>1, <1>6, <2>1, <2>2 DEF PanelInv, LastPanelIsCurrent, StackInv
  <2>. QED
    BY <2>4, <2>6, <2>7 DEF StackInv
<1>. QED
    BY <1>5, <1>6 DEF UpsertStackPick, written

LEMMA LabelStep ==
    ASSUME StackInv, NEW r \in Requests, SetProjectStackPreset(r)
    PROVE  StackInv'
<1>. DEFINE p == requests[r].preset
<1>1. rows' = rows /\ panel' = panel
    BY DEF SetProjectStackPreset
<1>2. requests[r] \in StackRequest
    BY DEF StackInv, StackType
<1>3. p # NoOption => p \in Presets /\ Holds(p, Slots \ requests[r].touched)
    BY DEF SetProjectStackPreset, SlotsWritten, StackInv, LabelInv, Applied
<1>4. CASE /\ label' = p /\ touched' = requests[r].touched
           /\ requests' = [q \in Requests |->
                  IF q = r THEN [requests[q] EXCEPT !.op = "panel", !.label = ShownLabel(r)]
                  ELSE [requests[q] EXCEPT !.raced = requests[q].op # "idle"]]
  <2>1. /\ requests'[r] = [requests[r] EXCEPT !.op = "panel", !.label = p]
        /\ \A q \in Requests \ {r} : requests'[q] = [requests[q] EXCEPT !.raced = requests[q].op # "idle"]
    BY <1>4 DEF ShownLabel
  <2>2. requests'[r] \in StackRequest /\ requests'[r].op = "panel" /\ requests'[r].label = p
    BY <1>2, <2>1 DEF StackRequest
  <2>3. ASSUME NEW q \in Requests, q # r
        PROVE  /\ requests'[q] \in StackRequest
               /\ requests'[q].op = requests[q].op /\ requests'[q].todo = requests[q].todo
               /\ requests'[q].preset = requests[q].preset /\ requests'[q].touched = requests[q].touched
               /\ requests[q].op # "idle" => requests'[q].raced
    <3>. DEFINE other == requests[q].op # "idle"
    <3>1. requests[q] \in StackRequest /\ other \in BOOLEAN
      BY DEF StackInv, StackType
    <3>2. requests'[q] = [requests[q] EXCEPT !.raced = other]
      BY <2>1, <2>3
    <3>3. requests[q].op # "idle" => other
      OBVIOUS
    <3>. HIDE DEF other
    <3>. QED
      BY <3>1, <3>2, <3>3 DEF StackRequest
  <2>4. requests' \in [Requests -> StackRequest]
    BY <1>4, <2>2, <2>3
  <2>5. StackType'
    BY <1>1, <1>2, <1>4, <2>4 DEF StackInv, StackType, StackRequest
  <2>6. label' # NoOption => Holds(label, Slots \ touched)'
    BY <1>1, <1>3, <1>4 DEF Holds
  <2>7. ASSUME NEW q \in Requests PROVE Applied(q)'
    <3>1. CASE q = r
      BY <2>2, <3>1 DEF Applied
    <3>2. CASE q # r
      BY <1>1, <2>3, <3>2 DEF Applied, Holds, StackInv, LabelInv
    <3>. QED
      BY <3>1, <3>2
  <2>8. \A q \in Requests : requests'[q].op = "panel" /\ ~requests'[q].raced => requests'[q].label = label'
    BY <1>4, <2>2, <2>3
  <2>. QED
    BY <2>2, <2>5, <2>6, <2>7, <2>8 DEF StackInv, LabelInv, PanelInv, LastPanelIsCurrent
<1>5. CASE /\ requests' = [requests EXCEPT ![r].op = "panel", ![r].label = ShownLabel(r), ![r].raced = TRUE]
           /\ UNCHANGED <<label, touched>>
  <2>1. /\ requests'[r] = [requests[r] EXCEPT !.op = "panel", !.label = p, !.raced = TRUE]
        /\ \A q \in Requests \ {r} : requests'[q] = requests[q]
    BY <1>5 DEF StackInv, StackType, ShownLabel
  <2>2. requests'[r] \in StackRequest /\ requests'[r].op = "panel" /\ requests'[r].raced
    BY <1>2, <2>1 DEF StackRequest
  <2>3. requests' \in [Requests -> StackRequest]
    BY <1>5, <2>1, <2>2 DEF StackInv, StackType
  <2>4. StackType'
    BY <1>1, <1>5, <2>3 DEF StackInv, StackType
  <2>5. Applied(r)'
    BY <2>2 DEF Applied
  <2>6. LabelInv'
    BY <1>1, <1>5, <2>1, <2>5, OthersApplied DEF LabelInv, Holds, StackInv
  <2>7. PanelInv'
    BY <1>1, <1>5, <2>1, <2>2 DEF PanelInv, LastPanelIsCurrent, StackInv
  <2>. QED
    BY <2>4, <2>6, <2>7 DEF StackInv
<1>. QED
    BY <1>4, <1>5 DEF SetProjectStackPreset

LEMMA PanelStep ==
    ASSUME StackInv, NEW r \in Requests, RenderStackPanel(r)
    PROVE  StackInv'
<1>1. requests[r].op = "panel" /\ UNCHANGED <<rows, label, touched>>
    BY DEF RenderStackPanel
<1>2. Idle \in StackRequest /\ Idle.op = "idle"
    BY DEF Idle, StackRequest
<1>3. requests'[r] = Idle /\ \A q \in Requests \ {r} : requests'[q] = requests[q]
    BY DEF RenderStackPanel, StackInv, StackType
<1>4. StackType'
    BY <1>1, <1>2 DEF RenderStackPanel, StackInv, StackType
<1>5. Applied(r)'
    BY <1>2, <1>3 DEF Applied
<1>6. LabelInv'
    BY <1>1, <1>3, <1>5 DEF LabelInv, Applied, Holds, StackInv
<1>7. panel' = Unsure \/ (~requests[r].raced /\ panel' = [rows |-> rows, label |-> requests[r].label])
    BY DEF RenderStackPanel
<1>8. LastPanelIsCurrent'
    BY <1>1, <1>7 DEF LastPanelIsCurrent, StackInv, PanelInv, Unsure
<1>9. PanelInv'
    BY <1>1, <1>2, <1>3, <1>8 DEF PanelInv, StackInv
<1>. QED
    BY <1>4, <1>6, <1>9 DEF StackInv

LEMMA StackStep == StackInv /\ [StackNext]_stackVars => StackInv'
<1>. SUFFICES ASSUME StackInv, [StackNext]_stackVars PROVE StackInv'
    OBVIOUS
<1>1. ASSUME Crash PROVE StackInv'
  <2>1. \A r \in Requests : requests'[r].op = "idle"
    BY <1>1 DEF Crash, Idle
  <2>2. StackType'
    BY <1>1 DEF Crash, Idle, StackInv, StackType, StackRequest
  <2>3. LabelInv'
    BY <1>1, <2>1 DEF Crash, StackInv, LabelInv, Applied, Holds
  <2>4. PanelInv'
    BY <1>1, <2>1 DEF Crash, PanelInv, LastPanelIsCurrent, Unsure
  <2>. QED
    BY <2>2, <2>3, <2>4 DEF StackInv
<1>2. ASSUME UNCHANGED stackVars PROVE StackInv'
    BY <1>2 DEF stackVars, StackInv, StackType, LabelInv, Applied, Holds, PanelInv, LastPanelIsCurrent, Unsure
<1>. QED
    BY <1>1, <1>2, UpsertStep, ApplyStep, SlotStep, LabelStep, PanelStep DEF StackNext

LEMMA StackAlways == StackSpec => []StackInv
    BY StackStarts, StackStep, PTL DEF StackSpec

\* What is written, or is being written, is of this server's catalogue.
OfferedInv ==
    /\ renewed \subseteq Slots /\ \A s \in renewed : rows[s].option \in offered \cup {NoOption}
    /\ \A r \in Requests : requests[r].op = "slots" => requests[r].preset \in PresetsOf(offered)

LEMMA OfferedStep == StackInv /\ OfferedInv /\ [StackNext]_stackVars => OfferedInv'
<1>. SUFFICES ASSUME StackInv, OfferedInv, [StackNext]_stackVars PROVE OfferedInv'
    OBVIOUS
<1>. DEFINE Kept(q) == requests'[q].op = "slots" => requests'[q].preset \in PresetsOf(offered)'
<1>1. StackType
    BY DEF StackInv
<1>2. ASSUME NEW r \in Requests, NEW s \in Slots, NEW pick \in FormsFor(s), StackUpsert(r, s, pick) PROVE OfferedInv'
  <2>. DEFINE picked == IF pick = Blank THEN NoPick ELSE pick
  <2>1. picked.option \in offered \cup {NoOption} /\ offered' = offered
    BY <1>2 DEF StackUpsert, Accept, NoPick, Pick
  <2>2. Loaded("panel").op = "panel"
    BY DEF Loaded, Idle
  <2>. HIDE DEF picked
  <2>3. CASE /\ rows' = [rows EXCEPT ![s] = picked] /\ renewed' = renewed \cup {s}
             /\ requests' = [NoteWrite(r, s) EXCEPT ![r] = Loaded("panel")]
    <3>1. \A t \in renewed' : rows'[t].option \in offered' \cup {NoOption}
      BY <1>1, <2>1, <2>3 DEF StackType, OfferedInv
    <3>2. ASSUME NEW q \in Requests PROVE Kept(q)
      <4>1. CASE q = r
        BY <1>1, <2>2, <2>3, <4>1, WriteNoted
      <4>2. CASE q # r
        <5>1. requests'[q].op = requests[q].op /\ requests'[q].preset = requests[q].preset
          BY <1>1, <2>3, <4>2, WriteNoted
        <5>. QED
          BY <2>1, <5>1 DEF OfferedInv
      <4>. QED
        BY <4>1, <4>2
    <3>. QED
      BY <2>3, <3>1, <3>2 DEF OfferedInv
  <2>4. CASE requests' = [requests EXCEPT ![r] = Loaded("panel")] /\ UNCHANGED <<rows, renewed>>
    <3>1. ASSUME NEW q \in Requests PROVE Kept(q)
      BY <1>1, <2>1, <2>2, <2>4 DEF StackType, OfferedInv
    <3>. QED
      BY <2>1, <2>4, <3>1 DEF OfferedInv
  <2>. QED
    BY <1>2, <2>3, <2>4 DEF StackUpsert, picked
<1>3. ASSUME NEW r \in Requests, NEW p \in Presets \cup {NoOption}, StackApplyPreset(r, p) PROVE OfferedInv'
  <2>. DEFINE first == IF p = NoOption THEN "label" ELSE "slots"
              left == IF p = NoOption THEN {} ELSE Slots
              asked == [Idle EXCEPT !.op = first, !.preset = p, !.label = label, !.todo = left]
  <2>1. p \in PresetsOf(offered) \cup {NoOption} /\ UNCHANGED <<rows, offered, renewed>>
    BY <1>3 DEF StackApplyPreset
  <2>2. requests' = [requests EXCEPT ![r] = asked]
    BY <1>3 DEF StackApplyPreset
  <2>3. asked.op = first /\ asked.preset = p
    <3>. HIDE DEF first, left
    <3>. QED
      BY DEF Idle
  <2>4. p = NoOption => first = "label"
    OBVIOUS
  <2>. HIDE DEF asked, first, left
  <2>5. ASSUME NEW q \in Requests PROVE Kept(q)
    BY <1>1, <2>1, <2>2, <2>3, <2>4 DEF StackType, OfferedInv
  <2>. QED
    BY <2>1, <2>5 DEF OfferedInv
<1>4. ASSUME NEW r \in Requests, NEW s \in Slots, UpsertStackPick(r, s) PROVE OfferedInv'
  <2>. DEFINE p == requests[r].preset
              given == Pick(Preset[p][s], "", "")
  <2>1. offered' = offered /\ p \in PresetsOf(offered)
    BY <1>4 DEF UpsertStackPick, OfferedInv
  <2>2. given.option \in offered
    BY <2>1 DEF Pick, PresetsOf
  <2>. HIDE DEF given
  <2>3. ASSUME NEW q \in Requests PROVE Kept(q)
    <3>1. requests'[q].op = requests[q].op /\ requests'[q].preset = requests[q].preset
      <4>1. CASE requests' = [requests EXCEPT ![r].todo = @ \ {s}, ![r].touched = @ \cup {s}]
        BY <1>1, <4>1 DEF StackType, StackRequest
      <4>2. CASE requests' = [NoteWrite(r, s) EXCEPT ![r].todo = @ \ {s}, ![r].touched = @ \ {s}]
        <5>1. CASE q = r
          <6>. DEFINE was == requests[r]
          <6>1. was \in StackRequest /\ requests'[r] = [was EXCEPT !.todo = @ \ {s}, !.touched = @ \ {s}]
            BY <1>1, <4>2, WriteNoted DEF StackType
          <6>. HIDE DEF was
          <6>2. requests'[r].op = was.op /\ requests'[r].preset = was.preset
            BY <6>1 DEF StackRequest
          <6>. QED
            BY <5>1, <6>2 DEF was
        <5>2. CASE q # r
          BY <1>1, <4>2, <5>2, WriteNoted
        <5>. QED
          BY <5>1, <5>2
      <4>. QED
        BY <1>4, <4>1, <4>2 DEF UpsertStackPick
    <3>. QED
      BY <2>1, <3>1 DEF OfferedInv
  <2>4. renewed' \subseteq Slots /\ \A t \in renewed' : rows'[t].option \in offered' \cup {NoOption}
    <3>1. \/ rows' = [rows EXCEPT ![s] = given] /\ renewed' = renewed \cup {s}
          \/ rows' = rows /\ renewed' = renewed
      BY <1>4 DEF UpsertStackPick, given
    <3>2. CASE rows' = [rows EXCEPT ![s] = given] /\ renewed' = renewed \cup {s}
      <4>1. rows'[s] = given /\ \A t : t # s => rows'[t] = rows[t] \/ t \notin Slots
        BY <1>1, <3>2 DEF StackType
      <4>2. ASSUME NEW t \in renewed', t # s PROVE t \in renewed /\ t \in Slots
        BY <3>2, <4>2 DEF OfferedInv
      <4>. QED
        BY <2>1, <2>2, <3>2, <4>1, <4>2 DEF OfferedInv
    <3>3. CASE rows' = rows /\ renewed' = renewed
      BY <2>1, <3>3 DEF OfferedInv
    <3>. QED
      BY <3>1, <3>2, <3>3
  <2>. QED
    BY <2>3, <2>4 DEF OfferedInv
<1>5. ASSUME NEW r \in Requests, SetProjectStackPreset(r) PROVE OfferedInv'
  <2>1. UNCHANGED <<rows, offered, renewed>>
    BY <1>5 DEF SetProjectStackPreset
  <2>2. ASSUME NEW q \in Requests
        PROVE  requests'[q].op = "panel" \/ (requests'[q].op = requests[q].op /\ requests'[q].preset = requests[q].preset)
    <3>1. requests[q] \in StackRequest /\ requests[r] \in StackRequest
      BY <1>1 DEF StackType
    <3>2. CASE requests' = [x \in Requests |->
                 IF x = r THEN [requests[x] EXCEPT !.op = "panel", !.label = ShownLabel(r)]
                 ELSE [requests[x] EXCEPT !.raced = requests[x].op # "idle"]]
      <4>1. CASE q = r
        BY <3>1, <3>2, <4>1 DEF StackRequest
      <4>2. CASE q # r
        <5>. DEFINE other == requests[q].op # "idle"
        <5>1. requests'[q] = [requests[q] EXCEPT !.raced = other]
          BY <3>2, <4>2
        <5>. HIDE DEF other
        <5>. QED
          BY <3>1, <5>1 DEF StackRequest
      <4>. QED
        BY <4>1, <4>2
    <3>3. CASE requests' = [requests EXCEPT ![r].op = "panel", ![r].label = ShownLabel(r), ![r].raced = TRUE]
      BY <1>1, <3>1, <3>3 DEF StackType, StackRequest
    <3>. QED
      BY <1>5, <3>2, <3>3 DEF SetProjectStackPreset
  <2>. QED
    BY <2>1, <2>2 DEF OfferedInv
<1>6. ASSUME NEW r \in Requests, RenderStackPanel(r) PROVE OfferedInv'
  <2>1. \A q \in Requests : requests'[q].op = "idle" \/ requests'[q] = requests[q]
    BY <1>1, <1>6 DEF RenderStackPanel, StackType, Idle
  <2>. QED
    BY <1>6, <2>1 DEF RenderStackPanel, OfferedInv
<1>7. ASSUME Crash PROVE OfferedInv'
    BY <1>7 DEF Crash, OfferedInv, Idle
<1>8. ASSUME UNCHANGED stackVars PROVE OfferedInv'
    BY <1>8 DEF stackVars, OfferedInv
<1>. QED
    BY <1>2, <1>3, <1>4, <1>5, <1>6, <1>7, <1>8 DEF StackNext

LEMMA OfferedAlways == StackSpec => []OfferedInv
<1>1. StackInit => OfferedInv
    BY DEF StackInit, OfferedInv, Idle
<1>. QED
    BY <1>1, OfferedStep, StackAlways, PTL DEF StackSpec

\* What a prompt and a chip say of a pick is the same as long as the catalogue
\* has what is picked, unless that is a version alone.
LEMMA PickAgrees ==
    ASSUME NEW pick, pick.option \in offered \cup {NoOption}, NoOption \notin offered,
           ~(pick.option = NoOption /\ pick.text = "" /\ pick.version # "")
    PROVE  ResolveValue(pick, offered) = ChipValue(pick)
<1>2. CASE pick.option \in offered
    BY <1>2 DEF ResolveValue, ChipValue
<1>3. CASE pick = NoPick
    BY <1>3 DEF ResolveValue, ChipValue, NoPick, Pick
<1>4. CASE pick.option = NoOption /\ pick # NoPick /\ pick.text # ""
    BY <1>4 DEF ResolveValue, ChipValue
<1>5. CASE pick.option = NoOption /\ pick # NoPick /\ pick.text = "" /\ pick.version = ""
    BY <1>5 DEF ResolveValue, ChipValue, Nothing, Says
<1>. QED
    BY <1>2, <1>3, <1>4, <1>5

\* Whatever releases follow each other and whatever their pages ask for: a prompt
\* says of a slot what its chip says, unless the slot has not been written since the
\* server started and holds what this release does not have, or a version alone
\* (handlers.go:514, 604, catalog.go:310).
THEOREM PromptAgrees == StackSpec => []PromptAgreesWithPanel
<1>1. StackInv /\ OfferedInv /\ NoOption \notin offered => PromptAgreesWithPanel
  <2>. SUFFICES ASSUME StackInv, OfferedInv, NoOption \notin offered, NEW s \in Slots,
                       ResolveValue(rows[s], offered) # ChipValue(rows[s]),
                       ~(rows[s].option = NoOption /\ rows[s].text = "" /\ rows[s].version # "")
                PROVE  s \notin renewed /\ rows[s].option \notin offered
    BY DEF PromptAgreesWithPanel
  <2>1. rows[s].option \notin offered \cup {NoOption}
    BY PickAgrees
  <2>. QED
    BY <2>1 DEF OfferedInv
<1>2. StackSpec => [](NoOption \notin offered)
  <2>1. \A options \in Releases : NoOption \notin options
    BY CatalogueType
  <2>2. StackInit => NoOption \notin offered
    BY <2>1 DEF StackInit
  <2>3. NoOption \notin offered /\ [StackNext]_stackVars => (NoOption \notin offered)'
    BY <2>1 DEF StackNext, StackUpsert, StackApplyPreset, UpsertStackPick, SetProjectStackPreset, RenderStackPanel, Crash, stackVars
  <2>. QED
    BY <2>2, <2>3, PTL DEF StackSpec
<1>. QED
    BY <1>1, <1>2, StackAlways, OfferedAlways, PTL

\* The label names what every slot holds that no other request wrote, and no
\* slot of those is incompatible as long as the runtime is one of them.
THEOREM LabelTrue == StackSpec => []LabelIsTrue
<1>1. StackInv => LabelIsTrue
  <2>. SUFFICES ASSUME StackInv, label # NoOption
                PROVE  /\ Holds(label, Slots \ touched)
                       /\ Runtime \notin touched => IncompatibleSlots(rows, offered) \subseteq touched
    BY DEF LabelIsTrue, Holds
  <2>1. Holds(label, Slots \ touched) /\ label \in Presets
    BY DEF StackInv, LabelInv, StackType
  <2>2. ASSUME Runtime \notin touched, NEW s \in IncompatibleSlots(rows, offered), s \notin touched PROVE FALSE
    <3>1. rows[Runtime].option = Preset[label][Runtime] /\ rows[s].option = Preset[label][s] /\ s \in Slots
      BY <2>1, <2>2, CatalogueType DEF Holds, IncompatibleSlots
    <3>2. IsOptionCompatible(rows[s].option, rows[Runtime].option)
      BY <2>1, <3>1, PresetsType DEF IsOptionCompatible
    <3>. QED
      BY <2>2, <3>2 DEF IncompatibleSlots
  <2>. QED
    BY <2>1, <2>2
<1>. QED
    BY <1>1, StackAlways, PTL

\* Once all requests have been answered the last panel is what is stored, but
\* for the answers that own to being unsure.
THEOREM LastPanelCurrent == StackSpec => []LastPanelIsCurrent
<1>1. StackInv => LastPanelIsCurrent
    BY DEF StackInv, PanelInv
<1>. QED
    BY <1>1, StackAlways, PTL
=============================================================================
