------------------------------ MODULE Promote -------------------------------
(***************************************************************************)
(* Promoting ideas to projects.  The web handler looks whether the idea has *)
(* a project, probes for a free slug and inserts: three statements with     *)
(* nothing around them, while other requests, forms and pat ideas promote   *)
(* insert projects too.  Only the UNIQUE constraint on slug is atomic.      *)
(***************************************************************************)
EXTENDS Naturals, Sequences

CONSTANTS Ideas,
          Webs,          \* requests to POST /ideas/{id}/promote
          Candidates,    \* for each idea the slugs uniqueProjectSlug goes through
          None,          \* a project made from no idea
          MaxProjects,   \* bound: projects stored
          StoreMayFail   \* may a query return an error?

Slugs == UNION {{Candidates[i][c] : c \in DOMAIN Candidates[i]} : i \in Ideas}

\* The last candidate is taken without a probe (slug-1001 in the code).
ASSUME CandidatesType ==
    \A i \in Ideas : Candidates[i] \in Seq(STRING) /\ Len(Candidates[i]) > 1
ASSUME OtherConstants ==
    None \notin Ideas /\ MaxProjects \in Nat /\ StoreMayFail \in BOOLEAN

VARIABLES
    projects,  \* the table projects, whose rows are never deleted: an id is a position
    pc,        \* where each request is
    want,      \* the idea it promotes
    k,         \* the candidate it is at
    answer,    \* the project it redirected to; 0 while there is none
    checked,   \* history: projects stored when it looked for the idea's
    probed,    \* history: projects stored when it found its slug free
    flaky      \* history: was one of its queries refused?

vars == <<projects, pc, want, k, answer, checked, probed, flaky>>
history == <<checked, probed, flaky>>

Project == [slug : Slugs, idea : Ideas \cup {None}]

TypeOK ==
    /\ projects \in Seq(Project)
    /\ pc \in [Webs -> {"idle", "check", "probe", "insert", "redirected", "failed"}]
    /\ want \in [Webs -> Ideas \cup {None}]
    /\ \A p \in Webs : pc[p] # "idle" => want[p] \in Ideas /\ k[p] \in DOMAIN Candidates[want[p]]
    /\ \A p \in Webs : pc[p] \in {"check", "probe"} => k[p] < Len(Candidates[want[p]])
    /\ k \in [Webs -> Nat] /\ answer \in [Webs -> Nat]
    /\ checked \in [Webs -> Nat] /\ probed \in [Webs -> Nat]
    /\ flaky \in [Webs -> BOOLEAN]

Init ==
    /\ projects = <<>>
    /\ pc = [p \in Webs |-> "idle"] /\ want = [p \in Webs |-> None]
    /\ k = [p \in Webs |-> 1] /\ answer = [p \in Webs |-> 0]
    /\ checked = [p \in Webs |-> 0] /\ probed = [p \in Webs |-> 0]
    /\ flaky = [p \in Webs |-> FALSE]

Ids == DOMAIN projects
FromIdea(i) == {n \in Ids : projects[n].idea = i}
Taken(slug) == \E n \in Ids : projects[n].slug = slug
Slug(p) == Candidates[want[p]][k[p]]

Goto(p, label) == pc' = [pc EXCEPT ![p] = label]

-----------------------------------------------------------------------------
(* POST /ideas/{id}/promote.                                                *)

\* The idea is loaded.  A client sends one request after the other.
Begin(p, i) ==
    /\ pc[p] \in {"idle", "redirected", "failed"} /\ Goto(p, "check")
    /\ want' = [want EXCEPT ![p] = i]
    /\ k' = [k EXCEPT ![p] = 1] /\ answer' = [answer EXCEPT ![p] = 0]
    /\ checked' = [checked EXCEPT ![p] = 0] /\ probed' = [probed EXCEPT ![p] = 0]
    /\ flaky' = [flaky EXCEPT ![p] = FALSE]
    /\ UNCHANGED projects

\* Mutant: every promotion makes a project.
ProjectByIdeaSkipped(p) ==
    /\ pc[p] = "check" /\ Goto(p, "probe")
    /\ checked' = [checked EXCEPT ![p] = Len(projects)]
    /\ UNCHANGED <<projects, want, k, answer, probed, flaky>>

\* ORDER BY id DESC LIMIT 1; an error counts as "not promoted yet".
ProjectByIdea(p) ==
    /\ pc[p] = "check"
    /\ checked' = [checked EXCEPT ![p] = Len(projects)]
    /\ \/ \E n \in FromIdea(want[p]) :
             /\ \A m \in FromIdea(want[p]) : m <= n
             /\ answer' = [answer EXCEPT ![p] = n]
             /\ Goto(p, "redirected")
             /\ UNCHANGED flaky
       \/ /\ FromIdea(want[p]) = {}
          /\ Goto(p, "probe")
          /\ UNCHANGED <<answer, flaky>>
       \/ /\ StoreMayFail /\ flaky' = [flaky EXCEPT ![p] = TRUE]
          /\ Goto(p, "probe")
          /\ UNCHANGED answer
    /\ UNCHANGED <<projects, want, k, probed>>

\* Mutant: the slug of the title is used without a probe.
ProbeSkipped(p) ==
    /\ pc[p] = "probe" /\ Goto(p, "insert")
    /\ probed' = [probed EXCEPT ![p] = Len(projects)]
    /\ UNCHANGED <<projects, want, k, answer, checked, flaky>>

\* uniqueProjectSlug: ProjectBySlug of one candidate after the other; an error
\* counts as "free", and the last candidate is not asked about.
ProjectBySlug(p) ==
    /\ pc[p] = "probe"
    /\ \/ /\ Taken(Slug(p))
          /\ k' = [k EXCEPT ![p] = @ + 1]
          /\ Goto(p, IF k[p] + 1 = Len(Candidates[want[p]]) THEN "insert" ELSE "probe")
          /\ UNCHANGED <<probed, flaky>>
       \/ /\ ~Taken(Slug(p))
          /\ probed' = [probed EXCEPT ![p] = Len(projects)]
          /\ Goto(p, "insert")
          /\ UNCHANGED <<k, flaky>>
       \/ /\ StoreMayFail /\ flaky' = [flaky EXCEPT ![p] = TRUE]
          /\ Goto(p, "insert")
          /\ UNCHANGED <<k, probed>>
    /\ UNCHANGED <<projects, want, answer, checked>>

\* The insert is one statement, which the UNIQUE constraint may refuse.
Insert(slug, idea) ==
    /\ Len(projects) < MaxProjects /\ ~Taken(slug)
    /\ projects' = Append(projects, [slug |-> slug, idea |-> idea])

\* Mutant: the redirect goes to the id that was the next one at the check.
CreateProjectStaleId(p) ==
    /\ pc[p] = "insert" /\ Goto(p, "redirected")
    /\ Insert(Slug(p), want[p])
    /\ answer' = [answer EXCEPT ![p] = checked[p] + 1]
    /\ UNCHANGED <<want, k, history>>

CreateProject(p) ==
    /\ pc[p] = "insert" /\ Goto(p, "redirected")
    /\ Insert(Slug(p), want[p])
    /\ answer' = [answer EXCEPT ![p] = Len(projects) + 1]
    /\ UNCHANGED <<want, k, history>>

CreateRefused(p) ==
    /\ pc[p] = "insert" /\ Goto(p, "failed")
    /\ \/ Taken(Slug(p)) /\ UNCHANGED flaky
       \/ StoreMayFail /\ flaky' = [flaky EXCEPT ![p] = TRUE]
    /\ UNCHANGED <<projects, want, k, answer, checked, probed>>

\* Inserts of one statement, with the slug of the title and no look before it:
\* pat ideas promote has the title of its idea, POST /projects and a synthesis
\* have any title.  A refused one changes nothing.
PromoteFromCLI(i) ==
    Insert(Candidates[i][1], i) /\ UNCHANGED <<pc, want, k, answer, history>>
CreateFromForm(slug) ==
    Insert(slug, None) /\ UNCHANGED <<pc, want, k, answer, history>>

Serve(p) ==
    \/ ProjectByIdea(p) \/ ProjectBySlug(p) \/ CreateProject(p) \/ CreateRefused(p)
Next ==
    \/ \E p \in Webs : Serve(p) \/ \E i \in Ideas : Begin(p, i)
    \/ \E i \in Ideas : PromoteFromCLI(i)
    \/ \E slug \in Slugs : CreateFromForm(slug)

Spec == Init /\ [][Next]_vars

-----------------------------------------------------------------------------
(* What must hold.                                                          *)

\* A web request makes a second project of an idea only if the first was stored
\* after it looked for one, or a query of its own was refused: promoting again,
\* later, redirects and makes nothing (handlers.go:218-224).
DuplicateNeedsRace ==
    [][\A p \in Webs : pc[p] = "insert" /\ pc'[p] = "redirected" /\ ~flaky[p] =>
          \A n \in FromIdea(want[p]) : n > checked[p]]_vars

\* A promotion that succeeds leads to a project of the idea that was promoted,
\* also when it lost a race for the slug, the id or the idea itself.
AnswerLeadsHome ==
    \A p \in Webs : pc[p] = "redirected" =>
        answer[p] \in Ids /\ projects[answer[p]].idea = want[p]

\* A promotion fails only if its slug was taken after it was found free, or
\* none of the candidates was free: ideas of equal titles can be promoted
\* (handlers.go:240-256).
FailureNeedsRace ==
    \A p \in Webs : pc[p] = "failed" /\ ~flaky[p] =>
        \/ k[p] = Len(Candidates[want[p]])
        \/ \E n \in Ids : n > probed[p] /\ projects[n].slug = Slug(p)
=============================================================================
