----------------------------- MODULE ProjectDoc -----------------------------
(***************************************************************************)
(* One project: its design doc and the artifacts that passes over it leave  *)
(* behind.  A pass is a request that reads the project, composes a prompt,  *)
(* waits minutes for a model, and then writes; any number of passes may be  *)
(* in flight.  What is up to date with what is judged from timestamps of    *)
(* one second: a critique is pending while it is younger than the last      *)
(* change of the project row, a reconciliation is shown unless it is older  *)
(* than the brief.  RunLifecycle models how a pass is recorded and how it   *)
(* may fail; here a pass ends with its writes or without them.              *)
(***************************************************************************)
EXTENDS Naturals, Sequences

CONSTANTS Passes,        \* requests in flight; each one serves many in turn
          Kinds,         \* the panels of the page that are used
          Presets,       \* does the user apply stack presets?
          MaxArtifacts,  \* bound: artifacts stored
          MaxVersion,    \* bound: rewrites of the doc
          MaxClock       \* bound: seconds

DocKinds == {"draft", "apply", "team"}

ASSUME KindsType == Kinds \subseteq DocKinds \cup {"critique", "brief", "recon", "devil"}
ASSUME PresetsType == Presets \in BOOLEAN
ASSUME BoundsType == MaxArtifacts \in Nat /\ MaxVersion \in Nat /\ MaxClock \in Nat

VARIABLES
    clock,      \* CURRENT_TIMESTAMP
    artifacts,  \* the table artifacts; an id is a position
    doc,        \* projects.design_doc: its version, what its author had seen
    updated,    \* projects.updated_at
    pc,         \* where each pass is
    task        \* what each pass read, and what it is to produce

vars == <<clock, artifacts, doc, updated, pc, task>>

Artifact == [kind : {"critique", "brief", "brief_recon", "decision"},
             at : Nat,
             of : Nat,           \* the brief a reconciliation was made from
             items : BOOLEAN,    \* has a brief its reading list?
             notes : BOOLEAN]    \* ... and has the user noted anything there?

Task == [kind : Kinds \cup {"none"},
         base : Nat,        \* the version of the doc in the prompt
         seen : Nat,        \* artifacts stored when the prompt was composed
         input : Nat]       \* the critique or the brief in the prompt

TypeOK ==
    /\ clock \in Nat
    /\ artifacts \in Seq(Artifact)
    /\ doc \in [version : Nat, seen : Nat]
    /\ updated \in Nat
    /\ pc \in [Passes -> {"idle", "open", "llm", "items"}]
    /\ task \in [Passes -> Task]

Ids == 1..Len(artifacts)
Of(kind) == {i \in Ids : artifacts[i].kind = kind}

\* LatestArtifact: ORDER BY id DESC LIMIT 1; 0 when there is none.
Latest(kind) ==
    IF Of(kind) = {} THEN 0
    ELSE CHOOSE i \in Of(kind) : \A j \in Of(kind) : j <= i

NoTask == [kind |-> "none", base |-> 0, seen |-> 0, input |-> 0]

\* A project starts blank, or with the doc it was synthesized with.
Init ==
    /\ clock = 1 /\ updated = 1
    /\ artifacts = <<>>
    /\ doc \in [version : {0, 1}, seen : {0}]
    /\ pc = [p \in Passes |-> "idle"]
    /\ task = [p \in Passes |-> NoTask]

Goto(p, label) == pc' = [pc EXCEPT ![p] = label]
Leave(p) == Goto(p, "idle") /\ task' = [task EXCEPT ![p] = NoTask]

-----------------------------------------------------------------------------
(* A pass begins.                                                           *)

\* projectActions loads the project row before it looks at the request.
Open(p, kind) ==
    /\ pc[p] = "idle" /\ Goto(p, "open")
    /\ task' = [task EXCEPT ![p] = [NoTask EXCEPT !.kind = kind, !.base = doc.version]]
    /\ UNCHANGED <<clock, artifacts, doc, updated>>

\* Mutant: any brief may be reconciled.
AnswerableWithoutNotes(p) ==
    task[p].kind = "recon" => Latest("brief") # 0

\* The answers 400: nothing to critique, to apply or to reconcile.
Answerable(p) ==
    CASE task[p].kind = "critique" -> task[p].base > 0
      [] task[p].kind = "apply" -> Latest("critique") # 0
      [] task[p].kind = "recon" ->
            Latest("brief") # 0 /\ artifacts[Latest("brief")].notes
      [] OTHER -> TRUE

Input(p) ==
    CASE task[p].kind \in {"apply", "devil"} -> Latest("critique")
      [] task[p].kind = "recon" -> Latest("brief")
      [] OTHER -> 0

Compose(p) ==
    /\ pc[p] = "open" /\ Answerable(p) /\ Goto(p, "llm")
    /\ task' = [task EXCEPT ![p].seen = Len(artifacts), ![p].input = Input(p)]
    /\ UNCHANGED <<clock, artifacts, doc, updated>>

-----------------------------------------------------------------------------
(* A pass ends: onSuccess of streamSSE, and the end of streamTeamDraft.     *)

Store(kind, of) ==
    /\ Len(artifacts) < MaxArtifacts
    /\ artifacts' = Append(artifacts,
           [kind |-> kind, at |-> clock, of |-> of, items |-> FALSE, notes |-> FALSE])

\* Mutant: the timestamp of the row is left alone.
UpdateDocOnly(version, seen) ==
    /\ doc' = [version |-> version, seen |-> seen] /\ UNCHANGED updated

UpdateProjectDoc(version, seen) ==
    /\ doc' = [version |-> version, seen |-> seen]
    /\ updated' = clock

\* The doc is overwritten, whatever version of it the prompt held.
WriteDoc(p) ==
    /\ pc[p] = "llm" /\ task[p].kind \in DocKinds
    /\ doc.version < MaxVersion
    /\ UpdateProjectDoc(doc.version + 1, task[p].seen)
    /\ Leave(p)
    /\ UNCHANGED <<clock, artifacts>>

StoreCritique(p) ==
    /\ pc[p] = "llm" /\ task[p].kind = "critique"
    /\ Store("critique", 0)
    /\ Leave(p)
    /\ UNCHANGED <<clock, doc, updated>>

\* The brief and its reading list are two transactions; a brief may list
\* nothing.
StoreBrief(p) ==
    /\ pc[p] = "llm" /\ task[p].kind = "brief"
    /\ Store("brief", 0)
    /\ \/ /\ Goto(p, "items")
          /\ task' = [task EXCEPT ![p].input = Len(artifacts) + 1]
       \/ Leave(p)
    /\ UNCHANGED <<clock, doc, updated>>

CreateBriefItems(p) ==
    /\ pc[p] = "items"
    /\ artifacts' = [artifacts EXCEPT ![task[p].input].items = TRUE]
    /\ Leave(p)
    /\ UNCHANGED <<clock, doc, updated>>

StoreRecon(p) ==
    /\ pc[p] = "llm" /\ task[p].kind = "recon"
    /\ Store("brief_recon", task[p].input)
    /\ Leave(p)
    /\ UNCHANGED <<clock, doc, updated>>

\* The devil's question is only streamed; and any pass may be refused, fail,
\* be cancelled or die with the server, at any point.
EndPass(p) ==
    /\ pc[p] # "idle" /\ Leave(p)
    /\ UNCHANGED <<clock, artifacts, doc, updated>>

-----------------------------------------------------------------------------
(* The user and the clock.                                                  *)

\* A note or a check mark is set or taken back on an item of any brief.
UpdateBriefItem(b) ==
    /\ b \in Of("brief") /\ artifacts[b].items
    /\ artifacts' = [artifacts EXCEPT ![b].notes = ~@]
    /\ UNCHANGED <<clock, doc, updated, pc, task>>

CommitDecision ==
    /\ Store("decision", 0)
    /\ UNCHANGED <<clock, doc, updated, pc, task>>

\* Applying or clearing a stack preset touches the project row as well.
SetProjectStackPreset ==
    /\ Presets /\ updated' = clock
    /\ UNCHANGED <<clock, artifacts, doc, pc, task>>

Second ==
    /\ clock < MaxClock /\ clock' = clock + 1
    /\ UNCHANGED <<artifacts, doc, updated, pc, task>>

Finish(p) ==
    \/ WriteDoc(p) \/ StoreCritique(p) \/ StoreBrief(p)
    \/ CreateBriefItems(p) \/ StoreRecon(p) \/ EndPass(p)
Next ==
    \/ \E p \in Passes : Compose(p) \/ Finish(p) \/ \E kind \in Kinds : Open(p, kind)
    \/ \E b \in Ids : UpdateBriefItem(b)
    \/ CommitDecision \/ SetProjectStackPreset \/ Second

Spec == Init /\ [][Next]_vars

-----------------------------------------------------------------------------
(* What the pages conclude from the timestamps.                             *)

CritiquePending == \E c \in Of("critique") : artifacts[c].at > updated

\* Mutant: a reconciliation as old as the brief is hidden.
HideTies(brief, recon) == artifacts[recon].at <= artifacts[brief].at

Stale(brief, recon) == artifacts[recon].at < artifacts[brief].at

\* What project_detail shows.
ShownRecon ==
    LET brief == Latest("brief")
        recon == Latest("brief_recon")
    IN IF brief # 0 /\ recon # 0 /\ Stale(brief, recon) THEN 0 ELSE recon

-----------------------------------------------------------------------------
(* What must hold.                                                          *)

\* A critique whose author of the doc in place had not seen it.
Unfolded(c) == c > doc.seen

\* The tile of the floor asks to apply a critique only if there is one the doc
\* in place does not know, whatever passes overlapped.
PendingIsUnfolded ==
    CritiquePending => \E c \in Of("critique") : Unfolded(c)

\* A reconciliation of the brief on the page is never taken for stale, even if
\* it was stored in the same second.
FreshReconShown ==
    LET recon == Latest("brief_recon")
    IN recon # 0 /\ artifacts[recon].of = Latest("brief") => ShownRecon = recon

\* A reconciliation is never made from a brief whose reading list is still to
\* be stored: the gap between the two transactions of a brief, or a crash in
\* it, cannot be reconciled against.
ReconReadsList ==
    \A r \in Of("brief_recon") :
        artifacts[r].of \in Of("brief") /\ artifacts[artifacts[r].of].items

=============================================================================
