-------------------------- MODULE ProjectDocProofs --------------------------
(***************************************************************************)
(* Machine-checked proofs about ProjectDoc, for any number of passes in     *)
(* flight, artifacts, rewrites and seconds.                                 *)
(***************************************************************************)
EXTENDS ProjectDoc, SequenceTheorems, FiniteSetTheorems, WellFoundedInduction, TLAPS

\* ORDER BY id DESC LIMIT 1 finds a row whenever there is one.
LEMMA LargestExists ==
    ASSUME NEW n \in Nat, NEW S \in SUBSET (1..n), S # {}
    PROVE  \E i \in S : \A j \in S : j <= i
<1>. DEFINE Above(i) == {k \in 1..n : k > i}
            T == {Above(i) : i \in S}
<1>1. IsFiniteSet(1..n)
    BY FS_Interval
<1>2. \A i \in S : Above(i) \subseteq 1..n /\ IsFiniteSet(Above(i))
    BY <1>1, FS_Subset
<1>3. T \subseteq FiniteSubsetsOf(1..n) /\ T # {}
    BY <1>2 DEF FiniteSubsetsOf
<1>4. PICK x \in T : \A y \in T : ~(<<y, x>> \in StrictSubsetOrdering(1..n))
    BY <1>3, FS_StrictSubsetOrderingWellFounded, WFMin
<1>5. PICK i \in S : x = Above(i)
    OBVIOUS
<1>6. ASSUME NEW j \in S, j > i PROVE FALSE
  <2>1. Above(j) \subseteq Above(i) /\ Above(j) # Above(i)
    BY <1>6
  <2>2. <<Above(j), Above(i)>> \in StrictSubsetOrdering(1..n)
    BY <2>1 DEF StrictSubsetOrdering
  <2>. QED
    BY <1>4, <1>5, <2>2
<1>. QED
    BY <1>6

\* LatestArtifact returns the artifact of its kind with the largest id.
LEMMA LatestIsLargest ==
    ASSUME TypeOK, NEW kind, Latest(kind) # 0
    PROVE  Latest(kind) \in Of(kind) /\ \A j \in Of(kind) : j <= Latest(kind)
<1>1. Of(kind) # {}
    BY DEF Latest
<1>2. Len(artifacts) \in Nat
    BY DEF TypeOK
<1>3. Of(kind) \in SUBSET (1..Len(artifacts))
    BY DEF Of, Ids
<1>4. \E i \in Of(kind) : \A j \in Of(kind) : j <= i
    BY <1>1, <1>2, <1>3, LargestExists
<1>. QED
    BY <1>1, <1>4 DEF Latest

-----------------------------------------------------------------------------
\* Storing an artifact leaves the others where they were.
LEMMA StoreAppends ==
    ASSUME TypeOK, NEW kind \in {"critique", "brief", "brief_recon", "decision"},
           NEW of \in Nat, Store(kind, of)
    PROVE  /\ artifacts' \in Seq(Artifact)
           /\ Len(artifacts) \in Nat /\ Len(artifacts') = Len(artifacts) + 1
           /\ Ids' = Ids \cup {Len(artifacts) + 1}
           /\ \A i \in Ids : artifacts'[i] = artifacts[i]
           /\ artifacts'[Len(artifacts) + 1] =
                 [kind |-> kind, at |-> clock, of |-> of, items |-> FALSE, notes |-> FALSE]
<1>. DEFINE new == [kind |-> kind, at |-> clock, of |-> of, items |-> FALSE, notes |-> FALSE]
<1>1. new \in Artifact /\ artifacts \in Seq(Artifact)
    BY DEF TypeOK, Artifact
<1>2. artifacts' = Append(artifacts, new)
    BY DEF Store
<1>. HIDE DEF new
<1>3. /\ artifacts' \in Seq(Artifact)
      /\ Len(artifacts) \in Nat /\ Len(artifacts') = Len(artifacts) + 1
      /\ \A i \in 1..Len(artifacts) : artifacts'[i] = artifacts[i]
      /\ artifacts'[Len(artifacts) + 1] = new
    BY <1>1, <1>2
<1>4. Ids' = Ids \cup {Len(artifacts) + 1}
    BY <1>3 DEF Ids
<1>. QED
    BY <1>3, <1>4 DEF Ids, new

\* Changing the marks of a brief changes nothing else of the table.
LEMMA MarksOnly ==
    ASSUME TypeOK, NEW b \in Nat, NEW new \in Artifact,
           artifacts' = [artifacts EXCEPT ![b] = new]
    PROVE  /\ artifacts' \in Seq(Artifact) /\ Ids' = Ids
           /\ \A i \in Ids : artifacts'[i] = IF i = b THEN new ELSE artifacts[i]
<1>1. CASE b \in Ids
    BY <1>1, ExceptSeq DEF TypeOK, Ids
<1>2. CASE b \notin Ids
  <2>1. artifacts' = artifacts
    BY <1>2 DEF TypeOK, Ids
  <2>. QED
    BY <1>2, <2>1 DEF TypeOK, Ids
<1>. QED
    BY <1>1, <1>2

LEMMA TypeInit == Init => TypeOK
<1>. SUFFICES ASSUME Init PROVE TypeOK
    OBVIOUS
<1>1. NoTask \in Task
    BY DEF NoTask, Task
<1>. QED
    BY <1>1 DEF Init, TypeOK

\* What a pass reads is an id of the table, or nothing.
LEMMA LatestIsNat ==
    ASSUME TypeOK, NEW kind
    PROVE  Latest(kind) \in Nat
<1>1. CASE Latest(kind) = 0
    BY <1>1
<1>2. CASE Latest(kind) # 0
    BY <1>2, LatestIsLargest DEF Of, Ids
<1>. QED
    BY <1>1, <1>2

LEMMA TypeStep == TypeOK /\ [Next]_vars => TypeOK'
<1>. SUFFICES ASSUME TypeOK, [Next]_vars PROVE TypeOK'
    OBVIOUS
<1>n. NoTask \in Task
    BY DEF NoTask, Task
<1>l. \A p \in Passes : Leave(p) => /\ pc' \in [Passes -> {"idle", "open", "llm", "items"}]
                                    /\ task' \in [Passes -> Task]
    BY <1>n DEF TypeOK, Leave, Goto
<1>1. ASSUME NEW p \in Passes, NEW kind \in Kinds, Open(p, kind) PROVE TypeOK'
  <2>1. [NoTask EXCEPT !.kind = kind, !.base = doc.version] \in Task
    BY DEF NoTask, Task, TypeOK
  <2>. QED
    BY <1>1, <2>1 DEF Open, Goto, TypeOK
<1>2. ASSUME NEW p \in Passes, Compose(p) PROVE TypeOK'
  <2>1. Input(p) \in Nat
    BY LatestIsNat DEF Input
  <2>2. Len(artifacts) \in Nat
    BY DEF TypeOK
  <2>3. task[p] \in Task
    BY DEF TypeOK
  <2>4. [task[p] EXCEPT !.seen = Len(artifacts), !.input = Input(p)] \in Task
    BY <2>1, <2>2, <2>3 DEF Task
  <2>5. task' \in [Passes -> Task]
    BY <1>2, <2>4 DEF Compose, TypeOK
  <2>. QED
    BY <1>2, <2>5 DEF Compose, Goto, TypeOK
<1>3. ASSUME NEW p \in Passes, WriteDoc(p) PROVE TypeOK'
  <2>1. task[p].seen \in Nat
    BY DEF TypeOK, Task
  <2>2. doc' \in [version : Nat, seen : Nat] /\ updated' \in Nat
    BY <1>3, <2>1 DEF WriteDoc, UpdateProjectDoc, TypeOK
  <2>. QED
    BY <1>3, <1>l, <2>2 DEF WriteDoc, TypeOK
<1>4. ASSUME NEW p \in Passes, StoreCritique(p) PROVE TypeOK'
    BY <1>4, <1>l, StoreAppends DEF StoreCritique, TypeOK
<1>5. ASSUME NEW p \in Passes, StoreBrief(p) PROVE TypeOK'
  <2>1. artifacts' \in Seq(Artifact) /\ Len(artifacts) \in Nat
    BY <1>5, StoreAppends DEF StoreBrief
  <2>2. task' \in [Passes -> Task]
    <3>1. task[p] \in Task
      BY DEF TypeOK
    <3>2. [task[p] EXCEPT !.input = Len(artifacts) + 1] \in Task
      BY <2>1, <3>1 DEF Task
    <3>. QED
      BY <1>5, <1>l, <3>2 DEF StoreBrief, TypeOK
  <2>3. pc' \in [Passes -> {"idle", "open", "llm", "items"}]
    BY <1>5, <1>l DEF StoreBrief, TypeOK, Goto
  <2>. QED
    BY <1>5, <2>1, <2>2, <2>3 DEF StoreBrief, TypeOK
<1>6. ASSUME NEW p \in Passes, CreateBriefItems(p) PROVE TypeOK'
  <2>1. CASE task[p].input \in Ids
    <3>0. artifacts[task[p].input] \in Artifact
      BY <2>1, ElementOfSeq DEF TypeOK, Ids
    <3>1. [artifacts[task[p].input] EXCEPT !.items = TRUE] \in Artifact
      BY <3>0 DEF Artifact
    <3>n. task[p].input \in Nat
      BY DEF TypeOK, Task
    <3>2. artifacts' \in Seq(Artifact)
      BY <1>6, <3>1, <3>n, MarksOnly DEF CreateBriefItems
    <3>. QED
      BY <1>6, <1>l, <3>2 DEF CreateBriefItems, TypeOK
  <2>2. CASE task[p].input \notin Ids
    <3>1. artifacts' = artifacts
      BY <1>6, <2>2 DEF CreateBriefItems, TypeOK, Ids
    <3>. QED
      BY <1>6, <1>l, <3>1 DEF CreateBriefItems, TypeOK
  <2>. QED
    BY <2>1, <2>2
<1>7. ASSUME NEW p \in Passes, StoreRecon(p) PROVE TypeOK'
    BY <1>7, <1>l, StoreAppends DEF StoreRecon, TypeOK, Task
<1>8. ASSUME NEW p \in Passes, EndPass(p) PROVE TypeOK'
    BY <1>8, <1>l DEF EndPass, TypeOK
<1>9. ASSUME NEW b \in Ids, UpdateBriefItem(b) PROVE TypeOK'
  <2>0. artifacts[b] \in Artifact
    BY ElementOfSeq DEF TypeOK, Ids
  <2>1. [artifacts[b] EXCEPT !.notes = ~@] \in Artifact
    BY <2>0 DEF Artifact
  <2>n. b \in Nat
    BY DEF Ids
  <2>2. artifacts' \in Seq(Artifact)
    BY <1>9, <2>1, <2>n, MarksOnly DEF UpdateBriefItem
  <2>. QED
    BY <1>9, <2>2 DEF UpdateBriefItem, TypeOK
<1>10. CASE CommitDecision
    BY <1>10, StoreAppends DEF CommitDecision, TypeOK
<1>11. CASE SetProjectStackPreset \/ Second \/ UNCHANGED vars
    BY <1>11 DEF SetProjectStackPreset, Second, vars, TypeOK
<1>12. ASSUME NEW p \in Passes, Finish(p) PROVE TypeOK'
    BY <1>3, <1>4, <1>5, <1>6, <1>7, <1>8, <1>12 DEF Finish
<1>. QED
    BY <1>1, <1>2, <1>9, <1>10, <1>11, <1>12 DEF Next

\* The variables of a project keep their types.
THEOREM TypeCorrect == Spec => []TypeOK
<1>1. TypeOK /\ [Next]_vars => TypeOK'
    BY TypeStep
<1>. QED
    BY <1>1, TypeInit, PTL DEF Spec

-----------------------------------------------------------------------------
(* What a step may do to the table, to the row of the project and to what   *)
(* the passes have seen.                                                    *)

\* An artifact is added with the next id and the present time, if at all; the
\* others keep their kind, time and origin, a list once stored stays, and what
\* has no list gets no notes.
IdsGrow ==
    /\ Len(artifacts) \in Nat /\ Len(artifacts') \in Nat
    /\ Len(artifacts') \in {Len(artifacts), Len(artifacts) + 1}
    /\ Ids' = IF Len(artifacts') = Len(artifacts) THEN Ids ELSE Ids \cup {Len(artifacts')}
Added == \A i \in Ids' \ Ids : artifacts'[i].at = clock /\ ~artifacts'[i].notes
Kept ==
    \A i \in Ids : /\ artifacts'[i].kind = artifacts[i].kind
                   /\ artifacts'[i].at = artifacts[i].at
                   /\ artifacts'[i].of = artifacts[i].of
                   /\ artifacts[i].items => artifacts'[i].items
                   /\ artifacts'[i].notes => artifacts[i].notes \/ artifacts[i].items
TableGrows == IdsGrow /\ Added /\ Kept

LEMMA MarksGrow ==
    ASSUME TypeOK, NEW b \in Nat, NEW new \in Artifact,
           artifacts' = [artifacts EXCEPT ![b] = new],
           b \in Ids => /\ new.kind = artifacts[b].kind /\ new.at = artifacts[b].at
                        /\ new.of = artifacts[b].of
                        /\ artifacts[b].items => new.items
                        /\ new.notes => artifacts[b].notes \/ artifacts[b].items
    PROVE  TableGrows
<1>1. Len(artifacts) \in Nat /\ Len(artifacts') = Len(artifacts)
  <2>1. CASE b \in Ids
    BY <2>1, ExceptSeq DEF TypeOK, Ids
  <2>2. CASE b \notin Ids
    BY <2>2 DEF TypeOK, Ids
  <2>. QED
    BY <2>1, <2>2
<1>2. Ids' = Ids /\ \A i \in Ids : artifacts'[i] = IF i = b THEN new ELSE artifacts[i]
    BY MarksOnly
<1>3. Kept
  <2>. SUFFICES ASSUME NEW i \in Ids
                PROVE  /\ artifacts'[i].kind = artifacts[i].kind
                       /\ artifacts'[i].at = artifacts[i].at
                       /\ artifacts'[i].of = artifacts[i].of
                       /\ artifacts[i].items => artifacts'[i].items
                   /\ artifacts'[i].notes => artifacts[i].notes \/ artifacts[i].items
    BY DEF Kept
  <2>1. CASE i = b
    <3>1. artifacts'[b] = new
      BY <1>2, <2>1
    <3>. QED
      BY <2>1, <3>1
  <2>2. CASE i # b
    <3>1. artifacts'[i] = artifacts[i]
      BY <1>2, <2>2
    <3>. QED
      BY <3>1
  <2>. QED
    BY <2>1, <2>2
<1>. QED
    BY <1>1, <1>2, <1>3 DEF TableGrows, IdsGrow, Added

LEMMA StoreGrows ==
    ASSUME TypeOK, NEW kind \in {"critique", "brief", "brief_recon", "decision"},
           NEW of \in Nat, Store(kind, of)
    PROVE  TableGrows
<1>1. Len(artifacts) + 1 \notin Ids
    BY StoreAppends DEF Ids
<1>2. /\ Len(artifacts) \in Nat /\ Len(artifacts') = Len(artifacts) + 1
      /\ Ids' = Ids \cup {Len(artifacts')}
      /\ \A i \in Ids : artifacts'[i] = artifacts[i]
    BY StoreAppends
<1>3. artifacts'[Len(artifacts')].at = clock /\ artifacts'[Len(artifacts')].notes = FALSE
  <2>1. artifacts'[Len(artifacts) + 1] =
          [kind |-> kind, at |-> clock, of |-> of, items |-> FALSE, notes |-> FALSE]
    BY StoreAppends, Zenon
  <2>. QED
    BY <1>2, <2>1
<1>4. Len(artifacts') \in Nat /\ Len(artifacts') # Len(artifacts)
    BY <1>2
<1>5. \A i \in Ids' \ Ids : i = Len(artifacts')
    BY <1>2
<1>6. Kept
    BY <1>2 DEF Kept
<1>. QED
    BY <1>2, <1>3, <1>4, <1>5, <1>6 DEF TableGrows, IdsGrow, Added

LEMMA SameTable == ASSUME TypeOK, artifacts' = artifacts PROVE TableGrows
<1>1. Len(artifacts) \in Nat /\ Ids' = Ids
    BY DEF TypeOK, Ids
<1>. QED
    BY <1>1 DEF TableGrows, IdsGrow, Added, Kept

LEMMA TableStep == TypeOK /\ [Next]_vars => TableGrows
<1>. SUFFICES ASSUME TypeOK, [Next]_vars PROVE TableGrows
    OBVIOUS
<1>1. ASSUME NEW p \in Passes, StoreCritique(p) \/ StoreBrief(p) \/ StoreRecon(p)
      PROVE  TableGrows
  <2>1. task[p].input \in Nat
    BY DEF TypeOK, Task
  <2>. QED
    BY <1>1, <2>1, StoreGrows DEF StoreCritique, StoreBrief, StoreRecon
<1>2. CASE CommitDecision
    BY <1>2, StoreGrows DEF CommitDecision
<1>3. ASSUME NEW p \in Passes, CreateBriefItems(p) PROVE TableGrows
  <2>. DEFINE b == task[p].input
  <2>1. CASE b \in Ids
    <3>1. artifacts[b] \in Artifact
      BY <2>1, ElementOfSeq DEF TypeOK, Ids
    <3>. DEFINE new == [artifacts[b] EXCEPT !.items = TRUE]
    <3>2. /\ new \in Artifact /\ new.items = TRUE
          /\ new.kind = artifacts[b].kind /\ new.at = artifacts[b].at
          /\ new.of = artifacts[b].of /\ new.notes = artifacts[b].notes
      BY <3>1 DEF Artifact
    <3>3. artifacts' = [artifacts EXCEPT ![b] = new]
      BY <1>3 DEF CreateBriefItems
    <3>4. b \in Nat
      BY DEF TypeOK, Task
    <3>. HIDE DEF new, b
    <3>. QED
      BY <3>2, <3>3, <3>4, MarksGrow
  <2>2. CASE b \notin Ids
    <3>1. artifacts' = artifacts
      BY <1>3, <2>2 DEF CreateBriefItems, TypeOK, Ids
    <3>. QED
      BY <3>1, SameTable
  <2>. QED
    BY <2>1, <2>2
<1>4. ASSUME NEW b \in Ids, UpdateBriefItem(b) PROVE TableGrows
  <2>1. artifacts[b] \in Artifact
    BY ElementOfSeq DEF TypeOK, Ids
  <2>. DEFINE new == [artifacts[b] EXCEPT !.notes = ~@]
  <2>2. /\ new \in Artifact /\ new.items = artifacts[b].items
        /\ new.kind = artifacts[b].kind /\ new.at = artifacts[b].at
        /\ new.of = artifacts[b].of
    BY <2>1 DEF Artifact
  <2>3. artifacts' = [artifacts EXCEPT ![b] = new]
    BY <1>4 DEF UpdateBriefItem
  <2>4. b \in Nat
    BY DEF Ids
  <2>5. artifacts[b].items
    BY <1>4 DEF UpdateBriefItem
  <2>. HIDE DEF new
  <2>. QED
    BY <2>2, <2>3, <2>4, <2>5, MarksGrow
<1>5. CASE UNCHANGED artifacts
    BY <1>5, SameTable
<1>. QED
    BY <1>1, <1>2, <1>3, <1>4, <1>5 DEF Next, Finish, Open, Compose, WriteDoc, EndPass,
       SetProjectStackPreset, Second, vars

\* A pass has seen what was stored when it composed its prompt.
LEMMA SeenStep ==
    ASSUME TypeOK, [Next]_vars, NEW q \in Passes
    PROVE  task'[q].seen \in {task[q].seen, 0, Len(artifacts)}
<1>1. ASSUME NEW p \in Passes, NEW kind \in Kinds, Open(p, kind)
      PROVE  task'[q].seen \in {task[q].seen, 0, Len(artifacts)}
    BY <1>1 DEF Open, NoTask, TypeOK
<1>2. ASSUME NEW p \in Passes, Compose(p)
      PROVE  task'[q].seen \in {task[q].seen, 0, Len(artifacts)}
    BY <1>2 DEF Compose, TypeOK, Task
<1>3. ASSUME NEW p \in Passes, Finish(p)
      PROVE  task'[q].seen \in {task[q].seen, 0, Len(artifacts)}
  <2>1. ASSUME Leave(p) PROVE task'[q].seen \in {task[q].seen, 0, Len(artifacts)}
    BY <2>1 DEF Leave, NoTask, TypeOK
  <2>2. CASE StoreBrief(p)
    <3>1. CASE task' = [task EXCEPT ![p].input = Len(artifacts) + 1]
      BY <3>1 DEF TypeOK, Task
    <3>. QED
      BY <2>1, <2>2, <3>1 DEF StoreBrief
  <2>. QED
    BY <1>3, <2>1, <2>2 DEF Finish, WriteDoc, StoreCritique, CreateBriefItems, StoreRecon, EndPass
<1>. QED
    BY <1>1, <1>2, <1>3 DEF Next, UpdateBriefItem, CommitDecision,
       SetProjectStackPreset, Second, vars

\* The row of the project is stamped whenever the doc changes, and the doc in
\* place has seen what its pass had.
LEMMA RowStep ==
    ASSUME TypeOK, [Next]_vars
    PROVE  /\ clock <= clock' /\ updated' \in {updated, clock}
           /\ \/ doc' = doc
              \/ /\ updated' = clock /\ artifacts' = artifacts
                 /\ \E p \in Passes : doc'.seen = task[p].seen
<1>1. clock \in Nat
    BY DEF TypeOK
<1>2. CASE \E p \in Passes : WriteDoc(p)
    BY <1>1, <1>2 DEF WriteDoc, UpdateProjectDoc
<1>3. CASE SetProjectStackPreset \/ Second \/ UNCHANGED vars
    BY <1>1, <1>3 DEF SetProjectStackPreset, Second, vars
<1>4. CASE UNCHANGED <<clock, doc, updated>>
    BY <1>1, <1>4
<1>. QED
    BY <1>2, <1>3, <1>4 DEF Next, Finish, Open, Compose, StoreCritique, StoreBrief,
       CreateBriefItems, StoreRecon, EndPass, UpdateBriefItem, CommitDecision

-----------------------------------------------------------------------------
\* Ids and stamps grow together, and the row is at least as young as all its
\* doc has seen.
Stamped ==
    /\ updated <= clock
    /\ doc.seen <= Len(artifacts)
    /\ \A p \in Passes : task[p].seen <= Len(artifacts)
    /\ \A i \in Ids : artifacts[i].at <= clock
    /\ \A i, j \in Ids : i <= j => artifacts[i].at <= artifacts[j].at
    /\ \A i \in Ids : i <= doc.seen => artifacts[i].at <= updated

LEMMA StampedInit == Init => Stamped
<1>. SUFFICES ASSUME Init PROVE Stamped
    OBVIOUS
<1>1. Len(artifacts) = 0 /\ Ids = {}
    BY DEF Init, Ids
<1>. QED
    BY <1>1 DEF Init, Stamped, NoTask

LEMMA StampedStep == TypeOK /\ Stamped /\ [Next]_vars => Stamped'
<1>. SUFFICES ASSUME TypeOK, Stamped, [Next]_vars PROVE Stamped'
    OBVIOUS
<1>1. IdsGrow /\ Added /\ Kept /\ TypeOK'
    BY TableStep, TypeStep DEF TableGrows
<1>2. /\ clock \in Nat /\ clock' \in Nat /\ updated \in Nat
      /\ doc.seen \in Nat /\ doc'.seen \in Nat
      /\ \A p \in Passes : task[p].seen \in Nat /\ task'[p].seen \in Nat
      /\ \A i \in Ids : i \in Nat /\ artifacts[i].at \in Nat
  <2>1. \A i \in Ids : artifacts[i] \in Artifact
    BY ElementOfSeq DEF TypeOK, Ids
  <2>2. \A p \in Passes : task[p].seen \in Nat /\ task'[p].seen \in Nat
    BY <1>1 DEF TypeOK, Task
  <2>3. /\ clock \in Nat /\ clock' \in Nat /\ updated \in Nat
        /\ doc.seen \in Nat /\ doc'.seen \in Nat
    BY <1>1 DEF TypeOK
  <2>4. \A i \in Ids : i \in Nat /\ artifacts[i].at \in Nat
    BY <2>1 DEF Artifact, Ids
  <2>. QED
    BY <2>2, <2>3, <2>4
<1>3. updated' <= clock'
    BY <1>2, RowStep DEF Stamped
<1>4. \A p \in Passes : task'[p].seen <= Len(artifacts')
    BY <1>1, <1>2, SeenStep DEF Stamped, IdsGrow
<1>5. doc'.seen <= Len(artifacts')
    BY <1>1, <1>2, RowStep DEF Stamped, IdsGrow
<1>6. \A i \in Ids' : artifacts'[i].at <= clock'
    BY <1>1, <1>2, RowStep DEF Stamped, Added, Kept
<1>7. \A i, j \in Ids' : i <= j => artifacts'[i].at <= artifacts'[j].at
  <2>1. \A i \in Ids, j \in Ids' \ Ids : artifacts'[i].at <= artifacts'[j].at
    BY <1>1, <1>2 DEF Stamped, Added, Kept
  <2>2. \A i, j \in Ids : i <= j => artifacts'[i].at <= artifacts'[j].at
    BY <1>1 DEF Stamped, Kept
  <2>3. \A i \in Ids' \ Ids : i = Len(artifacts) + 1 /\ artifacts'[i].at = clock
    BY <1>1 DEF IdsGrow, Added
  <2>4. \A i \in Ids : i < Len(artifacts) + 1
    BY <1>1, <1>2 DEF Ids, IdsGrow
  <2>5. Len(artifacts) + 1 \in Nat
    BY <1>1 DEF IdsGrow
  <2>. QED
    BY <1>2, <2>1, <2>2, <2>3, <2>4, <2>5
<1>8. \A i \in Ids' : i <= doc'.seen => artifacts'[i].at <= updated'
  <2>1. \A i \in Ids : artifacts'[i].at = artifacts[i].at
    BY <1>1 DEF Kept
  <2>2. CASE doc' = doc
    <3>1. \A i \in Ids' \ Ids : ~(i <= doc.seen)
      BY <1>1, <1>2 DEF Stamped, IdsGrow, Ids
    <3>. QED
      BY <1>2, <2>1, <2>2, <3>1, RowStep DEF Stamped
  <2>3. CASE doc' # doc
    <3>1. updated' = clock /\ Ids' = Ids
      BY <2>3, RowStep DEF Ids
    <3>. QED
      BY <1>2, <2>1, <3>1 DEF Stamped
  <2>. QED
    BY <2>2, <2>3
<1>. QED
    BY <1>3, <1>4, <1>5, <1>6, <1>7, <1>8 DEF Stamped

\* A pending critique is one the doc in place does not know.
THEOREM PendingUnfolded == Spec => []PendingIsUnfolded
<1>1. TypeOK /\ Stamped => PendingIsUnfolded
  <2>. SUFFICES ASSUME TypeOK, Stamped, NEW c \in Of("critique"), artifacts[c].at > updated
                PROVE  Unfolded(c)
    BY DEF PendingIsUnfolded, CritiquePending
  <2>1. c \in Ids /\ c \in Nat /\ doc.seen \in Nat /\ artifacts[c].at \in Nat /\ updated \in Nat
    <3>1. c \in Ids /\ artifacts[c] \in Artifact
      BY ElementOfSeq DEF TypeOK, Of, Ids
    <3>. QED
      BY <3>1 DEF TypeOK, Artifact, Ids
  <2>. QED
    BY <2>1 DEF Stamped, Unfolded
<1>2. TypeOK /\ Stamped /\ [Next]_vars => Stamped'
    BY StampedStep
<1>. QED
    BY <1>1, <1>2, StampedInit, TypeCorrect, PTL DEF Spec

-----------------------------------------------------------------------------
(* Reconciliations.                                                         *)

\* A reconciliation in flight holds a brief with its list, notes are made on
\* lists, and a reconciliation is younger than its brief.
Listed ==
    /\ \A p \in Passes :
          pc[p] = "llm" /\ task[p].kind = "recon" =>
              task[p].input \in Of("brief") /\ artifacts[task[p].input].items
    /\ \A i \in Ids : artifacts[i].notes => artifacts[i].items
    /\ \A r \in Of("brief_recon") :
          /\ artifacts[r].of \in Of("brief") /\ artifacts[artifacts[r].of].items
          /\ artifacts[r].of <= r

LEMMA ListedInit == Init => Listed
<1>. SUFFICES ASSUME Init PROVE Listed
    OBVIOUS
<1>1. Len(artifacts) = 0 /\ Ids = {}
    BY DEF Init, Ids
<1>. QED
    BY <1>1 DEF Init, Listed, Of

\* A pass that waits for the model waited before, or has just been composed.
LEMMA PassStep ==
    ASSUME TypeOK, [Next]_vars, NEW q \in Passes, pc'[q] = "llm"
    PROVE  \/ pc[q] = "llm" /\ task'[q] = task[q]
           \/ Compose(q)
<1>1. ASSUME NEW p \in Passes, NEW kind \in Kinds, Open(p, kind)
      PROVE  pc[q] = "llm" /\ task'[q] = task[q]
    BY <1>1 DEF Open, Goto, TypeOK
<1>2. ASSUME NEW p \in Passes, Compose(p), p # q
      PROVE  pc[q] = "llm" /\ task'[q] = task[q]
    BY <1>2 DEF Compose, Goto, TypeOK
<1>3. ASSUME NEW p \in Passes, Finish(p)
      PROVE  pc[q] = "llm" /\ task'[q] = task[q]
  <2>1. ASSUME Leave(p) PROVE pc[q] = "llm" /\ task'[q] = task[q]
    BY <2>1 DEF Leave, Goto, TypeOK
  <2>2. CASE StoreBrief(p)
    <3>1. CASE Goto(p, "items") /\ task' = [task EXCEPT ![p].input = Len(artifacts) + 1]
      BY <3>1 DEF Goto, TypeOK
    <3>. QED
      BY <2>1, <2>2, <3>1 DEF StoreBrief
  <2>. QED
    BY <1>3, <2>1, <2>2 DEF Finish, WriteDoc, StoreCritique, CreateBriefItems, StoreRecon, EndPass
<1>. QED
    BY <1>1, <1>2, <1>3 DEF Next, UpdateBriefItem, CommitDecision,
       SetProjectStackPreset, Second, vars

\* A new reconciliation comes from a pass that waited for the model.
LEMMA ReconStep ==
    ASSUME TypeOK, [Next]_vars, NEW r \in Ids' \ Ids, artifacts'[r].kind = "brief_recon"
    PROVE  \E p \in Passes : /\ pc[p] = "llm" /\ task[p].kind = "recon"
                             /\ artifacts'[r].of = task[p].input
<1>1. r = Len(artifacts) + 1
    BY TableStep DEF TableGrows, IdsGrow
<1>2. ASSUME NEW kind \in {"critique", "brief", "brief_recon", "decision"},
             NEW of \in Nat, Store(kind, of)
      PROVE  kind = "brief_recon" /\ artifacts'[r].of = of
  <2>1. artifacts'[Len(artifacts) + 1] =
          [kind |-> kind, at |-> clock, of |-> of, items |-> FALSE, notes |-> FALSE]
    BY <1>2, StoreAppends
  <2>. QED
    BY <1>1, <2>1
<1>3. ~CommitDecision /\ \A p \in Passes : ~StoreCritique(p) /\ ~StoreBrief(p)
    BY <1>2 DEF CommitDecision, StoreCritique, StoreBrief
<1>4. ASSUME NEW p \in Passes, StoreRecon(p)
      PROVE  pc[p] = "llm" /\ task[p].kind = "recon" /\ artifacts'[r].of = task[p].input
  <2>1. task[p].input \in Nat
    BY DEF TypeOK, Task
  <2>. QED
    BY <1>2, <1>4, <2>1 DEF StoreRecon
<1>5. ASSUME NEW p \in Passes, CreateBriefItems(p) PROVE FALSE
  <2>1. DOMAIN artifacts' = DOMAIN artifacts
    BY <1>5 DEF CreateBriefItems
  <2>2. Len(artifacts') = Len(artifacts)
    BY <2>1, TypeStep DEF TypeOK
  <2>. QED
    BY <2>2 DEF Ids
<1>6. ASSUME NEW b \in Ids, UpdateBriefItem(b) PROVE FALSE
  <2>1. DOMAIN artifacts' = DOMAIN artifacts
    BY <1>6 DEF UpdateBriefItem
  <2>2. Len(artifacts') = Len(artifacts)
    BY <2>1, TypeStep DEF TypeOK
  <2>. QED
    BY <2>2 DEF Ids
<1>7. artifacts' # artifacts
    BY DEF Ids
<1>. QED
    BY <1>3, <1>4, <1>5, <1>6, <1>7 DEF Next, Finish, Open, Compose, WriteDoc, EndPass,
       SetProjectStackPreset, Second, vars

LEMMA ListedStep == TypeOK /\ Listed /\ [Next]_vars => Listed'
<1>. SUFFICES ASSUME TypeOK, Listed, [Next]_vars PROVE Listed'
    OBVIOUS
<1>1. IdsGrow /\ Added /\ Kept /\ TypeOK'
    BY TableStep, TypeStep DEF TableGrows
<1>2. \A i \in Ids : i \in Ids' /\ i \in Nat
    BY <1>1 DEF IdsGrow, Ids
<1>3. \A b \in Of("brief") : b \in Of("brief")' /\ (artifacts[b].items => artifacts'[b].items)
    BY <1>1, <1>2 DEF Kept, Of
<1>4. \A i \in Ids' : artifacts'[i].notes => artifacts'[i].items
    BY <1>1 DEF Listed, Kept, Added
<1>5. ASSUME NEW p \in Passes, pc'[p] = "llm", task'[p].kind = "recon"
      PROVE  task'[p].input \in Of("brief")' /\ artifacts'[task'[p].input].items
  <2>1. CASE pc[p] = "llm" /\ task'[p] = task[p]
    BY <1>3, <1>5, <2>1 DEF Listed
  <2>2. CASE Compose(p)
    <3>1. task'[p].kind = task[p].kind /\ task'[p].input = Input(p)
      BY <2>2 DEF Compose, TypeOK, Task
    <3>2. Latest("brief") # 0 /\ artifacts[Latest("brief")].notes /\ Input(p) = Latest("brief")
      BY <1>5, <2>2, <3>1 DEF Compose, Answerable, Input
    <3>3. Latest("brief") \in Of("brief")
      BY <3>2, LatestIsLargest
    <3>4. artifacts[Latest("brief")].items
      BY <3>2, <3>3 DEF Listed, Of
    <3>. QED
      BY <1>3, <3>1, <3>2, <3>3, <3>4
  <2>. QED
    BY <1>5, <2>1, <2>2, PassStep
<1>6. ASSUME NEW r \in Of("brief_recon")'
      PROVE  /\ artifacts'[r].of \in Of("brief")' /\ artifacts'[artifacts'[r].of].items
             /\ artifacts'[r].of <= r
  <2>1. CASE r \in Ids
    <3>1. r \in Of("brief_recon") /\ artifacts'[r].of = artifacts[r].of
      BY <1>1, <1>6, <2>1 DEF Kept, Of
    <3>. QED
      BY <1>3, <3>1 DEF Listed
  <2>2. CASE r \notin Ids
    <3>1. r \in Ids' /\ artifacts'[r].kind = "brief_recon"
      BY <1>6 DEF Of
    <3>2. PICK p \in Passes : /\ pc[p] = "llm" /\ task[p].kind = "recon"
                              /\ artifacts'[r].of = task[p].input
      BY <2>2, <3>1, ReconStep
    <3>3. task[p].input \in Of("brief") /\ artifacts[task[p].input].items
      BY <3>2 DEF Listed
    <3>4. \A i \in Ids : i <= r
      BY <1>1, <2>2, <3>1 DEF IdsGrow, Ids
    <3>. QED
      BY <1>3, <3>2, <3>3, <3>4 DEF Of
  <2>. QED
    BY <2>1, <2>2
<1>. QED
  <2>1. (\A p \in Passes :
          pc[p] = "llm" /\ task[p].kind = "recon" =>
              task[p].input \in Of("brief") /\ artifacts[task[p].input].items)'
    BY <1>5
  <2>2. (\A r \in Of("brief_recon") :
          /\ artifacts[r].of \in Of("brief") /\ artifacts[artifacts[r].of].items
          /\ artifacts[r].of <= r)'
    BY <1>6
  <2>. QED
    BY <1>4, <2>1, <2>2 DEF Listed

\* A reconciliation is made from a brief whose reading list is stored.
THEOREM ListRead == Spec => []ReconReadsList
<1>1. Listed => ReconReadsList
    BY DEF Listed, ReconReadsList
<1>2. TypeOK /\ Listed /\ [Next]_vars => Listed'
    BY ListedStep
<1>. QED
    BY <1>1, <1>2, ListedInit, TypeCorrect, PTL DEF Spec

\* The page never takes a reconciliation of its own brief for stale.
THEOREM FreshShown == Spec => []FreshReconShown
<1>1. TypeOK /\ Stamped /\ Listed => FreshReconShown
  <2>. DEFINE recon == Latest("brief_recon")
              brief == Latest("brief")
  <2>. SUFFICES ASSUME TypeOK, Stamped, Listed, recon # 0, artifacts[recon].of = brief
                PROVE  ~Stale(brief, recon)
    BY DEF FreshReconShown, ShownRecon
  <2>1. recon \in Of("brief_recon")
    BY LatestIsLargest
  <2>2. brief \in Ids /\ recon \in Ids /\ brief <= recon
    BY <2>1 DEF Listed, Of
  <2>3. artifacts[brief].at <= artifacts[recon].at
    BY <2>2 DEF Stamped
  <2>4. artifacts[brief].at \in Nat /\ artifacts[recon].at \in Nat
    <3>1. artifacts[brief] \in Artifact /\ artifacts[recon] \in Artifact
      BY <2>2, ElementOfSeq DEF TypeOK, Ids
    <3>. QED
      BY <3>1 DEF Artifact
  <2>. HIDE DEF recon, brief
  <2>. QED
    BY <2>3, <2>4 DEF Stale
<1>2. TypeOK /\ Stamped /\ [Next]_vars => Stamped'
    BY StampedStep
<1>3. TypeOK /\ Listed /\ [Next]_vars => Listed'
    BY ListedStep
<1>. QED
    BY <1>1, <1>2, <1>3, StampedInit, ListedInit, TypeCorrect, PTL DEF Spec
=============================================================================
