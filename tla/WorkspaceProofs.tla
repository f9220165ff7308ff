--------------------------- MODULE WorkspaceProofs ---------------------------
(***************************************************************************)
(* Machine-checked proofs about Workspace, for any number of makers and of  *)
(* events, and for every slice of the sources.                              *)
(***************************************************************************)
EXTENDS Workspace, FiniteSetTheorems, WellFoundedInduction, TLAPS

\* ORDER BY id DESC LIMIT 1 finds a row whenever there is one.
LEMMA LargestExists ==
    ASSUME NEW n \in Nat, NEW S \in SUBSET (1..n), S # {}
    PROVE  \E i \in S : \A j \in S : j <= i
<1>. DEFINE Above(i) == {k \in 1..n : k > i}
            T == {Above(i) : i \in S}
<1>1. IsFiniteSet(1..n)
    BY FS_Interval
<1>2. \A i \in S : Above(i) \subseteq 1..n /\ IsFiniteSet(Above(i))
    BY <1>1, FS_Subset
<1>3. T \subseteq FiniteSubsetsOf(1..n) /\ T # {}
    BY <1>2 DEF FiniteSubsetsOf
<1>4. PICK x \in T : \A y \in T : ~(<<y, x>> \in StrictSubsetOrdering(1..n))
    BY <1>3, FS_StrictSubsetOrderingWellFounded, WFMin
<1>5. PICK i \in S : x = Above(i)
    OBVIOUS
<1>6. ASSUME NEW j \in S, j > i PROVE FALSE
  <2>1. Above(j) \subseteq Above(i) /\ Above(j) # Above(i)
    BY <1>6
  <2>2. <<Above(j), Above(i)>> \in StrictSubsetOrdering(1..n)
    BY <2>1 DEF StrictSubsetOrdering
  <2>. QED
    BY <1>4, <1>5, <2>2
<1>. QED
    BY <1>6

LEMMA LastInIs ==
    ASSUME NEW n \in Nat, NEW S \in SUBSET (1..n)
    PROVE  /\ LastIn(S) \in Nat /\ LastIn(S) <= n
           /\ S = {} => LastIn(S) = 0
           /\ S # {} => LastIn(S) \in S /\ \A j \in S : j <= LastIn(S)
<1>1. CASE S = {}
    BY <1>1 DEF LastIn
<1>2. CASE S # {}
  <2>1. \E i \in S : \A j \in S : j <= i
    BY <1>2, LargestExists
  <2>2. LastIn(S) = CHOOSE i \in S : \A j \in S : j <= i
    BY <1>2 DEF LastIn
  <2>3. LastIn(S) \in S /\ \A j \in S : j <= LastIn(S)
    BY <2>1, <2>2, Zenon
  <2>4. LastIn(S) \in 1..n
    BY <2>3
  <2>. QED
    BY <1>2, <2>3, <2>4
<1>. QED
    BY <1>1, <1>2

\* A query finds a number, and a later one a number that is no smaller.
LEMMA LastOfIsNat ==
    ASSUME NEW kind, NEW n \in Nat PROVE LastOf(kind, n) \in Nat /\ LastOf(kind, n) <= n
<1>. DEFINE S == Positions(kind, n)
<1>1. S \in SUBSET (1..n)
    BY DEF Positions
<1>. HIDE DEF S
<1>2. LastIn(S) \in Nat /\ LastIn(S) <= n
    BY <1>1, LastInIs
<1>. QED
    BY <1>2 DEF LastOf, S

LEMMA NotesOnIsNat ==
    ASSUME NEW brief, NEW n \in Nat PROVE NotesOn(brief, n) \in Nat /\ NotesOn(brief, n) <= n
<1>. DEFINE S == {i \in Positions("note", n) : log[i].of = brief}
<1>1. S \in SUBSET (1..n)
    BY DEF Positions
<1>. HIDE DEF S
<1>2. LastIn(S) \in Nat /\ LastIn(S) <= n
    BY <1>1, LastInIs
<1>. QED
    BY <1>2 DEF NotesOn, S

LEMMA LastInGrows ==
    ASSUME NEW n \in Nat, NEW T \in SUBSET (1..n), NEW S \in SUBSET T
    PROVE  LastIn(S) <= LastIn(T)
<1>1. S \in SUBSET (1..n)
    OBVIOUS
<1>2. LastIn(S) \in Nat /\ LastIn(T) \in Nat
    BY <1>1, LastInIs
<1>3. CASE S = {}
    BY <1>1, <1>2, <1>3, LastInIs
<1>4. CASE S # {}
  <2>1. LastIn(S) \in T /\ T # {}
    BY <1>1, <1>4, LastInIs
  <2>. QED
    BY <2>1, LastInIs
<1>. QED
    BY <1>3, <1>4

LEMMA LastOfGrows ==
    ASSUME NEW kind, NEW n \in Nat, NEW k \in Nat, k <= n
    PROVE  LastOf(kind, k) <= LastOf(kind, n)
<1>1. Positions(kind, n) \in SUBSET (1..n) /\ Positions(kind, k) \in SUBSET Positions(kind, n)
    BY DEF Positions
<1>. QED
    BY <1>1, LastInGrows DEF LastOf

LEMMA NotesOnGrows ==
    ASSUME NEW brief, NEW n \in Nat, NEW k \in Nat, k <= n
    PROVE  NotesOn(brief, k) <= NotesOn(brief, n)
<1>. DEFINE On(j) == {i \in Positions("note", j) : log[i].of = brief}
<1>1. On(n) \in SUBSET (1..n) /\ On(k) \in SUBSET On(n)
    BY DEF Positions
<1>. QED
    BY <1>1, LastInGrows DEF NotesOn

-----------------------------------------------------------------------------
LEMMA StoreTypes == ASSUME TypeOK, NEW kind \in Kinds, Store(kind) PROVE TypeOK'
<1>1. PICK of \in (IF kind = "note" THEN Positions("brief", Len(log)) ELSE {0}),
           at \in {Now, Now + 1} \cap 0..MaxSeconds : log' = Append(log, [kind |-> kind, of |-> of, at |-> at])
    BY DEF Store
<1>2. of \in Nat
    BY <1>1 DEF Positions
<1>3. Now \in Nat
  <2>1. CASE log = <<>>
    BY <2>1 DEF Now
  <2>2. CASE log # <<>>
    <3>1. log[Len(log)] \in Event
        BY <2>2 DEF TypeOK
    <3>. QED
        BY <2>2, <3>1 DEF Now, Event
  <2>. QED
    BY <2>1, <2>2
<1>4. [kind |-> kind, of |-> of, at |-> at] \in Event
    BY <1>2, <1>3 DEF Event
<1>5. log' \in Seq(Event)
    BY <1>1, <1>4 DEF TypeOK
<1>. QED
    BY <1>5 DEF Store, TypeOK, history

LEMMA ContentTypes ==
    ASSUME TypeOK, NEW m \in Makers, NEW f \in Files
    PROVE  Content(f, got[m]) \in [Uses(f) -> Nat]
<1>1. Uses(f) \subseteq Sources
    BY DEF Uses, Sections, Sources, Files
<1>2. got[m] \in [Sources -> Nat]
    BY DEF TypeOK
<1>. QED
    BY <1>1, <1>2 DEF Content

LEMMA ReturnTypes ==
    ASSUME TypeOK, NEW m \in Makers, NEW label \in {"done", "idle"}, Return(m, label)
    PROVE  /\ pc' \in [Makers -> {"idle", "read", "write", "done"}]
           /\ left' \in [Makers -> SUBSET Queries]
           /\ got' \in [Makers -> [Sources -> Nat]]
           /\ todo' \in [Makers -> SUBSET Files]
<1>1. Nothing \in [Sources -> Nat]
    BY DEF Nothing
<1>. QED
    BY <1>1 DEF Return, Goto, TypeOK

LEMMA TypeInit == Init => TypeOK
    BY DEF Init, TypeOK, Nothing

LEMMA TypeStep == TypeOK /\ [Next]_vars => TypeOK'
<1>. SUFFICES ASSUME TypeOK, [Next]_vars PROVE TypeOK'
    OBVIOUS
<1>0. Len(log) \in Nat
    BY DEF TypeOK
<1>. USE DEF TypeOK, Goto, Return, history
<1>1. ASSUME NEW kind \in Kinds, Store(kind) PROVE TypeOK'
    BY <1>1, StoreTypes
<1>2. ASSUME NEW m \in Makers, Begin(m) PROVE TypeOK'
  <2>1. [Nothing EXCEPT !["doc"] = LastOf("doc", Len(log))] \in [Sources -> Nat]
    BY <1>0, LastOfIsNat DEF Nothing
  <2>2. got' \in [Makers -> [Sources -> Nat]]
    BY <1>0, <1>2, <2>1 DEF Begin
  <2>3. solo' \in Makers \cup {None} /\ began' \in Nat /\ blind' \in SUBSET Queries
    BY <1>0, <1>2 DEF Begin, Watch
  <2>. QED
    BY <1>2, <2>2, <2>3 DEF Begin
<1>3. ASSUME NEW m \in Makers, NEW source \in Queries, Query(m, source) PROVE TypeOK'
  <2>1. Found(m, source) \in Nat
    BY <1>0, LastOfIsNat, NotesOnIsNat DEF Found
  <2>2. got' \in [Makers -> [Sources -> Nat]]
    BY <1>3, <2>1, KindsType DEF Query, Queries
  <2>3. blind' \in SUBSET Queries /\ left' \in [Makers -> SUBSET Queries]
    BY <1>3 DEF Query
  <2>4. todo' \in [Makers -> SUBSET Files]
    <3>1. CalledFor(got'[m]) \in SUBSET Files
        BY DEF CalledFor
    <3>2. todo' = todo \/ todo' = [todo EXCEPT ![m] = CalledFor(got'[m])]
        BY <1>3 DEF Query
    <3>. HIDE DEF TypeOK
    <3>3. todo \in [Makers -> SUBSET Files]
        BY DEF TypeOK
    <3>. QED
        BY <3>1, <3>2, <3>3
  <2>5. pc' \in [Makers -> {"idle", "read", "write", "done"}]
    BY <1>3 DEF Query
  <2>. QED
    BY <1>3, <2>2, <2>3, <2>4, <2>5 DEF Query
<1>4. ASSUME NEW m \in Makers, NEW f \in Files, WriteFile(m, f) PROVE TypeOK'
  <2>1. /\ DOMAIN disk' = Files
        /\ \A e \in Files : disk'[e] \in [Uses(e) -> Nat] \cup {Absent, Torn}
    <3>1. PICK c \in [Uses(f) -> Nat] \cup {Torn} : disk' = [disk EXCEPT ![f] = c]
        BY <1>4, ContentTypes DEF WriteFile
    <3>. QED
        BY <3>1
  <2>2. log' = log /\ solo' = solo /\ began' = began /\ blind' = blind
    BY <1>4 DEF WriteFile
  <2>3. CASE todo[m] = {f}
    <3>1. Return(m, "done")
        BY <1>4, <2>3 DEF WriteFile, Written
    <3>2. /\ pc' \in [Makers -> {"idle", "read", "write", "done"}]
          /\ left' \in [Makers -> SUBSET Queries]
          /\ got' \in [Makers -> [Sources -> Nat]]
          /\ todo' \in [Makers -> SUBSET Files]
        BY <3>1, ReturnTypes
    <3>. QED
        BY <2>1, <2>2, <3>2
  <2>4. CASE todo[m] # {f}
    <3>1. /\ pc' = pc /\ left' = left /\ got' = got
          /\ todo' = [todo EXCEPT ![m] = @ \ {f}]
        BY <1>4, <2>4 DEF WriteFile, Written
    <3>2. todo' \in [Makers -> SUBSET Files]
        BY <3>1
    <3>. QED
        BY <2>1, <2>2, <3>1, <3>2
  <2>. QED
    BY <2>3, <2>4
<1>5. ASSUME NEW m \in Makers, Abort(m) PROVE TypeOK'
  <2>1. DOMAIN disk' = Files /\ \A e \in Files : disk'[e] \in [Uses(e) -> Nat] \cup {Absent, Torn}
    BY <1>5 DEF Abort
  <2>2. Return(m, "idle") /\ m \in Makers
    BY <1>5 DEF Abort
  <2>3. /\ began' \in Nat /\ blind' \in SUBSET Queries
        /\ log' = log /\ solo' \in Makers \cup {None}
    BY <1>5 DEF Abort, Watch
  <2>. HIDE DEF Return, Goto
  <2>. QED
    BY <2>1, <2>2, <2>3, ReturnTypes
<1>6. CASE UNCHANGED vars
    BY <1>6 DEF vars
<1>. QED
    BY <1>1, <1>2, <1>3, <1>4, <1>5, <1>6 DEF Next

\* The variables keep their types, and a file is a text of its own sources.
THEOREM TypeCorrect == Spec => []TypeOK
<1>1. TypeOK /\ [Next]_vars => TypeOK'
    BY TypeStep
<1>. QED
    BY <1>1, TypeInit, PTL DEF Spec

-----------------------------------------------------------------------------
(* The index and the files.                                                 *)

\* The maker that started last, if it has been alone, is the only one at work.
Alone == \A m \in Makers : solo = m => InFlight \subseteq {m}

\* Something was found only where something happens.
FoundIsOfKinds ==
    \A m \in Makers : \A s \in {"critique", "brief", "note"} :
        got[m][s] # 0 => s \in Kinds

\* What an index may need: the keys but the reconciliation.
Needed(g) ==
    {f \in Files \ {"BRIEF_RECON"} : /\ f = "CRITIQUE" => g["critique"] # 0
                                     /\ f = "BRIEF" => g["brief"] # 0}

\* A maker alone has written what it has no longer to write.
Half ==
    \A m \in Makers : solo = m /\ pc[m] = "write" =>
        \A f \in Needed(got[m]) \ todo[m] : disk[f] = Content(f, got[m])

IndexInv == TypeOK /\ Alone /\ FoundIsOfKinds /\ Half /\ IndexAgrees

\* Positions are positions of the log.
Within ==
    /\ began <= Len(log)
    /\ \A m \in Makers : \A s \in Sources : got[m][s] <= Len(log)
    /\ \A f \in Files : Whole(f) => \A s \in Uses(f) : disk[f][s] <= Len(log)

\* Time does not run backwards.
Ordered == \A i, j \in DOMAIN log : i <= j => log[i].at <= log[j].at

\* The brief is read before its notes, and everything before the first file.
InTurn ==
    \A m \in Makers :
        /\ pc[m] = "write" => left[m] = {}
        /\ "brief" \in left[m] /\ "note" \in Queries => "note" \in left[m]

\* What the one alone has read is not older than its start, unless it was
\* refused, and the notes are notes on the brief.
Read(m, s) == s = "doc" \/ s \in Queries \ left[m]
FreshOf(m) ==
    /\ \A s \in Sources \ {"note"} :
          Read(m, s) /\ s \notin blind => got[m][s] >= LastOf(s, began)
    /\ Read(m, "note") /\ "note" \notin blind =>
          got[m]["note"] >= NotesOn(got[m]["brief"], began)
    /\ got[m]["note"] # 0 => Read(m, "note") /\ log[got[m]["note"]].of = got[m]["brief"]
Fresh == \A m \in InFlight : solo = m => FreshOf(m)

\* A maker alone whose reconciliation has its turn has it written, or to write.
ReconHalf ==
    \A m \in Makers : /\ solo = m /\ pc[m] = "write"
                      /\ HasRecon(got[m]) /\ "BRIEF_RECON" \in Files \ todo[m]
        => disk["BRIEF_RECON"] = Content("BRIEF_RECON", got[m])

SinceInv ==
    /\ TypeOK /\ Alone /\ FoundIsOfKinds /\ Half
    /\ Within /\ Ordered /\ InTurn /\ Fresh /\ ReconHalf /\ NotOlderThanStart

-----------------------------------------------------------------------------
\* Nobody who is not at work changes a file; who is, is the one alone.
LEMMA AloneIs ==
    ASSUME TypeOK, Alone, NEW m \in Makers, NEW n \in Makers, solo = n, m \in InFlight
    PROVE  m = n
    BY DEF Alone

LEMMA AloneStep == TypeOK /\ Alone /\ [Next]_vars => Alone'
<1>. SUFFICES ASSUME TypeOK, Alone, [Next]_vars PROVE Alone'
    OBVIOUS
<1>0. ASSUME InFlight' \subseteq InFlight, solo' = solo PROVE Alone'
    BY <1>0 DEF Alone
<1>. USE DEF InFlight
<1>1. ASSUME NEW kind \in Kinds, Store(kind) PROVE Alone'
    BY <1>0, <1>1 DEF Store, history
<1>2. ASSUME NEW m \in Makers, Begin(m) PROVE Alone'
  <2>1. pc' = [pc EXCEPT ![m] = "read"] /\ solo' = IF InFlight = {} THEN m ELSE None
    BY <1>2 DEF Begin, Goto, Watch
  <2>2. InFlight' \subseteq InFlight \cup {m}
    BY <2>1 DEF TypeOK
  <2>. QED
    BY <2>1, <2>2, NoneIsNothing DEF Alone
<1>3. ASSUME NEW m \in Makers, NEW source \in Queries, Query(m, source) PROVE Alone'
    BY <1>0, <1>3 DEF Query, Goto, TypeOK
<1>4. ASSUME NEW m \in Makers, NEW f \in Files, WriteFile(m, f) PROVE Alone'
    BY <1>0, <1>4 DEF WriteFile, Written, Return, Goto, TypeOK, history
<1>5. ASSUME NEW m \in Makers, Abort(m) PROVE Alone'
  <2>1. CASE solo = m
    BY <1>5, <2>1, NoneIsNothing DEF Abort, Watch, Alone
  <2>2. CASE solo # m
    BY <1>0, <1>5, <2>2 DEF Abort, Return, Goto, TypeOK, history
  <2>. QED
    BY <2>1, <2>2
<1>6. CASE UNCHANGED vars
    BY <1>0, <1>6 DEF vars
<1>. QED
    BY <1>1, <1>2, <1>3, <1>4, <1>5, <1>6 DEF Next

LEMMA FoundStep == TypeOK /\ FoundIsOfKinds /\ [Next]_vars => FoundIsOfKinds'
<1>. SUFFICES ASSUME TypeOK, FoundIsOfKinds, [Next]_vars PROVE FoundIsOfKinds'
    OBVIOUS
<1>0. \A s \in {"critique", "brief", "note"} : s \in Sources /\ s # "doc"
    BY DEF Sources
<1>1. ASSUME NEW kind \in Kinds, Store(kind) PROVE FoundIsOfKinds'
    BY <1>1 DEF Store, FoundIsOfKinds
<1>2. ASSUME NEW m \in Makers, Begin(m) PROVE FoundIsOfKinds'
    BY <1>0, <1>2 DEF Begin, FoundIsOfKinds, Nothing, TypeOK
<1>3. ASSUME NEW m \in Makers, NEW source \in Queries, Query(m, source)
      PROVE  FoundIsOfKinds'
  <2>1. source \in Kinds
    BY DEF Queries
  <2>2. got' = got \/ got' = [got EXCEPT ![m][source] = Found(m, source)]
    BY <1>3 DEF Query
  <2>3. \A n \in Makers : \A s \in {"critique", "brief", "note"} :
            got'[n][s] = got[n][s] \/ s = source
    <3>1. got \in [Makers -> [Sources -> Nat]]
        BY DEF TypeOK
    <3>2. CASE got' = [got EXCEPT ![m][source] = Found(m, source)]
        BY <1>0, <3>1, <3>2
    <3>. QED
        BY <2>2, <3>2
  <2>. QED
    BY <2>1, <2>3 DEF FoundIsOfKinds
<1>4. ASSUME NEW m \in Makers, NEW label, Return(m, label) PROVE FoundIsOfKinds'
    BY <1>0, <1>4 DEF Return, FoundIsOfKinds, Nothing, TypeOK
<1>5. ASSUME NEW m \in Makers, NEW f \in Files, WriteFile(m, f) PROVE FoundIsOfKinds'
  <2>1. CASE todo[m] = {f}
    BY <1>4, <1>5, <2>1 DEF WriteFile, Written
  <2>2. CASE todo[m] # {f}
    BY <1>5, <2>2 DEF WriteFile, Written, FoundIsOfKinds
  <2>. QED
    BY <2>1, <2>2
<1>6. ASSUME NEW m \in Makers, Abort(m) PROVE FoundIsOfKinds'
    BY <1>4, <1>6 DEF Abort
<1>7. CASE UNCHANGED vars
    BY <1>7 DEF vars, FoundIsOfKinds
<1>. QED
    BY <1>1, <1>2, <1>3, <1>5, <1>6, <1>7 DEF Next

\* The maker alone writes the file whole.
LEMMA WritesWhole ==
    ASSUME TypeOK, Half, NEW m \in Makers, NEW f \in Files, WriteFile(m, f), solo = m
    PROVE  \A e \in Needed(got[m]) \ (todo[m] \ {f}) : disk'[e] = Content(e, got[m])
<1>1. disk' = [disk EXCEPT ![f] = Content(f, got[m])] /\ pc[m] = "write"
    BY DEF WriteFile
<1>2. \A e \in Needed(got[m]) \ todo[m] : disk[e] = Content(e, got[m])
    BY <1>1 DEF Half
<1>3. Needed(got[m]) \subseteq Files
    BY DEF Needed
<1>. QED
    BY <1>1, <1>2, <1>3 DEF TypeOK

LEMMA HalfStep == TypeOK /\ Alone /\ Half /\ [Next]_vars => Half'
<1>. SUFFICES ASSUME TypeOK, Alone, Half, [Next]_vars,
                     NEW n \in Makers, solo' = n, pc'[n] = "write",
                     NEW e \in Needed(got'[n]) \ todo'[n]
              PROVE  disk'[e] = Content(e, got'[n])
    BY DEF Half, Needed, Content
<1>0. ASSUME pc'[n] = pc[n], todo'[n] = todo[n], got'[n] = got[n],
             solo' = solo, disk' = disk
      PROVE  disk'[e] = Content(e, got'[n])
    BY <1>0 DEF Half
<1>1. ASSUME NEW kind \in Kinds, Store(kind) PROVE disk'[e] = Content(e, got'[n])
    BY <1>0, <1>1 DEF Store, history
<1>2. ASSUME NEW m \in Makers, Begin(m) PROVE FALSE
  <2>1. n = m
    BY <1>2, NoneIsNothing DEF Begin, Watch
  <2>. QED
    BY <1>2, <2>1 DEF Begin, Goto, TypeOK
<1>3. ASSUME NEW m \in Makers, NEW source \in Queries, Query(m, source)
      PROVE  disk'[e] = Content(e, got'[n])
  <2>1. CASE n # m
    BY <1>0, <1>3, <2>1 DEF Query, Goto, TypeOK
  <2>2. CASE n = m
    <3>1. todo' = [todo EXCEPT ![m] = CalledFor(got'[m])]
        BY <1>3, <2>2 DEF Query, Goto
    <3>2. todo'[n] = CalledFor(got'[n])
        BY <2>2, <3>1 DEF TypeOK
    <3>. QED
        BY <3>2 DEF Needed, CalledFor
  <2>. QED
    BY <2>1, <2>2
<1>4. ASSUME NEW m \in Makers, NEW f \in Files, WriteFile(m, f)
      PROVE  disk'[e] = Content(e, got'[n])
  <2>1. solo = n /\ m \in InFlight
    BY <1>4 DEF WriteFile, InFlight, history
  <2>2. n = m
    BY <2>1, AloneIs
  <2>3. todo[m] # {f}
    BY <1>4, <2>2 DEF WriteFile, Written, Return, Goto, TypeOK
  <2>4. got' = got /\ todo' = [todo EXCEPT ![m] = @ \ {f}]
    BY <1>4, <2>3 DEF WriteFile, Written
  <2>5. todo'[n] = todo[n] \ {f}
    BY <2>2, <2>4 DEF TypeOK
  <2>. QED
    BY <1>4, <2>1, <2>2, <2>4, <2>5, WritesWhole
<1>5. ASSUME NEW m \in Makers, Abort(m) PROVE FALSE
  <2>1. n = m
    BY <1>5, AloneIs, NoneIsNothing DEF Abort, Watch, history
  <2>. QED
    BY <1>5, <2>1 DEF Abort, Return, Goto, TypeOK
<1>6. CASE UNCHANGED vars
    BY <1>0, <1>6 DEF vars
<1>. QED
    BY <1>1, <1>2, <1>3, <1>4, <1>5, <1>6 DEF Next

\* A maker that is complete was so before, and nothing it left has changed, or
\* it has just written its last file.
LEMMA CompleteStep ==
    ASSUME TypeOK, Alone, Next, NEW n \in Makers, Complete(n)'
    PROVE  \/ Complete(n) /\ UNCHANGED <<disk, began, blind>>
           \/ /\ solo = n
              /\ \E f \in Files : WriteFile(n, f) /\ todo[n] = {f}
<1>. DEFINE Kept == Complete(n) /\ UNCHANGED <<disk, began, blind>>
<1>. USE DEF Complete
<1>1. ASSUME NEW kind \in Kinds, Store(kind) PROVE Kept
    BY <1>1 DEF Store, history
<1>2. ASSUME NEW m \in Makers, Begin(m) PROVE FALSE
  <2>1. n = m
    BY <1>2, NoneIsNothing DEF Begin, Watch
  <2>. QED
    BY <1>2, <2>1 DEF Begin, Goto, TypeOK
<1>3. ASSUME NEW m \in Makers, NEW source \in Queries, Query(m, source) PROVE FALSE
  <2>1. solo = n /\ m \in InFlight /\ pc'[n] = "done"
    BY <1>3 DEF Query, InFlight
  <2>2. n = m
    BY <2>1, AloneIs
  <2>. QED
    BY <1>3, <2>1, <2>2 DEF Query, Goto, TypeOK
<1>4. ASSUME NEW m \in Makers, NEW f \in Files, WriteFile(m, f)
      PROVE  n = m /\ solo = n /\ todo[n] = {f}
  <2>1. solo = n /\ m \in InFlight
    BY <1>4 DEF WriteFile, InFlight, history
  <2>2. n = m
    BY <2>1, AloneIs
  <2>3. todo[m] = {f}
    BY <1>4, <2>2 DEF WriteFile, Written
  <2>. QED
    BY <2>1, <2>2, <2>3
<1>5. ASSUME NEW m \in Makers, Abort(m) PROVE FALSE
  <2>1. n = m
    BY <1>5, AloneIs, NoneIsNothing DEF Abort, Watch, history
  <2>. QED
    BY <1>5, <2>1 DEF Abort, Return, Goto, TypeOK
<1>. QED
    BY <1>1, <1>2, <1>3, <1>4, <1>5 DEF Next

\* What it leaves, then, is what it read.
LEMMA LeavesWhatItRead ==
    ASSUME TypeOK, Half, NEW m \in Makers, NEW f \in Files,
           WriteFile(m, f), solo = m, todo[m] = {f}, NEW e \in Needed(got[m])
    PROVE  /\ disk'[e] = Content(e, got[m])
           /\ disk'[e] \in [Uses(e) -> Nat] /\ Whole(e)'
<1>1. disk'[e] = Content(e, got[m])
    BY WritesWhole
<1>2. e \in Files
    BY DEF Needed
<1>3. disk'[e] \in [Uses(e) -> Nat]
    BY <1>1, <1>2, ContentTypes
<1>. QED
    BY <1>1, <1>2, <1>3, MarksAreNoContent DEF Whole

LEMMA AlwaysNeeded == ASSUME NEW g PROVE Always \subseteq Needed(g) /\ "README" \in Always
    BY DEF Always, Needed, Files, Sections

LEMMA NeededWhenFound ==
    ASSUME FoundIsOfKinds, NEW m \in Makers
    PROVE  /\ got[m]["critique"] # 0 => "CRITIQUE" \in Needed(got[m])
           /\ got[m]["brief"] # 0 => "BRIEF" \in Needed(got[m])
    BY DEF FoundIsOfKinds, Needed, Files, Uses, Sections

LEMMA IndexStep ==
    TypeOK /\ Alone /\ FoundIsOfKinds /\ Half /\ IndexAgrees /\ [Next]_vars => IndexAgrees'
<1>. SUFFICES ASSUME TypeOK, Alone, FoundIsOfKinds, Half, IndexAgrees, [Next]_vars,
                     NEW n \in Makers, Complete(n)'
              PROVE  Indexed'
    BY DEF IndexAgrees
<1>0. ASSUME Complete(n), disk' = disk PROVE Indexed'
    BY <1>0 DEF IndexAgrees, Indexed, Whole
<1>1. CASE UNCHANGED vars
    BY <1>0, <1>1 DEF vars, Complete
<1>2. ASSUME solo = n, NEW f \in Files, WriteFile(n, f), todo[n] = {f} PROVE Indexed'
  <2>1. \A e \in Needed(got[n]) : disk'[e] = Content(e, got[n]) /\ Whole(e)'
    BY <1>2, LeavesWhatItRead
  <2>2. Always \subseteq Needed(got[n]) /\ "README" \in Needed(got[n])
    BY AlwaysNeeded
  <2>. DEFINE readme == disk'["README"]
  <2>3. /\ readme["critique"] # 0 => got[n]["critique"] # 0
        /\ readme["brief"] # 0 => got[n]["brief"] # 0
        /\ readme["decision"] = got[n]["decision"]
    <3>1. readme = Content("README", got[n])
        BY <2>1, <2>2
    <3>2. Uses("README") = {"decision", "critique", "brief"}
        BY DEF Uses, Sections
    <3>. QED
        BY <3>1, <3>2 DEF Content
  <2>4. /\ disk'["README"]["critique"] # 0 => Whole("CRITIQUE")'
        /\ disk'["README"]["brief"] # 0 => Whole("BRIEF")'
    BY <2>1, <2>3, NeededWhenFound
  <2>5. ASSUME "DECISIONS" \in Files
        PROVE  disk'["README"]["decision"] = disk'["DECISIONS"]["decision"]
    <3>1. "DECISIONS" \in Needed(got[n])
        BY <2>2, <2>5 DEF Always
    <3>2. disk'["README"]["decision"] = got[n]["decision"]
        BY <2>3
    <3>3. disk'["DECISIONS"] = Content("DECISIONS", got[n])
        BY <2>1, <3>1
    <3>4. "decision" \in Uses("DECISIONS")
        BY DEF Uses, Sections
    <3>5. disk'["DECISIONS"]["decision"] = got[n]["decision"]
        BY <3>3, <3>4 DEF Content
    <3>. QED
        BY <3>2, <3>5
  <2>. QED
    BY <2>1, <2>2, <2>4, <2>5 DEF Indexed
<1>3. CASE Next
    BY <1>0, <1>2, <1>3, CompleteStep
<1>. QED
    BY <1>1, <1>3

\* The index a maker leaves agrees with the files beside it: it links only what
\* is there and whole, whatever was stored meanwhile and whatever query failed.
THEOREM IndexCorrect == Spec => []IndexAgrees
<1>1. Init => IndexInv
    BY TypeInit, NoneIsNothing
    DEF Init, IndexInv, Alone, FoundIsOfKinds, Half, IndexAgrees, Complete, Nothing, InFlight,
        Sources
<1>2. IndexInv /\ [Next]_vars => IndexInv'
    BY TypeStep, AloneStep, FoundStep, HalfStep, IndexStep DEF IndexInv
<1>3. IndexInv => IndexAgrees
    BY DEF IndexInv
<1>. QED
    BY <1>1, <1>2, <1>3, PTL DEF Spec

-----------------------------------------------------------------------------
(* Nothing older than the start.                                            *)

\* What is stored is behind everything that was there.
LEMMA StoreKeeps ==
    ASSUME TypeOK, NEW kind \in Kinds, Store(kind)
    PROVE  /\ Len(log') = Len(log) + 1
           /\ \A i \in 1..Len(log) : i \in DOMAIN log' /\ log'[i] = log[i]
<1>1. \E e : log' = Append(log, e)
    BY DEF Store
<1>. QED
    BY <1>1 DEF TypeOK

LEMMA StoreKeepsLast ==
    ASSUME TypeOK, NEW kind \in Kinds, Store(kind), NEW n \in Nat, n <= Len(log)
    PROVE  /\ \A s : LastOf(s, n)' = LastOf(s, n)
           /\ \A b : NotesOn(b, n)' = NotesOn(b, n)
<1>1. Len(log) \in Nat /\ DOMAIN log = 1..Len(log)
    BY DEF TypeOK
<1>2. \A i \in 1..n : i \in DOMAIN log /\ i \in DOMAIN log' /\ log'[i] = log[i]
    BY <1>1, StoreKeeps
<1>3. \A s : Positions(s, n)' = Positions(s, n)
    BY <1>2 DEF Positions
<1>4. \A b : {i \in Positions("note", n)' : log'[i].of = b}
             = {i \in Positions("note", n) : log[i].of = b}
    BY <1>2, <1>3 DEF Positions
<1>. QED
    BY <1>3, <1>4 DEF LastOf, NotesOn

LEMMA FoundWithin ==
    ASSUME TypeOK, NEW m \in Makers, NEW source
    PROVE  Found(m, source) \in Nat /\ Found(m, source) <= Len(log)
<1>1. Len(log) \in Nat
    BY DEF TypeOK
<1>. QED
    BY <1>1, LastOfIsNat, NotesOnIsNat DEF Found

\* A note that is found is one on the brief.
LEMMA NoteIsOfBrief ==
    ASSUME NEW b, NEW n \in Nat, NotesOn(b, n) # 0 PROVE log[NotesOn(b, n)].of = b
<1>. DEFINE S == {i \in Positions("note", n) : log[i].of = b}
<1>1. S \in SUBSET (1..n)
    BY DEF Positions
<1>2. S = {} => LastIn(S) = 0
    BY <1>1, LastInIs
<1>3. S # {} => LastIn(S) \in S
    BY <1>1, LastInIs
<1>. QED
    BY <1>2, <1>3 DEF NotesOn

\* Of what never happens there is no last one.
LEMMA NothingOfNoKind ==
    ASSUME TypeOK, NEW s, s \notin Kinds, NEW n \in Nat
    PROVE  LastOf(s, n) = 0 /\ (s = "note" => \A b : NotesOn(b, n) = 0)
<1>0. \A i \in DOMAIN log : log[i] \in Event
    BY DEF TypeOK
<1>1. \A i \in DOMAIN log : log[i].kind \in Kinds
    BY <1>0 DEF Event
<1>2. Positions(s, n) = {}
    BY <1>1 DEF Positions
<1>3. LastIn({}) = 0
    BY DEF LastIn
<1>4. ASSUME s = "note", NEW b PROVE NotesOn(b, n) = 0
  <2>1. {i \in Positions("note", n) : log[i].of = b} = {}
    BY <1>2, <1>4
  <2>. QED
    BY <1>3, <2>1 DEF NotesOn
<1>. QED
    BY <1>2, <1>3, <1>4 DEF LastOf

LEMMA WithinStep == TypeOK /\ Within /\ [Next]_vars => Within'
<1>. SUFFICES ASSUME TypeOK, Within, [Next]_vars PROVE Within'
    OBVIOUS
<1>. DEFINE GotWithin == \A m \in Makers : \A s \in Sources : got[m][s] <= Len(log)
            BeganWithin == began <= Len(log)
            FileWithin(f) == Whole(f) => \A s \in Uses(f) : disk[f][s] <= Len(log)
            DiskWithin == \A f \in Files : FileWithin(f)
<1>0. /\ Len(log) \in Nat /\ 0 <= Len(log)
      /\ got \in [Makers -> [Sources -> Nat]] /\ began \in Nat
    BY DEF TypeOK
<1>1. GotWithin /\ BeganWithin /\ DiskWithin
    BY DEF Within
<1>2. ASSUME GotWithin', BeganWithin', DiskWithin' PROVE Within'
    BY <1>2 DEF Within
<1>3. ASSUME disk' = disk, log' = log PROVE DiskWithin'
    BY <1>1, <1>3 DEF Whole
<1>4. ASSUME NEW m \in Makers, NEW label, Return(m, label), log' = log PROVE GotWithin'
    BY <1>0, <1>1, <1>4 DEF Return, Nothing
<1>5. ASSUME NEW kind \in Kinds, Store(kind) PROVE Within'
  <2>1. Len(log') = Len(log) + 1 /\ got' = got /\ began' = began /\ disk' = disk
    BY <1>5, StoreKeeps DEF Store, history
  <2>2. GotWithin' /\ BeganWithin'
    BY <1>0, <1>1, <2>1
  <2>3. ASSUME NEW f \in Files, Whole(f)', NEW s \in Uses(f) PROVE disk'[f][s] <= Len(log')
    <3>1. disk[f] \in [Uses(f) -> Nat] /\ Whole(f)
        BY <2>1, <2>3 DEF Whole, TypeOK
    <3>2. disk[f][s] \in Nat /\ disk[f][s] <= Len(log)
        BY <1>1, <3>1
    <3>. QED
        BY <1>0, <2>1, <3>2
  <2>. QED
    BY <1>2, <2>2, <2>3
<1>6. ASSUME NEW m \in Makers, Begin(m) PROVE Within'
  <2>1. /\ disk' = disk /\ log' = log /\ began' \in {Len(log), 0}
        /\ got' = [got EXCEPT ![m] = [Nothing EXCEPT !["doc"] = LastOf("doc", Len(log))]]
    BY <1>6 DEF Begin, Watch
  <2>2. GotWithin'
    BY <1>0, <1>1, <2>1, LastOfIsNat DEF Nothing
  <2>3. BeganWithin'
    BY <1>0, <1>1, <2>1
  <2>. QED
    BY <1>2, <1>3, <2>1, <2>2, <2>3
<1>7. ASSUME NEW m \in Makers, NEW source \in Queries, Query(m, source) PROVE Within'
  <2>1. /\ disk' = disk /\ log' = log /\ began' = began
        /\ got' = got \/ got' = [got EXCEPT ![m][source] = Found(m, source)]
    BY <1>7 DEF Query
  <2>2. CASE got' = [got EXCEPT ![m][source] = Found(m, source)]
    <3>1. GotWithin'
        BY <1>0, <1>1, <2>1, <2>2, FoundWithin
    <3>. QED
        BY <1>1, <1>2, <1>3, <2>1, <3>1
  <2>. QED
    BY <1>1, <1>2, <1>3, <2>1, <2>2
<1>8. ASSUME NEW m \in Makers, NEW f \in Files, WriteFile(m, f) PROVE Within'
  <2>1. log' = log /\ began' = began
    BY <1>8 DEF WriteFile, history
  <2>2. GotWithin'
    <3>1. CASE todo[m] = {f}
        BY <1>4, <1>8, <2>1, <3>1 DEF WriteFile, Written
    <3>2. CASE todo[m] # {f}
        BY <1>1, <1>8, <2>1, <3>2 DEF WriteFile, Written
    <3>. QED
        BY <3>1, <3>2
  <2>3. ASSUME NEW e \in Files PROVE FileWithin(e)'
    <3>1. \/ disk' = [disk EXCEPT ![f] = Content(f, got[m])]
          \/ disk' = [disk EXCEPT ![f] = Torn]
        BY <1>8 DEF WriteFile
    <3>2. CASE e # f
        BY <1>1, <2>1, <3>1, <3>2 DEF Whole, TypeOK
    <3>3. CASE e = f /\ disk'[e] = Torn
        BY <3>3 DEF Whole
    <3>4. CASE e = f /\ disk'[e] = Content(e, got[m])
      <4>1. ASSUME NEW s \in Uses(e) PROVE disk'[e][s] <= Len(log)
        <5>1. s \in Sources
            BY DEF Uses, Sections, Sources, Files
        <5>2. got[m][s] \in Nat /\ got[m][s] <= Len(log)
            BY <1>0, <1>1, <5>1
        <5>3. disk'[e][s] = got[m][s] \/ (disk'[e][s] = 1 /\ got[m][s] # 0)
            BY <3>4 DEF Content
        <5>. QED
            BY <1>0, <5>2, <5>3
      <4>. QED
        BY <2>1, <4>1
    <3>. QED
        BY <3>1, <3>2, <3>3, <3>4 DEF TypeOK
  <2>. QED
    BY <1>1, <1>2, <2>1, <2>2, <2>3
<1>9. ASSUME NEW m \in Makers, Abort(m) PROVE Within'
  <2>1. log' = log /\ began' \in {began, 0} /\ Return(m, "idle")
    BY <1>9 DEF Abort, Watch, history
  <2>2. GotWithin'
    BY <1>4, <2>1
  <2>3. BeganWithin'
    BY <1>0, <1>1, <2>1
  <2>4. DiskWithin'
    <3>1. disk' = disk \/ \E f \in Files : disk' = [disk EXCEPT ![f] = Torn]
        BY <1>9 DEF Abort, TypeOK
    <3>. QED
        BY <1>1, <2>1, <3>1 DEF Whole, TypeOK
  <2>. QED
    BY <1>2, <2>2, <2>3, <2>4
<1>10. CASE UNCHANGED vars
    BY <1>1, <1>2, <1>3, <1>10 DEF vars
<1>. QED
    BY <1>5, <1>6, <1>7, <1>8, <1>9, <1>10 DEF Next

LEMMA InTurnStep == TypeOK /\ InTurn /\ [Next]_vars => InTurn'
<1>. SUFFICES ASSUME TypeOK, InTurn, [Next]_vars PROVE InTurn'
    OBVIOUS
<1>. DEFINE Turned(n) == /\ pc[n] = "write" => left[n] = {}
                         /\ "brief" \in left[n] /\ "note" \in Queries => "note" \in left[n]
<1>0. (\A n \in Makers : Turned(n)) /\ ((\A n \in Makers : Turned(n)') => InTurn')
    BY DEF InTurn
<1>1. ASSUME pc' = pc, left' = left PROVE InTurn'
    BY <1>0, <1>1
<1>2. ASSUME NEW kind \in Kinds, Store(kind) PROVE InTurn'
    BY <1>1, <1>2 DEF Store
<1>3. ASSUME NEW m \in Makers, Begin(m) PROVE InTurn'
    BY <1>0, <1>3 DEF Begin, Goto, TypeOK
<1>4. ASSUME NEW m \in Makers, NEW source \in Queries, Query(m, source) PROVE InTurn'
  <2>1. /\ pc \in [Makers -> {"idle", "read", "write", "done"}]
        /\ left \in [Makers -> SUBSET Queries]
    BY DEF TypeOK
  <2>2. left' = [left EXCEPT ![m] = @ \ {source}] /\ source \in left[m]
    BY <1>4 DEF Query
  <2>3. "brief" \in left[m] => source # "note"
    BY <1>4 DEF Query, Turn
  <2>4. ASSUME NEW n \in Makers, "brief" \in left'[n], "note" \in Queries
        PROVE  "note" \in left'[n]
    BY <1>0, <2>1, <2>2, <2>3, <2>4
  <2>5. ASSUME NEW n \in Makers, pc'[n] = "write" PROVE left'[n] = {}
    <3>1. CASE left[m] = {source}
        BY <1>0, <1>4, <2>1, <2>2, <2>5, <3>1 DEF Query, Goto
    <3>2. CASE left[m] # {source}
      <4>1. pc' = pc
        BY <1>4, <3>2 DEF Query
      <4>2. left[n] = {}
        BY <1>0, <2>5, <4>1
      <4>. QED
        BY <2>1, <2>2, <4>2
    <3>. QED
        BY <3>1, <3>2
  <2>. QED
    BY <1>0, <2>4, <2>5
<1>5. ASSUME NEW m \in Makers, NEW label \in {"done", "idle"}, Return(m, label) PROVE InTurn'
    BY <1>0, <1>5 DEF Return, Goto, TypeOK
<1>6. ASSUME NEW m \in Makers, NEW f \in Files, WriteFile(m, f) PROVE InTurn'
    BY <1>1, <1>5, <1>6 DEF WriteFile, Written
<1>7. ASSUME NEW m \in Makers, Abort(m) PROVE InTurn'
    BY <1>5, <1>7 DEF Abort
<1>8. CASE UNCHANGED vars
    BY <1>1, <1>8 DEF vars
<1>. QED
    BY <1>2, <1>3, <1>4, <1>6, <1>7, <1>8 DEF Next

LEMMA OrderedStep == TypeOK /\ Ordered /\ [Next]_vars => Ordered'
<1>. SUFFICES ASSUME TypeOK, Ordered, [Next]_vars PROVE Ordered'
    OBVIOUS
<1>1. CASE log' = log
    BY <1>1 DEF Ordered
<1>2. ASSUME NEW kind \in Kinds, Store(kind) PROVE Ordered'
  <2>1. PICK of \in (IF kind = "note" THEN Positions("brief", Len(log)) ELSE {0}),
             at \in {Now, Now + 1} \cap 0..MaxSeconds :
                log' = Append(log, [kind |-> kind, of |-> of, at |-> at])
    BY <1>2 DEF Store
  <2>2. /\ Len(log) \in Nat /\ DOMAIN log = 1..Len(log)
        /\ \A i \in DOMAIN log : log[i].at \in Nat
    <3>1. \A i \in DOMAIN log : log[i] \in Event
        BY DEF TypeOK
    <3>. QED
        BY <3>1 DEF TypeOK, Event
  <2>3. at \in Nat /\ \A i \in DOMAIN log : log[i].at <= at
    <3>1. CASE log = <<>>
        BY <2>1, <2>2, <3>1 DEF Now
    <3>2. CASE log # <<>>
      <4>1. Len(log) \in DOMAIN log /\ Now = log[Len(log)].at
        BY <2>2, <3>2 DEF Now, TypeOK
      <4>2. \A i \in DOMAIN log : log[i].at <= Now /\ Now \in Nat
        BY <2>2, <4>1 DEF Ordered
      <4>. QED
        BY <2>1, <2>2, <4>1, <4>2
    <3>. QED
        BY <3>1, <3>2
  <2>4. /\ DOMAIN log' = 1..(Len(log) + 1)
        /\ \A i \in DOMAIN log : log'[i] = log[i]
        /\ log'[Len(log) + 1] = [kind |-> kind, of |-> of, at |-> at]
    BY <2>1 DEF TypeOK
  <2>5. log'[Len(log) + 1].at = at
    BY <2>4
  <2>. SUFFICES ASSUME NEW i \in DOMAIN log', NEW j \in DOMAIN log', i <= j
                PROVE  log'[i].at <= log'[j].at
    BY DEF Ordered
  <2>6. CASE j \in DOMAIN log
    BY <2>2, <2>4, <2>6 DEF Ordered
  <2>7. CASE j \notin DOMAIN log
    <3>1. j = Len(log) + 1 /\ log'[j].at = at
        BY <2>2, <2>4, <2>5, <2>7
    <3>2. CASE i = j
        BY <2>3, <3>1, <3>2
    <3>3. CASE i # j
        BY <2>2, <2>3, <2>4, <3>1, <3>3
    <3>. QED
        BY <3>2, <3>3
  <2>. QED
    BY <2>6, <2>7
<1>3. CASE UNCHANGED vars
    BY <1>1, <1>3 DEF vars
<1>. QED
    BY <1>1, <1>2, <1>3 DEF Next, Begin, Query, WriteFile, Abort

LEMMA FreshQuery ==
    ASSUME TypeOK, Within, InTurn, Fresh, NEW m \in Makers, solo = m,
           NEW source \in Queries, Query(m, source)
    PROVE  FreshOf(m)'
<1>1. FreshOf(m)
    BY DEF Fresh, Query, InFlight
<1>2. /\ log' = log /\ began' = began /\ source \in left[m]
      /\ left' = [left EXCEPT ![m] = @ \ {source}]
      /\ \/ got' = [got EXCEPT ![m][source] = Found(m, source)] /\ blind' = blind
         \/ got' = got /\ blind' = blind \cup {source}
    BY DEF Query
<1>3. /\ got \in [Makers -> [Sources -> Nat]] /\ left \in [Makers -> SUBSET Queries]
      /\ began \in Nat /\ Len(log) \in Nat /\ began <= Len(log)
    BY DEF TypeOK, Within
<1>4. source \in Sources \ {"doc"} /\ "note" \in Sources /\ "brief" \in Sources
    BY KindsType DEF Queries, Sources
<1>5. \A s \in Sources : \/ got'[m][s] = got[m][s] /\ (s = source => s \in blind')
                         \/ s = source /\ got'[m][s] = Found(m, source)
    BY <1>2, <1>3, <1>4
<1>6. /\ \A s : Read(m, s)' => s = source \/ Read(m, s)
      /\ \A s : Read(m, s) => Read(m, s)'
      /\ blind \subseteq blind'
    BY <1>2, <1>3 DEF Read
<1>7. \A s : LastOf(s, began)' = LastOf(s, began)
    BY <1>2 DEF LastOf, Positions
<1>8. \A b : NotesOn(b, began)' = NotesOn(b, began)
    BY <1>2 DEF NotesOn, Positions
<1>9. ASSUME NEW s \in Sources \ {"note"}, Read(m, s)', s \notin blind'
      PROVE  got'[m][s] >= LastOf(s, began)'
  <2>1. CASE s # source
    BY <1>1, <1>5, <1>6, <1>7, <1>9, <2>1 DEF FreshOf
  <2>2. CASE s = source
    <3>1. got'[m][s] = LastOf(s, Len(log))
        BY <1>5, <1>9, <2>2 DEF Found
    <3>2. LastOf(s, began) <= LastOf(s, Len(log))
        BY <1>3, LastOfGrows
    <3>3. LastOf(s, began) \in Nat /\ LastOf(s, Len(log)) \in Nat
        BY <1>3, LastOfIsNat
    <3>. QED
        BY <1>7, <3>1, <3>2, <3>3
  <2>. QED
    BY <2>1, <2>2
<1>. DEFINE b == got[m]["brief"]
<1>10. Read(m, "note")' => got'[m]["brief"] = b
    BY <1>2, <1>3, <1>4, <1>5 DEF InTurn, Read
<1>11. ASSUME Read(m, "note")', "note" \notin blind'
       PROVE  got'[m]["note"] >= NotesOn(got[m]["brief"], began)'
  <2>1. NotesOn(got[m]["brief"], began)' = NotesOn(b, began)
    BY <1>2, <1>10, <1>11 DEF NotesOn, Positions
  <2>2. CASE source # "note"
    BY <1>1, <1>4, <1>5, <1>6, <1>11, <2>1, <2>2 DEF FreshOf
  <2>3. CASE source = "note"
    <3>1. got'[m]["note"] = NotesOn(b, Len(log))
        BY <1>4, <1>5, <1>11, <2>3 DEF Found
    <3>2. NotesOn(b, began) <= NotesOn(b, Len(log))
        BY <1>3, NotesOnGrows
    <3>3. NotesOn(b, began) \in Nat /\ NotesOn(b, Len(log)) \in Nat
        BY <1>3, NotesOnIsNat
    <3>. QED
        BY <2>1, <3>1, <3>2, <3>3
  <2>. QED
    BY <2>2, <2>3
<1>12. ASSUME got'[m]["note"] # 0
       PROVE  Read(m, "note")' /\ log'[got'[m]["note"]].of = got'[m]["brief"]
  <2>1. CASE got'[m]["note"] = got[m]["note"]
    <3>1. Read(m, "note") /\ log[got[m]["note"]].of = b
        BY <1>1, <1>12, <2>1 DEF FreshOf
    <3>. QED
        BY <1>2, <1>6, <1>10, <2>1, <3>1
  <2>2. CASE source = "note" /\ got'[m]["note"] = Found(m, source)
    <3>1. got'[m]["note"] = NotesOn(b, Len(log))
        BY <2>2 DEF Found
    <3>2. log[NotesOn(b, Len(log))].of = b
        BY <1>3, <1>12, <3>1, NoteIsOfBrief
    <3>3. Read(m, "note")'
        BY <1>2, <1>3, <2>2 DEF Read
    <3>. QED
        BY <1>2, <1>10, <3>1, <3>2, <3>3
  <2>. QED
    BY <1>4, <1>5, <2>1, <2>2
<1>. QED
    BY <1>9, <1>11, <1>12 DEF FreshOf

\* Storing something behind all that was read changes nothing of it.
LEMMA FreshStore ==
    ASSUME TypeOK, Within, NEW n \in Makers, FreshOf(n), NEW kind \in Kinds, Store(kind)
    PROVE  FreshOf(n)'
<1>1. /\ got' = got /\ left' = left /\ began' = began /\ blind' = blind
    BY DEF Store, history
<1>2. /\ began \in Nat /\ began <= Len(log) /\ Len(log) \in Nat
      /\ "note" \in Sources /\ got[n] \in [Sources -> Nat] /\ got[n]["note"] <= Len(log)
    BY DEF TypeOK, Within, Sources
<1>3. PICK k \in Nat : k = began /\ k <= Len(log)
    BY <1>2
<1>4. /\ \A s : LastOf(s, k)' = LastOf(s, k)
      /\ \A b : NotesOn(b, k)' = NotesOn(b, k)
    BY <1>3, StoreKeepsLast
<1>5. \A s : LastOf(s, began)' = LastOf(s, k)'
    BY <1>1, <1>3 DEF LastOf, Positions
<1>6. PICK b : b = got[n]["brief"]
    OBVIOUS
<1>7. NotesOn(got[n]["brief"], began)' = NotesOn(b, k)'
    BY <1>1, <1>3, <1>6 DEF NotesOn, Positions
<1>8. /\ \A s : LastOf(s, began)' = LastOf(s, began)
      /\ NotesOn(got[n]["brief"], began)' = NotesOn(got[n]["brief"], began)
    BY <1>3, <1>4, <1>5, <1>6, <1>7
<1>9. got[n]["note"] # 0 => log'[got[n]["note"]] = log[got[n]["note"]]
    BY <1>2, StoreKeeps
<1>. QED
    BY <1>1, <1>8, <1>9 DEF FreshOf, Read

LEMMA FreshStep ==
    TypeOK /\ Alone /\ Within /\ InTurn /\ Fresh /\ [Next]_vars => Fresh'
<1>. SUFFICES ASSUME TypeOK, Alone, Within, InTurn, Fresh, [Next]_vars,
                     NEW n \in Makers, n \in InFlight', solo' = n
              PROVE  FreshOf(n)'
    BY DEF Fresh, InFlight
<1>0. ASSUME n \in InFlight, solo = n, log' = log, blind' = blind,
             got'[n] = got[n], left'[n] = left[n], began' = began
      PROVE  FreshOf(n)'
  <2>1. FreshOf(n)
    BY <1>0 DEF Fresh
  <2>. QED
    BY <1>0, <2>1 DEF FreshOf, Read, LastOf, NotesOn, Positions
<1>1. ASSUME NEW kind \in Kinds, Store(kind) PROVE FreshOf(n)'
  <2>1. FreshOf(n)
    BY <1>1 DEF Store, history, Fresh, InFlight
  <2>. QED
    BY <1>1, <2>1, FreshStore
<1>2. ASSUME NEW m \in Makers, Begin(m) PROVE FreshOf(n)'
  <2>1. n = m /\ solo' = m /\ began' = Len(log) /\ blind' = {}
    BY <1>2, NoneIsNothing DEF Begin, Watch
  <2>2. /\ log' = log /\ left'[n] = Queries /\ Len(log) \in Nat
        /\ got'[n]["doc"] = LastOf("doc", Len(log)) /\ got'[n]["note"] = 0
    BY <1>2, <2>1 DEF Begin, TypeOK, Nothing, Sources
  <2>3. \A s : Read(n, s)' => s = "doc"
    BY <2>2 DEF Read
  <2>4. LastOf("doc", began)' = LastOf("doc", Len(log))
    BY <2>1, <2>2 DEF LastOf, Positions
  <2>5. LastOf("doc", Len(log)) \in Nat
    BY <2>2, LastOfIsNat
  <2>. QED
    BY <2>2, <2>3, <2>4, <2>5 DEF FreshOf
<1>3. ASSUME NEW m \in Makers, NEW source \in Queries, Query(m, source) PROVE FreshOf(n)'
  <2>1. solo = n /\ m \in InFlight
    BY <1>3 DEF Query, InFlight
  <2>2. n = m
    BY <2>1, AloneIs
  <2>. QED
    BY <1>3, <2>1, <2>2, FreshQuery
<1>4. ASSUME NEW m \in Makers, NEW f \in Files, WriteFile(m, f) PROVE FreshOf(n)'
  <2>1. log' = log /\ UNCHANGED history /\ m \in InFlight
    BY <1>4 DEF WriteFile, InFlight
  <2>2. n = m
    BY <2>1, AloneIs DEF history
  <2>3. todo[m] # {f}
    BY <1>4, <2>2 DEF WriteFile, Written, Return, Goto, InFlight, TypeOK
  <2>4. pc' = pc /\ left' = left /\ got' = got
    BY <1>4, <2>3 DEF WriteFile, Written
  <2>. QED
    BY <1>0, <2>1, <2>4 DEF InFlight, history
<1>5. ASSUME NEW m \in Makers, Abort(m) PROVE FALSE
  <2>1. n = m
    BY <1>5, AloneIs, NoneIsNothing DEF Abort, Watch, history
  <2>. QED
    BY <1>5, <2>1 DEF Abort, Return, Goto, InFlight, TypeOK
<1>6. CASE UNCHANGED vars
    BY <1>0, <1>6 DEF vars, InFlight
<1>. QED
    BY <1>1, <1>2, <1>3, <1>4, <1>5, <1>6 DEF Next

\* Whether there is a reconciliation to write does not change.
LEMMA HasReconKept ==
    ASSUME TypeOK, Within, NEW m \in Makers, NEW kind \in Kinds, Store(kind)
    PROVE  HasRecon(got[m])' <=> HasRecon(got[m])
<1>1. /\ "recon" \in Sources /\ "brief" \in Sources /\ got[m] \in [Sources -> Nat]
      /\ got' = got /\ Len(log) \in Nat
    BY DEF TypeOK, Sources, Store
<1>2. /\ got[m]["recon"] \in Nat /\ got[m]["recon"] <= Len(log)
      /\ got[m]["brief"] \in Nat /\ got[m]["brief"] <= Len(log)
    BY <1>1 DEF Within
<1>3. /\ got[m]["recon"] # 0 => log'[got[m]["recon"]] = log[got[m]["recon"]]
      /\ got[m]["brief"] # 0 => log'[got[m]["brief"]] = log[got[m]["brief"]]
    BY <1>1, <1>2, StoreKeeps
<1>. QED
    BY <1>1, <1>3 DEF HasRecon

LEMMA ReconHalfStep ==
    TypeOK /\ Alone /\ Within /\ ReconHalf /\ [Next]_vars => ReconHalf'
<1>. SUFFICES ASSUME TypeOK, Alone, Within, ReconHalf, [Next]_vars,
                     NEW n \in Makers, solo' = n, pc'[n] = "write",
                     HasRecon(got[n])', "BRIEF_RECON" \in Files \ todo'[n]
              PROVE  disk'["BRIEF_RECON"] = Content("BRIEF_RECON", got'[n])
    BY DEF ReconHalf, Content, HasRecon
<1>0. ASSUME pc[n] = "write", todo'[n] = todo[n], got'[n] = got[n],
             solo = n, disk' = disk, HasRecon(got[n])
      PROVE  disk'["BRIEF_RECON"] = Content("BRIEF_RECON", got'[n])
    BY <1>0 DEF ReconHalf
<1>1. ASSUME NEW kind \in Kinds, Store(kind)
      PROVE  disk'["BRIEF_RECON"] = Content("BRIEF_RECON", got'[n])
    BY <1>0, <1>1, HasReconKept DEF Store, history
<1>2. ASSUME NEW m \in Makers, Begin(m) PROVE FALSE
  <2>1. n = m
    BY <1>2, NoneIsNothing DEF Begin, Watch
  <2>. QED
    BY <1>2, <2>1 DEF Begin, Goto, TypeOK
<1>3. ASSUME NEW m \in Makers, NEW source \in Queries, Query(m, source) PROVE FALSE
  <2>1. solo = n /\ m \in InFlight
    BY <1>3 DEF Query, InFlight
  <2>2. n = m
    BY <2>1, AloneIs
  <2>3. todo' = [todo EXCEPT ![m] = CalledFor(got'[m])]
    BY <1>3, <2>2 DEF Query, Goto
  <2>4. todo'[n] = CalledFor(got'[n])
    BY <2>2, <2>3 DEF TypeOK
  <2>5. log' = log
    BY <1>3 DEF Query
  <2>. QED
    BY <2>4, <2>5 DEF CalledFor, HasRecon
<1>4. ASSUME NEW m \in Makers, NEW f \in Files, WriteFile(m, f)
      PROVE  disk'["BRIEF_RECON"] = Content("BRIEF_RECON", got'[n])
  <2>1. solo = n /\ m \in InFlight /\ log' = log /\ pc[m] = "write"
    BY <1>4 DEF WriteFile, InFlight, history
  <2>2. n = m
    BY <2>1, AloneIs
  <2>3. todo[m] # {f}
    BY <1>4, <2>2 DEF WriteFile, Written, Return, Goto, TypeOK
  <2>4. got' = got /\ todo' = [todo EXCEPT ![m] = @ \ {f}]
    BY <1>4, <2>3 DEF WriteFile, Written
  <2>5. todo'[n] = todo[n] \ {f} /\ HasRecon(got[n])
    BY <2>1, <2>2, <2>4 DEF TypeOK, HasRecon
  <2>6. disk' = [disk EXCEPT ![f] = Content(f, got[m])]
    BY <1>4, <2>1, <2>2 DEF WriteFile
  <2>7. CASE f = "BRIEF_RECON"
    BY <2>2, <2>4, <2>6, <2>7 DEF TypeOK
  <2>8. CASE f # "BRIEF_RECON"
    <3>1. disk["BRIEF_RECON"] = Content("BRIEF_RECON", got[n])
        BY <2>1, <2>2, <2>5, <2>8 DEF ReconHalf
    <3>. QED
        BY <2>4, <2>6, <2>8, <3>1 DEF TypeOK
  <2>. QED
    BY <2>7, <2>8
<1>5. ASSUME NEW m \in Makers, Abort(m) PROVE FALSE
  <2>1. n = m
    BY <1>5, AloneIs, NoneIsNothing DEF Abort, Watch, history
  <2>. QED
    BY <1>5, <2>1 DEF Abort, Return, Goto, TypeOK
<1>6. CASE UNCHANGED vars
    BY <1>0, <1>6 DEF vars, HasRecon
<1>. QED
    BY <1>1, <1>2, <1>3, <1>4, <1>5, <1>6 DEF Next


LEMMA LogStep == ASSUME Next PROVE log' = log \/ \E kind \in Kinds : Store(kind)
    BY DEF Next, Begin, Query, WriteFile, Abort

\* What is stored later takes nothing away from what was left.
LEMMA SinceKept ==
    ASSUME TypeOK, Within, NEW k \in Nat, k <= Len(log), NEW asked, Since(k, asked),
           NEW kind \in Kinds, Store(kind)
    PROVE  Since(k, asked)'
<1>0. /\ disk' = disk /\ \A f : Whole(f)' = Whole(f)
      /\ Len(log) \in Nat
    BY DEF Store, Whole, TypeOK
<1>1. disk' = disk /\ \A f : Whole(f)' = Whole(f)
    BY <1>0
<1>2. /\ \A s : LastOf(s, k)' = LastOf(s, k)
      /\ \A b : NotesOn(b, k)' = NotesOn(b, k)
    BY StoreKeepsLast
<1>3. \A f \in Always \ {"README"} : \A s \in Uses(f) \cap asked : disk'[f][s] >= LastOf(s, k)'
    BY <1>1, <1>2 DEF Since
<1>4. CritiqueSince(k) => CritiqueSince(k)'
    BY <1>1, <1>2 DEF CritiqueSince
<1>5. NotesSince(k) => NotesSince(k)'
  <2>1. PICK b : b = disk["BRIEF"]["brief"]
    OBVIOUS
  <2>2. NotesOn(disk["BRIEF"]["brief"], k)' = NotesOn(b, k)'
    BY <1>1, <2>1 DEF NotesOn, Positions
  <2>3. NotesOn(disk["BRIEF"]["brief"], k)' = NotesOn(disk["BRIEF"]["brief"], k)
    BY <1>2, <2>1, <2>2
  <2>. QED
    BY <1>1, <1>2, <2>3 DEF NotesSince
<1>6. ASSUME BriefSince(k), LastOf("brief", k) # 0
      PROVE  /\ disk["BRIEF"]["brief"] \in 1..Len(log)
             /\ disk["BRIEF"]["note"] # 0 => disk["BRIEF"]["note"] \in 1..Len(log)
  <2>1. Whole("BRIEF") /\ disk["BRIEF"]["brief"] >= LastOf("brief", k) /\ LastOf("brief", k) \in Nat
    BY <1>6, LastOfIsNat DEF BriefSince
  <2>2. "brief" \in Kinds
    BY <1>6, NothingOfNoKind
  <2>3. "BRIEF" \in Files /\ "note" \in Uses("BRIEF") /\ "brief" \in Uses("BRIEF")
    BY <2>2 DEF Files, Uses, Sections
  <2>4. disk["BRIEF"] \in [Uses("BRIEF") -> Nat]
    BY <2>1, <2>3 DEF TypeOK, Whole
  <2>5. /\ disk["BRIEF"]["note"] \in Nat /\ disk["BRIEF"]["note"] <= Len(log)
        /\ disk["BRIEF"]["brief"] \in Nat /\ disk["BRIEF"]["brief"] <= Len(log)
    BY <2>1, <2>3, <2>4 DEF Within
  <2>. QED
    BY <1>0, <1>6, <2>1, <2>5
<1>7. BriefSince(k) => BriefSince(k)'
    BY <1>1, <1>2, <1>6, StoreKeeps DEF BriefSince
<1>8. BriefSince(k) /\ ReconSince(k) => ReconSince(k)'
  <2>1. LastOf("recon", k) \in Nat /\ LastOf("recon", k) <= k
    BY LastOfIsNat
  <2>2. ASSUME BriefSince(k), LastOf("brief", k) # 0, LastOf("recon", k) # 0
        PROVE  /\ log'[LastOf("recon", k)] = log[LastOf("recon", k)]
               /\ log'[disk["BRIEF"]["brief"]] = log[disk["BRIEF"]["brief"]]
    BY <1>0, <1>6, <2>1, <2>2, StoreKeeps
  <2>. QED
    BY <1>1, <1>2, <2>2 DEF ReconSince
<1>. QED
    BY <1>3, <1>4, <1>5, <1>7, <1>8 DEF Since

\* The last file completes what was read.
LEMMA SinceAtLast ==
    ASSUME TypeOK, FoundIsOfKinds, Half, Within, Ordered, InTurn, Fresh, ReconHalf,
           NEW m \in Makers, NEW f \in Files,
           WriteFile(m, f), solo = m, todo[m] = {f}
    PROVE  Since(began, Sources \ blind)'
<1>. DEFINE k == began
            asked == Sources \ blind
<1>1. log' = log /\ began' = began /\ blind' = blind /\ pc[m] = "write"
    BY DEF WriteFile, history
<1>2. FreshOf(m) /\ left[m] = {}
    BY <1>1 DEF Fresh, InFlight, InTurn
<1>3. \A e \in Needed(got[m]) : disk'[e] = Content(e, got[m]) /\ Whole(e)'
    BY LeavesWhatItRead
<1>4. k \in Nat /\ got[m] \in [Sources -> Nat] /\ Len(log) \in Nat /\ k <= Len(log)
    BY DEF TypeOK, Within
<1>5. \A s : LastOf(s, k) \in Nat /\ LastOf(s, k) <= k
    BY <1>4, LastOfIsNat
<1>6. ASSUME NEW s \in asked \ {"note"} PROVE got[m][s] >= LastOf(s, k)
  <2>1. CASE s \in Kinds
    BY <1>2, <2>1 DEF FreshOf, Read, Queries
  <2>2. CASE s \notin Kinds
    <3>1. LastOf(s, k) = 0
        BY <1>4, <2>2, NothingOfNoKind
    <3>. QED
        BY <1>4, <3>1
  <2>. QED
    BY <2>1, <2>2
<1>7. \A s : LastOf(s, k)' = LastOf(s, k)
    BY <1>1 DEF LastOf, Positions
<1>8. ASSUME NEW e \in Always \ {"README"}, NEW s \in Uses(e) \cap asked
      PROVE  disk'[e][s] >= LastOf(s, k)'
  <2>1. e \in Needed(got[m])
    BY AlwaysNeeded
  <2>2. s \in asked \ {"note"}
    BY DEF Always, Uses, Sections, Sources
  <2>3. disk'[e][s] = got[m][s]
    BY <1>3, <2>1 DEF Content
  <2>. QED
    BY <1>6, <1>7, <2>2, <2>3
<1>9. "critique" \in asked => CritiqueSince(k)'
  <2>. SUFFICES ASSUME "critique" \in asked, LastOf("critique", k) # 0
                PROVE  Whole("CRITIQUE")' /\ disk'["CRITIQUE"]["critique"] >= LastOf("critique", k)
    BY <1>7 DEF CritiqueSince
  <2>2. got[m]["critique"] >= LastOf("critique", k) /\ got[m]["critique"] # 0
    BY <1>4, <1>5, <1>6
  <2>3. "CRITIQUE" \in Needed(got[m])
    BY <2>2, NeededWhenFound
  <2>4. disk'["CRITIQUE"]["critique"] = got[m]["critique"]
    <3>1. disk'["CRITIQUE"] = Content("CRITIQUE", got[m])
        BY <1>3, <2>3
    <3>2. "critique" \in Uses("CRITIQUE")
        BY DEF Uses, Sections
    <3>. QED
        BY <3>1, <3>2 DEF Content
  <2>. QED
    BY <1>3, <2>2, <2>3, <2>4
\* The brief on disk is the one that was read, and its notes those read with it.
<1>10. ASSUME "brief" \in asked, LastOf("brief", k) # 0
       PROVE  /\ got[m]["brief"] >= LastOf("brief", k) /\ got[m]["brief"] \in 1..Len(log)
              /\ Whole("BRIEF")' /\ disk'["BRIEF"]["brief"] = got[m]["brief"]
              /\ disk'["BRIEF"]["note"] = got[m]["note"]
  <2>1. "brief" \in Sources /\ "brief" # "note"
    BY DEF Sources
  <2>2. got[m]["brief"] >= LastOf("brief", k) /\ got[m]["brief"] # 0
    BY <1>4, <1>5, <1>6, <1>10, <2>1
  <2>3. got[m]["brief"] \in 1..Len(log)
    BY <1>4, <2>1, <2>2 DEF Within
  <2>4. "BRIEF" \in Needed(got[m])
    BY <2>2, NeededWhenFound
  <2>5. disk'["BRIEF"] = Content("BRIEF", got[m]) /\ Whole("BRIEF")'
    BY <1>3, <2>4
  <2>6. /\ disk'["BRIEF"]["brief"] = got[m]["brief"]
        /\ disk'["BRIEF"]["note"] = got[m]["note"]
    BY <2>5 DEF Content, Uses, Sections
  <2>. QED
    BY <2>2, <2>3, <2>5, <2>6
<1>11. "brief" \in asked => BriefSince(k)'
    BY <1>1, <1>2, <1>7, <1>10 DEF BriefSince, FreshOf
<1>12. {"brief", "note"} \subseteq asked => NotesSince(k)'
  <2>. SUFFICES ASSUME "brief" \in asked, "note" \in asked, LastOf("brief", k) # 0
                PROVE  disk'["BRIEF"]["note"] >= NotesOn(disk["BRIEF"]["brief"], k)'
    BY <1>7 DEF NotesSince
  <2>1. disk'["BRIEF"]["brief"] = got[m]["brief"] /\ disk'["BRIEF"]["note"] = got[m]["note"]
    BY <1>10
  <2>2. NotesOn(disk["BRIEF"]["brief"], k)' = NotesOn(got[m]["brief"], k)
    BY <1>1, <2>1 DEF NotesOn, Positions
  <2>3. CASE "note" \in Kinds
    BY <1>2, <2>1, <2>2, <2>3 DEF FreshOf, Read, Queries
  <2>4. CASE "note" \notin Kinds
    <3>1. NotesOn(got[m]["brief"], k) = 0
        BY <1>4, <2>4, NothingOfNoKind
    <3>. QED
        BY <1>4, <2>1, <2>2, <3>1
  <2>. QED
    BY <2>3, <2>4
<1>13. {"brief", "recon"} \subseteq asked => ReconSince(k)'
  <2>. SUFFICES ASSUME "brief" \in asked, "recon" \in asked,
                       LastOf("brief", k) # 0, LastOf("recon", k) # 0,
                       log[LastOf("recon", k)].at > log[got[m]["brief"]].at
                PROVE  /\ Whole("BRIEF_RECON")'
                       /\ disk'["BRIEF_RECON"]["recon"] >= LastOf("recon", k)
    BY <1>1, <1>7, <1>10 DEF ReconSince
  <2>1. got[m]["recon"] >= LastOf("recon", k) /\ got[m]["recon"] \in 1..Len(log)
    <3>1. "recon" \in Sources /\ "recon" # "note"
        BY DEF Sources
    <3>2. got[m]["recon"] >= LastOf("recon", k) /\ got[m]["recon"] \in Nat
        BY <1>4, <1>6, <3>1
    <3>3. got[m]["recon"] <= Len(log)
        BY <3>1 DEF Within
    <3>. QED
        BY <1>4, <1>5, <3>2, <3>3
  <2>2. LastOf("recon", k) \in 1..Len(log) /\ got[m]["brief"] \in 1..Len(log)
    BY <1>4, <1>5, <1>10
  <2>3. DOMAIN log = 1..Len(log) /\ \A i \in DOMAIN log : log[i].at \in Nat
    <3>1. \A i \in DOMAIN log : log[i] \in Event
        BY DEF TypeOK
    <3>. QED
        BY <3>1 DEF TypeOK, Event
  <2>4. log[LastOf("recon", k)].at <= log[got[m]["recon"]].at
    BY <2>1, <2>2, <2>3 DEF Ordered
  <2>5. HasRecon(got[m])
    BY <2>1, <2>2, <2>3, <2>4 DEF HasRecon
  <2>6. "recon" \in Kinds
    BY <1>4, NothingOfNoKind
  <2>7. "BRIEF_RECON" \in Files /\ "recon" \in Uses("BRIEF_RECON")
    BY <2>6 DEF Files, Uses, Sections
  <2>8. disk' = [disk EXCEPT ![f] = Content(f, got[m])]
    BY DEF WriteFile
  <2>9. disk'["BRIEF_RECON"] = Content("BRIEF_RECON", got[m])
    <3>1. CASE f = "BRIEF_RECON"
        BY <2>8, <3>1 DEF TypeOK
    <3>2. CASE f # "BRIEF_RECON"
      <4>1. disk["BRIEF_RECON"] = Content("BRIEF_RECON", got[m])
        BY <1>1, <2>5, <2>7, <3>2 DEF ReconHalf
      <4>. QED
        BY <2>7, <2>8, <3>2, <4>1 DEF TypeOK
    <3>. QED
        BY <3>1, <3>2
  <2>10. Content("BRIEF_RECON", got[m]) \in [Uses("BRIEF_RECON") -> Nat]
    BY <2>7, ContentTypes
  <2>11. Whole("BRIEF_RECON")'
    BY <2>7, <2>9, <2>10, MarksAreNoContent DEF Whole
  <2>12. disk'["BRIEF_RECON"]["recon"] = got[m]["recon"]
    BY <2>7, <2>9 DEF Content
  <2>. QED
    BY <2>1, <2>11, <2>12
<1>. QED
    BY <1>1, <1>8, <1>9, <1>11, <1>12, <1>13 DEF Since

LEMMA SinceStep == SinceInv /\ [Next]_vars => NotOlderThanStart'
<1>. SUFFICES ASSUME SinceInv, [Next]_vars,
                     NEW n \in Makers, Complete(n)'
              PROVE  Since(began, Sources \ blind)'
    BY DEF NotOlderThanStart
<1>. USE DEF SinceInv
<1>1. ASSUME Complete(n), UNCHANGED <<disk, began, blind>>,
             log' = log \/ \E kind \in Kinds : Store(kind)
      PROVE  Since(began, Sources \ blind)'
  <2>1. Since(began, Sources \ blind)
    BY <1>1 DEF NotOlderThanStart
  <2>2. PICK k \in Nat : k = began /\ k <= Len(log)
    BY DEF TypeOK, Within
  <2>3. PICK asked : asked = Sources \ blind
    OBVIOUS
  <2>4. Since(k, asked)'
    <3>1. CASE log' = log
        BY <1>1, <2>1, <2>2, <2>3, <3>1
        DEF Since, CritiqueSince, BriefSince, NotesSince, ReconSince, Whole, LastOf, NotesOn, Positions
    <3>2. CASE \E kind \in Kinds : Store(kind)
        BY <2>1, <2>2, <2>3, <3>2, SinceKept
    <3>. QED
        BY <1>1, <3>1, <3>2
  <2>. QED
    BY <1>1, <2>2, <2>3, <2>4
    DEF Since, CritiqueSince, BriefSince, NotesSince, ReconSince, Whole, LastOf, NotesOn, Positions
<1>2. CASE UNCHANGED vars
    BY <1>1, <1>2 DEF vars, Complete
<1>3. CASE Next
  <2>1. CASE Complete(n) /\ UNCHANGED <<disk, began, blind>>
    BY <1>1, <1>3, <2>1, LogStep
  <2>2. ASSUME solo = n, NEW f \in Files, WriteFile(n, f), todo[n] = {f}
        PROVE  Since(began, Sources \ blind)'
    BY <2>2, SinceAtLast
  <2>. QED
    BY <1>3, <2>1, <2>2, CompleteStep
<1>. QED
    BY <1>2, <1>3

\* What stood in the database when a maker began, or something newer, is on disk
\* when it is complete, for every source whose query was not refused; the notes
\* it shows are notes on the brief it shows, and a reconciliation newer than that
\* brief is there.
THEOREM SinceCorrect == Spec => []NotOlderThanStart
<1>1. Init => SinceInv
    BY TypeInit, NoneIsNothing
    DEF Init, SinceInv, Alone, FoundIsOfKinds, Half, Within, Ordered, InTurn, Fresh, ReconHalf,
        NotOlderThanStart, Complete, Nothing, InFlight, Sources, Whole
<1>2. SinceInv /\ [Next]_vars => SinceInv'
    BY TypeStep, AloneStep, FoundStep, HalfStep, WithinStep, OrderedStep, InTurnStep, FreshStep,
       ReconHalfStep, SinceStep
    DEF SinceInv
<1>3. SinceInv => NotOlderThanStart
    BY DEF SinceInv
<1>. QED
    BY <1>1, <1>2, <1>3, PTL DEF Spec
=============================================================================

