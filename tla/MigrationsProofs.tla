-------------------------- MODULE MigrationsProofs --------------------------
(***************************************************************************)
(* Proofs about Migrations: types, that whoever opens the file gets the     *)
(* current schema, and that losing takes a race, which has a survivor; for  *)
(* every set of processes and every script.                                 *)
(***************************************************************************)
EXTENDS Migrations, SequenceTheorems, TLAPS

Past == {"query", "scan", "alter", "index", "open"}
Changing == {"query", "scan", "alter"}

\* What a process has passed is there, and its cursor is on what comes next.
InPlace(p) ==
    /\ pc[p] = "script" =>
        at[p] \in 1..Len(Script) /\ \A i \in 1..Len(Script) : i < at[p] => Script[i] \in tables
    /\ pc[p] \in Past => tables = Tables
    /\ pc[p] \in Changing =>
        at[p] \in 1..Len(Changes) /\ \A i \in 1..Len(Changes) : i < at[p] => Changes[i] \in columns
    /\ pc[p] = "scan" /\ ~missing[p] => Changes[at[p]] \in columns
    /\ pc[p] \in {"index", "open"} => columns = Columns
    /\ pc[p] = "open" => active

SchemaInv == TypeOK /\ \A p \in Procs : InPlace(p)

LEMMA ConstantFacts ==
    /\ Len(Changes) = 4 /\ DOMAIN Changes = 1..4
    /\ Columns = {Changes[i] : i \in 1..4}
    /\ Len(Script) \in Nat /\ Len(Script) > 0 /\ DOMAIN Script = 1..Len(Script)
    /\ Tables = {Script[i] : i \in 1..Len(Script)}
<1>1. Len(Changes) = 4 /\ DOMAIN Changes = 1..4
    BY DEF Changes
<1>2. Len(Script) \in Nat /\ DOMAIN Script = 1..Len(Script)
    BY ScriptType
<1>3. Changes[1].table \in Tables
    BY <1>1, ScriptType DEF Changed
<1>4. Len(Script) > 0
    BY <1>2, <1>3 DEF Tables
<1>. QED
    BY <1>1, <1>2, <1>4 DEF Columns, Tables

-----------------------------------------------------------------------------
(* Columns, tables and the index only come, so that what a process has      *)
(* passed stays there whatever the others do.                               *)

LEMMA OneMoves ==
    ASSUME SchemaInv, TypeOK', tables \subseteq tables', columns \subseteq columns', active => active',
           NEW p \in Procs, InPlace(p)',
           \A q \in Procs \ {p} : pc'[q] = pc[q] /\ at'[q] = at[q] /\ missing'[q] = missing[q]
    PROVE  SchemaInv'
<1>1. ASSUME NEW q \in Procs, q # p PROVE InPlace(q)'
  <2>1. pc[q] \in Past => tables' = Tables
    BY DEF SchemaInv, InPlace, TypeOK
  <2>2. pc[q] \in {"index", "open"} => columns' = Columns
    BY DEF SchemaInv, InPlace, TypeOK
  <2>. QED
    BY <1>1, <2>1, <2>2 DEF SchemaInv, InPlace
<1>. QED
    BY <1>1 DEF SchemaInv

LEMMA SchemaInit == Init => SchemaInv
<1>. SUFFICES ASSUME Init PROVE SchemaInv
    OBVIOUS
<1>1. TypeOK
  <2>1. CASE tables = {} /\ columns = {} /\ active = FALSE
    BY <2>1 DEF Init, TypeOK
  <2>2. CASE /\ tables \in {T \in SUBSET Tables : Changed \subseteq T}
             /\ \E release \in 0..Len(Changes) :
                   /\ columns = {Changes[i] : i \in 1..release}
                   /\ active = (release = Len(Changes))
    <3>1. PICK release \in 0..4 : columns = {Changes[i] : i \in 1..release} /\ active = (release = 4)
        BY <2>2, ConstantFacts
    <3>2. columns \subseteq Columns
        BY <3>1, ConstantFacts
    <3>3. active \in BOOLEAN
        BY <3>1
    <3>. QED
        BY <2>2, <3>2, <3>3 DEF Init, TypeOK
  <2>. QED
    BY <2>1, <2>2 DEF Init
<1>2. ASSUME NEW p \in Procs PROVE InPlace(p)
    BY DEF Init, InPlace, Past, Changing
<1>. QED
    BY <1>1, <1>2 DEF SchemaInv

\* A process goes on to the next change when the present one is made.
LEMMA NextInPlace ==
    ASSUME TypeOK, NEW p \in Procs, NextChange(p), tables' = Tables, columns' \subseteq Columns,
           at[p] \in 1..4, Changes[at[p]] \in columns',
           \A i \in 1..4 : i < at[p] => Changes[i] \in columns'
    PROVE  InPlace(p)'
<1>1. CASE at[p] = 4
  <2>1. pc'[p] = "index"
    BY <1>1, ConstantFacts DEF NextChange, LastChange, Goto, TypeOK
  <2>2. \A i \in 1..4 : Changes[i] \in columns'
    BY <1>1
  <2>3. columns' = Columns
    BY <2>2, ConstantFacts
  <2>. QED
    BY <2>1, <2>3 DEF InPlace, Past, Changing
<1>2. CASE at[p] # 4
  <2>1. pc'[p] = "query" /\ at'[p] = at[p] + 1
    BY <1>2, ConstantFacts DEF NextChange, LastChange, Goto, TypeOK
  <2>2. \A i \in 1..4 : i < at[p] + 1 => Changes[i] \in columns'
    OBVIOUS
  <2>. QED
    BY <1>2, <2>1, <2>2, ConstantFacts DEF InPlace, Past, Changing
<1>. QED
    BY <1>1, <1>2

LEMMA TypeWithNext ==
    ASSUME TypeOK, NEW p \in Procs, NextChange(p)
    PROVE  /\ pc' \in [Procs -> {"idle", "open", "failed", "dead"} \cup Working]
           /\ at' \in [Procs -> Nat]
<1>1. CASE LastChange(p)
    BY <1>1 DEF NextChange, Goto, TypeOK, Working
<1>2. CASE ~LastChange(p)
    BY <1>2 DEF NextChange, Goto, TypeOK, Working
<1>. QED
    BY <1>1, <1>2

LEMMA SchemaStep == SchemaInv /\ [Next]_vars => SchemaInv'
<1>. SUFFICES ASSUME SchemaInv, [Next]_vars PROVE SchemaInv'
    OBVIOUS
<1>0. TypeOK /\ \A p \in Procs : InPlace(p)
    BY DEF SchemaInv
<1>1. ASSUME NEW p \in Procs, Open(p) PROVE SchemaInv'
  <2>1. rivals' \in [Procs -> SUBSET Procs]
    BY <1>0, <1>1 DEF Open, TypeOK
  <2>2. TypeOK'
    BY <1>0, <1>1, <2>1 DEF Open, Goto, file, TypeOK, Working
  <2>3. pc'[p] = "script" /\ at'[p] = 1
    BY <1>0, <1>1 DEF Open, Goto, TypeOK
  <2>4. InPlace(p)'
    BY <2>3, ConstantFacts DEF InPlace, Past, Changing
  <2>. QED
    BY <1>0, <1>1, <2>2, <2>4, OneMoves DEF Open, Goto, file, TypeOK
<1>2. ASSUME NEW p \in Procs, RunScript(p) PROVE SchemaInv'
  <2>1. at[p] \in 1..Len(Script) /\ at[p] \in Nat /\ \A i \in 1..Len(Script) : i < at[p] => Script[i] \in tables
    BY <1>0, <1>2 DEF RunScript, InPlace, TypeOK
  <2>2. /\ tables' = tables \cup {Script[at[p]]} /\ columns \subseteq columns'
        /\ columns' \subseteq Columns /\ active' = active
    BY <1>0, <1>2 DEF RunScript, Create, TypeOK
  <2>3. TypeOK'
    BY <1>0, <1>2, <2>1, <2>2, ConstantFacts DEF RunScript, Goto, history, TypeOK, Working, EndOfScript
  <2>4. CASE at[p] = Len(Script)
    <3>1. pc'[p] = "query" /\ at'[p] = 1
        BY <1>0, <1>2, <2>4 DEF RunScript, Goto, EndOfScript, TypeOK
    <3>2. \A i \in 1..Len(Script) : Script[i] \in tables'
        BY <2>1, <2>2, <2>4, ConstantFacts
    <3>3. tables' = Tables
        BY <2>3, <3>2, ConstantFacts DEF TypeOK
    <3>4. InPlace(p)'
        BY <3>1, <3>3, ConstantFacts DEF InPlace, Past, Changing
    <3>. QED
        BY <1>0, <1>2, <2>2, <2>3, <3>4, OneMoves DEF RunScript, Goto, TypeOK
  <2>5. CASE at[p] # Len(Script)
    <3>1. pc'[p] = "script" /\ at'[p] = at[p] + 1
        BY <1>0, <1>2, <2>5 DEF RunScript, Goto, EndOfScript, TypeOK
    <3>2. \A i \in 1..Len(Script) : i < at[p] + 1 => Script[i] \in tables'
        BY <2>1, <2>2, ConstantFacts
    <3>3. InPlace(p)'
        BY <2>1, <2>5, <3>1, <3>2, ConstantFacts DEF InPlace, Past, Changing
    <3>. QED
        BY <1>0, <1>2, <2>2, <2>3, <3>3, OneMoves DEF RunScript, Goto, TypeOK
  <2>. QED
    BY <2>4, <2>5
<1>3. ASSUME NEW p \in Procs, QueryTable(p) PROVE SchemaInv'
  <2>1. TypeOK'
    BY <1>0, <1>3 DEF QueryTable, Goto, file, history, TypeOK, Working
  <2>2. pc[p] = "query" /\ pc'[p] = "scan" /\ at'[p] = at[p] /\ (~missing'[p] => Changes[at[p]] \in columns)
    BY <1>0, <1>3 DEF QueryTable, Goto, TypeOK
  <2>3. InPlace(p)'
    BY <1>0, <1>3, <2>2 DEF QueryTable, file, InPlace, Past, Changing
  <2>. QED
    BY <1>0, <1>3, <2>1, <2>3, OneMoves DEF QueryTable, Goto, file, TypeOK
<1>4. ASSUME NEW p \in Procs, ScanTable(p) PROVE SchemaInv'
  <2>1. pc[p] = "scan" /\ UNCHANGED <<tables, columns, active, missing, rivals, refused>>
    BY <1>4 DEF ScanTable, file, history
  <2>2. CASE missing[p]
    <3>1. TypeOK'
        BY <1>0, <1>4, <2>1, <2>2 DEF ScanTable, Goto, TypeOK, Working
    <3>2. InPlace(p)'
        BY <1>0, <1>4, <2>1, <2>2 DEF ScanTable, Goto, InPlace, Past, Changing, TypeOK
    <3>. QED
        BY <1>0, <1>4, <2>1, <2>2, <3>1, <3>2, OneMoves DEF ScanTable, Goto, TypeOK
  <2>3. CASE ~missing[p]
    <3>1. NextChange(p) /\ rows' = [rows EXCEPT ![p] = FALSE]
        BY <1>4, <2>3 DEF ScanTable
    <3>2. TypeOK'
        BY <1>0, <2>1, <3>1, TypeWithNext DEF TypeOK
    <3>3. /\ tables' = Tables /\ columns' \subseteq Columns /\ at[p] \in 1..4
          /\ Changes[at[p]] \in columns' /\ \A i \in 1..4 : i < at[p] => Changes[i] \in columns'
        BY <1>0, <2>1, <2>3, ConstantFacts DEF InPlace, Past, Changing, TypeOK
    <3>4. InPlace(p)'
        BY <1>0, <3>1, <3>3, NextInPlace
    <3>. QED
        BY <1>0, <2>1, <3>1, <3>2, <3>4, OneMoves DEF NextChange, Goto, TypeOK
  <2>. QED
    BY <2>2, <2>3
<1>5. ASSUME NEW p \in Procs, AlterTable(p) PROVE SchemaInv'
  <2>1. CASE Changes[at[p]] \notin columns
    <3>1. NextChange(p) /\ columns' = columns \cup {Changes[at[p]]} /\ pc[p] = "alter"
        BY <1>5, <2>1 DEF AlterTable
    <3>2. at[p] \in 1..4 /\ tables' = tables /\ tables = Tables
        BY <1>0, <1>5, <3>1, ConstantFacts DEF AlterTable, InPlace, Past, Changing
    <3>3. columns' \subseteq Columns
        BY <1>0, <3>1, <3>2, ConstantFacts DEF TypeOK
    <3>4. TypeOK'
        BY <1>0, <1>5, <3>1, <3>3 DEF AlterTable, NextChange, Goto, LastChange, history, TypeOK, Working
    <3>5. /\ Changes[at[p]] \in columns'
          /\ \A i \in 1..4 : i < at[p] => Changes[i] \in columns'
        BY <1>0, <3>1, ConstantFacts DEF InPlace, Changing
    <3>6. InPlace(p)'
        BY <1>0, <3>1, <3>2, <3>3, <3>5, NextInPlace
    <3>. QED
        BY <1>0, <1>5, <3>1, <3>4, <3>6, OneMoves DEF AlterTable, NextChange, Goto, TypeOK
  <2>2. CASE Changes[at[p]] \in columns
    <3>1. TypeOK'
        BY <1>0, <1>5, <2>2 DEF AlterTable, Goto, history, TypeOK, Working
    <3>2. InPlace(p)'
        BY <1>0, <1>5, <2>2 DEF AlterTable, Goto, InPlace, Past, Changing, TypeOK
    <3>. QED
        BY <1>0, <1>5, <2>2, <3>1, <3>2, OneMoves DEF AlterTable, Goto, TypeOK
  <2>. QED
    BY <2>1, <2>2
<1>6. ASSUME NEW p \in Procs, CreateIndex(p) PROVE SchemaInv'
  <2>1. TypeOK'
    BY <1>0, <1>6 DEF CreateIndex, Goto, history, TypeOK, Working
  <2>2. InPlace(p)'
    BY <1>0, <1>6 DEF CreateIndex, Goto, InPlace, Past, Changing, TypeOK
  <2>. QED
    BY <1>0, <1>6, <2>1, <2>2, OneMoves DEF CreateIndex, Goto, TypeOK
<1>7. ASSUME NEW p \in Procs, Refuse(p) \/ Crash(p) PROVE SchemaInv'
  <2>1. TypeOK'
    BY <1>0, <1>7 DEF Refuse, Crash, Goto, file, history, TypeOK, Working
  <2>2. InPlace(p)'
    BY <1>0, <1>7 DEF Refuse, Crash, Goto, InPlace, Past, Changing, TypeOK
  <2>. QED
    BY <1>0, <1>7, <2>1, <2>2, OneMoves DEF Refuse, Crash, Goto, file, TypeOK
<1>8. ASSUME UNCHANGED vars PROVE SchemaInv'
    BY <1>8 DEF SchemaInv, TypeOK, InPlace, vars
<1>. QED
    BY <1>1, <1>2, <1>3, <1>4, <1>5, <1>6, <1>7, <1>8 DEF Next, Step

LEMMA SchemaHolds == Spec => []SchemaInv
<1>. QED
    BY SchemaInit, SchemaStep, PTL DEF Spec

-----------------------------------------------------------------------------
(* The race.  A process is beaten once the column it found missing is there: *)
(* whoever added it was opening the file too and is past that change, and    *)
(* the process furthest ahead cannot be beaten.                             *)

Beaten(p) == pc[p] \in {"scan", "alter"} /\ missing[p] /\ Changes[at[p]] \in columns

\* A process that is past a change, or was when it stopped otherwise than by losing.
Ahead(q, change) ==
    /\ pc[q] \notin {"idle", "script"} /\ ~Lost(q)
    /\ pc[q] \in Changing => at[q] > change

RivalsKnown == \A p, q \in Procs : p # q /\ Opening(p) /\ Opening(q) => q \in rivals[p]
LookedFirst == \A p \in Procs : pc[p] = "alter" => missing[p]
BeatenBySomebody ==
    \A p \in Procs : Beaten(p) => rivals[p] # {} /\ \E q \in Procs : Ahead(q, at[p])

RaceInv == RivalsKnown /\ LookedFirst /\ BeatenBySomebody /\ FailureNeedsRace

LEMMA ChangesDiffer == \A i, j \in 1..4 : Changes[i] = Changes[j] => i = j
<1>. DEFINE names == <<"trigger_kind", "project_id", "stack_preset", "archived_at">>
<1>1. \A i \in 1..4 : Changes[i].column = names[i]
    BY DEF Changes
<1>2. \A i, j \in 1..4 : names[i] = names[j] => i = j
    OBVIOUS
<1>. QED
    BY <1>1, <1>2

LEMMA RaceInit == Init => RaceInv
    BY DEF Init, RaceInv, RivalsKnown, LookedFirst, BeatenBySomebody, Beaten, FailureNeedsRace,
           Opening, Working, Lost

\* A step in which the process that moves does not lose and does not go back.
Forward(p) ==
    /\ \A q \in Procs \ {p} : pc'[q] = pc[q] /\ at'[q] = at[q] /\ missing'[q] = missing[q]
    /\ refused \subseteq refused' /\ pc'[p] # "idle" /\ ~Lost(p)'
    /\ pc'[p] = "script" => pc[p] \in {"idle", "script"}
    /\ pc'[p] \in Changing =>
        \/ pc[p] = "script"
        \/ pc[p] \in Changing /\ at'[p] \in Nat /\ at'[p] >= at[p]

\* After it, those ahead are ahead and those that had not lost have not.
LEMMA NobodyFallsBack ==
    ASSUME TypeOK, NEW p \in Procs, Forward(p)
    PROVE  /\ \A q \in Procs, i \in Nat : Ahead(q, i) => Ahead(q, i)'
           /\ \A q \in Procs : pc[q] # "idle" /\ ~Lost(q) => pc'[q] # "idle" /\ ~Lost(q)'
           /\ \A q \in Procs : Lost(q)' => Lost(q)
<1>1. ASSUME NEW q \in Procs, NEW i \in Nat, Ahead(q, i) PROVE Ahead(q, i)'
  <2>1. CASE q = p
    <3>1. pc'[p] \notin {"idle", "script"} /\ ~Lost(p)'
        BY <1>1, <2>1 DEF Forward, Ahead
    <3>2. pc'[p] \in Changing => at'[p] > i
        BY <1>1, <2>1 DEF Forward, Ahead, TypeOK
    <3>. QED
        BY <2>1, <3>1, <3>2 DEF Ahead
  <2>2. CASE q # p
    BY <1>1, <2>2 DEF Forward, Ahead, Lost
  <2>. QED
    BY <2>1, <2>2
<1>. QED
    BY <1>1 DEF Forward, Lost

\* ... and if nobody is beaten by the step and the rivals are as they were, the
\* invariant stands.
LEMMA RaceGoesOn ==
    ASSUME TypeOK, RaceInv, NEW p \in Procs, Forward(p), rivals' = rivals, Opening(p),
           pc'[p] = "alter" => missing'[p],
           \A q \in Procs : Beaten(q)' => Beaten(q) /\ at'[q] = at[q]
    PROVE  RaceInv'
<1>1. RivalsKnown'
    BY DEF RaceInv, RivalsKnown, Forward, Opening
<1>2. LookedFirst'
    BY DEF RaceInv, LookedFirst, Forward
<1>3. BeatenBySomebody'
  <2>. SUFFICES ASSUME NEW q \in Procs, Beaten(q)'
                PROVE  rivals'[q] # {} /\ \E r \in Procs : Ahead(r, at[q])'
    BY DEF BeatenBySomebody
  <2>1. Beaten(q) /\ at'[q] = at[q] /\ at[q] \in Nat
    BY DEF TypeOK
  <2>2. PICK r \in Procs : Ahead(r, at[q])
    BY <2>1 DEF RaceInv, BeatenBySomebody
  <2>3. Ahead(r, at[q])'
    BY <2>1, <2>2, NobodyFallsBack DEF Ahead, Lost
  <2>4. rivals'[q] # {}
    BY <2>1 DEF RaceInv, BeatenBySomebody
  <2>. QED
    BY <2>3, <2>4
<1>4. FailureNeedsRace'
    BY NobodyFallsBack DEF RaceInv, FailureNeedsRace
<1>. QED
    BY <1>1, <1>2, <1>3, <1>4 DEF RaceInv

LEMMA RaceStep == SchemaInv /\ RaceInv /\ [Next]_vars => RaceInv'
<1>. SUFFICES ASSUME SchemaInv, RaceInv, [Next]_vars PROVE RaceInv'
    OBVIOUS
<1>0. TypeOK /\ (\A p \in Procs : InPlace(p))
    BY DEF SchemaInv
<1>1. ASSUME NEW p \in Procs, Open(p) PROVE RaceInv'
  <2>1. Forward(p) /\ pc'[p] = "script" /\ ~Opening(p)
    BY <1>0, <1>1 DEF Open, Goto, Forward, Lost, TypeOK, Opening, Working, Changing
  <2>2. /\ \A q \in Procs \ {p} : pc'[q] = pc[q] /\ at'[q] = at[q] /\ missing'[q] = missing[q]
        /\ columns' = columns
        /\ rivals'[p] = {r \in Procs : Opening(r)}
        /\ \A q \in Procs \ {p} : rivals[q] \subseteq rivals'[q] /\ (Opening(q) => p \in rivals'[q])
    BY <1>0, <1>1 DEF Open, Goto, file, TypeOK
  <2>3. \A q \in Procs \ {p} : Opening(q)' <=> Opening(q)
    BY <2>2 DEF Opening
  <2>4. RivalsKnown'
    BY <2>2, <2>3 DEF RaceInv, RivalsKnown
  <2>5. LookedFirst'
    BY <2>1, <2>2 DEF RaceInv, LookedFirst
  <2>6. BeatenBySomebody'
    <3>. SUFFICES ASSUME NEW q \in Procs, Beaten(q)'
                  PROVE  rivals'[q] # {} /\ \E r \in Procs : Ahead(r, at[q])'
        BY DEF BeatenBySomebody
    <3>1. q # p /\ Beaten(q) /\ at'[q] = at[q] /\ at[q] \in Nat
        BY <1>0, <2>1, <2>2 DEF Beaten, TypeOK
    <3>2. PICK r \in Procs : Ahead(r, at[q])
        BY <3>1 DEF RaceInv, BeatenBySomebody
    <3>3. Ahead(r, at[q])'
        BY <1>0, <2>1, <3>1, <3>2, NobodyFallsBack DEF Ahead, Lost
    <3>. QED
        BY <2>2, <3>1, <3>3 DEF RaceInv, BeatenBySomebody
  <2>7. FailureNeedsRace'
    <3>. SUFFICES ASSUME NEW q \in Procs, Lost(q)'
                  PROVE  rivals'[q] # {} /\ \E r \in Procs : pc'[r] # "idle" /\ ~Lost(r)'
        BY DEF FailureNeedsRace
    <3>1. Lost(q) /\ q # p
        BY <1>0, <2>1, NobodyFallsBack DEF Forward
    <3>. QED
        BY <2>1, <2>2, <3>1 DEF RaceInv, FailureNeedsRace, Forward
  <2>. QED
    BY <2>4, <2>5, <2>6, <2>7 DEF RaceInv
<1>2. ASSUME NEW p \in Procs, RunScript(p) PROVE RaceInv'
  <2>1. pc[p] = "script" /\ Opening(p) /\ UNCHANGED <<missing, rivals, refused>>
    BY <1>2 DEF RunScript, history, Opening, Working
  <2>2. /\ \A q \in Procs \ {p} : pc'[q] = pc[q] /\ at'[q] = at[q]
        /\ pc'[p] \in {"script", "query"}
    BY <1>0, <1>2 DEF RunScript, Goto, TypeOK
  <2>3. missing' = missing /\ refused' = refused /\ ~Lost(p)'
    BY <2>1, <2>2 DEF Lost
  <2>4. Forward(p)
    BY <2>1, <2>2, <2>3 DEF Forward
  <2>5. ASSUME NEW q \in Procs, Beaten(q)' PROVE Beaten(q) /\ at'[q] = at[q]
    <3>1. q # p /\ pc[q] \in {"scan", "alter"} /\ at'[q] = at[q]
        BY <2>2, <2>5 DEF Beaten
    <3>2. tables = Tables
        BY <1>0, <3>1 DEF InPlace, Past
    <3>3. Script[at[p]] \in tables
        BY <1>0, <2>1, <3>2, ConstantFacts DEF InPlace
    <3>4. columns' = columns
        BY <1>2, <3>3 DEF RunScript, Create
    <3>. QED
        BY <2>1, <2>2, <2>5, <3>1, <3>4 DEF Beaten
  <2>. QED
    BY <1>0, <2>1, <2>2, <2>4, <2>5, RaceGoesOn
<1>3. ASSUME NEW p \in Procs, QueryTable(p) PROVE RaceInv'
  <2>1. /\ pc[p] = "query" /\ Opening(p) /\ UNCHANGED <<columns, at, rivals, refused>>
        /\ \A q \in Procs \ {p} : pc'[q] = pc[q] /\ missing'[q] = missing[q]
        /\ pc'[p] = "scan" /\ missing'[p] = (Changes[at[p]] \notin columns)
    BY <1>0, <1>3 DEF QueryTable, Goto, file, history, TypeOK, Opening, Working
  <2>2. Forward(p)
    BY <1>0, <2>1 DEF Forward, Lost, Changing, TypeOK
  <2>3. \A q \in Procs : Beaten(q)' => Beaten(q) /\ at'[q] = at[q]
    BY <2>1 DEF Beaten
  <2>. QED
    BY <1>0, <2>1, <2>2, <2>3, RaceGoesOn
<1>4. ASSUME NEW p \in Procs, ScanTable(p) PROVE RaceInv'
  <2>1. /\ pc[p] = "scan" /\ Opening(p) /\ UNCHANGED <<columns, missing, rivals, refused>>
    BY <1>4 DEF ScanTable, file, history, Opening, Working
  <2>2. /\ \A q \in Procs \ {p} : pc'[q] = pc[q] /\ at'[q] = at[q]
        /\ \/ pc'[p] = "alter" /\ at'[p] = at[p] /\ missing[p]
           \/ pc'[p] \in {"query", "index"} /\ at'[p] \in {at[p], at[p] + 1}
    <3>1. CASE missing[p]
        BY <1>0, <1>4, <3>1 DEF ScanTable, Goto, TypeOK
    <3>2. CASE ~missing[p]
        BY <1>0, <1>4, <3>2 DEF ScanTable, NextChange, Goto, TypeOK
    <3>. QED
        BY <3>1, <3>2
  <2>3. Forward(p)
    BY <1>0, <2>1, <2>2 DEF Forward, Lost, Changing, TypeOK
  <2>4. \A q \in Procs : Beaten(q)' => Beaten(q) /\ at'[q] = at[q]
    BY <2>1, <2>2 DEF Beaten
  <2>. QED
    BY <1>0, <2>1, <2>2, <2>3, <2>4, RaceGoesOn
<1>5. ASSUME NEW p \in Procs, AlterTable(p) PROVE RaceInv'
  <2>1. pc[p] = "alter" /\ Opening(p) /\ UNCHANGED <<tables, missing, rivals, refused>>
    BY <1>5 DEF AlterTable, history, Opening, Working
  <2>2. at[p] \in 1..4 /\ \A q \in Procs : pc[q] \in {"scan", "alter"} => at[q] \in 1..4
    BY <1>0, <2>1, ConstantFacts DEF InPlace, Changing
  <2>3. \A q \in Procs \ {p} : pc'[q] = pc[q] /\ at'[q] = at[q]
    BY <1>0, <1>5 DEF AlterTable, NextChange, Goto, TypeOK
  <2>4. CASE Changes[at[p]] \notin columns
    <3>1. columns' = columns \cup {Changes[at[p]]} /\ NextChange(p)
        BY <1>5, <2>4 DEF AlterTable
    <3>2. pc'[p] \in {"query", "index"} /\ (pc'[p] = "query" => at'[p] = at[p] + 1)
        BY <1>0, <3>1 DEF NextChange, Goto, TypeOK
    <3>3. Forward(p)
        BY <1>0, <2>1, <2>2, <2>3, <3>2 DEF Forward, Lost, Changing, TypeOK
    <3>4. /\ pc'[p] \notin {"idle", "script"} /\ ~Lost(p)'
          /\ pc'[p] \in Changing => at'[p] > at[p]
        BY <2>2, <3>2, <3>3 DEF Forward, Changing
    <3>5. RivalsKnown' /\ LookedFirst'
        BY <2>1, <2>3, <3>2 DEF RaceInv, RivalsKnown, LookedFirst, Opening
    <3>6. BeatenBySomebody'
      <4>. SUFFICES ASSUME NEW q \in Procs, Beaten(q)'
                    PROVE  rivals'[q] # {} /\ \E r \in Procs : Ahead(r, at[q])'
        BY <2>3, <3>2 DEF BeatenBySomebody, Beaten
      <4>1. /\ q # p /\ pc[q] \in {"scan", "alter"} /\ at[q] \in 1..4
            /\ missing[q] /\ Changes[at[q]] \in columns'
        BY <2>1, <2>2, <2>3, <3>2 DEF Beaten
      <4>2. CASE Changes[at[q]] \in columns
        <5>1. Beaten(q)
            BY <4>1, <4>2 DEF Beaten
        <5>2. PICK r \in Procs : Ahead(r, at[q])
            BY <5>1 DEF RaceInv, BeatenBySomebody
        <5>3. at[q] \in Nat
            BY <1>0 DEF TypeOK
        <5>4. Ahead(r, at[q])'
            BY <1>0, <2>3, <3>3, <4>1, <5>2, <5>3, NobodyFallsBack DEF Ahead, Lost
        <5>. QED
            BY <2>1, <5>1, <5>4 DEF RaceInv, BeatenBySomebody
      <4>3. CASE Changes[at[q]] \notin columns
        <5>1. at[q] = at[p]
            BY <2>2, <3>1, <4>1, <4>3, ChangesDiffer
        <5>2. p \in rivals[q]
            BY <2>1, <4>1 DEF RaceInv, RivalsKnown, Opening, Working
        <5>. QED
            BY <2>1, <2>3, <3>4, <4>1, <5>1, <5>2 DEF Ahead
      <4>. QED
        BY <4>2, <4>3
    <3>7. FailureNeedsRace'
        BY <1>0, <2>1, <3>3, NobodyFallsBack DEF RaceInv, FailureNeedsRace
    <3>. QED
        BY <3>5, <3>6, <3>7 DEF RaceInv
  <2>5. CASE Changes[at[p]] \in columns
    <3>1. pc'[p] = "failed" /\ columns' = columns /\ at' = at
        BY <1>0, <1>5, <2>5 DEF AlterTable, Goto, TypeOK
    <3>2. Beaten(p) /\ rivals[p] # {}
        BY <2>1, <2>5 DEF RaceInv, LookedFirst, BeatenBySomebody, Beaten
    <3>3. PICK s \in Procs : Ahead(s, at[p])
        BY <3>2 DEF RaceInv, BeatenBySomebody
    <3>4. s # p
        BY <1>0, <2>1, <3>3 DEF Ahead, Changing, TypeOK
    <3>5. \A q \in Procs \ {p}, i \in Nat : Ahead(q, i) => Ahead(q, i)'
        BY <2>1, <2>3 DEF Ahead, Lost
    <3>6. RivalsKnown' /\ LookedFirst'
        BY <2>1, <2>3, <3>1 DEF RaceInv, RivalsKnown, LookedFirst, Opening, Working
    <3>7. BeatenBySomebody'
      <4>. SUFFICES ASSUME NEW q \in Procs, Beaten(q)'
                    PROVE  rivals'[q] # {} /\ \E r \in Procs : Ahead(r, at[q])'
        BY <3>1 DEF BeatenBySomebody
      <4>1. Beaten(q) /\ q # p /\ at[q] \in Nat
        BY <1>0, <2>1, <2>3, <3>1 DEF Beaten, TypeOK
      <4>2. PICK r \in Procs : Ahead(r, at[q])
        BY <4>1 DEF RaceInv, BeatenBySomebody
      <4>3. CASE r # p
        <5>1. Ahead(r, at[q])'
            BY <2>3, <3>5, <4>1, <4>2, <4>3 DEF Ahead, Lost
        <5>. QED
            BY <2>1, <4>1, <5>1 DEF RaceInv, BeatenBySomebody
      <4>4. CASE r = p
        <5>1. at[p] > at[q] /\ at[p] \in Nat
            BY <1>0, <2>1, <4>2, <4>4 DEF Ahead, Changing, TypeOK
        <5>2. Ahead(s, at[q])
            BY <1>0, <3>3, <4>1, <5>1 DEF Ahead, TypeOK
        <5>3. Ahead(s, at[q])'
            BY <2>3, <3>4, <3>5, <4>1, <5>2 DEF Ahead, Lost
        <5>. QED
            BY <2>1, <4>1, <5>3 DEF RaceInv, BeatenBySomebody
      <4>. QED
        BY <4>3, <4>4
    <3>8. FailureNeedsRace'
      <4>. SUFFICES ASSUME NEW q \in Procs, Lost(q)'
                    PROVE  rivals'[q] # {} /\ \E r \in Procs : pc'[r] # "idle" /\ ~Lost(r)'
        BY DEF FailureNeedsRace
      <4>1. pc'[s] # "idle" /\ ~Lost(s)'
        BY <2>1, <2>3, <3>3, <3>4 DEF Ahead, Lost
      <4>2. rivals[q] # {}
        BY <2>1, <2>3, <3>2 DEF RaceInv, FailureNeedsRace, Lost
      <4>. QED
        BY <2>1, <4>1, <4>2
    <3>. QED
        BY <3>6, <3>7, <3>8 DEF RaceInv
  <2>. QED
    BY <2>4, <2>5
<1>6. ASSUME NEW p \in Procs, CreateIndex(p) PROVE RaceInv'
  <2>1. /\ pc[p] = "index" /\ Opening(p) /\ pc'[p] = "open"
        /\ UNCHANGED <<columns, at, missing, rivals, refused>>
        /\ \A q \in Procs \ {p} : pc'[q] = pc[q]
    BY <1>0, <1>6 DEF CreateIndex, Goto, history, TypeOK, Opening, Working
  <2>2. Forward(p)
    BY <2>1 DEF Forward, Lost, Changing
  <2>3. \A q \in Procs : Beaten(q)' => Beaten(q) /\ at'[q] = at[q]
    BY <2>1 DEF Beaten
  <2>. QED
    BY <1>0, <2>1, <2>2, <2>3, RaceGoesOn
<1>7. ASSUME NEW p \in Procs, Refuse(p) \/ Crash(p) PROVE RaceInv'
  <2>1. /\ Opening(p) /\ UNCHANGED <<columns, at, missing, rivals>>
        /\ \A q \in Procs \ {p} : pc'[q] = pc[q]
        /\ \/ pc'[p] = "failed" /\ refused' = refused \cup {p}
           \/ pc'[p] = "dead" /\ refused' = refused
    BY <1>0, <1>7 DEF Refuse, Crash, Goto, file, history, TypeOK
  <2>2. Forward(p)
    BY <2>1 DEF Forward, Lost, Changing
  <2>3. \A q \in Procs : Beaten(q)' => Beaten(q) /\ at'[q] = at[q]
    BY <2>1 DEF Beaten
  <2>. QED
    BY <1>0, <2>1, <2>2, <2>3, RaceGoesOn
<1>8. ASSUME UNCHANGED vars PROVE RaceInv'
    BY <1>8 DEF RaceInv, RivalsKnown, LookedFirst, BeatenBySomebody, Beaten, Ahead,
                FailureNeedsRace, Opening, Lost, vars
<1>. QED
    BY <1>1, <1>2, <1>3, <1>4, <1>5, <1>6, <1>7, <1>8 DEF Next, Step

\* A process whose statements are not refused fails only if another was opening
\* the file, and somebody who tried has not lost in this way (db.go:167-212).
THEOREM LosingTakesARace == Spec => []FailureNeedsRace
<1>1. RaceInv => FailureNeedsRace
    BY DEF RaceInv
<1>. QED
    BY <1>1, RaceInit, RaceStep, SchemaHolds, PTL DEF Spec

\* The variables keep their types; the tables and columns of the file are never
\* others than the script and the changes name.
THEOREM TypeCorrect == Spec => []TypeOK
<1>1. SchemaInv => TypeOK
    BY DEF SchemaInv
<1>. QED
    BY <1>1, SchemaHolds, PTL

\* Whoever has the file open has all that the statements of the store name, for
\* any release that wrote it, any crashes and any number of processes (db.go:153).
THEOREM OpenedCurrent == Spec => []OpenedIsCurrent
<1>1. SchemaInv => OpenedIsCurrent
    BY DEF SchemaInv, InPlace, OpenedIsCurrent, Current, Past
<1>. QED
    BY <1>1, SchemaHolds, PTL
=============================================================================
