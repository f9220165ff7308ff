------------------------------ MODULE TextsProofs ------------------------------
(***************************************************************************)
(* Machine-checked proofs about the pure functions.  LineDiff: for every set *)
(* of lines with any words, for texts of any length and for any context,     *)
(* nothing is lost in a diff, and no more is marked as changed than has to   *)
(* be.  Answers: whatever a model replies, whichever path it names, whatever *)
(* is typed in the shell and whatever a process sets, the answer is the one  *)
(* its own definition says.                                                  *)
(***************************************************************************)
EXTENDS LineDiff, Answers, FiniteSetTheorems, SequenceTheorems, WellFoundedInduction, TLAPS

-----------------------------------------------------------------------------
(* Induction on numbers, in terms of sets.                                   *)

LEMMA LeastExists ==
    ASSUME NEW T \in SUBSET Nat, T # {}
    PROVE  \E x \in T : \A y \in T : x <= y
<1>1. PICK x \in T : \A y \in T : ~(<<y, x>> \in OpToRel(<, Nat))
    BY NatLessThanWellFounded, WFMin
<1>2. \A y \in T : ~(y < x)
    BY <1>1 DEF OpToRel
<1>. QED
    BY <1>2

LEMMA FromZeroOn ==
    ASSUME NEW T, 0 \in T, \A n \in Nat : n \in T => n + 1 \in T
    PROVE  Nat \subseteq T
<1>. DEFINE Bad == {n \in Nat : n \notin T}
<1>. SUFFICES ASSUME Bad # {} PROVE FALSE
    OBVIOUS
<1>1. PICK x \in Bad : \A y \in Bad : x <= y
    BY LeastExists
<1>2. x # 0 /\ x \in Nat /\ x \notin T
    OBVIOUS
<1>3. x - 1 \in Nat /\ x - 1 \notin Bad
    BY <1>1, <1>2
<1>. QED
    BY <1>2, <1>3

-----------------------------------------------------------------------------
(* Sets of positions in ascending order, and what Select does.               *)

\* The numbers of S, each once, from the least on.
Lists(e, S) ==
    /\ e = [n \in DOMAIN e |-> e[n]] /\ \E m \in Nat : DOMAIN e = 1..m
    /\ \A x, y \in DOMAIN e : x < y => e[x] < e[y]
    /\ \A n \in DOMAIN e : e[n] \in S
    /\ \A x \in S : \E n \in DOMAIN e : e[n] = x

LEMMA ListsAlike ==
    ASSUME NEW S \in SUBSET Nat, NEW e, NEW f, Lists(e, S), Lists(f, S), NEW n \in DOMAIN e,
           \A k \in 1..(n - 1) : k \in DOMAIN e /\ k \in DOMAIN f /\ e[k] = f[k]
    PROVE  n \in DOMAIN f /\ f[n] <= e[n]
<1>1. PICK m \in Nat : DOMAIN f = 1..m
    BY DEF Lists
<1>2. n \in Nat \ {0} /\ e[n] \in S
    BY DEF Lists
<1>3. PICK k \in DOMAIN f : f[k] = e[n]
    BY <1>2 DEF Lists
<1>4. ~(k < n)
  <2>. SUFFICES ASSUME k < n PROVE FALSE
    OBVIOUS
  <2>1. k \in 1..(n - 1)
    BY <1>1, <1>2
  <2>2. e[k] = f[k] /\ e[k] < e[n] /\ e[n] \in Nat
    BY <1>2, <2>1 DEF Lists
  <2>. QED
    BY <1>3, <2>2
<1>5. n \in DOMAIN f
    BY <1>1, <1>2, <1>4
<1>6. n = k \/ f[n] < f[k]
    BY <1>1, <1>2, <1>4, <1>5 DEF Lists
<1>7. f[n] \in Nat /\ e[n] \in Nat
    BY <1>2, <1>5 DEF Lists
<1>. QED
    BY <1>3, <1>5, <1>6, <1>7

LEMMA ListsUnique ==
    ASSUME NEW S \in SUBSET Nat, NEW e, NEW f, Lists(e, S), Lists(f, S)
    PROVE  e = f
<1>. DEFINE Same(n) == (n \in DOMAIN e <=> n \in DOMAIN f) /\ (n \in DOMAIN e => e[n] = f[n])
            Bad == {n \in Nat \ {0} : ~Same(n)}
<1>1. Bad = {}
  <2>. SUFFICES ASSUME Bad # {} PROVE FALSE
    OBVIOUS
  <2>1. PICK n \in Bad : \A k \in Bad : n <= k
    BY LeastExists
  <2>2. n \in Nat \ {0} /\ ~Same(n)
    OBVIOUS
  <2>3. \A k \in 1..(n - 1) : Same(k)
    BY <2>1, <2>2
  <2>4. ASSUME n \in DOMAIN e PROVE n \in DOMAIN f /\ f[n] <= e[n] /\ e[n] \in Nat
    <3>1. \A k \in 1..(n - 1) : k \in DOMAIN e /\ k \in DOMAIN f /\ e[k] = f[k]
      <4>1. \A k \in 1..(n - 1) : k \in DOMAIN e
        BY <2>4, <2>2 DEF Lists
      <4>. QED
        BY <2>3, <4>1
    <3>. QED
      BY <2>4, <3>1, ListsAlike DEF Lists
  <2>5. ASSUME n \in DOMAIN f PROVE n \in DOMAIN e /\ e[n] <= f[n] /\ f[n] \in Nat
    <3>1. \A k \in 1..(n - 1) : k \in DOMAIN f /\ k \in DOMAIN e /\ f[k] = e[k]
      <4>1. \A k \in 1..(n - 1) : k \in DOMAIN f
        BY <2>5, <2>2 DEF Lists
      <4>. QED
        BY <2>3, <4>1
    <3>. QED
      BY <2>5, <3>1, ListsAlike DEF Lists
  <2>. QED
    BY <2>2, <2>4, <2>5
<1>2. DOMAIN e \subseteq Nat \ {0} /\ DOMAIN f \subseteq Nat \ {0}
    BY DEF Lists
<1>3. \A n \in DOMAIN e : Same(n)
    BY <1>1, <1>2
<1>4. \A n \in DOMAIN f : Same(n)
    BY <1>1, <1>2
<1>5. DOMAIN e = DOMAIN f /\ \A n \in DOMAIN e : e[n] = f[n]
    BY <1>3, <1>4
<1>6. e = [n \in DOMAIN e |-> e[n]] /\ f = [n \in DOMAIN f |-> f[n]]
    BY DEF Lists
<1>. QED
    BY <1>5, <1>6

\* The recursion of Select has a solution.
SelectStep(s, S, u, k) == IF k = 0 THEN <<>> ELSE IF k \in S THEN Append(u[k - 1], s[k]) ELSE u[k - 1]

LEMMA SelectSolved ==
    ASSUME NEW s, NEW S, NEW L \in Nat
    PROVE  \E u : u = [k \in 0..L |-> SelectStep(s, S, u, k)]
<1>. USE DEF SelectStep
<1>. DEFINE Step(u, k) == SelectStep(s, S, u, k)
            Good == {n \in Nat : \E u : u = [k \in 0..n |-> Step(u, k)]}
<1>1. 0 \in Good
  <2>. DEFINE u == [k \in 0..0 |-> <<>>]
  <2>1. u = [k \in 0..0 |-> Step(u, k)]
    OBVIOUS
  <2>. QED
    BY <2>1
<1>2. ASSUME NEW n \in Nat, n \in Good PROVE n + 1 \in Good
  <2>1. PICK u : u = [k \in 0..n |-> Step(u, k)]
    BY <1>2
  <2>. DEFINE v == [k \in 0..(n + 1) |-> Step(u, k)]
  <2>2. \A k \in 0..n : u[k] = Step(u, k)
    BY <2>1
  <2>3. \A k \in 0..(n + 1) : v[k] = Step(u, k)
    OBVIOUS
  <2>4. \A k \in 0..n : v[k] = u[k] /\ k \in 0..(n + 1)
    BY <2>2, <2>3
  <2>5. \A k \in 0..(n + 1) : k # 0 => k - 1 \in 0..n
    OBVIOUS
  <2>6. \A k \in 0..(n + 1) : Step(v, k) = Step(u, k)
    <3>. HIDE DEF v
    <3>. QED
      BY <2>4, <2>5
  <2>7. v = [k \in 0..(n + 1) |-> Step(v, k)]
    <3>. HIDE DEF Step
    <3>. QED
      BY <2>6
  <2>. HIDE DEF v, Step
  <2>. QED
    BY <2>7
<1>. HIDE DEF SelectStep
<1>3. L \in Good
    BY <1>1, <1>2, FromZeroOn
<1>. QED
    BY <1>3

\* t has the elements of s at the places e, those of S.
Picks(t, s, S, e) == Lists(e, S \cap DOMAIN s) /\ t = [n \in DOMAIN e |-> s[e[n]]]

LEMMA SelectPicks ==
    ASSUME NEW T, NEW s \in Seq(T), NEW S
    PROVE  \E e : Picks(Select(s, S), s, S, e)
<1>. DEFINE u == CHOOSE u : u = [k \in 0..Len(s) |-> SelectStep(s, S, u, k)]
            Is(k) == /\ u[k] \in Seq(T)
                     /\ \E e : Lists(e, S \cap 1..k) /\ u[k] = [n \in DOMAIN e |-> s[e[n]]]
            Good == {k \in Nat : k <= Len(s) => Is(k)}
<1>1. Select(s, S) = u[Len(s)]
    BY DEF Select, SelectStep
<1>2. Len(s) \in Nat /\ DOMAIN s = 1..Len(s) /\ \A k \in 1..Len(s) : s[k] \in T
    OBVIOUS
<1>3. u = [k \in 0..Len(s) |-> SelectStep(s, S, u, k)]
    BY <1>2, SelectSolved, Zenon
<1>. HIDE DEF u
<1>4. \A k \in 0..Len(s) :
        u[k] = IF k = 0 THEN <<>> ELSE IF k \in S THEN Append(u[k - 1], s[k]) ELSE u[k - 1]
    BY <1>3 DEF SelectStep
<1>5. 0 \in Good
  <2>1. u[0] = <<>>
    BY <1>2, <1>4
  <2>. DEFINE e == <<>>
  <2>2. Lists(e, S \cap 1..0)
    <3>1. DOMAIN e = 1..0
      OBVIOUS
    <3>. QED
      BY <3>1 DEF Lists
  <2>3. u[0] = [n \in DOMAIN e |-> s[e[n]]] /\ u[0] \in Seq(T)
    BY <2>1
  <2>4. Is(0)
    <3>. HIDE DEF e
    <3>. QED
      BY <2>2, <2>3
  <2>. HIDE DEF Is
  <2>. QED
    BY <2>4
<1>6. ASSUME NEW k \in Nat, k \in Good PROVE k + 1 \in Good
  <2>. HIDE DEF Is
  <2>. SUFFICES ASSUME k + 1 <= Len(s) PROVE Is(k + 1)
    OBVIOUS
  <2>0. Is(k)
    BY <1>2, <1>6
  <2>. USE DEF Is
  <2>1. PICK e : Lists(e, S \cap 1..k) /\ u[k] = [n \in DOMAIN e |-> s[e[n]]]
    BY <2>0, Zenon
  <2>2. u[k] \in Seq(T) /\ k + 1 \in 0..Len(s) /\ k + 1 # 0 /\ k + 1 - 1 = k /\ s[k + 1] \in T
    BY <1>2, <2>0
  <2>3. u[k + 1] = IF k + 1 \in S THEN Append(u[k], s[k + 1]) ELSE u[k]
    BY <1>4, <2>2
  <2>4. CASE k + 1 \notin S
    <3>1. S \cap 1..(k + 1) = S \cap 1..k
      BY <2>4
    <3>. QED
      BY <2>1, <2>2, <2>3, <2>4, <3>1
  <2>5. CASE k + 1 \in S
    <3>1. PICK m \in Nat : DOMAIN e = 1..m
      BY <2>1 DEF Lists
    <3>. DEFINE f == [n \in 1..(m + 1) |-> IF n = m + 1 THEN k + 1 ELSE e[n]]
    <3>2. DOMAIN f = 1..(m + 1) /\ f[m + 1] = k + 1 /\ \A n \in 1..m : f[n] = e[n] /\ n \in 1..(m + 1)
      OBVIOUS
    <3>. HIDE DEF f
    <3>3. \A n \in 1..m : e[n] \in S /\ e[n] \in 1..k
      BY <2>1, <3>1 DEF Lists
    <3>4. Lists(f, S \cap 1..(k + 1))
      <4>1. f = [n \in DOMAIN f |-> f[n]]
        BY DEF f
      <4>2. \A x \in 1..(m + 1), y \in 1..(m + 1) : x < y => f[x] < f[y]
        <5>. SUFFICES ASSUME NEW x \in 1..(m + 1), NEW y \in 1..(m + 1), x < y PROVE f[x] < f[y]
          OBVIOUS
        <5>1. x \in 1..m /\ f[x] = e[x] /\ e[x] \in 1..k
          BY <3>2, <3>3
        <5>2. CASE y = m + 1
          BY <3>2, <5>1, <5>2
        <5>3. CASE y \in 1..m
          BY <2>1, <3>1, <3>2, <5>1, <5>3 DEF Lists
        <5>. QED
          BY <5>2, <5>3
      <4>3. \A n \in 1..(m + 1) : f[n] \in S /\ f[n] \in 1..(k + 1)
        <5>1. \A n \in 1..(m + 1) : n \in 1..m \/ n = m + 1
          OBVIOUS
        <5>2. \A x \in 1..k : x \in 1..(k + 1)
          OBVIOUS
        <5>. QED
          BY <2>5, <3>2, <3>3, <5>1, <5>2
      <4>4. \A x \in S \cap 1..(k + 1) : \E n \in 1..(m + 1) : f[n] = x
        <5>1. \A x \in S \cap 1..k : \E n \in 1..m : e[n] = x
          BY <2>1, <3>1 DEF Lists
        <5>2. \A x \in 1..(k + 1) : x \in 1..k \/ x = k + 1
          OBVIOUS
        <5>3. m + 1 \in 1..(m + 1)
          OBVIOUS
        <5>. QED
          BY <3>2, <5>1, <5>2, <5>3
      <4>. QED
        BY <3>2, <4>1, <4>2, <4>3, <4>4 DEF Lists
    <3>5. /\ u[k + 1] \in Seq(T) /\ Len(u[k]) = m /\ Len(u[k + 1]) = m + 1
          /\ u[k + 1][m + 1] = s[k + 1] /\ \A n \in 1..m : u[k + 1][n] = u[k][n]
      <4>1. Len(u[k]) = m
        BY <2>1, <2>2, <3>1
      <4>. QED
        BY <2>2, <2>3, <2>5, <4>1, AppendProperties
    <3>6. \A n \in 1..m : u[k][n] = s[e[n]]
      BY <2>1, <3>1
    <3>7. u[k + 1] = [n \in DOMAIN f |-> s[f[n]]]
      <4>1. \A n \in 1..(m + 1) : n \in 1..m \/ n = m + 1
        OBVIOUS
      <4>2. \A n \in 1..(m + 1) : u[k + 1][n] = s[f[n]]
        BY <3>2, <3>5, <3>6, <4>1
      <4>3. DOMAIN u[k + 1] = 1..(m + 1)
        BY <3>5
      <4>4. u[k + 1] = [n \in 1..(m + 1) |-> u[k + 1][n]]
        BY <3>5, <4>3
      <4>. QED
        BY <3>2, <4>2, <4>4
    <3>. QED
      BY <3>4, <3>5, <3>7
  <2>. QED
    BY <2>4, <2>5
<1>. HIDE DEF Is
<1>7. Is(Len(s))
  <2>1. Len(s) \in Good
    BY <1>2, <1>5, <1>6, FromZeroOn
  <2>. QED
    BY <2>1
<1>. USE DEF Is
<1>8. PICK e : Lists(e, S \cap 1..Len(s)) /\ u[Len(s)] = [n \in DOMAIN e |-> s[e[n]]]
    BY <1>7, Zenon
<1>9. Picks(Select(s, S), s, S, e)
    BY <1>1, <1>2, <1>8 DEF Picks
<1>. QED
    BY <1>9

-----------------------------------------------------------------------------
(* The recursions over two texts have solutions.                             *)

\* The corners from which less than n steps lead to the end.
Near(a, b, n) == {c \in Corners(a, b) : (Len(a) + 1 - c[1]) + (Len(b) + 1 - c[2]) < n}

LEMMA NearNone ==
    ASSUME NEW A, NEW a \in Seq(A), NEW b \in Seq(A) PROVE Near(a, b, 0) = {}
    BY DEF Near, Corners

LEMMA NearGrows ==
    ASSUME NEW A, NEW a \in Seq(A), NEW b \in Seq(A), NEW n \in Nat PROVE Near(a, b, n) \subseteq Near(a, b, n + 1)
    BY DEF Near, Corners

LEMMA NearAll ==
    ASSUME NEW A, NEW a \in Seq(A), NEW b \in Seq(A)
    PROVE  Near(a, b, Len(a) + Len(b) + 1) = Corners(a, b) /\ Len(a) + Len(b) + 1 \in Nat
    BY DEF Near, Corners

\* The table.
TableStep(a, b, dp, c) ==
    LET i == c[1]
        j == c[2]
    IN  IF i > Len(a) \/ j > Len(b) THEN 0
        ELSE IF a[i] = b[j] THEN dp[<<i + 1, j + 1>>] + 1
        ELSE IF dp[<<i + 1, j>>] >= dp[<<i, j + 1>>] THEN dp[<<i + 1, j>>]
        ELSE dp[<<i, j + 1>>]

LEMMA TableLocal ==
    ASSUME NEW A, NEW a \in Seq(A), NEW b \in Seq(A), NEW n \in Nat, NEW m, m = n + 1, NEW c \in Near(a, b, m),
           NEW u, NEW v, \A x \in Near(a, b, n) : u[x] = v[x]
    PROVE  TableStep(a, b, u, c) = TableStep(a, b, v, c)
<1>. DEFINE la == Len(a)
            lb == Len(b)
<1>1. la \in Nat /\ lb \in Nat
    OBVIOUS
<1>2. PICK i \in 1..(la + 1), j \in 1..(lb + 1) : c = <<i, j>>
    BY DEF Near, Corners
<1>3. (la + 1 - i) + (lb + 1 - j) < n + 1
    BY <1>2 DEF Near
<1>4. \A x \in 1..(la + 1), y \in 1..(lb + 1) :
        (la + 1 - x) + (lb + 1 - y) < n => <<x, y>> \in Near(a, b, n)
    BY DEF Near, Corners
<1>5. \A x \in 1..(la + 1), y \in 1..(lb + 1) :
        (la + 1 - x) + (lb + 1 - y) < n => u[<<x, y>>] = v[<<x, y>>]
    BY <1>4
<1>. HIDE DEF la, lb
<1>6. i <= la /\ j <= lb => u[<<i + 1, j + 1>>] = v[<<i + 1, j + 1>>]
  <2>. SUFFICES ASSUME i <= la, j <= lb PROVE u[<<i + 1, j + 1>>] = v[<<i + 1, j + 1>>]
    OBVIOUS
  <2>1. i + 1 \in 1..(la + 1) /\ j + 1 \in 1..(lb + 1) /\ (la + 1 - (i + 1)) + (lb + 1 - (j + 1)) < n
    BY <1>1, <1>2, <1>3
  <2>. QED
    BY <1>5, <2>1
<1>7. i <= la => u[<<i + 1, j>>] = v[<<i + 1, j>>]
  <2>. SUFFICES ASSUME i <= la PROVE u[<<i + 1, j>>] = v[<<i + 1, j>>]
    OBVIOUS
  <2>1. i + 1 \in 1..(la + 1) /\ (la + 1 - (i + 1)) + (lb + 1 - j) < n
    BY <1>1, <1>2, <1>3
  <2>. QED
    BY <1>5, <2>1
<1>8. j <= lb => u[<<i, j + 1>>] = v[<<i, j + 1>>]
  <2>. SUFFICES ASSUME j <= lb PROVE u[<<i, j + 1>>] = v[<<i, j + 1>>]
    OBVIOUS
  <2>1. j + 1 \in 1..(lb + 1) /\ (la + 1 - i) + (lb + 1 - (j + 1)) < n
    BY <1>1, <1>2, <1>3
  <2>. QED
    BY <1>5, <2>1
<1>9. c[1] = i /\ c[2] = j
    BY <1>2
<1>. QED
    BY <1>1, <1>2, <1>6, <1>7, <1>8, <1>9 DEF TableStep, la, lb

LEMMA TableSolved ==
    ASSUME NEW A, NEW a \in Seq(A), NEW b \in Seq(A)
    PROVE  InCommon(a, b) = [c \in Corners(a, b) |-> TableStep(a, b, InCommon(a, b), c)]
<1>. DEFINE Ok(n) == \E u : u = [c \in Near(a, b, n) |-> TableStep(a, b, u, c)]
            Good == {n \in Nat : Ok(n)}
<1>1. Ok(0)
  <2>. DEFINE u == [c \in {} |-> 0]
  <2>1. Near(a, b, 0) = {}
    BY NearNone
  <2>2. u = [c \in Near(a, b, 0) |-> TableStep(a, b, u, c)]
    BY <2>1
  <2>. HIDE DEF u
  <2>. QED
    BY <2>2
<1>2. ASSUME NEW n \in Nat, Ok(n) PROVE Ok(n + 1)
  <2>1. PICK u : u = [c \in Near(a, b, n) |-> TableStep(a, b, u, c)]
    BY <1>2
  <2>. DEFINE v == [c \in Near(a, b, n + 1) |-> TableStep(a, b, u, c)]
  <2>2. \A c \in Near(a, b, n) : u[c] = TableStep(a, b, u, c)
    BY <2>1
  <2>3. \A c \in Near(a, b, n + 1) : v[c] = TableStep(a, b, u, c)
    OBVIOUS
  <2>4. \A c \in Near(a, b, n) : u[c] = v[c]
    BY <2>2, <2>3, NearGrows
  <2>. HIDE DEF v
  <2>5. \A c \in Near(a, b, n + 1) : TableStep(a, b, u, c) = TableStep(a, b, v, c)
  <3>. SUFFICES ASSUME NEW c \in Near(a, b, n + 1) PROVE TableStep(a, b, u, c) = TableStep(a, b, v, c)
    OBVIOUS
  <3>. DEFINE m == n + 1
  <3>1. m = n + 1 /\ c \in Near(a, b, m)
    OBVIOUS
  <3>. HIDE DEF m
  <3>. QED
    BY <2>4, <3>1, TableLocal
  <2>6. v = [c \in Near(a, b, n + 1) |-> TableStep(a, b, v, c)]
    BY <2>5 DEF v
  <2>. QED
    BY <2>6
<1>. HIDE DEF Ok
<1>3. Len(a) + Len(b) + 1 \in Good
  <2>1. 0 \in Good /\ \A n \in Nat : n \in Good => n + 1 \in Good
    BY <1>1, <1>2
  <2>2. Nat \subseteq Good
    BY <2>1, FromZeroOn
  <2>. QED
    BY <2>2, NearAll
<1>4. Near(a, b, Len(a) + Len(b) + 1) = Corners(a, b)
    BY NearAll
<1>5. \E u : u = [c \in Corners(a, b) |-> TableStep(a, b, u, c)]
    BY <1>3, <1>4 DEF Ok
<1>. DEFINE u == CHOOSE u : u = [c \in Corners(a, b) |-> TableStep(a, b, u, c)]
<1>6. u = [c \in Corners(a, b) |-> TableStep(a, b, u, c)]
    BY <1>5, Zenon
<1>7. InCommon(a, b) = u
    BY DEF InCommon, TableStep
<1>. HIDE DEF u
<1>. QED
    BY <1>6, <1>7

\* The walk.
WalkStep(a, b, walk, c) ==
    LET i == c[1]
        j == c[2]
        dp == InCommon(a, b)
    IN  IF i <= Len(a) /\ j <= Len(b) /\ a[i] = b[j] THEN <<SameOp(i, j)>> \o walk[<<i + 1, j + 1>>]
        ELSE IF i <= Len(a) /\ (j > Len(b) \/ dp[<<i + 1, j>>] >= dp[<<i, j + 1>>])
             THEN <<Op("del", i, 0)>> \o walk[<<i + 1, j>>]
        ELSE IF j <= Len(b) THEN <<Op("add", 0, j)>> \o walk[<<i, j + 1>>]
        ELSE <<>>

LEMMA WalkLocal ==
    ASSUME NEW A, NEW a \in Seq(A), NEW b \in Seq(A), NEW n \in Nat, NEW m, m = n + 1, NEW c \in Near(a, b, m),
           NEW u, NEW v, \A x \in Near(a, b, n) : u[x] = v[x]
    PROVE  WalkStep(a, b, u, c) = WalkStep(a, b, v, c)
<1>. DEFINE la == Len(a)
            lb == Len(b)
<1>1. la \in Nat /\ lb \in Nat
    OBVIOUS
<1>2. PICK i \in 1..(la + 1), j \in 1..(lb + 1) : c = <<i, j>>
    BY DEF Near, Corners
<1>3. (la + 1 - i) + (lb + 1 - j) < n + 1
    BY <1>2 DEF Near
<1>4. \A x \in 1..(la + 1), y \in 1..(lb + 1) :
        (la + 1 - x) + (lb + 1 - y) < n => <<x, y>> \in Near(a, b, n)
    BY DEF Near, Corners
<1>5. \A x \in 1..(la + 1), y \in 1..(lb + 1) :
        (la + 1 - x) + (lb + 1 - y) < n => u[<<x, y>>] = v[<<x, y>>]
    BY <1>4
<1>. HIDE DEF la, lb
<1>6. i <= la /\ j <= lb => u[<<i + 1, j + 1>>] = v[<<i + 1, j + 1>>]
  <2>. SUFFICES ASSUME i <= la, j <= lb PROVE u[<<i + 1, j + 1>>] = v[<<i + 1, j + 1>>]
    OBVIOUS
  <2>1. i + 1 \in 1..(la + 1) /\ j + 1 \in 1..(lb + 1) /\ (la + 1 - (i + 1)) + (lb + 1 - (j + 1)) < n
    BY <1>1, <1>2, <1>3
  <2>. QED
    BY <1>5, <2>1
<1>7. i <= la => u[<<i + 1, j>>] = v[<<i + 1, j>>]
  <2>. SUFFICES ASSUME i <= la PROVE u[<<i + 1, j>>] = v[<<i + 1, j>>]
    OBVIOUS
  <2>1. i + 1 \in 1..(la + 1) /\ (la + 1 - (i + 1)) + (lb + 1 - j) < n
    BY <1>1, <1>2, <1>3
  <2>. QED
    BY <1>5, <2>1
<1>8. j <= lb => u[<<i, j + 1>>] = v[<<i, j + 1>>]
  <2>. SUFFICES ASSUME j <= lb PROVE u[<<i, j + 1>>] = v[<<i, j + 1>>]
    OBVIOUS
  <2>1. j + 1 \in 1..(lb + 1) /\ (la + 1 - i) + (lb + 1 - (j + 1)) < n
    BY <1>1, <1>2, <1>3
  <2>. QED
    BY <1>5, <2>1
<1>9. c[1] = i /\ c[2] = j
    BY <1>2
<1>. QED
    BY <1>1, <1>2, <1>6, <1>7, <1>8, <1>9 DEF WalkStep, la, lb

LEMMA WalkSolved ==
    ASSUME NEW A, NEW a \in Seq(A), NEW b \in Seq(A)
    PROVE  Walk(a, b) = [c \in Corners(a, b) |-> WalkStep(a, b, Walk(a, b), c)]
<1>. DEFINE Ok(n) == \E u : u = [c \in Near(a, b, n) |-> WalkStep(a, b, u, c)]
            Good == {n \in Nat : Ok(n)}
<1>1. Ok(0)
  <2>. DEFINE u == [c \in {} |-> 0]
  <2>1. Near(a, b, 0) = {}
    BY NearNone
  <2>2. u = [c \in Near(a, b, 0) |-> WalkStep(a, b, u, c)]
    BY <2>1
  <2>. HIDE DEF u
  <2>. QED
    BY <2>2
<1>2. ASSUME NEW n \in Nat, Ok(n) PROVE Ok(n + 1)
  <2>1. PICK u : u = [c \in Near(a, b, n) |-> WalkStep(a, b, u, c)]
    BY <1>2
  <2>. DEFINE v == [c \in Near(a, b, n + 1) |-> WalkStep(a, b, u, c)]
  <2>2. \A c \in Near(a, b, n) : u[c] = WalkStep(a, b, u, c)
    BY <2>1
  <2>3. \A c \in Near(a, b, n + 1) : v[c] = WalkStep(a, b, u, c)
    OBVIOUS
  <2>4. \A c \in Near(a, b, n) : u[c] = v[c]
    BY <2>2, <2>3, NearGrows
  <2>. HIDE DEF v
  <2>5. \A c \in Near(a, b, n + 1) : WalkStep(a, b, u, c) = WalkStep(a, b, v, c)
  <3>. SUFFICES ASSUME NEW c \in Near(a, b, n + 1) PROVE WalkStep(a, b, u, c) = WalkStep(a, b, v, c)
    OBVIOUS
  <3>. DEFINE m == n + 1
  <3>1. m = n + 1 /\ c \in Near(a, b, m)
    OBVIOUS
  <3>. HIDE DEF m
  <3>. QED
    BY <2>4, <3>1, WalkLocal
  <2>6. v = [c \in Near(a, b, n + 1) |-> WalkStep(a, b, v, c)]
    BY <2>5 DEF v
  <2>. QED
    BY <2>6
<1>. HIDE DEF Ok
<1>3. Len(a) + Len(b) + 1 \in Good
  <2>1. 0 \in Good /\ \A n \in Nat : n \in Good => n + 1 \in Good
    BY <1>1, <1>2
  <2>2. Nat \subseteq Good
    BY <2>1, FromZeroOn
  <2>. QED
    BY <2>2, NearAll
<1>4. Near(a, b, Len(a) + Len(b) + 1) = Corners(a, b)
    BY NearAll
<1>5. \E u : u = [c \in Corners(a, b) |-> WalkStep(a, b, u, c)]
    BY <1>3, <1>4 DEF Ok
<1>. DEFINE u == CHOOSE u : u = [c \in Corners(a, b) |-> WalkStep(a, b, u, c)]
<1>6. u = [c \in Corners(a, b) |-> WalkStep(a, b, u, c)]
    BY <1>5, Zenon
<1>7. Walk(a, b) = u
    BY DEF Walk, WalkStep
<1>. HIDE DEF u
<1>. QED
    BY <1>6, <1>7

LEMMA TableIs ==
    ASSUME NEW A, NEW a \in Seq(A), NEW b \in Seq(A), NEW i \in 1..(Len(a) + 1), NEW j \in 1..(Len(b) + 1)
    PROVE  InCommon(a, b)[<<i, j>>] = TableStep(a, b, InCommon(a, b), <<i, j>>)
<1>. DEFINE dp == InCommon(a, b)
<1>1. dp = [c \in Corners(a, b) |-> TableStep(a, b, dp, c)]
    BY TableSolved
<1>2. <<i, j>> \in Corners(a, b)
    BY DEF Corners
<1>. HIDE DEF dp
<1>3. dp[<<i, j>>] = TableStep(a, b, dp, <<i, j>>)
    BY <1>1, <1>2
<1>. QED
    BY <1>3 DEF dp

LEMMA WalkIs ==
    ASSUME NEW A, NEW a \in Seq(A), NEW b \in Seq(A), NEW i \in 1..(Len(a) + 1), NEW j \in 1..(Len(b) + 1)
    PROVE  Walk(a, b)[<<i, j>>] = WalkStep(a, b, Walk(a, b), <<i, j>>)
<1>. DEFINE walk == Walk(a, b)
<1>1. walk = [c \in Corners(a, b) |-> WalkStep(a, b, walk, c)]
    BY WalkSolved
<1>2. <<i, j>> \in Corners(a, b)
    BY DEF Corners
<1>. HIDE DEF walk
<1>3. walk[<<i, j>>] = WalkStep(a, b, walk, <<i, j>>)
    BY <1>1, <1>2
<1>. QED
    BY <1>3 DEF walk

\* From every corner there is a way to the end: what holds at a corner whenever it
\* holds at the next ones holds everywhere.
LEMMA OverCorners ==
    ASSUME NEW A, NEW a \in Seq(A), NEW b \in Seq(A), NEW C,
           \A i \in 1..(Len(a) + 1), j \in 1..(Len(b) + 1) :
               /\ i <= Len(a) => <<i + 1, j>> \in C
               /\ j <= Len(b) => <<i, j + 1>> \in C
               /\ i <= Len(a) /\ j <= Len(b) => <<i + 1, j + 1>> \in C
               => <<i, j>> \in C
    PROVE  \A i \in 1..(Len(a) + 1), j \in 1..(Len(b) + 1) : <<i, j>> \in C
<1>. DEFINE la == Len(a)
            lb == Len(b)
            Ok(n) == \A i \in 1..(la + 1), j \in 1..(lb + 1) : (la + 1 - i) + (lb + 1 - j) < n => <<i, j>> \in C
            Good == {n \in Nat : Ok(n)}
<1>0. la \in Nat /\ lb \in Nat
    OBVIOUS
<1>. HIDE DEF la, lb
<1>1. Ok(0)
    BY <1>0
<1>2. ASSUME NEW n \in Nat, Ok(n) PROVE Ok(n + 1)
  <2>. SUFFICES ASSUME NEW i \in 1..(la + 1), NEW j \in 1..(lb + 1), (la + 1 - i) + (lb + 1 - j) < n + 1
                PROVE  <<i, j>> \in C
    OBVIOUS
  <2>1. i <= la => <<i + 1, j>> \in C
    <3>. SUFFICES ASSUME i <= la PROVE <<i + 1, j>> \in C
      OBVIOUS
    <3>1. i + 1 \in 1..(la + 1) /\ (la + 1 - (i + 1)) + (lb + 1 - j) < n
      BY <1>0
    <3>. QED
      BY <1>2, <3>1
  <2>2. j <= lb => <<i, j + 1>> \in C
    <3>. SUFFICES ASSUME j <= lb PROVE <<i, j + 1>> \in C
      OBVIOUS
    <3>1. j + 1 \in 1..(lb + 1) /\ (la + 1 - i) + (lb + 1 - (j + 1)) < n
      BY <1>0
    <3>. QED
      BY <1>2, <3>1
  <2>3. i <= la /\ j <= lb => <<i + 1, j + 1>> \in C
    <3>. SUFFICES ASSUME i <= la, j <= lb PROVE <<i + 1, j + 1>> \in C
      OBVIOUS
    <3>1. i + 1 \in 1..(la + 1) /\ j + 1 \in 1..(lb + 1) /\ (la + 1 - (i + 1)) + (lb + 1 - (j + 1)) < n
      BY <1>0
    <3>. QED
      BY <1>2, <3>1
  <2>. QED
    BY <2>1, <2>2, <2>3 DEF la, lb
<1>. HIDE DEF Ok
<1>3. Nat \subseteq Good
  <2>1. 0 \in Good /\ \A n \in Nat : n \in Good => n + 1 \in Good
    BY <1>1, <1>2
  <2>. QED
    BY <2>1, FromZeroOn
<1>4. Ok(la + lb + 1)
    BY <1>0, <1>3
<1>5. \A i \in 1..(la + 1), j \in 1..(lb + 1) : (la + 1 - i) + (lb + 1 - j) < la + lb + 1
    BY <1>0
<1>. QED
    BY <1>4, <1>5 DEF Ok, la, lb

LEMMA TableType ==
    ASSUME NEW A, NEW a \in Seq(A), NEW b \in Seq(A)
    PROVE  \A i \in 1..(Len(a) + 1), j \in 1..(Len(b) + 1) : InCommon(a, b)[<<i, j>>] \in Nat
<1>. DEFINE dp == InCommon(a, b)
            C == {c \in Corners(a, b) : dp[c] \in Nat}
<1>1. ASSUME NEW i \in 1..(Len(a) + 1), NEW j \in 1..(Len(b) + 1),
             i <= Len(a) => <<i + 1, j>> \in C, j <= Len(b) => <<i, j + 1>> \in C,
             i <= Len(a) /\ j <= Len(b) => <<i + 1, j + 1>> \in C
      PROVE  <<i, j>> \in C
  <2>1. <<i, j>> \in Corners(a, b) /\ Len(a) \in Nat /\ Len(b) \in Nat /\ i \in Nat /\ j \in Nat
    BY DEF Corners
  <2>2. dp[<<i, j>>] = IF i > Len(a) \/ j > Len(b) THEN 0
                       ELSE IF a[i] = b[j] THEN dp[<<i + 1, j + 1>>] + 1
                       ELSE IF dp[<<i + 1, j>>] >= dp[<<i, j + 1>>] THEN dp[<<i + 1, j>>]
                       ELSE dp[<<i, j + 1>>]
    <3>1. InCommon(a, b)[<<i, j>>] = TableStep(a, b, InCommon(a, b), <<i, j>>)
      BY TableIs
    <3>. QED
      BY <3>1 DEF TableStep
  <2>. HIDE DEF dp
  <2>3. /\ i <= Len(a) => dp[<<i + 1, j>>] \in Nat
        /\ j <= Len(b) => dp[<<i, j + 1>>] \in Nat
        /\ i <= Len(a) /\ j <= Len(b) => dp[<<i + 1, j + 1>>] \in Nat
    BY <1>1
  <2>. DEFINE x == dp[<<i + 1, j + 1>>]
              y == dp[<<i + 1, j>>]
              z == dp[<<i, j + 1>>]
  <2>4. dp[<<i, j>>] \in Nat
    <3>1. dp[<<i, j>>] = IF i > Len(a) \/ j > Len(b) THEN 0 ELSE IF a[i] = b[j] THEN x + 1 ELSE IF y >= z THEN y ELSE z
      BY <2>2
    <3>2. i <= Len(a) /\ j <= Len(b) => x \in Nat /\ y \in Nat /\ z \in Nat
      BY <2>3
    <3>. HIDE DEF x, y, z
    <3>. QED
      BY <2>1, <3>1, <3>2
  <2>. QED
    BY <2>1, <2>4
<1>. HIDE DEF dp
<1>2. \A i \in 1..(Len(a) + 1), j \in 1..(Len(b) + 1) : <<i, j>> \in C
  <2>. HIDE DEF C
  <2>. QED
    BY <1>1, OverCorners
<1>. QED
    BY <1>2 DEF dp

-----------------------------------------------------------------------------
(* No common subsequence is longer than the table says.                      *)

\* Common positions of a from i on and b from j on.
Matching(f, g, L, a, b, i, j) ==
    /\ \A n \in 1..L : f[n] \in DOMAIN a /\ g[n] \in DOMAIN b /\ f[n] >= i /\ g[n] >= j /\ a[f[n]] = b[g[n]]
    /\ \A m, n \in 1..L : m < n => f[m] < f[n] /\ g[m] < g[n]

LEMMA MatchingRest ==
    ASSUME NEW A, NEW a \in Seq(A), NEW b \in Seq(A), NEW i \in Nat, NEW j \in Nat, NEW L \in Nat \ {0},
           NEW f, NEW g, Matching(f, g, L, a, b, i, j)
    PROVE  Matching([n \in 1..(L - 1) |-> f[n + 1]], [n \in 1..(L - 1) |-> g[n + 1]], L - 1, a, b, i + 1, j + 1)
<1>. DEFINE s == [n \in 1..(L - 1) |-> f[n + 1]]
            t == [n \in 1..(L - 1) |-> g[n + 1]]
<1>1. \A n \in 1..(L - 1) : s[n] = f[n + 1] /\ t[n] = g[n + 1] /\ n + 1 \in 1..L /\ 1 < n + 1
    OBVIOUS
<1>2. 1 \in 1..L /\ f[1] >= i /\ g[1] >= j /\ f[1] \in Nat /\ g[1] \in Nat
    BY DEF Matching
<1>. HIDE DEF s, t
<1>3. ASSUME NEW n \in 1..(L - 1)
      PROVE  s[n] \in DOMAIN a /\ t[n] \in DOMAIN b /\ s[n] >= i + 1 /\ t[n] >= j + 1 /\ a[s[n]] = b[t[n]]
  <2>1. f[n + 1] \in DOMAIN a /\ g[n + 1] \in DOMAIN b /\ a[f[n + 1]] = b[g[n + 1]]
    BY <1>1 DEF Matching
  <2>2. f[1] < f[n + 1] /\ g[1] < g[n + 1]
    BY <1>1, <1>2 DEF Matching
  <2>3. f[n + 1] \in Nat /\ g[n + 1] \in Nat
    BY <2>1
  <2>4. f[n + 1] >= i + 1 /\ g[n + 1] >= j + 1
    <3>. DEFINE p == f[n + 1]
                q == g[n + 1]
                o == f[1]
                r == g[1]
    <3>1. o < p /\ r < q /\ p \in Nat /\ q \in Nat /\ o \in Nat /\ r \in Nat /\ o >= i /\ r >= j
      BY <1>2, <2>2, <2>3
    <3>. HIDE DEF p, q, o, r
    <3>2. p >= i + 1 /\ q >= j + 1
      BY <3>1
    <3>. QED
      BY <3>2 DEF p, q
  <2>. QED
    BY <1>1, <2>1, <2>4
<1>4. \A m, n \in 1..(L - 1) : m < n => s[m] < s[n] /\ t[m] < t[n]
  <2>. SUFFICES ASSUME NEW m \in 1..(L - 1), NEW n \in 1..(L - 1), m < n PROVE s[m] < s[n] /\ t[m] < t[n]
    OBVIOUS
  <2>1. m + 1 < n + 1 /\ m + 1 \in 1..L /\ n + 1 \in 1..L
    OBVIOUS
  <2>. QED
    BY <1>1, <2>1 DEF Matching
<1>. QED
    BY <1>3, <1>4 DEF Matching, s, t

LEMMA NoLess == ASSUME NEW x \in Nat, NEW y \in Nat, NEW z \in Nat, x <= y, z >= y PROVE x <= z
OBVIOUS

LEMMA TableBounds ==
    ASSUME NEW A, NEW a \in Seq(A), NEW b \in Seq(A), NEW L \in Nat, NEW f, NEW g, Matching(f, g, L, a, b, 1, 1)
    PROVE  L <= InCommon(a, b)[<<1, 1>>]
<1>. DEFINE dp == InCommon(a, b)
            Bounded(i, j) == \A K \in Nat : \A x, y : Matching(x, y, K, a, b, i, j) => K <= dp[<<i, j>>]
            C == {c \in Corners(a, b) : Bounded(c[1], c[2])}
<1>0. \A i \in 1..(Len(a) + 1), j \in 1..(Len(b) + 1) : dp[<<i, j>>] \in Nat
    BY TableType
<1>1. ASSUME NEW i \in 1..(Len(a) + 1), NEW j \in 1..(Len(b) + 1),
             i <= Len(a) => Bounded(i + 1, j), j <= Len(b) => Bounded(i, j + 1),
             i <= Len(a) /\ j <= Len(b) => Bounded(i + 1, j + 1)
      PROVE  Bounded(i, j)
  <2>. SUFFICES ASSUME NEW K \in Nat, NEW x, NEW y, Matching(x, y, K, a, b, i, j) PROVE K <= dp[<<i, j>>]
    OBVIOUS
  <2>1. /\ Len(a) \in Nat /\ Len(b) \in Nat /\ DOMAIN a = 1..Len(a) /\ DOMAIN b = 1..Len(b)
        /\ i \in Nat /\ j \in Nat
    OBVIOUS
  <2>2. dp[<<i, j>>] = IF i > Len(a) \/ j > Len(b) THEN 0
                       ELSE IF a[i] = b[j] THEN dp[<<i + 1, j + 1>>] + 1
                       ELSE IF dp[<<i + 1, j>>] >= dp[<<i, j + 1>>] THEN dp[<<i + 1, j>>]
                       ELSE dp[<<i, j + 1>>]
    <3>1. InCommon(a, b)[<<i, j>>] = TableStep(a, b, InCommon(a, b), <<i, j>>)
      BY TableIs
    <3>. QED
      BY <3>1 DEF TableStep
  <2>3. dp[<<i, j>>] \in Nat
    BY <1>0
  <2>4. CASE K = 0
    <3>. HIDE DEF dp
    <3>. QED
      BY <2>3, <2>4
  <2>5. CASE K # 0
    <3>1. 1 \in 1..K /\ K - 1 \in Nat /\ x[1] \in 1..Len(a) /\ y[1] \in 1..Len(b) /\ x[1] >= i /\ y[1] >= j
          /\ a[x[1]] = b[y[1]]
      BY <2>1, <2>5 DEF Matching
    <3>2. i <= Len(a) /\ j <= Len(b)
      BY <2>1, <3>1
    <3>3. CASE a[i] = b[j]
      <4>1. K - 1 <= dp[<<i + 1, j + 1>>]
        BY <1>1, <2>1, <2>5, <3>1, <3>2, MatchingRest
      <4>2. dp[<<i + 1, j + 1>>] \in Nat /\ dp[<<i, j>>] = dp[<<i + 1, j + 1>>] + 1
        <5>1. i + 1 \in 1..(Len(a) + 1) /\ j + 1 \in 1..(Len(b) + 1) /\ ~(i > Len(a)) /\ ~(j > Len(b))
          BY <2>1, <3>2
        <5>. HIDE DEF dp
        <5>. QED
          BY <1>0, <2>2, <3>3, <5>1
      <4>. HIDE DEF dp
      <4>. QED
        BY <4>1, <4>2
    <3>4. CASE a[i] # b[j]
      <4>1. i + 1 \in 1..(Len(a) + 1) /\ j + 1 \in 1..(Len(b) + 1) /\ ~(i > Len(a)) /\ ~(j > Len(b))
        BY <2>1, <3>2
      <4>2. dp[<<i + 1, j>>] \in Nat /\ dp[<<i, j + 1>>] \in Nat
        BY <1>0, <4>1
      <4>3. dp[<<i, j>>] >= dp[<<i + 1, j>>] /\ dp[<<i, j>>] >= dp[<<i, j + 1>>]
        <5>. DEFINE down == dp[<<i + 1, j>>]
                    right == dp[<<i, j + 1>>]
                    here == dp[<<i, j>>]
        <5>1. here = IF down >= right THEN down ELSE right
          <6>. HIDE DEF dp
          <6>. QED
            BY <2>2, <3>4, <4>1
        <5>2. down \in Nat /\ right \in Nat
          BY <4>2
        <5>. HIDE DEF down, right, here
        <5>3. here >= down /\ here >= right
          BY <5>1, <5>2
        <5>. QED
          BY <5>3 DEF down, right, here
      <4>4. \A n \in 1..K : n = 1 \/ 1 < n
        OBVIOUS
      <4>5. \A n \in 1..K : x[n] \in Nat /\ y[n] \in Nat
        <5>1. \A n \in 1..K : x[n] \in DOMAIN a /\ y[n] \in DOMAIN b
          BY DEF Matching
        <5>2. \A n \in DOMAIN a \cup DOMAIN b : n \in Nat
          BY <2>1
        <5>. QED
          BY <5>1, <5>2
      <4>6. CASE x[1] # i
        <5>1. \A n \in 1..K : x[n] >= i + 1
          <6>1. x[1] >= i + 1
            BY <2>1, <3>1, <4>6
          <6>2. \A n \in 1..K : 1 < n => x[1] < x[n]
            BY <3>1 DEF Matching
          <6>. QED
            BY <2>1, <3>1, <4>4, <4>5, <6>1, <6>2
        <5>2. Matching(x, y, K, a, b, i + 1, j)
          BY <5>1 DEF Matching
        <5>3. K <= dp[<<i + 1, j>>]
          BY <1>1, <3>2, <5>2
        <5>. QED
          BY <2>3, <4>2, <4>3, <5>3, NoLess
      <4>7. CASE x[1] = i
        <5>0. y[1] # j
          BY <3>1, <3>4, <4>7
        <5>1. \A n \in 1..K : y[n] >= j + 1
          <6>1. y[1] >= j + 1
            BY <2>1, <3>1, <5>0
          <6>2. \A n \in 1..K : 1 < n => y[1] < y[n]
            BY <3>1 DEF Matching
          <6>. QED
            BY <2>1, <3>1, <4>4, <4>5, <6>1, <6>2
        <5>2. Matching(x, y, K, a, b, i, j + 1)
          BY <5>1 DEF Matching
        <5>3. K <= dp[<<i, j + 1>>]
          BY <1>1, <3>2, <5>2
        <5>. QED
          BY <2>3, <4>2, <4>3, <5>3, NoLess
      <4>. QED
        BY <4>6, <4>7
    <3>. QED
      BY <3>3, <3>4
  <2>. QED
    BY <2>4, <2>5
<1>. HIDE DEF Bounded
<1>2. \A i \in 1..(Len(a) + 1), j \in 1..(Len(b) + 1) : <<i, j>> \in C <=> Bounded(i, j)
    BY DEF Corners
<1>. HIDE DEF C
<1>3. \A i \in 1..(Len(a) + 1), j \in 1..(Len(b) + 1) :
        /\ i <= Len(a) => i + 1 \in 1..(Len(a) + 1)
        /\ j <= Len(b) => j + 1 \in 1..(Len(b) + 1)
    OBVIOUS
<1>4. \A i \in 1..(Len(a) + 1), j \in 1..(Len(b) + 1) :
           /\ i <= Len(a) => <<i + 1, j>> \in C
           /\ j <= Len(b) => <<i, j + 1>> \in C
           /\ i <= Len(a) /\ j <= Len(b) => <<i + 1, j + 1>> \in C
           => <<i, j>> \in C
    BY <1>1, <1>2, <1>3
<1>5. <<1, 1>> \in C /\ 1 \in 1..(Len(a) + 1) /\ 1 \in 1..(Len(b) + 1)
  <2>1. 1 \in 1..(Len(a) + 1) /\ 1 \in 1..(Len(b) + 1)
    OBVIOUS
  <2>2. \A i \in 1..(Len(a) + 1), j \in 1..(Len(b) + 1) : <<i, j>> \in C
    BY <1>4, OverCorners, Zenon
  <2>. QED
    BY <2>1, <2>2
<1>6. Bounded(1, 1)
    BY <1>2, <1>5
<1>. QED
    BY <1>6 DEF Bounded

-----------------------------------------------------------------------------
(* The walk has every line of both texts.                                    *)

\* A line of a diff of a and b points to lines they have.
Sound(op, a, b) ==
    /\ op.kind \in {"same", "del", "add"} /\ op.old \in Nat /\ op.new \in Nat
    /\ IF op.kind = "add" THEN op.old = 0 ELSE op.old \in DOMAIN a
    /\ IF op.kind = "del" THEN op.new = 0 ELSE op.new \in DOMAIN b
    /\ op.kind = "same" => a[op.old] = b[op.new]

\* The lines of either text come in their order,
Ordered(s) ==
    \A m, n \in DOMAIN s : m < n =>
        /\ s[m].old # 0 /\ s[n].old # 0 => s[m].old < s[n].old
        /\ s[m].new # 0 /\ s[n].new # 0 => s[m].new < s[n].new

\* and those of a from i and of b from j are all there.
Whole(s, a, b, i, j) ==
    /\ \A n \in DOMAIN s : /\ Sound(s[n], a, b)
                           /\ s[n].old # 0 => s[n].old >= i
                           /\ s[n].new # 0 => s[n].new >= j
    /\ Ordered(s)
    /\ \A x \in DOMAIN a : x >= i => \E n \in DOMAIN s : s[n].old = x
    /\ \A x \in DOMAIN b : x >= j => \E n \in DOMAIN s : s[n].new = x

Same(s) == {n \in DOMAIN s : s[n].kind = "same"}
Counted(s, m) == \E e : Lists(e, Same(s)) /\ DOMAIN e = 1..m

PlainOps == {Op(kind, i, j) : kind \in {"same", "del", "add"}, i \in Nat, j \in Nat}

LEMMA OpIs ==
    ASSUME NEW kind \in {"same", "del", "add"}, NEW i \in Nat, NEW j \in Nat
    PROVE  /\ Op(kind, i, j) \in PlainOps /\ Op(kind, i, j).html = <<>>
           /\ Op(kind, i, j).kind = kind /\ Op(kind, i, j).old = i /\ Op(kind, i, j).new = j
    BY DEF Op, PlainOps

LEMMA Prepended ==
    ASSUME NEW T, NEW w \in Seq(T), NEW op \in T
    PROVE  LET s == <<op>> \o w
           IN  /\ s \in Seq(T) /\ DOMAIN s = 1..(Len(w) + 1) /\ s[1] = op
               /\ \A n \in 1..Len(w) : s[n + 1] = w[n]
    OBVIOUS

LEMMA PrependWhole ==
    ASSUME NEW T, NEW w \in Seq(T), NEW op \in T, NEW a, NEW b, DOMAIN a \subseteq Nat, DOMAIN b \subseteq Nat,
           NEW i \in Nat \ {0}, NEW j \in Nat \ {0}, NEW p, NEW q, Whole(w, a, b, p, q), Sound(op, a, b),
           (op.old = 0 /\ p = i) \/ (op.old = i /\ p = i + 1),
           (op.new = 0 /\ q = j) \/ (op.new = j /\ q = j + 1)
    PROVE  Whole(<<op>> \o w, a, b, i, j)
<1>. DEFINE s == <<op>> \o w
            L == Len(w)
<1>1. /\ L \in Nat /\ DOMAIN w = 1..L /\ DOMAIN s = 1..(L + 1) /\ s[1] = op
      /\ \A n \in 1..L : s[n + 1] = w[n]
    BY Prepended
<1>. HIDE DEF s, L
<1>2. \A n \in DOMAIN s : n = 1 \/ (n - 1 \in 1..L /\ s[n] = w[n - 1])
  <2>1. \A n \in 1..(L + 1) : n = 1 \/ (n - 1 \in 1..L /\ n - 1 + 1 = n)
    BY <1>1
  <2>. QED
    BY <1>1, <2>1
<1>3. \A n \in 1..L : /\ Sound(w[n], a, b) /\ w[n].old \in Nat /\ w[n].new \in Nat
                      /\ w[n].old # 0 => w[n].old >= p
                      /\ w[n].new # 0 => w[n].new >= q
    BY <1>1 DEF Whole, Sound
<1>4. \A n \in DOMAIN s : /\ Sound(s[n], a, b)
                          /\ s[n].old # 0 => s[n].old >= i
                          /\ s[n].new # 0 => s[n].new >= j
  <2>1. \A n \in 1..L : /\ w[n].old # 0 => w[n].old >= i
                        /\ w[n].new # 0 => w[n].new >= j
    BY <1>3
  <2>2. op.old # 0 => op.old >= i
    OBVIOUS
  <2>3. op.new # 0 => op.new >= j
    OBVIOUS
  <2>. QED
    BY <1>1, <1>2, <1>3, <2>1, <2>2, <2>3
<1>5. Ordered(s)
  <2>. SUFFICES ASSUME NEW m \in DOMAIN s, NEW n \in DOMAIN s, m < n
                PROVE  /\ s[m].old # 0 /\ s[n].old # 0 => s[m].old < s[n].old
                       /\ s[m].new # 0 /\ s[n].new # 0 => s[m].new < s[n].new
    BY DEF Ordered
  <2>1. n - 1 \in 1..L /\ s[n] = w[n - 1]
    BY <1>1, <1>2
  <2>2. CASE m = 1
    <3>1. /\ w[n - 1].old # 0 => w[n - 1].old >= p
          /\ w[n - 1].new # 0 => w[n - 1].new >= q
          /\ w[n - 1].old \in Nat /\ w[n - 1].new \in Nat
      BY <1>3, <2>1
    <3>2. /\ op.old # 0 => op.old = i /\ p = i + 1
          /\ op.new # 0 => op.new = j /\ q = j + 1
      OBVIOUS
    <3>. DEFINE x == w[n - 1].old
                y == w[n - 1].new
    <3>. HIDE DEF x, y
    <3>3. /\ op.old # 0 /\ x # 0 => op.old < x
          /\ op.new # 0 /\ y # 0 => op.new < y
      BY <3>1, <3>2 DEF x, y
    <3>. QED
      BY <1>1, <2>1, <2>2, <3>3 DEF x, y
  <2>3. CASE m # 1
    <3>1. m - 1 \in 1..L /\ s[m] = w[m - 1] /\ m - 1 < n - 1
      BY <1>1, <1>2, <2>3
    <3>2. Ordered(w) /\ m - 1 \in DOMAIN w /\ n - 1 \in DOMAIN w
      BY <1>1, <2>1, <3>1 DEF Whole
    <3>3. /\ w[m - 1].old # 0 /\ w[n - 1].old # 0 => w[m - 1].old < w[n - 1].old
          /\ w[m - 1].new # 0 /\ w[n - 1].new # 0 => w[m - 1].new < w[n - 1].new
      BY <3>1, <3>2 DEF Ordered
    <3>. QED
      BY <2>1, <3>1, <3>3
  <2>. QED
    BY <2>2, <2>3
<1>6. \A x \in DOMAIN a : x >= i => \E n \in DOMAIN s : s[n].old = x
  <2>. SUFFICES ASSUME NEW x \in DOMAIN a, x >= i PROVE \E n \in DOMAIN s : s[n].old = x
    OBVIOUS
  <2>1. CASE x >= p
    <3>1. PICK n \in 1..L : w[n].old = x
      BY <1>1, <2>1 DEF Whole
    <3>2. n + 1 \in DOMAIN s /\ s[n + 1].old = x
      BY <1>1, <3>1
    <3>. QED
      BY <3>2
  <2>2. CASE ~(x >= p)
    <3>1. x = op.old
      BY <2>2
    <3>2. 1 \in DOMAIN s
      BY <1>1
    <3>. QED
      BY <1>1, <3>1, <3>2
  <2>. QED
    BY <2>1, <2>2
<1>7. \A x \in DOMAIN b : x >= j => \E n \in DOMAIN s : s[n].new = x
  <2>. SUFFICES ASSUME NEW x \in DOMAIN b, x >= j PROVE \E n \in DOMAIN s : s[n].new = x
    OBVIOUS
  <2>1. CASE x >= q
    <3>1. PICK n \in 1..L : w[n].new = x
      BY <1>1, <2>1 DEF Whole
    <3>2. n + 1 \in DOMAIN s /\ s[n + 1].new = x
      BY <1>1, <3>1
    <3>. QED
      BY <3>2
  <2>2. CASE ~(x >= q)
    <3>1. x = op.new
      BY <2>2
    <3>2. 1 \in DOMAIN s
      BY <1>1
    <3>. QED
      BY <1>1, <3>1, <3>2
  <2>. QED
    BY <2>1, <2>2
<1>. QED
    BY <1>4, <1>5, <1>6, <1>7 DEF Whole, s

LEMMA PrependCounted ==
    ASSUME NEW T, NEW w \in Seq(T), NEW op \in T, NEW m \in Nat, Counted(w, m)
    PROVE  Counted(<<op>> \o w, IF op.kind = "same" THEN m + 1 ELSE m)
<1>. DEFINE s == <<op>> \o w
            L == Len(w)
<1>1. /\ L \in Nat /\ DOMAIN w = 1..L /\ DOMAIN s = 1..(L + 1) /\ s[1] = op
      /\ \A n \in 1..L : s[n + 1] = w[n]
    BY Prepended
<1>. HIDE DEF s, L
<1>2. PICK e : Lists(e, Same(w)) /\ DOMAIN e = 1..m
    BY DEF Counted
<1>3. \A n \in 1..m : e[n] \in 1..L /\ w[e[n]].kind = "same" /\ e[n] + 1 \in 1..(L + 1) /\ s[e[n] + 1] = w[e[n]]
    BY <1>1, <1>2 DEF Lists, Same
<1>4. \A x \in DOMAIN s : x = 1 \/ (x - 1 \in 1..L /\ s[x] = w[x - 1] /\ x = x - 1 + 1)
  <2>1. \A n \in 1..(L + 1) : n = 1 \/ (n - 1 \in 1..L /\ n - 1 + 1 = n)
    BY <1>1
  <2>. QED
    BY <1>1, <2>1
<1>5. \A x \in 1..L : w[x].kind = "same" => \E n \in 1..m : e[n] = x
    BY <1>1, <1>2 DEF Lists, Same
<1>6. \A x, y \in 1..m : x < y => e[x] < e[y]
    BY <1>2 DEF Lists
<1>7. CASE op.kind # "same"
  <2>. DEFINE f == [n \in 1..m |-> e[n] + 1]
  <2>1. DOMAIN f = 1..m /\ \A n \in 1..m : f[n] = e[n] + 1
    OBVIOUS
  <2>2. f = [n \in DOMAIN f |-> f[n]]
    OBVIOUS
  <2>. HIDE DEF f
  <2>3. \A x, y \in 1..m : x < y => f[x] < f[y]
    BY <1>3, <1>6, <2>1
  <2>4. \A n \in 1..m : f[n] \in Same(s)
    BY <1>1, <1>3, <2>1 DEF Same
  <2>5. \A x \in Same(s) : \E n \in 1..m : f[n] = x
    <3>. SUFFICES ASSUME NEW x \in Same(s) PROVE \E n \in 1..m : f[n] = x
      OBVIOUS
    <3>1. x - 1 \in 1..L /\ w[x - 1].kind = "same" /\ x = x - 1 + 1
      BY <1>1, <1>4, <1>7 DEF Same
    <3>2. PICK n \in 1..m : e[n] = x - 1
      BY <1>5, <3>1
    <3>. QED
      BY <2>1, <3>1, <3>2
  <2>6. Lists(f, Same(s))
    BY <2>1, <2>2, <2>3, <2>4, <2>5 DEF Lists
  <2>. QED
    BY <1>7, <2>1, <2>6 DEF Counted, s
<1>8. CASE op.kind = "same"
  <2>. DEFINE f == [n \in 1..(m + 1) |-> IF n = 1 THEN 1 ELSE e[n - 1] + 1]
  <2>1. DOMAIN f = 1..(m + 1) /\ f[1] = 1 /\ \A n \in 1..(m + 1) : n = 1 \/ (n - 1 \in 1..m /\ f[n] = e[n - 1] + 1)
    OBVIOUS
  <2>2. f = [n \in DOMAIN f |-> f[n]]
    OBVIOUS
  <2>. HIDE DEF f
  <2>3. \A x, y \in 1..(m + 1) : x < y => f[x] < f[y]
    <3>. SUFFICES ASSUME NEW x \in 1..(m + 1), NEW y \in 1..(m + 1), x < y PROVE f[x] < f[y]
      OBVIOUS
    <3>1. y - 1 \in 1..m /\ f[y] = e[y - 1] + 1 /\ e[y - 1] \in 1..L
      BY <1>3, <2>1
    <3>2. CASE x = 1
      BY <1>1, <2>1, <3>1, <3>2
    <3>3. CASE x # 1
      <4>1. x - 1 \in 1..m /\ f[x] = e[x - 1] + 1 /\ e[x - 1] \in 1..L /\ x - 1 < y - 1
        BY <1>3, <2>1, <3>3
      <4>2. e[x - 1] < e[y - 1]
        BY <1>6, <3>1, <4>1
      <4>. QED
        BY <1>1, <3>1, <4>1, <4>2
    <3>. QED
      BY <3>2, <3>3
  <2>4. \A n \in 1..(m + 1) : f[n] \in Same(s)
    <3>. SUFFICES ASSUME NEW n \in 1..(m + 1) PROVE f[n] \in DOMAIN s /\ s[f[n]].kind = "same"
      BY DEF Same
    <3>1. CASE n = 1
      BY <1>1, <1>8, <2>1, <3>1
    <3>2. CASE n # 1
      <4>1. n - 1 \in 1..m /\ f[n] = e[n - 1] + 1
        BY <2>1, <3>2
      <4>. QED
        BY <1>1, <1>3, <4>1
    <3>. QED
      BY <3>1, <3>2
  <2>5. \A x \in Same(s) : \E n \in 1..(m + 1) : f[n] = x
    <3>. SUFFICES ASSUME NEW x \in Same(s) PROVE \E n \in 1..(m + 1) : f[n] = x
      OBVIOUS
    <3>1. CASE x = 1
      BY <2>1, <3>1
    <3>2. CASE x # 1
      <4>1. x - 1 \in 1..L /\ w[x - 1].kind = "same" /\ x = x - 1 + 1
        BY <1>4, <3>2 DEF Same
      <4>2. PICK n \in 1..m : e[n] = x - 1
        BY <1>5, <4>1
      <4>3. n + 1 \in 1..(m + 1) /\ n + 1 # 1 /\ n + 1 - 1 = n
        OBVIOUS
      <4>4. f[n + 1] = x
        BY <2>1, <4>1, <4>2, <4>3
      <4>. QED
        BY <4>3, <4>4
    <3>. QED
      BY <3>1, <3>2
  <2>6. Lists(f, Same(s))
    BY <2>1, <2>2, <2>3, <2>4, <2>5 DEF Lists
  <2>. QED
    BY <1>8, <2>1, <2>6 DEF Counted, s
<1>. QED
    BY <1>7, <1>8

\* The walk from a corner.
Walked(w, m, a, b, i, j) == w \in Seq(PlainOps) /\ Whole(w, a, b, i, j) /\ Counted(w, m)

LEMMA WalkedOn ==
    ASSUME NEW A, NEW a \in Seq(A), NEW b \in Seq(A), NEW i \in Nat \ {0}, NEW j \in Nat \ {0},
           NEW w, NEW m \in Nat, NEW p, NEW q, Walked(w, m, a, b, p, q),
           NEW op \in PlainOps, Sound(op, a, b),
           (op.old = 0 /\ p = i) \/ (op.old = i /\ p = i + 1),
           (op.new = 0 /\ q = j) \/ (op.new = j /\ q = j + 1)
    PROVE  Walked(<<op>> \o w, IF op.kind = "same" THEN m + 1 ELSE m, a, b, i, j)
<1>1. w \in Seq(PlainOps) /\ Whole(w, a, b, p, q) /\ Counted(w, m)
    BY DEF Walked
<1>2. DOMAIN a \subseteq Nat /\ DOMAIN b \subseteq Nat
    OBVIOUS
<1>3. <<op>> \o w \in Seq(PlainOps)
    BY <1>1
<1>4. Whole(<<op>> \o w, a, b, i, j)
    BY <1>1, <1>2, PrependWhole
<1>5. Counted(<<op>> \o w, IF op.kind = "same" THEN m + 1 ELSE m)
    BY <1>1, PrependCounted
<1>. QED
    BY <1>3, <1>4, <1>5 DEF Walked

LEMMA WalkIsWhole ==
    ASSUME NEW A, NEW a \in Seq(A), NEW b \in Seq(A)
    PROVE  Walked(Align(a, b), InCommon(a, b)[<<1, 1>>], a, b, 1, 1)
<1>. DEFINE dp == InCommon(a, b)
            walk == Walk(a, b)
            la == Len(a)
            lb == Len(b)
            Ok(i, j) == Walked(walk[<<i, j>>], dp[<<i, j>>], a, b, i, j)
            C == {c \in Corners(a, b) : Ok(c[1], c[2])}
<1>0. \A i \in 1..(la + 1), j \in 1..(lb + 1) : dp[<<i, j>>] \in Nat
    BY TableType
<1>1. la \in Nat /\ lb \in Nat /\ DOMAIN a = 1..la /\ DOMAIN b = 1..lb
    OBVIOUS
<1>2. ASSUME NEW i \in 1..(la + 1), NEW j \in 1..(lb + 1)
      PROVE  dp[<<i, j>>] = IF i > la \/ j > lb THEN 0
                            ELSE IF a[i] = b[j] THEN dp[<<i + 1, j + 1>>] + 1
                            ELSE IF dp[<<i + 1, j>>] >= dp[<<i, j + 1>>] THEN dp[<<i + 1, j>>]
                            ELSE dp[<<i, j + 1>>]
  <2>1. InCommon(a, b)[<<i, j>>] = TableStep(a, b, InCommon(a, b), <<i, j>>)
    BY TableIs
  <2>. QED
    BY <2>1 DEF TableStep
<1>3. ASSUME NEW i \in 1..(la + 1), NEW j \in 1..(lb + 1)
      PROVE  walk[<<i, j>>] =
                   IF i <= la /\ j <= lb /\ a[i] = b[j] THEN <<SameOp(i, j)>> \o walk[<<i + 1, j + 1>>]
                   ELSE IF i <= la /\ (j > lb \/ dp[<<i + 1, j>>] >= dp[<<i, j + 1>>])
                        THEN <<Op("del", i, 0)>> \o walk[<<i + 1, j>>]
                   ELSE IF j <= lb THEN <<Op("add", 0, j)>> \o walk[<<i, j + 1>>]
                   ELSE <<>>
  <2>1. Walk(a, b)[<<i, j>>] = WalkStep(a, b, Walk(a, b), <<i, j>>)
    BY WalkIs
  <2>. QED
    BY <2>1 DEF WalkStep
<1>. HIDE DEF dp, walk, la, lb
<1>4. ASSUME NEW i \in 1..(la + 1), NEW j \in 1..(lb + 1),
             i <= la => Ok(i + 1, j), j <= lb => Ok(i, j + 1), i <= la /\ j <= lb => Ok(i + 1, j + 1)
      PROVE  Ok(i, j)
  <2>0. /\ i \in Nat \ {0} /\ j \in Nat \ {0} /\ dp[<<i, j>>] \in Nat
        /\ i <= la => i + 1 \in 1..(la + 1) /\ i \in DOMAIN a /\ ~(i > la)
        /\ j <= lb => j + 1 \in 1..(lb + 1) /\ j \in DOMAIN b /\ ~(j > lb)
    BY <1>0, <1>1
  <2>1. CASE i <= la /\ j <= lb /\ a[i] = b[j]
    <3>. DEFINE op == Op("same", i, j)
    <3>1. walk[<<i, j>>] = <<op>> \o walk[<<i + 1, j + 1>>] /\ dp[<<i, j>>] = dp[<<i + 1, j + 1>>] + 1
      BY <1>2, <1>3, <2>0, <2>1 DEF SameOp
    <3>2. op \in PlainOps /\ op.kind = "same" /\ op.old = i /\ op.new = j
      BY <2>0, OpIs
    <3>. HIDE DEF op
    <3>3. Sound(op, a, b)
      BY <2>0, <2>1, <3>2 DEF Sound
    <3>4. Walked(walk[<<i + 1, j + 1>>], dp[<<i + 1, j + 1>>], a, b, i + 1, j + 1) /\ dp[<<i + 1, j + 1>>] \in Nat
      BY <1>0, <1>4, <2>0, <2>1
    <3>5. Walked(<<op>> \o walk[<<i + 1, j + 1>>], IF op.kind = "same" THEN dp[<<i + 1, j + 1>>] + 1 ELSE dp[<<i + 1, j + 1>>], a, b, i, j)
      BY <2>0, <3>2, <3>3, <3>4, WalkedOn
    <3>. QED
      BY <3>1, <3>2, <3>5
  <2>2. ASSUME i <= la, dp[<<i, j>>] = dp[<<i + 1, j>>], walk[<<i, j>>] = <<Op("del", i, 0)>> \o walk[<<i + 1, j>>]
        PROVE  Ok(i, j)
    <3>. DEFINE op == Op("del", i, 0)
    <3>1. walk[<<i, j>>] = <<op>> \o walk[<<i + 1, j>>] /\ dp[<<i, j>>] = dp[<<i + 1, j>>]
      BY <2>2
    <3>2. op \in PlainOps /\ op.kind = "del" /\ op.old = i /\ op.new = 0
      BY <2>0, OpIs
    <3>. HIDE DEF op
    <3>3. Sound(op, a, b)
      BY <2>0, <2>2, <3>2 DEF Sound
    <3>4. Walked(walk[<<i + 1, j>>], dp[<<i + 1, j>>], a, b, i + 1, j) /\ dp[<<i + 1, j>>] \in Nat
      BY <1>0, <1>4, <2>0, <2>2
    <3>5. Walked(<<op>> \o walk[<<i + 1, j>>], IF op.kind = "same" THEN dp[<<i + 1, j>>] + 1 ELSE dp[<<i + 1, j>>], a, b, i, j)
      BY <2>0, <3>2, <3>3, <3>4, WalkedOn
    <3>. QED
      BY <3>1, <3>2, <3>5
  <2>3. ASSUME j <= lb, dp[<<i, j>>] = dp[<<i, j + 1>>], walk[<<i, j>>] = <<Op("add", 0, j)>> \o walk[<<i, j + 1>>]
        PROVE  Ok(i, j)
    <3>. DEFINE op == Op("add", 0, j)
    <3>1. walk[<<i, j>>] = <<op>> \o walk[<<i, j + 1>>] /\ dp[<<i, j>>] = dp[<<i, j + 1>>]
      BY <2>3
    <3>2. op \in PlainOps /\ op.kind = "add" /\ op.old = 0 /\ op.new = j
      BY <2>0, OpIs
    <3>. HIDE DEF op
    <3>3. Sound(op, a, b)
      BY <2>0, <2>3, <3>2 DEF Sound
    <3>4. Walked(walk[<<i, j + 1>>], dp[<<i, j + 1>>], a, b, i, j + 1) /\ dp[<<i, j + 1>>] \in Nat
      BY <1>0, <1>4, <2>0, <2>3
    <3>5. Walked(<<op>> \o walk[<<i, j + 1>>], IF op.kind = "same" THEN dp[<<i, j + 1>>] + 1 ELSE dp[<<i, j + 1>>], a, b, i, j)
      BY <2>0, <3>2, <3>3, <3>4, WalkedOn
    <3>. QED
      BY <3>1, <3>2, <3>5
  <2>. HIDE DEF Ok
  <2>4. CASE i <= la /\ j <= lb /\ a[i] # b[j]
    <3>1. dp[<<i + 1, j>>] \in Nat /\ dp[<<i, j + 1>>] \in Nat
      BY <1>0, <2>0, <2>4
    <3>. QED
      BY <1>2, <1>3, <2>0, <2>2, <2>3, <2>4, <3>1
  <2>5. CASE i <= la /\ j > lb
    <3>1. dp[<<i, j>>] = 0 /\ dp[<<i + 1, j>>] = 0
      BY <1>2, <2>0, <2>5
    <3>2. walk[<<i, j>>] = <<Op("del", i, 0)>> \o walk[<<i + 1, j>>]
      <4>1. ~(j <= lb)
        BY <1>1, <2>0, <2>5
      <4>. QED
        BY <1>3, <2>5, <4>1
    <3>. QED
      BY <2>2, <2>5, <3>1, <3>2
  <2>6. CASE i > la /\ j <= lb
    <3>0. ~(i <= la)
      BY <1>1, <2>0, <2>6
    <3>1. dp[<<i, j>>] = 0 /\ dp[<<i, j + 1>>] = 0
      BY <1>2, <2>0, <2>6
    <3>2. walk[<<i, j>>] = <<Op("add", 0, j)>> \o walk[<<i, j + 1>>]
      BY <1>3, <2>6, <3>0
    <3>. QED
      BY <2>3, <2>6, <3>1, <3>2
  <2>7. CASE i > la /\ j > lb
    <3>0. ~(i <= la) /\ ~(j <= lb)
      BY <1>1, <2>0, <2>7
    <3>1. dp[<<i, j>>] = 0
      BY <1>2, <2>7
    <3>2. walk[<<i, j>>] = <<>>
      BY <1>3, <3>0
    <3>3. Whole(<<>>, a, b, i, j)
      BY <1>1, <2>0, <2>7 DEF Whole, Ordered
    <3>4. Counted(<<>>, 0)
      <4>1. Same(<<>>) = {} /\ DOMAIN <<>> = 1..0
        BY DEF Same
      <4>2. Lists(<<>>, Same(<<>>))
        BY <4>1 DEF Lists
      <4>. QED
        BY <4>1, <4>2 DEF Counted
    <3>. QED
      BY <3>1, <3>2, <3>3, <3>4 DEF Ok, Walked
  <2>8. (i <= la \/ i > la) /\ (j <= lb \/ j > lb)
    BY <1>1, <2>0
  <2>. QED
    BY <2>1, <2>4, <2>5, <2>6, <2>7, <2>8
<1>. HIDE DEF Ok
<1>5. \A i \in 1..(la + 1), j \in 1..(lb + 1) : <<i, j>> \in C <=> Ok(i, j)
    BY DEF Corners, la, lb
<1>. HIDE DEF C
<1>6. \A i \in 1..(la + 1), j \in 1..(lb + 1) :
        /\ i <= la => i + 1 \in 1..(la + 1)
        /\ j <= lb => j + 1 \in 1..(lb + 1)
    BY <1>1
<1>7. \A i \in 1..(la + 1), j \in 1..(lb + 1) :
           /\ i <= la => <<i + 1, j>> \in C
           /\ j <= lb => <<i, j + 1>> \in C
           /\ i <= la /\ j <= lb => <<i + 1, j + 1>> \in C
           => <<i, j>> \in C
    BY <1>4, <1>5, <1>6
<1>8. \A i \in 1..(la + 1), j \in 1..(lb + 1) : <<i, j>> \in C
    BY <1>7, OverCorners, Zenon DEF la, lb
<1>9. 1 \in 1..(la + 1) /\ 1 \in 1..(lb + 1)
    BY <1>1
<1>10. Ok(1, 1)
    BY <1>5, <1>8, <1>9
<1>. QED
    BY <1>10 DEF Ok, Align, walk, dp

LEMMA SelectBy ==
    ASSUME NEW T, NEW s \in Seq(T), NEW S, NEW e, Lists(e, S \cap DOMAIN s)
    PROVE  Picks(Select(s, S), s, S, e)
<1>0. PICK f : Picks(Select(s, S), s, S, f)
    BY SelectPicks
<1>1. Lists(f, S \cap DOMAIN s) /\ Select(s, S) = [n \in DOMAIN f |-> s[f[n]]]
    BY <1>0 DEF Picks
<1>2. S \cap DOMAIN s \subseteq Nat
    OBVIOUS
<1>3. e = f
    BY <1>1, <1>2, ListsUnique
<1>. QED
    BY <1>0, <1>3

Rising(v, S) == \A x, y \in S : x < y => v[x] < v[y]
\* f is v at the places e, and V all that v has on S.
Through(f, V, v, e, S) == f = [n \in DOMAIN e |-> v[e[n]]] /\ V = {v[x] : x \in S}

LEMMA ListsThrough ==
    ASSUME NEW S \in SUBSET Nat, NEW e, Lists(e, S), NEW v, Rising(v, S), NEW f, NEW V, Through(f, V, v, e, S)
    PROVE  Lists(f, V)
<1>1. DOMAIN f = DOMAIN e /\ f = [n \in DOMAIN f |-> f[n]] /\ \A n \in DOMAIN e : f[n] = v[e[n]]
    BY DEF Through
<1>2. \E m \in Nat : DOMAIN e = 1..m
    BY DEF Lists
<1>3. \A x, y \in DOMAIN f : x < y => f[x] < f[y]
    BY <1>1 DEF Lists, Rising
<1>4. \A n \in DOMAIN f : f[n] \in V
    BY <1>1 DEF Lists, Through
<1>5. \A z \in V : \E n \in DOMAIN f : f[n] = z
    BY <1>1 DEF Lists, Through
<1>. QED
    BY <1>1, <1>2, <1>3, <1>4, <1>5 DEF Lists

LEMMA IdentityLists ==
    ASSUME NEW m \in Nat
    PROVE  Lists([k \in 1..m |-> k], 1..m)
BY DEF Lists

-----------------------------------------------------------------------------
(* The sides of a diff whose lines are in order.                             *)

Olds(s) == {s[k].old : k \in {n \in DOMAIN s : s[n].old # 0}}
News(s) == {s[k].new : k \in {n \in DOMAIN s : s[n].new # 0}}

LEMMA OldSideLists ==
    ASSUME NEW T, NEW s \in Seq(T), \A n \in DOMAIN s : s[n].old \in Nat, Ordered(s)
    PROVE  Lists(OldSide(s), Olds(s))
<1>. DEFINE S == {k \in DOMAIN s : s[k].old # 0}
            v == [k \in DOMAIN s |-> s[k].old]
            t == Select(s, S)
<1>1. S \in SUBSET Nat /\ S \cap DOMAIN s = S
    OBVIOUS
<1>0. PICK e : Picks(t, s, S, e)
    BY SelectPicks
<1>2. Lists(e, S) /\ t = [n \in DOMAIN e |-> s[e[n]]]
    BY <1>0, <1>1 DEF Picks
<1>3. Rising(v, S)
    BY DEF Ordered, Rising
<1>. DEFINE f == [n \in DOMAIN e |-> v[e[n]]]
            V == {v[x] : x \in S}
<1>4. Lists(f, V)
  <2>1. Through(f, V, v, e, S)
    BY DEF Through
  <2>. HIDE DEF f, V, v, S
  <2>. QED
    BY <1>1, <1>2, <1>3, <2>1, ListsThrough
<1>5. \A n \in DOMAIN e : e[n] \in DOMAIN s
    BY <1>2 DEF Lists
<1>6. OldSide(s) = [n \in DOMAIN t |-> t[n].old]
    BY DEF OldSide
<1>. HIDE DEF t
<1>7. OldSide(s) = [n \in DOMAIN e |-> v[e[n]]]
    BY <1>2, <1>5, <1>6
<1>8. V = Olds(s)
    BY DEF Olds
<1>. QED
    BY <1>4, <1>7, <1>8

LEMMA NewSideLists ==
    ASSUME NEW T, NEW s \in Seq(T), \A n \in DOMAIN s : s[n].new \in Nat, Ordered(s)
    PROVE  Lists(NewSide(s), News(s))
<1>. DEFINE S == {k \in DOMAIN s : s[k].new # 0}
            v == [k \in DOMAIN s |-> s[k].new]
            t == Select(s, S)
<1>1. S \in SUBSET Nat /\ S \cap DOMAIN s = S
    OBVIOUS
<1>0. PICK e : Picks(t, s, S, e)
    BY SelectPicks
<1>2. Lists(e, S) /\ t = [n \in DOMAIN e |-> s[e[n]]]
    BY <1>0, <1>1 DEF Picks
<1>3. Rising(v, S)
    BY DEF Ordered, Rising
<1>. DEFINE f == [n \in DOMAIN e |-> v[e[n]]]
            V == {v[x] : x \in S}
<1>4. Lists(f, V)
  <2>1. Through(f, V, v, e, S)
    BY DEF Through
  <2>. HIDE DEF f, V, v, S
  <2>. QED
    BY <1>1, <1>2, <1>3, <2>1, ListsThrough
<1>5. \A n \in DOMAIN e : e[n] \in DOMAIN s
    BY <1>2 DEF Lists
<1>6. NewSide(s) = [n \in DOMAIN t |-> t[n].new]
    BY DEF NewSide
<1>. HIDE DEF t
<1>7. NewSide(s) = [n \in DOMAIN e |-> v[e[n]]]
    BY <1>2, <1>5, <1>6
<1>8. V = News(s)
    BY DEF News
<1>. QED
    BY <1>4, <1>7, <1>8

\* A diff that has every line shows both texts whole.
LEMMA WholeSides ==
    ASSUME NEW T, NEW s \in Seq(T), NEW A, NEW a \in Seq(A), NEW b \in Seq(A), Whole(s, a, b, 1, 1)
    PROVE  /\ OldSide(s) = [k \in DOMAIN a |-> k]
           /\ NewSide(s) = [k \in DOMAIN b |-> k]
<1>1. /\ \A n \in DOMAIN s : Sound(s[n], a, b)
      /\ Ordered(s)
      /\ \A x \in DOMAIN a : x >= 1 => \E n \in DOMAIN s : s[n].old = x
      /\ \A x \in DOMAIN b : x >= 1 => \E n \in DOMAIN s : s[n].new = x
    BY DEF Whole
<1>2. \A n \in DOMAIN s : /\ s[n].old \in Nat /\ (s[n].old # 0 => s[n].old \in DOMAIN a)
                          /\ s[n].new \in Nat /\ (s[n].new # 0 => s[n].new \in DOMAIN b)
    BY <1>1 DEF Sound
<1>3. Len(a) \in Nat /\ DOMAIN a = 1..Len(a) /\ Len(b) \in Nat /\ DOMAIN b = 1..Len(b)
    OBVIOUS
<1>4. Olds(s) = DOMAIN a
    BY <1>1, <1>2, <1>3 DEF Olds
<1>5. News(s) = DOMAIN b
    BY <1>1, <1>2, <1>3 DEF News
<1>6. Lists(OldSide(s), DOMAIN a)
    BY <1>1, <1>2, <1>4, OldSideLists
<1>7. Lists(NewSide(s), DOMAIN b)
    BY <1>1, <1>2, <1>5, NewSideLists
<1>8. Lists([k \in DOMAIN a |-> k], DOMAIN a) /\ Lists([k \in DOMAIN b |-> k], DOMAIN b)
    BY <1>3, IdentityLists
<1>9. DOMAIN a \subseteq Nat /\ DOMAIN b \subseteq Nat
    BY <1>3
<1>. QED
    BY <1>6, <1>7, <1>8, <1>9, ListsUnique

-----------------------------------------------------------------------------
(* No diff has more unchanged lines.                                         *)

LEMMA CountIs ==
    ASSUME NEW T, NEW s \in Seq(T), NEW m \in Nat, Counted(s, m)
    PROVE  Count(s, "same") = m
<1>1. PICK e : Lists(e, Same(s)) /\ DOMAIN e = 1..m
    BY DEF Counted
<1>2. Same(s) \cap DOMAIN s = Same(s)
    BY DEF Same
<1>3. Picks(Select(s, Same(s)), s, Same(s), e)
    BY <1>1, <1>2, SelectBy
<1>4. Len([n \in 1..m |-> s[e[n]]]) = m
  <2>1. \A n \in 1..m : s[e[n]] \in T
    BY <1>1 DEF Lists, Same
  <2>2. [n \in 1..m |-> s[e[n]]] \in Seq(T)
    BY <2>1
  <2>. QED
    BY <2>2
<1>. QED
    BY <1>1, <1>3, <1>4 DEF Count, Same, Picks

LEMMA MaxIs ==
    ASSUME NEW N \in SUBSET Nat, NEW m \in N, \A n \in N : n <= m
    PROVE  Max(N) = m
<1>1. m \in Nat /\ \A n \in N : m >= n
    OBVIOUS
<1>2. \A x \in N : (\A y \in N : x >= y) => x = m
  <2>. SUFFICES ASSUME NEW x \in N, \A y \in N : x >= y PROVE x = m
    OBVIOUS
  <2>. QED
    BY <1>1
<1>. QED
    BY <1>1, <1>2 DEF Max

\* A common subsequence, as positions on both sides.
LEMMA CommonIs ==
    ASSUME NEW A, NEW a \in Seq(A), NEW b \in Seq(A), NEW x \in Subsequences(a) \cap Subsequences(b)
    PROVE  /\ Len(x) \in Nat /\ x \in Seq(A)
           /\ \E f, g : Matching(f, g, Len(x), a, b, 1, 1)
<1>1. PICK S \in SUBSET DOMAIN a : x = Select(a, S)
    BY DEF Subsequences
<1>2. PICK T \in SUBSET DOMAIN b : x = Select(b, T)
    BY DEF Subsequences
<1>. PICK f : Picks(x, a, S, f)
    BY <1>1, SelectPicks
<1>. PICK g : Picks(x, b, T, g)
    BY <1>2, SelectPicks
<1>3. Lists(f, S \cap DOMAIN a) /\ x = [n \in DOMAIN f |-> a[f[n]]]
    BY DEF Picks
<1>4. Lists(g, T \cap DOMAIN b) /\ x = [n \in DOMAIN g |-> b[g[n]]]
    BY DEF Picks
<1>5. PICK m \in Nat : DOMAIN f = 1..m
    BY <1>3 DEF Lists
<1>6. DOMAIN x = 1..m /\ DOMAIN g = 1..m
    BY <1>3, <1>4, <1>5
<1>7. \A n \in 1..m : f[n] \in DOMAIN a /\ g[n] \in DOMAIN b
    BY <1>3, <1>4, <1>5, <1>6 DEF Lists
<1>8. \A n \in 1..m : x[n] = a[f[n]] /\ x[n] = b[g[n]] /\ a[f[n]] \in A
    BY <1>3, <1>4, <1>5, <1>6, <1>7
<1>9. x \in Seq(A) /\ Len(x) = m
  <2>1. [n \in 1..m |-> a[f[n]]] \in Seq(A)
    BY <1>8
  <2>2. x \in Seq(A)
    BY <1>3, <1>5, <2>1
  <2>. QED
    BY <1>6, <2>2
<1>10. Matching(f, g, m, a, b, 1, 1)
  <2>1. \A n \in 1..m : f[n] >= 1 /\ g[n] >= 1
    BY <1>7
  <2>2. \A k, n \in 1..m : k < n => f[k] < f[n] /\ g[k] < g[n]
    BY <1>3, <1>4, <1>5, <1>6 DEF Lists
  <2>. QED
    BY <1>7, <1>8, <2>1, <2>2 DEF Matching
<1>. QED
    BY <1>9, <1>10

\* The unchanged lines of a diff, on both sides.
LEMMA SameMatches ==
    ASSUME NEW A, NEW a \in Seq(A), NEW b \in Seq(A), NEW B, NEW s \in Seq(B), Whole(s, a, b, 1, 1),
           NEW m \in Nat, Counted(s, m)
    PROVE  \E x \in Subsequences(a) \cap Subsequences(b) : Len(x) = m
<1>1. PICK e : Lists(e, Same(s)) /\ DOMAIN e = 1..m
    BY DEF Counted
<1>2. \A n \in Same(s) : /\ s[n].old \in DOMAIN a /\ s[n].new \in DOMAIN b /\ a[s[n].old] = b[s[n].new]
                         /\ s[n].old # 0 /\ s[n].new # 0
  <2>1. \A n \in Same(s) : s[n].old \in DOMAIN a /\ s[n].new \in DOMAIN b /\ a[s[n].old] = b[s[n].new]
    BY DEF Whole, Sound, Same
  <2>. QED
    BY <2>1
<1>3. Same(s) \subseteq DOMAIN s
    BY DEF Same
<1>. DEFINE v == [n \in Same(s) |-> s[n].old]
            w == [n \in Same(s) |-> s[n].new]
            S == {v[n] : n \in Same(s)}
            T == {w[n] : n \in Same(s)}
            f == [n \in 1..m |-> v[e[n]]]
            g == [n \in 1..m |-> w[e[n]]]
<1>4. Rising(v, Same(s)) /\ Rising(w, Same(s))
    BY <1>2, <1>3 DEF Whole, Ordered, Rising
<1>5. S \subseteq DOMAIN a /\ T \subseteq DOMAIN b
    BY <1>2
<1>6. Same(s) \subseteq Nat
    BY <1>3
<1>7. Lists(f, S) /\ Lists(g, T)
  <2>1. Through(f, S, v, e, Same(s)) /\ Through(g, T, w, e, Same(s))
    BY <1>1 DEF Through
  <2>. HIDE DEF f, g, S, T, v, w
  <2>. QED
    BY <1>1, <1>4, <1>6, <2>1, ListsThrough
<1>8. Select(a, S) = [n \in 1..m |-> a[f[n]]] /\ Select(b, T) = [n \in 1..m |-> b[g[n]]]
  <2>1. DOMAIN f = 1..m /\ DOMAIN g = 1..m /\ S \cap DOMAIN a = S /\ T \cap DOMAIN b = T
    BY <1>5
  <2>. HIDE DEF f, g, S, T
  <2>0. Lists(f, S \cap DOMAIN a) /\ Lists(g, T \cap DOMAIN b)
    BY <1>7, <2>1
  <2>2. Picks(Select(a, S), a, S, f)
    BY <2>0, SelectBy
  <2>3. Picks(Select(b, T), b, T, g)
    BY <2>0, SelectBy
  <2>. QED
    BY <2>1, <2>2, <2>3 DEF Picks
<1>9. \A n \in 1..m : e[n] \in Same(s)
    BY <1>1 DEF Lists
<1>10. \A n \in 1..m : a[f[n]] = b[g[n]] /\ a[f[n]] \in A
    BY <1>2, <1>9
<1>. HIDE DEF f, g, S, T
<1>11. Select(a, S) = Select(b, T)
    BY <1>8, <1>10
<1>12. Len(Select(a, S)) = m
  <2>1. [n \in 1..m |-> a[f[n]]] \in Seq(A)
    BY <1>10
  <2>. QED
    BY <1>8, <2>1
<1>. QED
    BY <1>5, <1>11, <1>12 DEF Subsequences

\* What the table says at its first corner.
LEMMA LongestIs ==
    ASSUME NEW A, NEW a \in Seq(A), NEW b \in Seq(A)
    PROVE  /\ Longest(a, b) = InCommon(a, b)[<<1, 1>>]
           /\ Longest(a, b) \in Nat
           /\ Count(Align(a, b), "same") = Longest(a, b)
           /\ Counted(Align(a, b), Longest(a, b))
<1>. DEFINE m == InCommon(a, b)[<<1, 1>>]
            N == {Len(x) : x \in Subsequences(a) \cap Subsequences(b)}
            s == Align(a, b)
<1>1. m \in Nat
  <2>1. 1 \in 1..(Len(a) + 1) /\ 1 \in 1..(Len(b) + 1)
    OBVIOUS
  <2>. QED
    BY <2>1, TableType
<1>2. s \in Seq(PlainOps) /\ Whole(s, a, b, 1, 1) /\ Counted(s, m)
    BY WalkIsWhole DEF Walked
<1>. HIDE DEF m, s
<1>3. m \in N
    BY <1>1, <1>2, SameMatches
<1>4. N \subseteq Nat
    BY CommonIs
<1>5. \A n \in N : n <= m
  <2>. SUFFICES ASSUME NEW x \in Subsequences(a) \cap Subsequences(b) PROVE Len(x) <= m
    OBVIOUS
  <2>1. Len(x) \in Nat
    BY CommonIs
  <2>2. PICK f, g : Matching(f, g, Len(x), a, b, 1, 1)
    BY CommonIs
  <2>. QED
    BY <2>1, <2>2, TableBounds DEF m
<1>6. Max(N) = m
  <2>. HIDE DEF N
  <2>. QED
    BY <1>3, <1>4, <1>5, MaxIs
<1>7. Longest(a, b) = m
    BY <1>6 DEF Longest
<1>8. Count(s, "same") = m
    BY <1>1, <1>2, CountIs
<1>. QED
    BY <1>1, <1>2, <1>7, <1>8 DEF s, m

-----------------------------------------------------------------------------
(* The recursion over the lines of a diff has a solution.                    *)

LEMMA EndOfRunIs ==
    ASSUME NEW T, NEW s \in Seq(T), NEW i \in 1..(Len(s) + 1), NEW kind
    PROVE  /\ EndOfRun(s, i, kind) \in i..(Len(s) + 1)
           /\ \A m \in i..(EndOfRun(s, i, kind) - 1) : m \in 1..Len(s) /\ s[m].kind = kind
           /\ i <= Len(s) /\ s[i].kind = kind => EndOfRun(s, i, kind) > i
<1>. DEFINE L == Len(s)
            N == {L + 1} \cup {k \in i..L : s[k].kind # kind}
            e == EndOfRun(s, i, kind)
<1>1. L \in Nat /\ i \in Nat /\ i <= L + 1 /\ i >= 1
    OBVIOUS
<1>. HIDE DEF L
<1>2. N \in SUBSET Nat /\ N # {}
    BY <1>1
<1>3. \E x \in N : \A y \in N : x <= y
  <2>. HIDE DEF N
  <2>. QED
    BY <1>2, LeastExists
<1>4. e \in N /\ \A y \in N : e <= y
  <2>1. e = CHOOSE x \in N : \A y \in N : x <= y
    BY DEF EndOfRun, Min, L
  <2>. HIDE DEF N, e
  <2>. QED
    BY <1>3, <2>1
<1>. HIDE DEF e
<1>5. e \in i..(L + 1)
    BY <1>1, <1>4
<1>6. \A m \in i..(e - 1) : m \in 1..L /\ s[m].kind = kind
  <2>. SUFFICES ASSUME NEW m \in i..(e - 1) PROVE m \in 1..L /\ s[m].kind = kind
    OBVIOUS
  <2>1. m \in 1..L /\ m \in i..L /\ ~(e <= m)
    BY <1>1, <1>5
  <2>2. m \notin N
    BY <1>4, <2>1
  <2>. QED
    BY <2>1, <2>2
<1>7. i <= L /\ s[i].kind = kind => e # i
    BY <1>1, <1>4
<1>. QED
    BY <1>1, <1>5, <1>6, <1>7 DEF L, e

RefinedStep(s, from, i) ==
    IF i > Len(s) THEN <<>>
    ELSE IF s[i].kind # "del" THEN <<s[i]>> \o from[i + 1]
    ELSE LET j == EndOfRun(s, i, "del")
             k == EndOfRun(s, j, "add")
         IN  Paired(SubSeq(s, i, j - 1), SubSeq(s, j, k - 1)) \o from[k]

\* The last n positions, the one past the end included.
Rear(s, n) == {i \in 1..(Len(s) + 1) : Len(s) + 1 - i < n}

LEMMA RefinedLocal ==
    ASSUME NEW T, NEW s \in Seq(T), NEW i \in 1..(Len(s) + 1), NEW u, NEW v,
           \A x \in (i + 1)..(Len(s) + 1) : u[x] = v[x]
    PROVE  RefinedStep(s, u, i) = RefinedStep(s, v, i)
<1>. DEFINE j == EndOfRun(s, i, "del")
            k == EndOfRun(s, j, "add")
<1>1. Len(s) \in Nat /\ i \in Nat
    OBVIOUS
<1>2. CASE i > Len(s)
    BY <1>2 DEF RefinedStep
<1>3. CASE ~(i > Len(s)) /\ s[i].kind # "del"
  <2>1. u[i + 1] = v[i + 1]
    BY <1>1, <1>3
  <2>. QED
    BY <1>3, <2>1 DEF RefinedStep
<1>4. CASE ~(i > Len(s)) /\ s[i].kind = "del"
  <2>1. j \in i..(Len(s) + 1) /\ j > i
    BY <1>1, <1>4, EndOfRunIs
  <2>2. j \in 1..(Len(s) + 1)
    BY <1>1, <2>1
  <2>. HIDE DEF j
  <2>3. k \in j..(Len(s) + 1)
    BY <2>2, EndOfRunIs
  <2>. HIDE DEF k
  <2>4. u[k] = v[k]
    BY <1>1, <2>1, <2>3
  <2>. QED
    BY <1>4, <2>4 DEF RefinedStep, j, k
<1>. QED
    BY <1>2, <1>3, <1>4

LEMMA RefinedSolved ==
    ASSUME NEW T, NEW s \in Seq(T)
    PROVE  RefinedFrom(s) = [i \in 1..(Len(s) + 1) |-> RefinedStep(s, RefinedFrom(s), i)]
<1>. DEFINE Ok(n) == \E u : u = [i \in Rear(s, n) |-> RefinedStep(s, u, i)]
            Good == {n \in Nat : Ok(n)}
<1>0. Len(s) \in Nat
    OBVIOUS
<1>1. Ok(0)
  <2>. DEFINE u == [c \in {} |-> 0]
  <2>1. Rear(s, 0) = {}
    BY <1>0 DEF Rear
  <2>2. u = [i \in Rear(s, 0) |-> RefinedStep(s, u, i)]
    BY <2>1
  <2>. HIDE DEF u
  <2>. QED
    BY <2>2
<1>2. ASSUME NEW n \in Nat, Ok(n) PROVE Ok(n + 1)
  <2>1. PICK u : u = [i \in Rear(s, n) |-> RefinedStep(s, u, i)]
    BY <1>2
  <2>. DEFINE v == [i \in Rear(s, n + 1) |-> RefinedStep(s, u, i)]
  <2>2. \A i \in Rear(s, n) : u[i] = RefinedStep(s, u, i)
    BY <2>1
  <2>3. \A i \in Rear(s, n + 1) : v[i] = RefinedStep(s, u, i)
    OBVIOUS
  <2>4. \A i \in Rear(s, n) : u[i] = v[i]
    <3>1. \A i \in Rear(s, n) : i \in Rear(s, n + 1)
      BY <1>0 DEF Rear
    <3>. HIDE DEF v
    <3>. QED
      BY <2>2, <2>3, <3>1
  <2>. HIDE DEF v
  <2>5. \A i \in Rear(s, n + 1) : RefinedStep(s, u, i) = RefinedStep(s, v, i)
    <3>. SUFFICES ASSUME NEW i \in Rear(s, n + 1) PROVE RefinedStep(s, u, i) = RefinedStep(s, v, i)
      OBVIOUS
    <3>1. i \in 1..(Len(s) + 1) /\ Len(s) + 1 - i < n + 1
      BY DEF Rear
    <3>2. \A x \in (i + 1)..(Len(s) + 1) : x \in Rear(s, n)
      BY <1>0, <3>1 DEF Rear
    <3>. QED
      BY <2>4, <3>1, <3>2, RefinedLocal
  <2>6. v = [i \in Rear(s, n + 1) |-> RefinedStep(s, v, i)]
    BY <2>5 DEF v
  <2>. QED
    BY <2>6
<1>. HIDE DEF Ok
<1>3. Ok(Len(s) + 1)
  <2>1. 0 \in Good /\ \A n \in Nat : n \in Good => n + 1 \in Good
    BY <1>1, <1>2
  <2>2. Nat \subseteq Good
    BY <2>1, FromZeroOn
  <2>. QED
    BY <1>0, <2>2
<1>4. Rear(s, Len(s) + 1) = 1..(Len(s) + 1)
    BY <1>0 DEF Rear
<1>5. \E u : u = [i \in 1..(Len(s) + 1) |-> RefinedStep(s, u, i)]
    BY <1>3, <1>4 DEF Ok
<1>. DEFINE u == CHOOSE u : u = [i \in 1..(Len(s) + 1) |-> RefinedStep(s, u, i)]
<1>6. u = [i \in 1..(Len(s) + 1) |-> RefinedStep(s, u, i)]
    BY <1>5, Zenon
<1>7. RefinedFrom(s) = u
    BY DEF RefinedFrom, RefinedStep
<1>. HIDE DEF u
<1>. QED
    BY <1>6, <1>7

LEMMA RefinedIs ==
    ASSUME NEW T, NEW s \in Seq(T), NEW i \in 1..(Len(s) + 1)
    PROVE  RefinedFrom(s)[i] = RefinedStep(s, RefinedFrom(s), i)
<1>. DEFINE u == RefinedFrom(s)
<1>1. u = [x \in 1..(Len(s) + 1) |-> RefinedStep(s, u, x)]
    BY RefinedSolved
<1>. HIDE DEF u
<1>2. u[i] = RefinedStep(s, u, i)
    BY <1>1
<1>. QED
    BY <1>2 DEF u

\* What holds at a position whenever it holds at all later ones holds from the first on.
LEMMA FromTheEnd ==
    ASSUME NEW L \in Nat, NEW C,
           \A i \in 1..(L + 1) : (\A k \in (i + 1)..(L + 1) : k \in C) => i \in C
    PROVE  1 \in C
<1>. DEFINE Bad == {n \in Nat : n <= L /\ L + 1 - n \notin C}
<1>. SUFFICES ASSUME 1 \notin C PROVE FALSE
    OBVIOUS
<1>1. L \in Bad
    OBVIOUS
<1>2. PICK n \in Bad : \A y \in Bad : n <= y
  <2>1. Bad \in SUBSET Nat /\ Bad # {}
    BY <1>1
  <2>. HIDE DEF Bad
  <2>. QED
    BY <2>1, LeastExists
<1>3. n \in Nat /\ n <= L /\ L + 1 - n \notin C /\ L + 1 - n \in 1..(L + 1)
    OBVIOUS
<1>4. ASSUME NEW k \in ((L + 1 - n) + 1)..(L + 1) PROVE k \in C
  <2>1. L + 1 - k \in Nat /\ L + 1 - k <= L /\ L + 1 - (L + 1 - k) = k /\ ~(n <= L + 1 - k)
    BY <1>3
  <2>2. L + 1 - k \notin Bad
    BY <1>2, <2>1
  <2>. QED
    BY <2>1, <2>2
<1>. QED
    BY <1>3, <1>4

-----------------------------------------------------------------------------
(* A pair of lines refined.                                                  *)

AnyWord == UNION {{Words[l][t] : t \in DOMAIN Words[l]} : l \in Lines}

LEMMA WordsAre == ASSUME NEW l \in Lines PROVE Words[l] \in Seq(AnyWord)
<1>1. Words[l] \in Seq({Words[l][t] : t \in DOMAIN Words[l]})
    BY WordsType
<1>2. {Words[l][t] : t \in DOMAIN Words[l]} \subseteq AnyWord
    BY DEF AnyWord
<1>. QED
    BY <1>1, <1>2

\* The finite set of the words of a line.
LEMMA WordSetFinite ==
    ASSUME NEW l \in Lines
    PROVE  LET A == {Words[l][t] : t \in DOMAIN Words[l]}
           IN  IsFiniteSet(A) /\ Cardinality(A) \in Nat /\ (Cardinality(A) = 0 <=> A = {})
<1>. DEFINE w == Words[l]
            A == {w[t] : t \in DOMAIN w}
<1>1. w \in Seq(A)
    BY WordsType
<1>. HIDE DEF w
<1>2. Len(w) \in Nat /\ DOMAIN w = 1..Len(w)
    BY <1>1
<1>3. IsFiniteSet(1..Len(w))
    BY <1>2, FS_Interval
<1>. DEFINE f == [t \in 1..Len(w) |-> w[t]]
<1>4. f \in Surjection(1..Len(w), A)
  <2>1. f \in [1..Len(w) -> A]
    BY <1>2
  <2>2. \A x \in A : \E t \in 1..Len(w) : f[t] = x
    BY <1>2
  <2>. QED
    BY <2>1, <2>2 DEF Surjection
<1>5. IsFiniteSet(A)
  <2>. HIDE DEF A, f
  <2>. QED
    BY <1>3, <1>4, FS_Surjection
<1>6. Cardinality(A) \in Nat /\ (Cardinality(A) = 0 <=> A = {})
  <2>. HIDE DEF A
  <2>. QED
    BY <1>5, FS_CardinalityType, FS_EmptySet
<1>. QED
    BY <1>5, <1>6 DEF w

LEMMA SimilarMeets ==
    ASSUME NEW x \in Lines, NEW y \in Lines, Similar(x, y), Words[x] # <<>>
    PROVE  \E t \in DOMAIN Words[x], u \in DOMAIN Words[y] : Words[x][t] = Words[y][u]
<1>. DEFINE A == {Words[x][t] : t \in DOMAIN Words[x]}
            B == {Words[y][t] : t \in DOMAIN Words[y]}
<1>1. /\ IsFiniteSet(A) /\ Cardinality(A) \in Nat /\ (Cardinality(A) = 0 <=> A = {})
      /\ IsFiniteSet(B) /\ Cardinality(B) \in Nat /\ (Cardinality(B) = 0 <=> B = {})
    BY WordSetFinite
<1>2. A # {}
  <2>1. Words[x] \in Seq(AnyWord)
    BY WordsAre
  <2>2. 1 \in DOMAIN Words[x]
    BY <2>1
  <2>. QED
    BY <2>2
<1>3. A \cap B # {}
  <2>. SUFFICES ASSUME A \cap B = {} PROVE FALSE
    OBVIOUS
  <2>1. 100 * Cardinality(A \cap B) >= 35 * Max({Cardinality(A), Cardinality(B)})
    BY <1>2 DEF Similar
  <2>. DEFINE p == Cardinality(A)
              q == Cardinality(B)
              m == Max({p, q})
  <2>2. m \in {p, q} /\ m >= p /\ m >= q
    <3>1. p \in Nat /\ q \in Nat
      BY <1>1
    <3>. HIDE DEF p, q
    <3>2. \E e \in {p, q} : \A z \in {p, q} : e >= z
      BY <3>1
    <3>. QED
      BY <3>2 DEF Max
  <2>3. Cardinality(A \cap B) = 0
    BY FS_EmptySet
  <2>4. p \in Nat /\ q \in Nat /\ p # 0
    BY <1>1, <1>2
  <2>5. 100 * 0 >= 35 * m
    BY <2>1, <2>3
  <2>. HIDE DEF p, q, m
  <2>. QED
    BY <2>2, <2>4, <2>5
<1>. QED
    BY <1>3

LEMMA SimilarShares ==
    ASSUME NEW x \in Lines, NEW y \in Lines, Similar(x, y), Words[x] # <<>>
    PROVE  Longest(Words[x], Words[y]) >= 1
<1>. DEFINE a == Words[x]
            b == Words[y]
<1>1. a \in Seq(AnyWord) /\ b \in Seq(AnyWord)
    BY WordsAre
<1>2. PICK t \in DOMAIN a, u \in DOMAIN b : a[t] = b[u]
    BY SimilarMeets
<1>. HIDE DEF a, b
<1>. DEFINE f == [n \in 1..1 |-> t]
            g == [n \in 1..1 |-> u]
<1>3. Matching(f, g, 1, a, b, 1, 1)
  <2>1. \A n \in 1..1 : f[n] = t /\ g[n] = u /\ t >= 1 /\ u >= 1
    BY <1>1
  <2>2. \A m, n \in 1..1 : ~(m < n)
    OBVIOUS
  <2>. HIDE DEF f, g
  <2>. QED
    BY <1>2, <2>1, <2>2 DEF Matching
<1>4. 1 <= InCommon(a, b)[<<1, 1>>]
    BY <1>1, <1>3, TableBounds
<1>5. Longest(a, b) = InCommon(a, b)[<<1, 1>>] /\ Longest(a, b) \in Nat
    BY <1>1, LongestIs
<1>. QED
    BY <1>4, <1>5 DEF a, b

Unadded(s) == {t \in DOMAIN s : s[t].kind # "add"}
Undeleted(s) == {t \in DOMAIN s : s[t].kind # "del"}

\* The tokens that are not added, in the order of the words they stand for.
LEMMA DelsAre ==
    ASSUME NEW A, NEW from \in Seq(A), NEW to \in Seq(A), NEW s \in Seq(PlainOps), Whole(s, from, to, 1, 1),
           NEW dels, dels = Select(s, Unadded(s))
    PROVE  /\ DOMAIN dels = DOMAIN from
           /\ \A n \in DOMAIN from : dels[n].old = n
           /\ \A x \in DOMAIN s : s[x].kind # "add" => s[x].old \in DOMAIN from /\ dels[s[x].old] = s[x]
           /\ \A n \in DOMAIN from : \E x \in DOMAIN s : s[x].kind # "add" /\ s[x] = dels[n]
<1>. DEFINE S == Unadded(s)
<1>. USE DEF Unadded
<1>1. \A t \in DOMAIN s : /\ s[t].old \in Nat /\ s[t].kind # "add" <=> s[t].old # 0
                          /\ s[t].kind # "add" => s[t].old \in DOMAIN from
    BY DEF Whole, Sound
<1>2. OldSide(s) = [k \in DOMAIN from |-> k]
    BY WholeSides
<1>3. {t \in DOMAIN s : s[t].old # 0} = S
    BY <1>1
<1>4. OldSide(s) = [k \in DOMAIN dels |-> dels[k].old]
    BY <1>3 DEF OldSide
<1>5. DOMAIN dels = DOMAIN from /\ \A n \in DOMAIN from : dels[n].old = n
  <2>1. DOMAIN OldSide(s) = DOMAIN dels /\ DOMAIN OldSide(s) = DOMAIN from
    BY <1>2, <1>4
  <2>2. \A n \in DOMAIN from : OldSide(s)[n] = n /\ OldSide(s)[n] = dels[n].old
    BY <1>2, <1>4, <2>1
  <2>. QED
    BY <2>1, <2>2
<1>6. PICK c : Picks(dels, s, S, c)
    BY SelectPicks
<1>7. Lists(c, S) /\ dels = [n \in DOMAIN c |-> s[c[n]]]
  <2>1. S \cap DOMAIN s = S
    OBVIOUS
  <2>. QED
    BY <1>6, <2>1 DEF Picks
<1>8. \A n \in DOMAIN dels : c[n] \in S /\ dels[n] = s[c[n]]
    BY <1>7 DEF Lists
<1>9. \A x \in S : \E n \in DOMAIN dels : c[n] = x
    BY <1>7 DEF Lists
<1>10. \A x \in S : dels[s[x].old] = s[x]
  <2>. SUFFICES ASSUME NEW x \in S PROVE dels[s[x].old] = s[x]
    OBVIOUS
  <2>1. PICK n \in DOMAIN dels : c[n] = x
    BY <1>9
  <2>2. dels[n] = s[x] /\ dels[n].old = n
    BY <1>5, <1>8, <2>1
  <2>. QED
    BY <2>2
<1>. QED
    BY <1>1, <1>5, <1>8, <1>10

\* The tokens that are not deleted, in the order of the words they stand for.
LEMMA AddsAre ==
    ASSUME NEW A, NEW from \in Seq(A), NEW to \in Seq(A), NEW s \in Seq(PlainOps), Whole(s, from, to, 1, 1),
           NEW adds, adds = Select(s, Undeleted(s))
    PROVE  /\ DOMAIN adds = DOMAIN to
           /\ \A n \in DOMAIN to : adds[n].new = n
           /\ \A x \in DOMAIN s : s[x].kind # "del" => s[x].new \in DOMAIN to /\ adds[s[x].new] = s[x]
           /\ \A n \in DOMAIN to : \E x \in DOMAIN s : s[x].kind # "del" /\ s[x] = adds[n]
<1>. DEFINE S == Undeleted(s)
<1>. USE DEF Undeleted
<1>1. \A t \in DOMAIN s : /\ s[t].new \in Nat /\ s[t].kind # "del" <=> s[t].new # 0
                          /\ s[t].kind # "del" => s[t].new \in DOMAIN to
    BY DEF Whole, Sound
<1>2. NewSide(s) = [k \in DOMAIN to |-> k]
    BY WholeSides
<1>3. {t \in DOMAIN s : s[t].new # 0} = S
    BY <1>1
<1>4. NewSide(s) = [k \in DOMAIN adds |-> adds[k].new]
    BY <1>3 DEF NewSide
<1>5. DOMAIN adds = DOMAIN to /\ \A n \in DOMAIN to : adds[n].new = n
  <2>1. DOMAIN NewSide(s) = DOMAIN adds /\ DOMAIN NewSide(s) = DOMAIN to
    BY <1>2, <1>4
  <2>2. \A n \in DOMAIN to : NewSide(s)[n] = n /\ NewSide(s)[n] = adds[n].new
    BY <1>2, <1>4, <2>1
  <2>. QED
    BY <2>1, <2>2
<1>6. PICK c : Picks(adds, s, S, c)
    BY SelectPicks
<1>7. Lists(c, S) /\ adds = [n \in DOMAIN c |-> s[c[n]]]
  <2>1. S \cap DOMAIN s = S
    OBVIOUS
  <2>. QED
    BY <1>6, <2>1 DEF Picks
<1>8. \A n \in DOMAIN adds : c[n] \in S /\ adds[n] = s[c[n]]
    BY <1>7 DEF Lists
<1>9. \A x \in S : \E n \in DOMAIN adds : c[n] = x
    BY <1>7 DEF Lists
<1>10. \A x \in S : adds[s[x].new] = s[x]
  <2>. SUFFICES ASSUME NEW x \in S PROVE adds[s[x].new] = s[x]
    OBVIOUS
  <2>1. PICK n \in DOMAIN adds : c[n] = x
    BY <1>9
  <2>2. adds[n] = s[x] /\ adds[n].new = n
    BY <1>5, <1>8, <2>1
  <2>. QED
    BY <2>2
<1>. QED
    BY <1>1, <1>5, <1>8, <1>10

\* The words w, of which those in S are kept,
Marked(h, w, keep, S) ==
    /\ h = [t \in DOMAIN w |-> [word |-> w[t], kept |-> keep[t]]]
    /\ \A t \in DOMAIN w : keep[t] \in BOOLEAN
    /\ S = {t \in DOMAIN w : keep[t]}
\* and those at the places f alone.
Unmarked(w, f) == [n \in DOMAIN f |-> [word |-> w[f[n]], kept |-> TRUE]]

LEMMA KeptIs ==
    ASSUME NEW A, NEW w \in Seq(A), NEW op, NEW keep, NEW S, Marked(op.html, w, keep, S), NEW f, Lists(f, S)
    PROVE  KeptWords(op) = Unmarked(w, f)
<1>. USE DEF Marked
<1>. DEFINE h == op.html
            R == [word : A, kept : BOOLEAN]
<1>1. DOMAIN h = DOMAIN w /\ \A t \in DOMAIN w : h[t] = [word |-> w[t], kept |-> keep[t]]
    OBVIOUS
<1>2. h \in Seq(R)
  <2>1. \A t \in DOMAIN w : w[t] \in A
    OBVIOUS
  <2>2. h = [t \in 1..Len(w) |-> h[t]] /\ Len(w) \in Nat /\ DOMAIN w = 1..Len(w)
    OBVIOUS
  <2>3. \A t \in 1..Len(w) : h[t] \in R
    BY <1>1, <2>1, <2>2
  <2>. HIDE DEF h, R
  <2>. QED
    BY <2>2, <2>3
<1>. HIDE DEF h, R
<1>3. {t \in DOMAIN h : h[t].kept} = S
    BY <1>1
<1>4. S \cap DOMAIN h = S
    BY <1>1
<1>5. Picks(Select(h, S), h, S, f)
    BY <1>2, <1>4, SelectBy
<1>6. KeptWords(op) = Select(h, S)
    BY <1>3 DEF KeptWords, h
<1>7. KeptWords(op) = [n \in DOMAIN f |-> h[f[n]]]
    BY <1>5, <1>6 DEF Picks
<1>8. \A n \in DOMAIN f : f[n] \in S
    BY DEF Lists
<1>9. \A n \in DOMAIN f : h[f[n]] = [word |-> w[f[n]], kept |-> TRUE]
  <2>. SUFFICES ASSUME NEW n \in DOMAIN f PROVE h[f[n]] = [word |-> w[f[n]], kept |-> TRUE]
    OBVIOUS
  <2>1. f[n] \in DOMAIN w /\ keep[f[n]] = TRUE
    BY <1>8
  <2>. QED
    BY <1>1, <2>1
<1>. QED
    BY <1>7, <1>9 DEF Unmarked

\* What PairsAgree says of one pair.
Agree(d, a) ==
    /\ [t \in DOMAIN d.html |-> d.html[t].word] = Words[old[d.old]]
    /\ [t \in DOMAIN a.html |-> a.html[t].word] = Words[new[a.new]]
    /\ KeptWords(d) = KeptWords(a) /\ KeptWords(d) # <<>>
    /\ Len(KeptWords(d)) = Longest(Words[old[d.old]], Words[new[a.new]])

Shown == [kind : {"same", "del", "add"}, old : Nat, new : Nat, html : Seq([word : AnyWord, kept : BOOLEAN])]
Like(o, p) == o.kind = p.kind /\ o.old = p.old /\ o.new = p.new

LEMMA PlainIsShown == PlainOps \subseteq Shown
<1>. SUFFICES ASSUME NEW kind \in {"same", "del", "add"}, NEW i \in Nat, NEW j \in Nat PROVE Op(kind, i, j) \in Shown
    BY DEF PlainOps
<1>1. <<>> \in Seq([word : AnyWord, kept : BOOLEAN])
    OBVIOUS
<1>. QED
    BY <1>1 DEF Op, Shown

LEMMA RefinedAgree ==
    ASSUME NEW d \in PlainOps, NEW a \in PlainOps, old[d.old] \in Lines, new[a.new] \in Lines,
           Similar(old[d.old], new[a.new]), NEW r, r = RefinedPair(d, a)
    PROVE  /\ r[1] \in Shown /\ r[2] \in Shown /\ Like(r[1], d) /\ Like(r[2], a)
           /\ r[1].html # <<>> => Agree(r[1], r[2])
<1>. DEFINE from == Words[old[d.old]]
            to == Words[new[a.new]]
            s == Align(from, to)
            dels == Select(s, Unadded(s))
            adds == Select(s, Undeleted(s))
            m == Longest(from, to)
            kd == [t \in DOMAIN dels |-> dels[t].kind = "same"]
            ka == [t \in DOMAIN adds |-> adds[t].kind = "same"]
            hd == [t \in DOMAIN dels |-> [word |-> from[dels[t].old], kept |-> dels[t].kind = "same"]]
            ha == [t \in DOMAIN adds |-> [word |-> to[adds[t].new], kept |-> adds[t].kind = "same"]]
<1>1. from \in Seq(AnyWord) /\ to \in Seq(AnyWord)
    BY WordsAre
<1>2. r = <<[d EXCEPT !.html = hd], [a EXCEPT !.html = ha]>>
    BY DEF RefinedPair, Unadded, Undeleted
<1>3. m >= 1 \/ from = <<>>
    BY SimilarShares
<1>. HIDE DEF from, to
<1>4. s \in Seq(PlainOps) /\ Whole(s, from, to, 1, 1) /\ m \in Nat /\ Counted(s, m)
    BY <1>1, WalkIsWhole, LongestIs DEF Walked
<1>. HIDE DEF s, m
<1>5. /\ DOMAIN dels = DOMAIN from
      /\ \A n \in DOMAIN from : dels[n].old = n
      /\ \A x \in DOMAIN s : s[x].kind # "add" => s[x].old \in DOMAIN from /\ dels[s[x].old] = s[x]
      /\ \A n \in DOMAIN from : \E x \in DOMAIN s : s[x].kind # "add" /\ s[x] = dels[n]
  <2>1. dels = Select(s, Unadded(s))
    OBVIOUS
  <2>. HIDE DEF dels
  <2>. QED
    BY <1>1, <1>4, <2>1, DelsAre
<1>6. /\ DOMAIN adds = DOMAIN to
      /\ \A n \in DOMAIN to : adds[n].new = n
      /\ \A x \in DOMAIN s : s[x].kind # "del" => s[x].new \in DOMAIN to /\ adds[s[x].new] = s[x]
      /\ \A n \in DOMAIN to : \E x \in DOMAIN s : s[x].kind # "del" /\ s[x] = adds[n]
  <2>1. adds = Select(s, Undeleted(s))
    OBVIOUS
  <2>. HIDE DEF adds
  <2>. QED
    BY <1>1, <1>4, <2>1, AddsAre
<1>. HIDE DEF dels, adds
<1>7. /\ hd = [t \in DOMAIN from |-> [word |-> from[t], kept |-> kd[t]]] /\ \A t \in DOMAIN from : kd[t] \in BOOLEAN
      /\ ha = [t \in DOMAIN to |-> [word |-> to[t], kept |-> ka[t]]] /\ \A t \in DOMAIN to : ka[t] \in BOOLEAN
    BY <1>5, <1>6
<1>8. /\ \A t \in DOMAIN from : kd[t] <=> dels[t].kind = "same"
      /\ \A t \in DOMAIN to : ka[t] <=> adds[t].kind = "same"
    BY <1>5, <1>6
<1>. HIDE DEF kd, ka
<1>9. hd \in Seq([word : AnyWord, kept : BOOLEAN]) /\ ha \in Seq([word : AnyWord, kept : BOOLEAN])
  <2>. DEFINE R == [word : AnyWord, kept : BOOLEAN]
  <2>1. /\ Len(from) \in Nat /\ DOMAIN from = 1..Len(from) /\ \A t \in DOMAIN from : from[t] \in AnyWord
        /\ Len(to) \in Nat /\ DOMAIN to = 1..Len(to) /\ \A t \in DOMAIN to : to[t] \in AnyWord
    BY <1>1
  <2>. HIDE DEF hd, ha
  <2>2. \A t \in DOMAIN from : hd[t] \in R
    BY <1>7, <2>1
  <2>3. \A t \in DOMAIN to : ha[t] \in R
    BY <1>7, <2>1
  <2>4. hd = [t \in 1..Len(from) |-> hd[t]] /\ ha = [t \in 1..Len(to) |-> ha[t]]
    BY <1>7, <2>1
  <2>. HIDE DEF R
  <2>5. hd \in Seq(R) /\ ha \in Seq(R)
    BY <2>1, <2>2, <2>3, <2>4
  <2>. QED
    BY <2>5 DEF R
<1>. HIDE DEF hd, ha
<1>10. r[1] \in Shown /\ r[2] \in Shown /\ Like(r[1], d) /\ Like(r[2], a) /\ r[1].html = hd /\ r[2].html = ha
    BY <1>2, <1>9 DEF Like, Shown, PlainOps, Op
<1>11. /\ [t \in DOMAIN hd |-> hd[t].word] = from
       /\ [t \in DOMAIN ha |-> ha[t].word] = to
    BY <1>1, <1>7
<1>. DEFINE S == {t \in DOMAIN from : kd[t]}
            T == {t \in DOMAIN to : ka[t]}
<1>12. PICK e : Lists(e, Same(s)) /\ DOMAIN e = 1..m
    BY <1>4 DEF Counted
<1>. DEFINE v == [n \in Same(s) |-> s[n].old]
            w == [n \in Same(s) |-> s[n].new]
            f == [n \in DOMAIN e |-> v[e[n]]]
            g == [n \in DOMAIN e |-> w[e[n]]]
<1>13. \A x \in Same(s) : /\ x \in DOMAIN s /\ s[x].kind # "add" /\ s[x].kind # "del" /\ s[x].old # 0 /\ s[x].new # 0
                          /\ from[s[x].old] = to[s[x].new]
  <2>1. \A x \in Same(s) : x \in DOMAIN s /\ s[x].kind = "same"
    BY DEF Same
  <2>2. \A x \in Same(s) : s[x].old \in DOMAIN from /\ s[x].new \in DOMAIN to /\ from[s[x].old] = to[s[x].new]
    BY <1>4, <2>1 DEF Whole, Sound
  <2>. QED
    BY <1>1, <2>1, <2>2
<1>14. S = {v[x] : x \in Same(s)} /\ T = {w[x] : x \in Same(s)}
  <2>1. \A x \in Same(s) : s[x].old \in S /\ s[x].new \in T
    BY <1>5, <1>6, <1>8, <1>13 DEF Same
  <2>2. \A t \in S : \E x \in Same(s) : s[x].old = t
    <3>. SUFFICES ASSUME NEW t \in S PROVE \E x \in Same(s) : s[x].old = t
      OBVIOUS
    <3>1. PICK x \in DOMAIN s : s[x].kind # "add" /\ s[x] = dels[t]
      BY <1>5
    <3>. QED
      BY <1>5, <1>8, <3>1 DEF Same
  <2>3. \A t \in T : \E x \in Same(s) : s[x].new = t
    <3>. SUFFICES ASSUME NEW t \in T PROVE \E x \in Same(s) : s[x].new = t
      OBVIOUS
    <3>1. PICK x \in DOMAIN s : s[x].kind # "del" /\ s[x] = adds[t]
      BY <1>6
    <3>. QED
      BY <1>6, <1>8, <3>1 DEF Same
  <2>. QED
    BY <2>1, <2>2, <2>3
<1>15. Lists(f, S) /\ Lists(g, T)
  <2>1. Rising(v, Same(s)) /\ Rising(w, Same(s))
    BY <1>4, <1>13 DEF Whole, Ordered, Rising
  <2>2. Through(f, S, v, e, Same(s)) /\ Through(g, T, w, e, Same(s))
    BY <1>14 DEF Through
  <2>3. Same(s) \in SUBSET Nat
    BY <1>4 DEF Same
  <2>. HIDE DEF f, g, S, T, v, w
  <2>. QED
    BY <1>12, <2>1, <2>2, <2>3, ListsThrough
<1>16. KeptWords(r[1]) = Unmarked(from, f) /\ KeptWords(r[2]) = Unmarked(to, g)
  <2>1. Marked(r[1].html, from, kd, S) /\ Marked(r[2].html, to, ka, T)
    BY <1>7, <1>10 DEF Marked
  <2>. HIDE DEF f, g, S, T
  <2>. QED
    BY <1>1, <1>15, <2>1, KeptIs
<1>17. DOMAIN f = 1..m /\ DOMAIN g = 1..m /\ \A n \in 1..m : from[f[n]] = to[g[n]] /\ from[f[n]] \in AnyWord
  <2>1. \A n \in 1..m : e[n] \in Same(s)
    BY <1>12 DEF Lists
  <2>2. \A n \in 1..m : f[n] = s[e[n]].old /\ g[n] = s[e[n]].new
    BY <1>12, <2>1
  <2>3. \A n \in 1..m : f[n] \in DOMAIN from
    BY <1>5, <1>13, <2>1, <2>2
  <2>4. \A n \in 1..m : from[f[n]] = to[g[n]]
    BY <1>13, <2>1, <2>2
  <2>5. \A n \in 1..m : from[f[n]] \in AnyWord
    <3>1. \A t \in DOMAIN from : from[t] \in AnyWord
      BY <1>1
    <3>. HIDE DEF f
    <3>. QED
      BY <2>3, <3>1
  <2>. QED
    BY <1>12, <2>4, <2>5
<1>. HIDE DEF f, g
<1>18. KeptWords(r[1]) = KeptWords(r[2]) /\ Len(KeptWords(r[1])) = m
  <2>. DEFINE q == [n \in 1..m |-> [word |-> from[f[n]], kept |-> TRUE]]
  <2>1. KeptWords(r[1]) = q /\ KeptWords(r[2]) = q
    BY <1>16, <1>17 DEF Unmarked
  <2>2. q \in Seq([word : AnyWord, kept : BOOLEAN])
    BY <1>4, <1>17
  <2>3. Len(q) = m
    BY <1>4, <2>2
  <2>. QED
    BY <2>1, <2>3
<1>19. r[1].html # <<>> => m >= 1
  <2>1. hd # <<>> => from # <<>>
    BY <1>1, <1>7
  <2>. QED
    BY <1>3, <1>10, <2>1
<1>20. m >= 1 => KeptWords(r[1]) # <<>>
    BY <1>4, <1>18
<1>21. r[1].old = d.old /\ r[2].new = a.new
    BY <1>10 DEF Like
<1>. QED
    BY <1>10, <1>11, <1>18, <1>19, <1>20, <1>21 DEF Agree, from, to, m

-----------------------------------------------------------------------------
(* Pairing rearranges the lines and loses none.                              *)

\* t has the lines of s at the positions M, and no other.
Covers(t, s, M) ==
    /\ \A n \in DOMAIN t : \E m \in M : Like(t[n], s[m])
    /\ \A m \in M : \E n \in DOMAIN t : Like(t[n], s[m])

AllAgree(t) ==
    \A k \in DOMAIN t : t[k].kind = "del" /\ t[k].html # <<>> => k + 1 \in DOMAIN t /\ Agree(t[k], t[k + 1])

Tidy(t, s, M) == t \in Seq(Shown) /\ Covers(t, s, M) /\ Ordered(t) /\ AllAgree(t)

\* A line may stand before another: it is before it in s, or they are on different sides.
MayPrecede(s, m, n) == m < n \/ ((s[m].old = 0 \/ s[n].old = 0) /\ (s[m].new = 0 \/ s[n].new = 0))

LEMMA Joined ==
    ASSUME NEW s \in Seq(PlainOps), Ordered(s), NEW M, NEW N, M \subseteq DOMAIN s, N \subseteq DOMAIN s,
           NEW h, NEW r, Tidy(h, s, M), Tidy(r, s, N), \A m \in M, n \in N : MayPrecede(s, m, n)
    PROVE  Tidy(h \o r, s, M \cup N)
<1>. DEFINE t == h \o r
            p == Len(h)
            q == Len(r)
<1>1. h \in Seq(Shown) /\ r \in Seq(Shown)
    BY DEF Tidy
<1>2. /\ t \in Seq(Shown) /\ p \in Nat /\ q \in Nat /\ DOMAIN t = 1..(p + q)
      /\ DOMAIN h = 1..p /\ DOMAIN r = 1..q
      /\ \A n \in 1..p : t[n] = h[n] /\ n \in 1..(p + q)
      /\ \A n \in 1..q : t[p + n] = r[n] /\ p + n \in 1..(p + q)
    BY <1>1
<1>. HIDE DEF t, p, q
<1>3. \A n \in 1..(p + q) : n \in 1..p \/ (n - p \in 1..q /\ n = p + (n - p) /\ t[n] = r[n - p])
  <2>1. \A n \in 1..(p + q) : n \in 1..p \/ (n - p \in 1..q /\ n = p + (n - p))
    BY <1>2
  <2>. QED
    BY <1>2, <2>1
<1>4. Covers(t, s, M \cup N)
  <2>1. /\ \A n \in 1..p : \E m \in M : Like(h[n], s[m])
        /\ \A m \in M : \E n \in 1..p : Like(h[n], s[m])
        /\ \A n \in 1..q : \E m \in N : Like(r[n], s[m])
        /\ \A m \in N : \E n \in 1..q : Like(r[n], s[m])
    BY <1>2 DEF Tidy, Covers
  <2>2. \A n \in DOMAIN t : \E m \in M \cup N : Like(t[n], s[m])
    <3>. SUFFICES ASSUME NEW n \in 1..(p + q) PROVE \E m \in M \cup N : Like(t[n], s[m])
      BY <1>2
    <3>1. CASE n \in 1..p
      BY <1>2, <2>1, <3>1
    <3>2. CASE n - p \in 1..q /\ t[n] = r[n - p]
      BY <2>1, <3>2
    <3>. QED
      BY <1>3, <3>1, <3>2
  <2>3. \A m \in M \cup N : \E n \in DOMAIN t : Like(t[n], s[m])
    BY <1>2, <2>1
  <2>. QED
    BY <2>2, <2>3 DEF Covers
<1>5. Ordered(t)
  <2>. SUFFICES ASSUME NEW x \in DOMAIN t, NEW y \in DOMAIN t, x < y
                PROVE  /\ t[x].old # 0 /\ t[y].old # 0 => t[x].old < t[y].old
                       /\ t[x].new # 0 /\ t[y].new # 0 => t[x].new < t[y].new
    BY DEF Ordered
  <2>1. CASE y \in 1..p
    <3>1. x \in 1..p
      BY <1>2, <2>1
    <3>. QED
      BY <1>2, <2>1, <3>1 DEF Tidy, Ordered
  <2>2. CASE x \notin 1..p
    <3>1. x - p \in 1..q /\ t[x] = r[x - p]
      BY <1>2, <1>3, <2>2
    <3>2. y \notin 1..p
      BY <1>2, <2>2
    <3>3. y - p \in 1..q /\ t[y] = r[y - p]
      BY <1>2, <1>3, <3>2
    <3>4. x - p < y - p
      BY <1>2
    <3>. QED
      BY <1>2, <3>1, <3>3, <3>4 DEF Tidy, Ordered
  <2>3. CASE x \in 1..p /\ y \notin 1..p
    <3>1. PICK m \in M : Like(h[x], s[m])
      BY <1>2, <2>3 DEF Tidy, Covers
    <3>2. y - p \in 1..q /\ t[y] = r[y - p]
      BY <1>2, <1>3, <2>3
    <3>3. PICK n \in N : Like(r[y - p], s[n])
      BY <1>2, <3>2 DEF Tidy, Covers
    <3>4. /\ t[x].old = s[m].old /\ t[x].new = s[m].new
          /\ t[y].old = s[n].old /\ t[y].new = s[n].new
      BY <1>2, <2>3, <3>1, <3>2, <3>3 DEF Like
    <3>5. MayPrecede(s, m, n) /\ m \in DOMAIN s /\ n \in DOMAIN s
      OBVIOUS
    <3>. QED
      BY <3>4, <3>5 DEF MayPrecede, Ordered
  <2>. QED
    BY <2>1, <2>2, <2>3
<1>6. AllAgree(t)
  <2>. SUFFICES ASSUME NEW k \in DOMAIN t, t[k].kind = "del", t[k].html # <<>>
                PROVE  k + 1 \in DOMAIN t /\ Agree(t[k], t[k + 1])
    BY DEF AllAgree
  <2>1. CASE k \in 1..p
    <3>1. k + 1 \in 1..p /\ Agree(h[k], h[k + 1])
      BY <1>2, <2>1 DEF Tidy, AllAgree
    <3>. QED
      BY <1>2, <2>1, <3>1
  <2>2. CASE k \notin 1..p
    <3>1. k - p \in 1..q /\ t[k] = r[k - p]
      BY <1>2, <1>3, <2>2
    <3>2. (k - p) + 1 \in 1..q /\ Agree(r[k - p], r[(k - p) + 1])
      BY <1>2, <3>1 DEF Tidy, AllAgree
    <3>3. k + 1 = p + ((k - p) + 1)
      BY <1>2
    <3>. QED
      BY <1>2, <3>1, <3>2, <3>3
  <2>. QED
    BY <2>1, <2>2
<1>. QED
    BY <1>2, <1>4, <1>5, <1>6 DEF Tidy, t

\* t is s from i to before k.
Slice(t, s, i, k) == t \in Seq(PlainOps) /\ Len(t) = k - i /\ \A x \in 1..(k - i) : t[x] = s[i + x - 1]

LEMMA SubSeqSlice ==
    ASSUME NEW s \in Seq(PlainOps), NEW i \in 1..(Len(s) + 1), NEW k \in i..(Len(s) + 1)
    PROVE  Slice(SubSeq(s, i, k - 1), s, i, k)
<1>1. /\ Len(s) \in Nat /\ i \in Nat /\ k \in Nat /\ i <= k /\ k <= Len(s) + 1 /\ i >= 1
      /\ \A x \in 1..Len(s) : s[x] \in PlainOps
    OBVIOUS
<1>2. SubSeq(s, i, k - 1) = [x \in 1..(k - i) |-> s[i + x - 1]]
    BY <1>1
<1>3. \A x \in 1..(k - i) : i + x - 1 \in 1..Len(s)
    BY <1>1
<1>4. SubSeq(s, i, k - 1) \in Seq(PlainOps)
    BY <1>1, <1>2, <1>3
<1>5. Len(SubSeq(s, i, k - 1)) = k - i
    BY <1>1, <1>2, <1>4
<1>. QED
    BY <1>2, <1>4, <1>5 DEF Slice

LEMMA SliceSlice ==
    ASSUME NEW s \in Seq(PlainOps), NEW i \in 1..(Len(s) + 1), NEW k \in i..(Len(s) + 1), NEW t, Slice(t, s, i, k),
           NEW n \in 0..(k - i), NEW j, j = i + n
    PROVE  Slice(SubSeq(t, n + 1, Len(t)), s, j, k)
<1>1. /\ Len(s) \in Nat /\ i \in Nat /\ k \in Nat /\ i <= k /\ k <= Len(s) + 1 /\ i >= 1
      /\ t \in Seq(PlainOps) /\ Len(t) = k - i
    BY DEF Slice
<1>2. n + 1 \in 1..(Len(t) + 1) /\ Len(t) + 1 \in (n + 1)..(Len(t) + 1) /\ Len(t) + 1 - 1 = Len(t)
    BY <1>1
<1>3. Slice(SubSeq(t, n + 1, Len(t)), t, n + 1, Len(t) + 1)
  <2>. DEFINE a == n + 1
              b == Len(t) + 1
  <2>1. a \in 1..(Len(t) + 1) /\ b \in a..(Len(t) + 1)
    BY <1>2
  <2>. HIDE DEF a, b
  <2>2. Slice(SubSeq(t, a, b - 1), t, a, b)
    BY <1>1, <2>1, SubSeqSlice
  <2>3. b - 1 = Len(t)
    BY <1>1 DEF b
  <2>. QED
    BY <2>2, <2>3 DEF a, b
<1>. DEFINE r == SubSeq(t, n + 1, Len(t))
<1>. HIDE DEF r
<1>4. r \in Seq(PlainOps) /\ Len(r) = k - j /\ \A x \in 1..(k - j) : r[x] = t[n + x]
  <2>1. (Len(t) + 1) - (n + 1) = k - j /\ \A x \in 1..(k - j) : n + 1 + x - 1 = n + x
    BY <1>1
  <2>. QED
    BY <1>3, <2>1 DEF Slice, r
<1>5. \A x \in 1..(k - j) : n + x \in 1..(k - i) /\ i + (n + x) - 1 = j + x - 1
    BY <1>1
<1>6. ASSUME NEW x \in 1..(k - j) PROVE r[x] = s[j + x - 1]
  <2>1. n + x \in 1..(k - i) /\ i + (n + x) - 1 = j + x - 1 /\ r[x] = t[n + x]
    BY <1>4, <1>5
  <2>2. t[n + x] = s[i + (n + x) - 1]
    BY <2>1 DEF Slice
  <2>. QED
    BY <2>1, <2>2
<1>. QED
    BY <1>4, <1>6 DEF Slice, r

LEMMA SliceTidy ==
    ASSUME NEW s \in Seq(PlainOps), Ordered(s), NEW i \in 1..(Len(s) + 1), NEW k \in i..(Len(s) + 1), NEW t, Slice(t, s, i, k)
    PROVE  Tidy(t, s, i..(k - 1))
<1>1. /\ Len(s) \in Nat /\ i \in Nat /\ k \in Nat /\ i <= k /\ k <= Len(s) + 1 /\ i >= 1
      /\ t \in Seq(PlainOps) /\ Len(t) = k - i /\ DOMAIN t = 1..(k - i) /\ DOMAIN s = 1..Len(s)
      /\ \A x \in 1..(k - i) : t[x] = s[i + x - 1]
    BY DEF Slice
<1>2. \A x \in 1..(k - i) : i + x - 1 \in i..(k - 1) /\ i + x - 1 \in DOMAIN s
    BY <1>1
<1>3. \A m \in i..(k - 1) : m - i + 1 \in 1..(k - i) /\ i + (m - i + 1) - 1 = m
    BY <1>1
<1>4. t \in Seq(Shown)
    BY <1>1, PlainIsShown
<1>5. Covers(t, s, i..(k - 1))
  <2>1. \A x \in 1..(k - i) : Like(t[x], s[i + x - 1])
    BY <1>1 DEF Like
  <2>2. \A m \in i..(k - 1) : Like(t[m - i + 1], s[m])
    BY <1>3, <2>1
  <2>. QED
    BY <1>1, <1>2, <1>3, <2>1, <2>2 DEF Covers
<1>6. Ordered(t)
  <2>. SUFFICES ASSUME NEW x \in DOMAIN t, NEW y \in DOMAIN t, x < y
                PROVE  /\ t[x].old # 0 /\ t[y].old # 0 => t[x].old < t[y].old
                       /\ t[x].new # 0 /\ t[y].new # 0 => t[x].new < t[y].new
    BY DEF Ordered
  <2>1. i + x - 1 < i + y - 1
    BY <1>1
  <2>. QED
    BY <1>1, <1>2, <2>1 DEF Ordered
<1>7. AllAgree(t)
  <2>1. \A x \in DOMAIN t : t[x].html = <<>>
    BY <1>1 DEF PlainOps, Op
  <2>. QED
    BY <2>1 DEF AllAgree
<1>. QED
    BY <1>4, <1>5, <1>6, <1>7 DEF Tidy

LEMMA PairIs ==
    ASSUME NEW d \in PlainOps, NEW a \in PlainOps, old[d.old] \in Lines, new[a.new] \in Lines
    PROVE  /\ Pair(d, a)[1] \in Shown /\ Pair(d, a)[2] \in Shown /\ Like(Pair(d, a)[1], d) /\ Like(Pair(d, a)[2], a)
           /\ Pair(d, a)[1].html # <<>> => Agree(Pair(d, a)[1], Pair(d, a)[2])
<1>1. CASE Similar(old[d.old], new[a.new])
  <2>. DEFINE r == RefinedPair(d, a)
  <2>1. r = RefinedPair(d, a) /\ Pair(d, a) = r
    BY <1>1 DEF Pair
  <2>. HIDE DEF r
  <2>. QED
    BY <1>1, <2>1, RefinedAgree
<1>2. CASE ~Similar(old[d.old], new[a.new])
  <2>1. Pair(d, a) = <<d, a>>
    BY <1>2 DEF Pair
  <2>2. d.html = <<>>
    BY DEF PlainOps, Op
  <2>. QED
    BY <2>1, <2>2, PlainIsShown DEF Like
<1>. QED
    BY <1>1, <1>2

\* Two runs of lines: deletions from i on, additions from j on, to before k.
Runs(s, i, j, k) ==
    /\ i \in 1..(Len(s) + 1) /\ j \in i..(Len(s) + 1) /\ k \in j..(Len(s) + 1)
    /\ \A m \in i..(j - 1) : s[m].kind = "del"
    /\ \A m \in j..(k - 1) : s[m].kind = "add"

LEMMA RunsAre ==
    ASSUME NEW s \in Seq(PlainOps), NEW i, NEW j, NEW k, Runs(s, i, j, k)
    PROVE  /\ Len(s) \in Nat /\ DOMAIN s = 1..Len(s)
           /\ i \in Nat /\ j \in Nat /\ k \in Nat /\ 1 <= i /\ i <= j /\ j <= k /\ k <= Len(s) + 1
           /\ \A m \in i..(j - 1) : s[m].kind = "del"
           /\ \A m \in j..(k - 1) : s[m].kind = "add"
<1>. DEFINE L == Len(s)
<1>1. L \in Nat /\ DOMAIN s = 1..L
    OBVIOUS
<1>2. i \in 1..(L + 1) /\ j \in i..(L + 1) /\ k \in j..(L + 1)
    BY DEF Runs
<1>. HIDE DEF L
<1>3. i \in Nat /\ j \in Nat /\ k \in Nat /\ 1 <= i /\ i <= j /\ j <= k /\ k <= L + 1
    BY <1>1, <1>2
<1>. QED
    BY <1>1, <1>3 DEF Runs, L

LEMMA LikeInOrder ==
    ASSUME NEW s, Ordered(s), NEW m \in DOMAIN s, NEW n \in DOMAIN s, m < n,
           NEW d, NEW a, Like(d, s[m]), Like(a, s[n])
    PROVE  /\ d.old # 0 /\ a.old # 0 => d.old < a.old
           /\ d.new # 0 /\ a.new # 0 => d.new < a.new
BY DEF Ordered, Like

LEMMA PairsTidy ==
    ASSUME old \in Seq(Lines), new \in Seq(Lines),
           NEW s \in Seq(PlainOps), Whole(s, old, new, 1, 1), NEW i, NEW j, NEW k, Runs(s, i, j, k),
           NEW dels, NEW adds, Slice(dels, s, i, j), Slice(adds, s, j, k), NEW n \in Nat, n <= j - i, n <= k - j
    PROVE  Tidy(Pairs(n, dels, adds), s, i..(i + n - 1) \cup j..(j + n - 1))
<1>. DEFINE t == Pairs(n, dels, adds)
            pair == [p \in 1..n |-> Pair(s[i + p - 1], s[j + p - 1])]
            M == i..(i + n - 1) \cup j..(j + n - 1)
<1>1. /\ Len(s) \in Nat /\ DOMAIN s = 1..Len(s)
      /\ i \in Nat /\ j \in Nat /\ k \in Nat /\ 1 <= i /\ i <= j /\ j <= k /\ k <= Len(s) + 1
      /\ \A m \in i..(j - 1) : s[m].kind = "del"
      /\ \A m \in j..(k - 1) : s[m].kind = "add"
    BY RunsAre
<1>2. \A p \in 1..n : /\ dels[p] = s[i + p - 1] /\ i + p - 1 \in DOMAIN s /\ s[i + p - 1].kind = "del" /\ i + p - 1 \in M
                      /\ adds[p] = s[j + p - 1] /\ j + p - 1 \in DOMAIN s /\ s[j + p - 1].kind = "add" /\ j + p - 1 \in M
  <2>1. ASSUME NEW p \in 1..n
        PROVE  /\ p \in 1..(j - i) /\ i + p - 1 \in 1..Len(s) /\ i + p - 1 \in i..(j - 1) /\ i + p - 1 \in i..(i + n - 1)
               /\ p \in 1..(k - j) /\ j + p - 1 \in 1..Len(s) /\ j + p - 1 \in j..(k - 1) /\ j + p - 1 \in j..(j + n - 1)
    <3>. DEFINE L == Len(s)
    <3>1. /\ L \in Nat /\ i \in Nat /\ j \in Nat /\ k \in Nat
          /\ 1 <= i /\ i <= j /\ j <= k /\ k <= L + 1 /\ n <= j - i /\ n <= k - j /\ p \in Nat /\ 1 <= p /\ p <= n
      BY <1>1
    <3>. HIDE DEF L
    <3>2. p \in 1..(j - i) /\ i + p - 1 \in 1..L /\ i + p - 1 \in i..(j - 1) /\ i + p - 1 \in i..(i + n - 1)
      BY <3>1
    <3>3. p \in 1..(k - j) /\ j + p - 1 \in 1..L /\ j + p - 1 \in j..(k - 1) /\ j + p - 1 \in j..(j + n - 1)
      BY <3>1
    <3>. QED
      BY <3>2, <3>3 DEF L
  <2>. QED
    BY <1>1, <2>1 DEF Slice
<1>3. t = [q \in 1..2 * n |-> pair[(q + 1) \div 2][2 - (q % 2)]]
  <2>1. \A q \in 1..2 * n : (q + 1) \div 2 \in 1..n
    OBVIOUS
  <2>. DEFINE pairs == [p \in 1..n |-> Pair(dels[p], adds[p])]
  <2>2. \A p \in 1..n : pairs[p] = pair[p]
    BY <1>2
  <2>3. t = [q \in 1..2 * n |-> pairs[(q + 1) \div 2][2 - (q % 2)]]
    BY DEF Pairs
  <2>. HIDE DEF pairs, t, pair
  <2>. QED
    BY <2>1, <2>2, <2>3
<1>. HIDE DEF t
<1>4. \A q \in 1..2 * n : \E p \in 1..n : q = 2 * p - 1 \/ q = 2 * p
  <2>. SUFFICES ASSUME NEW q \in 1..2 * n PROVE \E p \in 1..n : q = 2 * p - 1 \/ q = 2 * p
    OBVIOUS
  <2>1. (q + 1) \div 2 \in 1..n /\ (q = 2 * ((q + 1) \div 2) - 1 \/ q = 2 * ((q + 1) \div 2))
    OBVIOUS
  <2>. QED
    BY <2>1
<1>5. \A p \in 1..n : 2 * p - 1 \in 1..2 * n /\ 2 * p \in 1..2 * n /\ t[2 * p - 1] = pair[p][1] /\ t[2 * p] = pair[p][2]
  <2>. SUFFICES ASSUME NEW p \in 1..n
                PROVE  2 * p - 1 \in 1..2 * n /\ 2 * p \in 1..2 * n /\ t[2 * p - 1] = pair[p][1] /\ t[2 * p] = pair[p][2]
    OBVIOUS
  <2>1. /\ 2 * p - 1 \in 1..2 * n /\ (2 * p - 1 + 1) \div 2 = p /\ 2 - ((2 * p - 1) % 2) = 1
        /\ 2 * p \in 1..2 * n /\ (2 * p + 1) \div 2 = p /\ 2 - ((2 * p) % 2) = 2
    OBVIOUS
  <2>. HIDE DEF pair
  <2>. QED
    BY <1>3, <2>1
<1>6. DOMAIN t = 1..2 * n
    BY <1>3
<1>7. \A p \in 1..n : /\ pair[p][1] \in Shown /\ pair[p][2] \in Shown
                      /\ Like(pair[p][1], s[i + p - 1]) /\ Like(pair[p][2], s[j + p - 1])
                      /\ pair[p][1].html # <<>> => Agree(pair[p][1], pair[p][2])
  <2>. SUFFICES ASSUME NEW p \in 1..n
                PROVE  /\ pair[p][1] \in Shown /\ pair[p][2] \in Shown
                       /\ Like(pair[p][1], s[i + p - 1]) /\ Like(pair[p][2], s[j + p - 1])
                       /\ pair[p][1].html # <<>> => Agree(pair[p][1], pair[p][2])
    OBVIOUS
  <2>. DEFINE d == s[i + p - 1]
              a == s[j + p - 1]
  <2>1. d \in PlainOps /\ a \in PlainOps /\ Sound(d, old, new) /\ Sound(a, old, new) /\ d.kind = "del" /\ a.kind = "add"
    <3>1. \A x \in DOMAIN s : s[x] \in PlainOps
      OBVIOUS
    <3>2. \A x \in DOMAIN s : Sound(s[x], old, new)
      BY DEF Whole
    <3>. QED
      BY <1>2, <3>1, <3>2
  <2>. HIDE DEF d, a
  <2>2. old[d.old] \in Lines /\ new[a.new] \in Lines
    BY <2>1 DEF Sound
  <2>3. /\ Pair(d, a)[1] \in Shown /\ Pair(d, a)[2] \in Shown /\ Like(Pair(d, a)[1], d) /\ Like(Pair(d, a)[2], a)
        /\ Pair(d, a)[1].html # <<>> => Agree(Pair(d, a)[1], Pair(d, a)[2])
    BY <2>1, <2>2, PairIs
  <2>. QED
    BY <2>3 DEF d, a
<1>. HIDE DEF pair, M
<1>8. t \in Seq(Shown)
  <2>1. \A q \in 1..2 * n : t[q] \in Shown
    <3>. SUFFICES ASSUME NEW q \in 1..2 * n PROVE t[q] \in Shown
      OBVIOUS
    <3>1. PICK p \in 1..n : q = 2 * p - 1 \/ q = 2 * p
      BY <1>4
    <3>. QED
      BY <1>5, <1>7, <3>1
  <2>2. t \in [1..2 * n -> Shown]
    BY <1>3, <1>6, <2>1
  <2>. DEFINE L == 2 * n
  <2>3. t \in [1..L -> Shown] /\ L \in Nat
    BY <2>2
  <2>. HIDE DEF L
  <2>. QED
    BY <2>3
<1>9. \A q \in 1..2 * n : \E p \in 1..n : \/ q = 2 * p - 1 /\ t[q] = pair[p][1] /\ Like(t[q], s[i + p - 1])
                                          \/ q = 2 * p /\ t[q] = pair[p][2] /\ Like(t[q], s[j + p - 1])
  <2>. TAKE q \in 1..2 * n
  <2>1. PICK p \in 1..n : q = 2 * p - 1 \/ q = 2 * p
    BY <1>4
  <2>2. t[2 * p - 1] = pair[p][1] /\ t[2 * p] = pair[p][2] /\ Like(pair[p][1], s[i + p - 1]) /\ Like(pair[p][2], s[j + p - 1])
    BY <1>5, <1>7
  <2>3. \/ q = 2 * p - 1 /\ t[q] = pair[p][1] /\ Like(t[q], s[i + p - 1])
        \/ q = 2 * p /\ t[q] = pair[p][2] /\ Like(t[q], s[j + p - 1])
    <3>1. CASE q = 2 * p - 1
      BY <2>2, <3>1
    <3>2. CASE q = 2 * p
      BY <2>2, <3>2
    <3>. QED
      BY <2>1, <3>1, <3>2
  <2>. QED
    BY <2>3
<1>10. \A p \in 1..n : /\ s[i + p - 1].new = 0 /\ s[i + p - 1].old # 0
                       /\ s[j + p - 1].old = 0 /\ s[j + p - 1].new # 0
  <2>1. \A x \in DOMAIN s : /\ s[x].kind = "del" => s[x].new = 0 /\ s[x].old # 0
                            /\ s[x].kind = "add" => s[x].old = 0 /\ s[x].new # 0
    BY DEF Whole, Sound
  <2>. QED
    BY <1>2, <2>1
<1>11. Covers(t, s, M)
  <2>1. \A q \in DOMAIN t : \E m \in M : Like(t[q], s[m])
    BY <1>2, <1>6, <1>9
  <2>2. \A m \in i..(i + n - 1) : \E q \in DOMAIN t : Like(t[q], s[m])
    <3>. SUFFICES ASSUME NEW m \in i..(i + n - 1) PROVE \E q \in DOMAIN t : Like(t[q], s[m])
      OBVIOUS
    <3>. DEFINE p == m - i + 1
    <3>1. p \in 1..n /\ i + p - 1 = m
      BY <1>1
    <3>. HIDE DEF p
    <3>. QED
      BY <1>5, <1>6, <1>7, <3>1
  <2>3. \A m \in j..(j + n - 1) : \E q \in DOMAIN t : Like(t[q], s[m])
    <3>. SUFFICES ASSUME NEW m \in j..(j + n - 1) PROVE \E q \in DOMAIN t : Like(t[q], s[m])
      OBVIOUS
    <3>. DEFINE p == m - j + 1
    <3>1. p \in 1..n /\ j + p - 1 = m
      BY <1>1
    <3>. HIDE DEF p
    <3>. QED
      BY <1>5, <1>6, <1>7, <3>1
  <2>. QED
    BY <2>1, <2>2, <2>3 DEF Covers, M
<1>12. Ordered(t)
  <2>. SUFFICES ASSUME NEW x \in DOMAIN t, NEW y \in DOMAIN t, x < y
                PROVE  /\ t[x].old # 0 /\ t[y].old # 0 => t[x].old < t[y].old
                       /\ t[x].new # 0 /\ t[y].new # 0 => t[x].new < t[y].new
    BY DEF Ordered
  <2>1. PICK p \in 1..n : \/ x = 2 * p - 1 /\ Like(t[x], s[i + p - 1])
                          \/ x = 2 * p /\ Like(t[x], s[j + p - 1])
    BY <1>6, <1>9
  <2>2. PICK r \in 1..n : \/ y = 2 * r - 1 /\ Like(t[y], s[i + r - 1])
                          \/ y = 2 * r /\ Like(t[y], s[j + r - 1])
    BY <1>6, <1>9
  <2>3. CASE x = 2 * p - 1 /\ y = 2 * r - 1
    <3>0. i \in Nat /\ j \in Nat /\ p \in Nat /\ r \in Nat /\ p < r
      <4>1. p \in Nat /\ r \in Nat /\ 2 * p < 2 * r
        BY <2>3
      <4>2. i \in Nat /\ j \in Nat
        BY <1>1
      <4>. QED
        BY <4>1, <4>2
    <3>1. i + p - 1 \in DOMAIN s /\ i + r - 1 \in DOMAIN s
      BY <1>2
    <3>3. i + p - 1 < i + r - 1
      BY <3>0
    <3>2. Like(t[x], s[i + p - 1]) /\ Like(t[y], s[i + r - 1])
      BY <2>1, <2>2, <2>3
    <3>. QED
      BY <3>1, <3>2, <3>3, LikeInOrder DEF Whole
  <2>4. CASE x = 2 * p /\ y = 2 * r
    <3>0. i \in Nat /\ j \in Nat /\ p \in Nat /\ r \in Nat /\ p < r
      <4>1. p \in Nat /\ r \in Nat /\ 2 * p < 2 * r
        BY <2>4
      <4>2. i \in Nat /\ j \in Nat
        BY <1>1
      <4>. QED
        BY <4>1, <4>2
    <3>1. j + p - 1 \in DOMAIN s /\ j + r - 1 \in DOMAIN s
      BY <1>2
    <3>3. j + p - 1 < j + r - 1
      BY <3>0
    <3>2. Like(t[x], s[j + p - 1]) /\ Like(t[y], s[j + r - 1])
      BY <2>1, <2>2, <2>4
    <3>. QED
      BY <3>1, <3>2, <3>3, LikeInOrder DEF Whole
  <2>5. CASE x = 2 * p - 1 /\ y = 2 * r
    <3>1. Like(t[x], s[i + p - 1]) /\ Like(t[y], s[j + r - 1])
      BY <2>1, <2>2, <2>5
    <3>. QED
      BY <1>10, <3>1 DEF Like
  <2>6. CASE x = 2 * p /\ y = 2 * r - 1
    <3>1. Like(t[x], s[j + p - 1]) /\ Like(t[y], s[i + r - 1])
      BY <2>1, <2>2, <2>6
    <3>. QED
      BY <1>10, <3>1 DEF Like
  <2>. QED
    BY <2>1, <2>2, <2>3, <2>4, <2>5, <2>6
<1>13. AllAgree(t)
  <2>. SUFFICES ASSUME NEW x \in DOMAIN t, t[x].kind = "del", t[x].html # <<>>
                PROVE  x + 1 \in DOMAIN t /\ Agree(t[x], t[x + 1])
    BY DEF AllAgree
  <2>1. PICK p \in 1..n : \/ x = 2 * p - 1 /\ t[x] = pair[p][1]
                          \/ x = 2 * p /\ Like(t[x], s[j + p - 1])
    BY <1>6, <1>9
  <2>2. ~Like(t[x], s[j + p - 1])
    BY <1>2 DEF Like
  <2>3. x = 2 * p - 1 /\ t[x] = pair[p][1]
    BY <2>1, <2>2
  <2>4. x + 1 = 2 * p
    BY <2>3
  <2>. QED
    BY <1>5, <1>6, <1>7, <2>3, <2>4
<1>. QED
    BY <1>8, <1>11, <1>12, <1>13 DEF Tidy, t, M

LEMMA PairedTidy ==
    ASSUME old \in Seq(Lines), new \in Seq(Lines),
           NEW s \in Seq(PlainOps), Whole(s, old, new, 1, 1), NEW i, NEW j, NEW k, Runs(s, i, j, k),
           NEW dels, NEW adds, Slice(dels, s, i, j), Slice(adds, s, j, k)
    PROVE  Tidy(Paired(dels, adds), s, i..(k - 1))
<1>. DEFINE n == Min({Len(dels), Len(adds)})
            p == i + n
            q == j + n
            head == Pairs(n, dels, adds)
            moreDels == SubSeq(dels, n + 1, Len(dels))
            moreAdds == SubSeq(adds, n + 1, Len(adds))
<1>1. /\ Len(s) \in Nat /\ DOMAIN s = 1..Len(s) /\ Ordered(s)
      /\ i \in Nat /\ j \in Nat /\ k \in Nat /\ 1 <= i /\ i <= j /\ j <= k /\ k <= Len(s) + 1
      /\ i \in 1..(Len(s) + 1) /\ j \in i..(Len(s) + 1) /\ k \in j..(Len(s) + 1) /\ j \in 1..(Len(s) + 1)
      /\ \A m \in i..(j - 1) : s[m].kind = "del"
      /\ \A m \in j..(k - 1) : s[m].kind = "add"
  <2>1. /\ Len(s) \in Nat /\ DOMAIN s = 1..Len(s)
        /\ i \in Nat /\ j \in Nat /\ k \in Nat /\ 1 <= i /\ i <= j /\ j <= k /\ k <= Len(s) + 1
        /\ \A m \in i..(j - 1) : s[m].kind = "del"
        /\ \A m \in j..(k - 1) : s[m].kind = "add"
    BY RunsAre
  <2>2. Ordered(s)
    BY DEF Whole
  <2>3. i \in 1..(Len(s) + 1) /\ j \in i..(Len(s) + 1) /\ k \in j..(Len(s) + 1)
    BY DEF Runs
  <2>4. j \in 1..(Len(s) + 1)
    BY <2>1
  <2>. QED
    BY <2>1, <2>2, <2>3, <2>4
<1>2. Len(dels) = j - i /\ Len(adds) = k - j
    BY DEF Slice
<1>3. n \in Nat /\ n <= j - i /\ n <= k - j
  <2>. DEFINE x == j - i
              y == k - j
  <2>1. x \in Nat /\ y \in Nat /\ n = Min({x, y})
    BY <1>1, <1>2
  <2>. HIDE DEF x, y, n
  <2>2. \E e \in {x, y} : \A z \in {x, y} : e <= z
    BY <2>1
  <2>3. n \in {x, y} /\ n <= x /\ n <= y
    BY <2>1, <2>2 DEF Min
  <2>4. n \in Nat /\ n <= x /\ n <= y
    BY <2>1, <2>3
  <2>. QED
    BY <2>4 DEF x, y
<1>. HIDE DEF n
<1>4. p \in i..j /\ q \in j..k /\ p \in Nat /\ q \in Nat /\ p \in 1..(Len(s) + 1) /\ q \in 1..(Len(s) + 1)
    BY <1>1, <1>3
<1>5. Tidy(head, s, i..(p - 1) \cup j..(q - 1))
  <2>1. Tidy(Pairs(n, dels, adds), s, i..(i + n - 1) \cup j..(j + n - 1))
    BY <1>3, PairsTidy, Zenon
  <2>2. i + n - 1 = p - 1 /\ j + n - 1 = q - 1
    BY <1>1, <1>3
  <2>. QED
    BY <2>1, <2>2
<1>6. Tidy(moreDels, s, p..(j - 1))
  <2>1. p = i + n /\ n \in 0..(j - i)
    BY <1>1, <1>3
  <2>2. j \in p..(Len(s) + 1)
    BY <1>1, <1>4
  <2>. HIDE DEF p
  <2>3. Slice(moreDels, s, p, j)
    BY <1>1, <2>1, SliceSlice
  <2>. HIDE DEF moreDels
  <2>. QED
    BY <1>1, <1>4, <2>2, <2>3, SliceTidy
<1>7. Tidy(moreAdds, s, q..(k - 1))
  <2>1. q = j + n /\ n \in 0..(k - j)
    BY <1>1, <1>3
  <2>2. k \in q..(Len(s) + 1)
    BY <1>1, <1>4
  <2>. HIDE DEF q
  <2>3. Slice(moreAdds, s, q, k)
    BY <1>1, <2>1, SliceSlice
  <2>. HIDE DEF moreAdds
  <2>. QED
    BY <1>1, <1>4, <2>2, <2>3, SliceTidy
<1>. HIDE DEF p, q, head, moreDels, moreAdds
<1>8. /\ \A m \in i..(j - 1) : m \in DOMAIN s /\ s[m].new = 0
      /\ \A m \in j..(k - 1) : m \in DOMAIN s /\ s[m].old = 0
  <2>1. /\ \A m \in i..(j - 1) : m \in DOMAIN s
        /\ \A m \in j..(k - 1) : m \in DOMAIN s
    BY <1>1
  <2>2. \A x \in DOMAIN s : /\ s[x].kind = "del" => s[x].new = 0
                            /\ s[x].kind = "add" => s[x].old = 0
    BY DEF Whole, Sound
  <2>. QED
    BY <1>1, <2>1, <2>2
<1>. DEFINE M == i..(p - 1) \cup j..(q - 1)
            N == p..(j - 1)
            O == q..(k - 1)
<1>9. /\ i..(p - 1) \subseteq i..(j - 1) /\ j..(q - 1) \subseteq j..(k - 1)
      /\ N \subseteq i..(j - 1) /\ O \subseteq j..(k - 1)
    BY <1>1, <1>4
<1>10. M \subseteq DOMAIN s /\ N \subseteq DOMAIN s /\ O \subseteq DOMAIN s
    BY <1>8, <1>9
<1>11. \A x \in M, y \in N : MayPrecede(s, x, y)
  <2>. SUFFICES ASSUME NEW x \in M, NEW y \in N PROVE MayPrecede(s, x, y)
    OBVIOUS
  <2>1. CASE x \in i..(p - 1)
    <3>1. x < y
      BY <1>1, <1>4, <2>1
    <3>. QED
      BY <3>1 DEF MayPrecede
  <2>2. CASE x \in j..(q - 1)
    <3>1. s[x].old = 0 /\ s[y].new = 0
      BY <1>8, <1>9, <2>2
    <3>. QED
      BY <3>1 DEF MayPrecede
  <2>. QED
    BY <2>1, <2>2
<1>12. \A x \in M \cup N, y \in O : MayPrecede(s, x, y)
  <2>. SUFFICES ASSUME NEW x \in M \cup N, NEW y \in O PROVE MayPrecede(s, x, y)
    OBVIOUS
  <2>1. CASE x \in j..(q - 1)
    <3>1. x < y
      BY <1>1, <1>4, <2>1
    <3>. QED
      BY <3>1 DEF MayPrecede
  <2>2. CASE x \in i..(j - 1)
    <3>1. s[x].new = 0 /\ s[y].old = 0
      BY <1>8, <1>9, <2>2
    <3>. QED
      BY <3>1 DEF MayPrecede
  <2>. QED
    BY <1>9, <2>1, <2>2
<1>13. (M \cup N) \cup O = i..(k - 1)
  <2>1. ASSUME NEW x \in i..(k - 1) PROVE x \in (M \cup N) \cup O
    BY <1>1, <1>4
  <2>2. ASSUME NEW x \in (M \cup N) \cup O PROVE x \in i..(k - 1)
    BY <1>1, <1>4
  <2>. HIDE DEF M, N, O
  <2>. QED
    BY <2>1, <2>2
<1>. HIDE DEF M, N, O
<1>14. Tidy(head \o moreDels, s, M \cup N)
    BY <1>1, <1>5, <1>6, <1>10, <1>11, Joined DEF M, N
<1>15. Tidy((head \o moreDels) \o moreAdds, s, (M \cup N) \cup O)
  <2>1. M \cup N \subseteq DOMAIN s
    BY <1>10
  <2>2. Tidy(moreAdds, s, O)
    BY <1>7 DEF O
  <2>. DEFINE MN == M \cup N
              h == head \o moreDels
  <2>3. MN \subseteq DOMAIN s /\ Tidy(h, s, MN) /\ \A x \in MN, y \in O : MayPrecede(s, x, y)
    BY <1>12, <1>14, <2>1
  <2>. HIDE DEF MN, h
  <2>4. Tidy(h \o moreAdds, s, MN \cup O)
    BY <1>1, <1>10, <2>2, <2>3, Joined
  <2>. QED
    BY <2>4 DEF MN, h
<1>16. Paired(dels, adds) = (head \o moreDels) \o moreAdds
    BY DEF Paired, head, moreDels, moreAdds, n
<1>. QED
    BY <1>13, <1>15, <1>16

\* What the recursion makes of the lines from a position on.
LEMMA RefinedTidy ==
    ASSUME old \in Seq(Lines), new \in Seq(Lines), NEW s \in Seq(PlainOps), Whole(s, old, new, 1, 1)
    PROVE  Tidy(PairAndRefine(s), s, DOMAIN s)
<1>. DEFINE L == Len(s)
            from == RefinedFrom(s)
            C == {i \in 1..(L + 1) : Tidy(from[i], s, i..L)}
<1>1. L \in Nat /\ DOMAIN s = 1..L /\ Ordered(s) /\ \A x \in 1..L : s[x] \in PlainOps
    BY DEF Whole
<1>2. ASSUME NEW i \in 1..(L + 1), \A k \in (i + 1)..(L + 1) : k \in C
      PROVE  Tidy(from[i], s, i..L)
  <2>1. from[i] = RefinedStep(s, from, i)
    BY RefinedIs
  <2>2. \A k \in (i + 1)..(L + 1) : Tidy(from[k], s, k..L)
    BY <1>2
  <2>. HIDE DEF from, C
  <2>3. CASE i > L
    <3>1. from[i] = <<>>
      BY <2>1, <2>3 DEF RefinedStep
    <3>2. i..L = {}
      BY <1>1, <2>3
    <3>3. Tidy(<<>>, s, {})
      BY DEF Tidy, Covers, Ordered, AllAgree
    <3>. QED
      BY <3>1, <3>2, <3>3
  <2>4. CASE ~(i > L) /\ s[i].kind # "del"
    <3>1. from[i] = <<s[i]>> \o from[i + 1]
      BY <2>1, <2>4 DEF RefinedStep
    <3>2. i \in 1..L /\ i + 1 \in (i + 1)..(L + 1) /\ i + 1 - 1 = i
      BY <1>1, <2>4
    <3>. DEFINE h == <<s[i]>>
                k == i + 1
    <3>3. Slice(h, s, i, k)
      <4>1. h \in Seq(PlainOps) /\ Len(h) = 1 /\ h[1] = s[i]
        BY <1>1, <3>2
      <4>2. k - i = 1 /\ i + 1 - 1 = i /\ \A x \in 1..1 : x = 1
        BY <3>2
      <4>. HIDE DEF h, k
      <4>. QED
        BY <4>1, <4>2 DEF Slice
    <3>. HIDE DEF h
    <3>4. Tidy(h, s, i..(k - 1))
      <4>1. i \in 1..(Len(s) + 1) /\ k \in i..(Len(s) + 1)
        BY <1>1, <3>2
      <4>. HIDE DEF k
      <4>. QED
        BY <1>1, <3>3, <4>1, SliceTidy
    <3>5. Tidy(from[k], s, k..L)
      BY <2>2, <3>2
    <3>. DEFINE M == i..(k - 1)
                N == k..L
    <3>6. M \subseteq DOMAIN s /\ N \subseteq DOMAIN s /\ M \cup N = i..L
      BY <1>1, <3>2
    <3>7. \A x \in M, y \in N : MayPrecede(s, x, y)
      BY <1>1, <3>2 DEF MayPrecede
    <3>. DEFINE r == from[k]
    <3>8. Tidy(h, s, M) /\ Tidy(r, s, N)
      BY <3>4, <3>5
    <3>. HIDE DEF M, N, r
    <3>9. Tidy(h \o r, s, M \cup N)
      BY <1>1, <3>6, <3>7, <3>8, Joined
    <3>. QED
      BY <3>1, <3>6, <3>9 DEF h, r
  <2>5. CASE ~(i > L) /\ s[i].kind = "del"
    <3>. DEFINE j == EndOfRun(s, i, "del")
                k == EndOfRun(s, j, "add")
                dels == SubSeq(s, i, j - 1)
                adds == SubSeq(s, j, k - 1)
    <3>1. from[i] = Paired(dels, adds) \o from[k]
      BY <2>1, <2>5 DEF RefinedStep
    <3>0. i \in 1..(Len(s) + 1) /\ i <= Len(s)
      BY <1>1, <2>5
    <3>2. /\ j \in i..(Len(s) + 1) /\ j > i
          /\ \A m \in i..(j - 1) : s[m].kind = "del"
      <4>1. j \in i..(Len(s) + 1) /\ j > i
        BY <2>5, <3>0, EndOfRunIs
      <4>2. \A m \in i..(j - 1) : m \in 1..Len(s) /\ s[m].kind = "del"
        BY <3>0, EndOfRunIs
      <4>. QED
        BY <4>1, <4>2
    <3>. HIDE DEF j
    <3>3. j \in 1..(Len(s) + 1)
      BY <1>1, <3>2
    <3>4. /\ k \in j..(Len(s) + 1)
          /\ \A m \in j..(k - 1) : s[m].kind = "add"
      BY <3>3, EndOfRunIs
    <3>. HIDE DEF k
    <3>5. Runs(s, i, j, k)
      BY <3>2, <3>4 DEF Runs
    <3>6. Slice(dels, s, i, j) /\ Slice(adds, s, j, k)
      BY <3>2, <3>3, <3>4, SubSeqSlice
    <3>. HIDE DEF dels, adds
    <3>. DEFINE h == Paired(dels, adds)
                r == from[k]
                M == i..(k - 1)
                N == k..L
    <3>7. Tidy(h, s, M)
      BY <3>5, <3>6, PairedTidy
    <3>8. k \in (i + 1)..(L + 1)
      BY <1>1, <3>2, <3>4
    <3>9. Tidy(r, s, N)
      BY <2>2, <3>8
    <3>10. M \subseteq DOMAIN s /\ N \subseteq DOMAIN s /\ M \cup N = i..L
      BY <1>1, <3>8
    <3>11. \A x \in M, y \in N : MayPrecede(s, x, y)
      BY <1>1, <3>8 DEF MayPrecede
    <3>. HIDE DEF h, r, M, N
    <3>12. Tidy(h \o r, s, M \cup N)
      BY <1>1, <3>7, <3>9, <3>10, <3>11, Joined
    <3>. QED
      BY <3>1, <3>10, <3>12 DEF h, r
  <2>. QED
    BY <2>3, <2>4, <2>5
<1>3. \A i \in 1..(L + 1) : (\A k \in (i + 1)..(L + 1) : k \in C) => i \in C
    BY <1>2
<1>4. 1 \in C
  <2>. HIDE DEF C, L
  <2>. QED
    BY <1>1, <1>3, FromTheEnd
<1>. QED
    BY <1>1, <1>4 DEF PairAndRefine

LEMMA WholeKept ==
    ASSUME NEW a, NEW b, NEW s, Whole(s, a, b, 1, 1), NEW t, Tidy(t, s, DOMAIN s)
    PROVE  Whole(t, a, b, 1, 1)
<1>1. /\ \A n \in DOMAIN t : \E m \in DOMAIN s : Like(t[n], s[m])
      /\ \A m \in DOMAIN s : \E n \in DOMAIN t : Like(t[n], s[m])
      /\ Ordered(t)
    BY DEF Tidy, Covers
<1>2. \A n \in DOMAIN t : /\ Sound(t[n], a, b)
                          /\ t[n].old # 0 => t[n].old >= 1
                          /\ t[n].new # 0 => t[n].new >= 1
  <2>. TAKE n \in DOMAIN t
  <2>1. PICK m \in DOMAIN s : Like(t[n], s[m])
    BY <1>1
  <2>2. /\ Sound(s[m], a, b)
        /\ s[m].old # 0 => s[m].old >= 1
        /\ s[m].new # 0 => s[m].new >= 1
    BY DEF Whole
  <2>. QED
    BY <2>1, <2>2 DEF Like, Sound
<1>3. \A x \in DOMAIN a : x >= 1 => \E n \in DOMAIN t : t[n].old = x
  <2>. SUFFICES ASSUME NEW x \in DOMAIN a, x >= 1 PROVE \E n \in DOMAIN t : t[n].old = x
    OBVIOUS
  <2>1. PICK m \in DOMAIN s : s[m].old = x
    BY DEF Whole
  <2>. QED
    BY <1>1, <2>1 DEF Like
<1>4. \A x \in DOMAIN b : x >= 1 => \E n \in DOMAIN t : t[n].new = x
  <2>. SUFFICES ASSUME NEW x \in DOMAIN b, x >= 1 PROVE \E n \in DOMAIN t : t[n].new = x
    OBVIOUS
  <2>1. PICK m \in DOMAIN s : s[m].new = x
    BY DEF Whole
  <2>. QED
    BY <1>1, <2>1 DEF Like
<1>. QED
    BY <1>1, <1>2, <1>3, <1>4 DEF Whole

\* The old lines that are unchanged.
SameOlds(s) == {s[n].old : n \in Same(s)}

LEMMA SameOldsListed ==
    ASSUME NEW T, NEW s \in Seq(T), NEW a, NEW b, Whole(s, a, b, 1, 1), DOMAIN a \subseteq Nat \ {0}, NEW e, Lists(e, Same(s))
    PROVE  \E f : DOMAIN f = DOMAIN e /\ Lists(f, SameOlds(s))
<1>. DEFINE v == [n \in Same(s) |-> s[n].old]
            f == [n \in DOMAIN e |-> v[e[n]]]
            V == SameOlds(s)
<1>1. \A x \in Same(s) : x \in DOMAIN s /\ s[x].old \in DOMAIN a
    BY DEF Same, Whole, Sound
<1>2. Rising(v, Same(s))
  <2>. SUFFICES ASSUME NEW x \in Same(s), NEW y \in Same(s), x < y PROVE s[x].old < s[y].old
    BY DEF Rising
  <2>1. s[x].old # 0 /\ s[y].old # 0
    BY <1>1
  <2>. QED
    BY <1>1, <2>1 DEF Whole, Ordered
<1>3. Through(f, V, v, e, Same(s))
    BY DEF Through, SameOlds
<1>4. Same(s) \in SUBSET Nat
    BY <1>1
<1>5. DOMAIN f = DOMAIN e
    OBVIOUS
<1>. HIDE DEF f, V, v
<1>6. Lists(f, V)
    BY <1>2, <1>3, <1>4, ListsThrough
<1>. QED
    BY <1>5, <1>6 DEF V

LEMMA CountKept ==
    ASSUME NEW A, NEW a \in Seq(A), NEW b, NEW T, NEW s \in Seq(T), Whole(s, a, b, 1, 1), NEW m \in Nat, Counted(s, m),
           NEW t, Tidy(t, s, DOMAIN s)
    PROVE  Counted(t, m)
<1>1. Whole(t, a, b, 1, 1) /\ t \in Seq(Shown)
    BY WholeKept DEF Tidy
<1>2. SameOlds(t) = SameOlds(s)
  <2>1. /\ \A n \in DOMAIN t : \E k \in DOMAIN s : Like(t[n], s[k])
        /\ \A k \in DOMAIN s : \E n \in DOMAIN t : Like(t[n], s[k])
    BY DEF Tidy, Covers
  <2>2. \A n \in Same(t) : \E k \in Same(s) : t[n].old = s[k].old
    BY <2>1 DEF Same, Like
  <2>3. \A k \in Same(s) : \E n \in Same(t) : t[n].old = s[k].old
    BY <2>1 DEF Same, Like
  <2>. QED
    BY <2>2, <2>3 DEF SameOlds
<1>3. PICK e : Lists(e, Same(s)) /\ DOMAIN e = 1..m
    BY DEF Counted
<1>4. PICK c : Picks(Select(t, Same(t)), t, Same(t), c)
    BY <1>1, SelectPicks
<1>5. Lists(c, Same(t))
  <2>1. Same(t) \cap DOMAIN t = Same(t)
    BY DEF Same
  <2>. QED
    BY <1>4, <2>1 DEF Picks
<1>6. DOMAIN a \subseteq Nat \ {0}
    OBVIOUS
<1>7. PICK f : DOMAIN f = DOMAIN e /\ Lists(f, SameOlds(s))
    BY <1>3, <1>6, SameOldsListed
<1>8. PICK g : DOMAIN g = DOMAIN c /\ Lists(g, SameOlds(t))
    BY <1>1, <1>5, <1>6, SameOldsListed
<1>9. SameOlds(s) \subseteq Nat
  <2>1. \A x \in Same(s) : s[x].old \in DOMAIN a
    BY DEF Same, Whole, Sound
  <2>. QED
    BY <1>6, <2>1 DEF SameOlds
<1>10. f = g
    BY <1>2, <1>7, <1>8, <1>9, ListsUnique
<1>. QED
    BY <1>3, <1>5, <1>7, <1>8, <1>10 DEF Counted

-----------------------------------------------------------------------------
(* Clipping hides what no change needs.                                      *)

HasBefore(S, x, C) == C <= x /\ \A y \in Nat : x - C <= y /\ y < x => y \in S
HasAfter(S, x, C) == \A y \in Nat : x < y /\ y <= x + C => y \in S

\* Neighbours in the set are neighbours in its list.
LEMMA ListedBefore ==
    ASSUME NEW S \in SUBSET Nat, NEW e, Lists(e, S), NEW k \in DOMAIN e, NEW C \in Nat, HasBefore(S, e[k], C), NEW r \in 0..C
    PROVE  k - r \in DOMAIN e /\ e[k - r] = e[k] - r
<1>. USE DEF HasBefore
<1>. DEFINE x == e[k]
            Ok(d) == d <= C => k - d \in DOMAIN e /\ e[k - d] = x - d
            Good == {d \in Nat : Ok(d)}
<1>1. PICK m \in Nat : DOMAIN e = 1..m
    BY DEF Lists
<1>2. k \in 1..m /\ x \in Nat
    BY <1>1 DEF Lists
<1>. HIDE DEF x
<1>3. Ok(0)
    BY <1>1, <1>2 DEF x
<1>4. ASSUME NEW d \in Nat, Ok(d) PROVE Ok(d + 1)
  <2>. SUFFICES ASSUME d + 1 <= C PROVE k - (d + 1) \in DOMAIN e /\ e[k - (d + 1)] = x - (d + 1)
    OBVIOUS
  <2>. DEFINE j == k - d
              z == x - d
  <2>1. j \in 1..m /\ e[j] = z /\ z \in Nat /\ z - 1 \in Nat /\ z - 1 = x - (d + 1) /\ j - 1 = k - (d + 1)
    BY <1>1, <1>2, <1>4 DEF x
  <2>2. z - 1 \in S
    BY <1>2, <2>1 DEF x
  <2>. HIDE DEF j, z
  <2>3. PICK n \in 1..m : e[n] = z - 1
    BY <1>1, <2>2 DEF Lists
  <2>4. n < j
    <3>1. n = j \/ j < n \/ n < j
      BY <2>1
    <3>2. ~(j < n)
      <4>1. j < n => e[j] < e[n]
        BY <1>1, <2>1, <2>3 DEF Lists
      <4>2. e[j] = z /\ e[n] = z - 1 /\ z \in Nat
        BY <2>1, <2>3
      <4>. QED
        BY <4>1, <4>2
    <3>. QED
      BY <2>1, <2>3, <3>1, <3>2
  <2>5. n = j - 1
    <3>. SUFFICES ASSUME n < j - 1 PROVE FALSE
      BY <2>1, <2>4
    <3>. DEFINE i == j - 1
    <3>1. i \in 1..m /\ n < i /\ i < j
      BY <1>1, <2>1
    <3>. HIDE DEF i
    <3>2. e[n] < e[i] /\ e[i] < e[j] /\ e[i] \in Nat
      BY <1>1, <2>1, <3>1 DEF Lists
    <3>. QED
      BY <2>1, <2>3, <3>2
  <2>. QED
    BY <1>1, <2>1, <2>3, <2>5
<1>. HIDE DEF Ok
<1>5. 0 \in Good /\ \A d \in Nat : d \in Good => d + 1 \in Good
    BY <1>3, <1>4
<1>6. Nat \subseteq Good
    BY <1>5, FromZeroOn
<1>. QED
    BY <1>6 DEF Ok, x

LEMMA ListedAfter ==
    ASSUME NEW S \in SUBSET Nat, NEW e, Lists(e, S), NEW k \in DOMAIN e, NEW C \in Nat, HasAfter(S, e[k], C), NEW r \in 0..C
    PROVE  k + r \in DOMAIN e /\ e[k + r] = e[k] + r
<1>. USE DEF HasAfter
<1>. DEFINE x == e[k]
            Ok(d) == d <= C => k + d \in DOMAIN e /\ e[k + d] = x + d
            Good == {d \in Nat : Ok(d)}
<1>1. PICK m \in Nat : DOMAIN e = 1..m
    BY DEF Lists
<1>2. k \in 1..m /\ x \in Nat
    BY <1>1 DEF Lists
<1>. HIDE DEF x
<1>3. Ok(0)
    BY <1>1, <1>2 DEF x
<1>4. ASSUME NEW d \in Nat, Ok(d) PROVE Ok(d + 1)
  <2>. SUFFICES ASSUME d + 1 <= C PROVE k + (d + 1) \in DOMAIN e /\ e[k + (d + 1)] = x + (d + 1)
    OBVIOUS
  <2>. DEFINE j == k + d
              z == x + d
  <2>1. j \in 1..m /\ e[j] = z /\ z \in Nat /\ z + 1 = x + (d + 1) /\ j + 1 = k + (d + 1)
    BY <1>1, <1>2, <1>4
  <2>2. z + 1 \in S
    BY <1>2, <2>1 DEF x
  <2>. HIDE DEF j, z
  <2>3. PICK n \in 1..m : e[n] = z + 1
    BY <1>1, <2>2 DEF Lists
  <2>4. j < n
    <3>1. n = j \/ j < n \/ n < j
      BY <2>1
    <3>2. ~(n < j)
      <4>1. n < j => e[n] < e[j]
        BY <1>1, <2>1, <2>3 DEF Lists
      <4>2. e[j] = z /\ e[n] = z + 1 /\ z \in Nat
        BY <2>1, <2>3
      <4>. QED
        BY <4>1, <4>2
    <3>. QED
      BY <2>1, <2>3, <3>1, <3>2
  <2>5. n = j + 1
    <3>. SUFFICES ASSUME j + 1 < n PROVE FALSE
      BY <2>1, <2>4
    <3>. DEFINE i == j + 1
    <3>1. i \in 1..m /\ j < i /\ i < n
      BY <1>1, <2>1
    <3>. HIDE DEF i
    <3>2. e[j] < e[i] /\ e[i] < e[n] /\ e[i] \in Nat
      BY <1>1, <2>1, <3>1 DEF Lists
    <3>. QED
      BY <2>1, <2>3, <3>2
  <2>. QED
    BY <1>1, <2>1, <2>3, <2>5
<1>. HIDE DEF Ok
<1>5. 0 \in Good /\ \A d \in Nat : d \in Good => d + 1 \in Good
    BY <1>3, <1>4
<1>6. Nat \subseteq Good
    BY <1>5, FromZeroOn
<1>. QED
    BY <1>6 DEF Ok, x

\* Where the lines that are kept end, and where they begin, Context unchanged ones stand.
LEMMA EndsInContext ==
    ASSUME NEW T, NEW s \in Seq(T), NEW x \in DOMAIN s, x \notin Kept(s), x - 1 \in Kept(s)
    PROVE  /\ Context <= x
           /\ \A y \in Nat : x - Context <= y /\ y < x => y \in Kept(s) /\ s[y].kind = "same"
<1>. DEFINE L == Len(s)
<1>1. Context \in Nat /\ L \in Nat /\ DOMAIN s = 1..L
    BY ContextType
<1>. HIDE DEF L
<1>2. PICK i \in 1..L : s[i].kind # "same" /\ x - 1 \in (i - Context)..(i + Context)
    BY <1>1 DEF Kept
<1>3. \A y \in 1..L : s[y].kind # "same" => ~(x \in (y - Context)..(y + Context))
    BY <1>1 DEF Kept
<1>4. i + Context = x - 1
  <2>1. ~(x \in (i - Context)..(i + Context))
    BY <1>2, <1>3
  <2>. QED
    BY <1>1, <1>2, <2>1
<1>5. ASSUME NEW y \in Nat, x - Context <= y, y < x PROVE y \in Kept(s) /\ s[y].kind = "same"
  <2>1. y \in 1..L /\ y \in (i - Context)..(i + Context) /\ x \in (y - Context)..(y + Context)
    BY <1>1, <1>2, <1>4, <1>5
  <2>2. y \in Kept(s)
    BY <1>1, <1>2, <2>1 DEF Kept
  <2>. QED
    BY <1>3, <2>1, <2>2
<1>. QED
    BY <1>1, <1>2, <1>4, <1>5

LEMMA BeginsInContext ==
    ASSUME NEW T, NEW s \in Seq(T), NEW x \in Kept(s), x - 1 \in DOMAIN s, x - 1 \notin Kept(s)
    PROVE  \A y \in Nat : x <= y /\ y < x + Context => y \in Kept(s) /\ s[y].kind = "same"
<1>. DEFINE L == Len(s)
            z == x - 1
<1>1. Context \in Nat /\ L \in Nat /\ DOMAIN s = 1..L /\ x \in 1..L /\ z \in 1..L
    BY ContextType DEF Kept
<1>2. PICK i \in 1..L : s[i].kind # "same" /\ x \in (i - Context)..(i + Context)
    BY <1>1 DEF Kept
<1>3. \A y \in 1..L : s[y].kind # "same" => ~(z \in (y - Context)..(y + Context))
    BY <1>1 DEF Kept
<1>. HIDE DEF L
<1>4. i - Context = x
  <2>1. ~(z \in (i - Context)..(i + Context))
    BY <1>2, <1>3
  <2>. QED
    BY <1>1, <1>2, <2>1
<1>5. ASSUME NEW y \in Nat, x <= y, y < x + Context PROVE y \in Kept(s) /\ s[y].kind = "same"
  <2>1. y \in 1..L /\ y \in (i - Context)..(i + Context) /\ z \in (y - Context)..(y + Context)
    BY <1>1, <1>2, <1>4, <1>5
  <2>2. y \in Kept(s)
    BY <1>1, <1>2, <2>1 DEF Kept
  <2>. QED
    BY <1>3, <2>1, <2>2
<1>. QED
    BY <1>5

\* The lines shown of s: those kept, and a gap for each stretch of others.
ShownPlaces(s) == {k \in DOMAIN s : k \in Kept(s) \/ k = 1 \/ k - 1 \in Kept(s)}
Clipped(t, s, e) ==
    /\ Lists(e, ShownPlaces(s)) /\ DOMAIN t = DOMAIN e /\ t \in Seq(Shown \cup {Gap})
    /\ \A n \in DOMAIN e : t[n] = IF e[n] \in Kept(s) THEN s[e[n]] ELSE Gap

LEMMA GapIs == Gap.kind = "gap" /\ Gap.old = 0 /\ Gap.new = 0 /\ Gap \notin Shown
BY DEF Gap, Op, Shown

LEMMA ClippedIs ==
    ASSUME NEW s \in Seq(Shown)
    PROVE  \E e : Clipped(ClipContext(s), s, e)
<1>. DEFINE b == [k \in DOMAIN s |-> IF k \in Kept(s) THEN s[k] ELSE Gap]
            S == ShownPlaces(s)
            t == ClipContext(s)
            T == Shown \cup {Gap}
<1>1. b \in Seq(T) /\ DOMAIN b = DOMAIN s
  <2>1. \A k \in 1..Len(s) : s[k] \in Shown
    OBVIOUS
  <2>2. b \in [1..Len(s) -> T] /\ Len(s) \in Nat
    BY <2>1
  <2>. HIDE DEF b, T
  <2>. QED
    BY <2>2
<1>2. t = Select(b, S)
    BY DEF ClipContext, ShownPlaces
<1>. HIDE DEF b, t, T
<1>3. PICK e : Picks(t, b, S, e)
    BY <1>1, <1>2, SelectPicks
<1>4. S \cap DOMAIN b = S
    BY <1>1 DEF ShownPlaces
<1>5. Lists(e, S) /\ t = [n \in DOMAIN e |-> b[e[n]]]
    BY <1>3, <1>4 DEF Picks
<1>6. \A n \in DOMAIN e : e[n] \in DOMAIN s
    BY <1>5 DEF Lists, ShownPlaces
<1>7. \A n \in DOMAIN e : t[n] = b[e[n]] /\ b[e[n]] = IF e[n] \in Kept(s) THEN s[e[n]] ELSE Gap
    BY <1>5, <1>6 DEF b
<1>8. t \in Seq(T)
  <2>1. PICK m \in Nat : DOMAIN e = 1..m
    BY <1>5 DEF Lists
  <2>2. \A n \in 1..m : b[e[n]] \in T
    BY <1>1, <1>6, <2>1
  <2>3. t \in [1..m -> T]
    BY <1>5, <2>1, <2>2
  <2>. QED
    BY <2>1, <2>3
<1>9. Clipped(t, s, e)
    BY <1>5, <1>7, <1>8 DEF Clipped, T
<1>. QED
    BY <1>9 DEF t

LEMMA ClippedGaps ==
    ASSUME NEW s \in Seq(Shown), NEW t, NEW e, Clipped(t, s, e), NEW k \in DOMAIN t, t[k].kind = "gap"
    PROVE  /\ \A n \in DOMAIN t \ {k} : n \in (k - Context)..(k + Context) => t[n].kind = "same"
           /\ k > 1 => k > Context
           /\ k < Len(t) => k + Context <= Len(t)
<1>. DEFINE S == ShownPlaces(s)
            m == Len(t)
            x == e[k]
            C == Context
<1>1. Lists(e, S) /\ t \in Seq(Shown \cup {Gap}) /\ S \in SUBSET Nat /\ C \in Nat
    BY ContextType DEF Clipped, ShownPlaces
<1>2. m \in Nat /\ DOMAIN t = 1..m /\ DOMAIN e = 1..m /\ k \in 1..m
    BY <1>1 DEF Clipped
<1>3. x \in S /\ x \in DOMAIN s /\ x \in Nat
    BY <1>1, <1>2 DEF Lists, ShownPlaces
<1>4. x \notin Kept(s)
  <2>. SUFFICES ASSUME x \in Kept(s) PROVE FALSE
    OBVIOUS
  <2>1. t[k] = s[x] /\ s[x] \in Shown
    BY <1>2, <1>3 DEF Clipped
  <2>. QED
    BY <2>1 DEF Shown
<1>5. \A y \in Kept(s) : y \in S
    BY DEF Kept, ShownPlaces
<1>. HIDE DEF S, m, x, C
<1>8. ASSUME k > 1 PROVE k > C /\ \A n \in 1..m : k - C <= n /\ n < k => t[n].kind = "same"
  <2>1. e[1] < x /\ e[1] \in Nat /\ e[1] \in S
    BY <1>1, <1>2, <1>8 DEF Lists, x
  <2>2. e[1] # 0
    BY <2>1 DEF S, ShownPlaces
  <2>3. x - 1 \in Kept(s)
    BY <1>3, <1>4, <2>1, <2>2 DEF S, ShownPlaces
  <2>4. /\ C <= x
        /\ \A y \in Nat : x - C <= y /\ y < x => y \in Kept(s) /\ s[y].kind = "same"
    BY <1>3, <1>4, <2>3, EndsInContext DEF C
  <2>5. \A d \in 0..C : k - d \in DOMAIN e /\ e[k - d] = x - d
    <3>1. HasBefore(S, e[k], C)
      BY <1>5, <2>4 DEF HasBefore, x
    <3>2. S \in SUBSET Nat /\ Lists(e, S) /\ k \in DOMAIN e /\ C \in Nat
      BY <1>1, <1>2
    <3>3. \A d \in 0..C : k - d \in DOMAIN e /\ e[k - d] = e[k] - d
      BY <3>1, <3>2, ListedBefore
    <3>. QED
      BY <3>3 DEF x
  <2>6. k > C
    <3>1. k - C \in 1..m
      BY <1>1, <1>2, <2>5
    <3>. QED
      BY <1>1, <1>2, <3>1
  <2>7. \A n \in 1..m : k - C <= n /\ n < k => t[n].kind = "same"
    <3>. SUFFICES ASSUME NEW n \in 1..m, k - C <= n, n < k PROVE t[n].kind = "same"
      OBVIOUS
    <3>. DEFINE d == k - n
    <3>1. d \in 0..C /\ k - d = n /\ d > 0
      BY <1>1, <1>2
    <3>. HIDE DEF d
    <3>2. e[n] = x - d
      BY <2>5, <3>1
    <3>3. x - d \in Nat /\ x - C <= x - d /\ x - d < x
      BY <1>1, <1>3, <2>4, <3>1
    <3>4. e[n] \in Kept(s) /\ s[e[n]].kind = "same"
      BY <2>4, <3>2, <3>3
    <3>. QED
      BY <1>2, <3>4 DEF Clipped
  <2>. QED
    BY <2>6, <2>7
<1>9. ASSUME k < m PROVE k + C <= m /\ \A n \in 1..m : k < n /\ n <= k + C => t[n].kind = "same"
  <2>. DEFINE j == k + 1
              z == e[j]
  <2>1. j \in 1..m /\ k < j
    BY <1>2, <1>9
  <2>. HIDE DEF j
  <2>2. z \in S /\ z \in Nat /\ x < z /\ z \in DOMAIN s
    BY <1>1, <1>2, <2>1 DEF Lists, x, S, ShownPlaces
  <2>. HIDE DEF z
  <2>3. \A y \in S : ~(x < y /\ y < z)
    <3>. SUFFICES ASSUME NEW y \in S, x < y, y < z PROVE FALSE
      OBVIOUS
    <3>1. PICK n \in 1..m : e[n] = y
      BY <1>1, <1>2 DEF Lists
    <3>2. \A p, q \in 1..m : p < q => e[p] < e[q]
      BY <1>1, <1>2 DEF Lists
    <3>3. ~(n < k) /\ n # k
      <4>1. n < k => y < x
        BY <1>2, <3>1, <3>2 DEF x
      <4>2. y \in Nat
        BY <1>1
      <4>. QED
        BY <1>3, <3>1, <4>1, <4>2 DEF x
    <3>4. ~(j < n) /\ n # j
      <4>1. j < n => z < y
        BY <2>1, <3>1, <3>2 DEF z
      <4>2. y \in Nat
        BY <1>1
      <4>. QED
        BY <2>2, <3>1, <4>1, <4>2 DEF z
    <3>. QED
      BY <1>2, <2>1, <3>3, <3>4 DEF j
  <2>4. z - 1 \notin Kept(s)
    <3>. SUFFICES ASSUME z - 1 \in Kept(s) PROVE FALSE
      OBVIOUS
    <3>1. z - 1 # x
      BY <1>4
    <3>2. x < z - 1 /\ z - 1 < z
      BY <1>3, <2>2, <3>1
    <3>. QED
      BY <1>5, <2>3, <3>2
  <2>5. z \in Kept(s) /\ z - 1 \in DOMAIN s
    <3>1. z # 1
      <4>1. x >= 1
        BY <1>3
      <4>. QED
        BY <1>3, <2>2, <4>1
    <3>2. z - 1 \in DOMAIN s
      BY <2>2, <3>1
    <3>. QED
      BY <2>2, <2>4, <3>1, <3>2 DEF S, ShownPlaces
  <2>6. \A y \in Nat : z <= y /\ y < z + C => y \in Kept(s) /\ s[y].kind = "same"
    BY <2>4, <2>5, BeginsInContext DEF C
  <2>7. CASE C = 0
    <3>1. k + C <= m
      BY <1>2, <1>9, <2>7
    <3>2. \A n \in 1..m : ~(k < n /\ n <= k + C)
      BY <1>2, <2>7
    <3>. QED
      BY <3>1, <3>2
  <2>8. CASE C # 0
    <3>. DEFINE D == C - 1
    <3>1. D \in Nat /\ D + 1 = C
      BY <1>1, <2>8
    <3>. HIDE DEF D
    <3>2. \A d \in 0..D : j + d \in DOMAIN e /\ e[j + d] = z + d
      <4>1. HasAfter(S, z, D)
        <5>. SUFFICES ASSUME NEW y \in Nat, z < y, y <= z + D PROVE y \in S
          BY DEF HasAfter
        <5>1. z <= y /\ y < z + C
          BY <2>2, <3>1
        <5>. QED
          BY <1>5, <2>6, <5>1
      <4>2. j \in DOMAIN e /\ HasAfter(S, e[j], D)
        BY <1>2, <2>1, <4>1 DEF z
      <4>. TAKE d \in 0..D
      <4>3. j + d \in DOMAIN e /\ e[j + d] = e[j] + d
        BY <1>1, <3>1, <4>2, ListedAfter
      <4>. QED
        BY <4>3 DEF z
    <3>3. k + C <= m
      <4>1. j + D \in 1..m
        BY <1>2, <3>1, <3>2
      <4>. QED
        BY <1>1, <1>2, <3>1, <4>1 DEF j
    <3>4. \A n \in 1..m : k < n /\ n <= k + C => t[n].kind = "same"
      <4>. SUFFICES ASSUME NEW n \in 1..m, k < n, n <= k + C PROVE t[n].kind = "same"
        OBVIOUS
      <4>. DEFINE d == n - j
      <4>1. d \in 0..D /\ j + d = n
        BY <1>1, <1>2, <3>1 DEF j
      <4>. HIDE DEF d
      <4>2. e[n] = z + d
        BY <3>2, <4>1
      <4>3. z + d \in Nat /\ z <= z + d /\ z + d < z + C
        BY <1>1, <2>2, <3>1, <4>1
      <4>4. e[n] \in Kept(s) /\ s[e[n]].kind = "same"
        BY <2>6, <4>2, <4>3
      <4>. QED
        BY <1>2, <4>4 DEF Clipped
    <3>. QED
      BY <3>3, <3>4
  <2>. QED
    BY <2>7, <2>8
<1>10. \A n \in 1..m : n # k /\ n \in (k - C)..(k + C) => t[n].kind = "same"
  <2>. SUFFICES ASSUME NEW n \in 1..m, n # k, n \in (k - C)..(k + C) PROVE t[n].kind = "same"
    OBVIOUS
  <2>1. \/ k > 1 /\ k - C <= n /\ n < k
        \/ k < m /\ k < n /\ n <= k + C
    BY <1>1, <1>2
  <2>. QED
    BY <1>8, <1>9, <2>1
<1>. QED
    BY <1>2, <1>8, <1>9, <1>10 DEF m, C

\* A diff that has been clipped.
ClippedWell(a, b, s) ==
    /\ \A k \in DOMAIN s : s[k].kind = "same" => a[s[k].old] = b[s[k].new]
    /\ Ascending(OldSide(s)) /\ Ascending(NewSide(s))
    /\ Hidden(a, OldSide(s)) = Hidden(b, NewSide(s))
    /\ \A k \in DOMAIN s : s[k].kind = "gap" =>
        /\ \A n \in DOMAIN s \ {k} : n \in (k - Context)..(k + Context) => s[n].kind = "same"
        /\ k > 1 => k > Context
        /\ k < Len(s) => k + Context <= Len(s)

LEMMA SidesOf ==
    ASSUME NEW T, NEW s \in Seq(T), Ordered(s), \A n \in DOMAIN s : s[n].old \in Nat /\ s[n].new \in Nat
    PROVE  /\ Ascending(OldSide(s)) /\ {OldSide(s)[k] : k \in DOMAIN OldSide(s)} = Olds(s)
           /\ Ascending(NewSide(s)) /\ {NewSide(s)[k] : k \in DOMAIN NewSide(s)} = News(s)
<1>1. Lists(OldSide(s), Olds(s)) /\ Lists(NewSide(s), News(s))
    BY OldSideLists, NewSideLists
<1>. QED
    BY <1>1 DEF Lists, Ascending

\* The places v and w of two texts have the same lines.
Alike(a, b, v, w, H) == \A n \in H : v[n] \in DOMAIN a /\ w[n] \in DOMAIN b /\ a[v[n]] = b[w[n]]
Images(X, v, H) == X = {v[n] : n \in H}

\* What is hidden are the same lines of both texts: a[v[n]] = b[w[n]] for the n in H.
LEMMA HiddenAlike ==
    ASSUME NEW A, NEW a \in Seq(A), NEW b \in Seq(A), NEW H \in SUBSET Nat, NEW e, Lists(e, H),
           NEW v, NEW w, Rising(v, H), Rising(w, H), Alike(a, b, v, w, H),
           NEW X, NEW Y, Images(X, v, H), Images(Y, w, H)
    PROVE  Select(a, X) = Select(b, Y)
<1>. DEFINE f == [n \in DOMAIN e |-> v[e[n]]]
            g == [n \in DOMAIN e |-> w[e[n]]]
<1>1. Through(f, X, v, e, H) /\ Through(g, Y, w, e, H)
    BY DEF Through, Images
<1>2. X \cap DOMAIN a = X /\ Y \cap DOMAIN b = Y
    BY DEF Images, Alike
<1>3. DOMAIN f = DOMAIN e /\ DOMAIN g = DOMAIN e /\ \A n \in DOMAIN e : a[f[n]] = b[g[n]]
  <2>1. \A n \in DOMAIN e : e[n] \in H
    BY DEF Lists
  <2>. QED
    BY <2>1 DEF Alike
<1>. HIDE DEF f, g
<1>4. Lists(f, X) /\ Lists(g, Y)
    BY <1>1, ListsThrough
<1>5. Picks(Select(a, X), a, X, f)
    BY <1>2, <1>4, SelectBy
<1>6. Picks(Select(b, Y), b, Y, g)
    BY <1>2, <1>4, SelectBy
<1>. QED
    BY <1>3, <1>5, <1>6 DEF Picks

LEMMA ClipWell ==
    ASSUME NEW A, NEW a \in Seq(A), NEW b \in Seq(A), a # Empty, b # Empty,
           NEW s \in Seq(Shown), Whole(s, a, b, 1, 1), NEW t, t = ClipContext(s)
    PROVE  ClippedWell(a, b, t)
<1>1. PICK e : Clipped(t, s, e)
    BY ClippedIs
<1>2. /\ Lists(e, ShownPlaces(s)) /\ DOMAIN t = DOMAIN e /\ t \in Seq(Shown \cup {Gap})
      /\ \A n \in DOMAIN e : t[n] = IF e[n] \in Kept(s) THEN s[e[n]] ELSE Gap
    BY <1>1 DEF Clipped
<1>3. \A n \in DOMAIN t : e[n] \in DOMAIN s /\ (t[n] = Gap \/ (t[n] = s[e[n]] /\ e[n] \in Kept(s)))
    BY <1>2 DEF Lists, ShownPlaces
<1>4. \A m, n \in DOMAIN t : m < n => e[m] < e[n]
    BY <1>2 DEF Lists
<1>5. /\ Ordered(s) /\ \A n \in DOMAIN s : Sound(s[n], a, b)
      /\ \A x \in DOMAIN a : x >= 1 => \E n \in DOMAIN s : s[n].old = x
      /\ \A x \in DOMAIN b : x >= 1 => \E n \in DOMAIN s : s[n].new = x
    BY DEF Whole
<1>6. \A n \in DOMAIN s : s[n].old \in Nat /\ s[n].new \in Nat
    BY <1>5 DEF Sound
<1>7. \A n \in DOMAIN t : t[n].old \in Nat /\ t[n].new \in Nat
    BY <1>3, <1>6, GapIs
<1>8. Ordered(t)
  <2>. SUFFICES ASSUME NEW m \in DOMAIN t, NEW n \in DOMAIN t, m < n
                PROVE  /\ t[m].old # 0 /\ t[n].old # 0 => t[m].old < t[n].old
                       /\ t[m].new # 0 /\ t[n].new # 0 => t[m].new < t[n].new
    BY DEF Ordered
  <2>1. CASE t[m] = Gap \/ t[n] = Gap
    BY <2>1, GapIs
  <2>2. CASE t[m] = s[e[m]] /\ t[n] = s[e[n]]
    <3>1. e[m] \in DOMAIN s /\ e[n] \in DOMAIN s /\ e[m] < e[n]
      BY <1>3, <1>4
    <3>. QED
      BY <1>5, <2>2, <3>1 DEF Ordered
  <2>. QED
    BY <1>3, <2>1, <2>2
<1>9. /\ Ascending(OldSide(t)) /\ {OldSide(t)[k] : k \in DOMAIN OldSide(t)} = Olds(t)
      /\ Ascending(NewSide(t)) /\ {NewSide(t)[k] : k \in DOMAIN NewSide(t)} = News(t)
    BY <1>2, <1>7, <1>8, SidesOf
<1>10. \A k \in DOMAIN t : t[k].kind = "same" => a[t[k].old] = b[t[k].new]
  <2>1. \A n \in DOMAIN s : s[n].kind = "same" => a[s[n].old] = b[s[n].new]
    BY <1>5 DEF Sound
  <2>. QED
    BY <1>3, <2>1, GapIs
<1>. DEFINE H == DOMAIN s \ Kept(s)
            v == [n \in H |-> s[n].old]
            w == [n \in H |-> s[n].new]
            X == {v[n] : n \in H}
            Y == {w[n] : n \in H}
<1>11. H \in SUBSET Nat /\ \A n \in DOMAIN s : n \in Nat
    OBVIOUS
<1>12. \A n \in H : n \in DOMAIN s /\ s[n].kind = "same"
  <2>. SUFFICES ASSUME NEW n \in H, s[n].kind # "same" PROVE FALSE
    OBVIOUS
  <2>1. n \in (n - Context)..(n + Context)
    BY ContextType
  <2>. QED
    BY <2>1 DEF Kept
<1>13. \A n \in H : /\ s[n].old \in DOMAIN a /\ s[n].new \in DOMAIN b /\ a[s[n].old] = b[s[n].new]
                    /\ s[n].old # 0 /\ s[n].new # 0
  <2>1. \A n \in H : s[n].old \in DOMAIN a /\ s[n].new \in DOMAIN b /\ a[s[n].old] = b[s[n].new]
    BY <1>5, <1>12 DEF Sound
  <2>. QED
    BY <2>1
<1>14. Rising(v, H) /\ Rising(w, H)
    BY <1>5, <1>13 DEF Rising, Ordered
<1>15. PICK c : Lists(c, H)
  <2>1. PICK c : Picks(Select(s, H), s, H, c)
    BY SelectPicks
  <2>2. H \cap DOMAIN s = H
    OBVIOUS
  <2>. QED
    BY <2>1, <2>2 DEF Picks
<1>16. Select(a, X) = Select(b, Y)
  <2>1. Alike(a, b, v, w, H)
    BY <1>13 DEF Alike
  <2>2. Images(X, v, H) /\ Images(Y, w, H)
    BY DEF Images
  <2>. HIDE DEF X, Y, v, w, H
  <2>. QED
    BY <1>11, <1>14, <1>15, <2>1, <2>2, HiddenAlike
<1>17. \A n \in DOMAIN s : n \in Kept(s) => \E k \in DOMAIN t : t[k] = s[n]
  <2>. SUFFICES ASSUME NEW n \in DOMAIN s, n \in Kept(s) PROVE \E k \in DOMAIN t : t[k] = s[n]
    OBVIOUS
  <2>1. PICK k \in DOMAIN e : e[k] = n
    BY <1>2 DEF Lists, ShownPlaces
  <2>. QED
    BY <1>2, <2>1
\* In s every line of a text stands once, so what is not shown of it is hidden.
<1>18. DOMAIN a \ Olds(t) = X
  <2>1. ASSUME NEW x \in DOMAIN a, x \notin Olds(t) PROVE x \in X
    <3>1. x >= 1
      OBVIOUS
    <3>2. PICK n \in DOMAIN s : s[n].old = x
      BY <1>5, <3>1
    <3>3. n \notin Kept(s)
      <4>. SUFFICES ASSUME n \in Kept(s) PROVE FALSE
        OBVIOUS
      <4>1. PICK k \in DOMAIN t : t[k] = s[n]
        BY <1>17
      <4>. QED
        BY <2>1, <3>1, <3>2, <4>1 DEF Olds
    <3>4. n \in H /\ v[n] = x
      BY <3>2, <3>3
    <3>. HIDE DEF v, H
    <3>. QED
      BY <3>4
  <2>2. ASSUME NEW n \in H PROVE s[n].old \in DOMAIN a /\ s[n].old \notin Olds(t)
    <3>. SUFFICES ASSUME s[n].old \in Olds(t) PROVE FALSE
      BY <1>13
    <3>1. PICK k \in DOMAIN t : t[k].old # 0 /\ t[k].old = s[n].old
      BY DEF Olds
    <3>2. t[k] = s[e[k]] /\ e[k] \in Kept(s) /\ e[k] \in DOMAIN s
      BY <1>3, <3>1, GapIs
    <3>3. e[k] # n /\ s[e[k]].old = s[n].old /\ s[n].old # 0 /\ s[n].old \in Nat /\ n \in DOMAIN s
      BY <1>6, <3>1, <3>2
    <3>4. e[k] < n \/ n < e[k]
      BY <1>11, <3>2, <3>3
    <3>. QED
      BY <1>5, <3>2, <3>3, <3>4 DEF Ordered
  <2>3. X = {s[n].old : n \in H}
    OBVIOUS
  <2>. HIDE DEF X, H
  <2>. QED
    BY <2>1, <2>2, <2>3
<1>19. DOMAIN b \ News(t) = Y
  <2>1. ASSUME NEW x \in DOMAIN b, x \notin News(t) PROVE x \in Y
    <3>1. x >= 1
      OBVIOUS
    <3>2. PICK n \in DOMAIN s : s[n].new = x
      BY <1>5, <3>1
    <3>3. n \notin Kept(s)
      <4>. SUFFICES ASSUME n \in Kept(s) PROVE FALSE
        OBVIOUS
      <4>1. PICK k \in DOMAIN t : t[k] = s[n]
        BY <1>17
      <4>. QED
        BY <2>1, <3>1, <3>2, <4>1 DEF News
    <3>4. n \in H /\ w[n] = x
      BY <3>2, <3>3
    <3>. HIDE DEF w, H
    <3>. QED
      BY <3>4
  <2>2. ASSUME NEW n \in H PROVE s[n].new \in DOMAIN b /\ s[n].new \notin News(t)
    <3>. SUFFICES ASSUME s[n].new \in News(t) PROVE FALSE
      BY <1>13
    <3>1. PICK k \in DOMAIN t : t[k].new # 0 /\ t[k].new = s[n].new
      BY DEF News
    <3>2. t[k] = s[e[k]] /\ e[k] \in Kept(s) /\ e[k] \in DOMAIN s
      BY <1>3, <3>1, GapIs
    <3>3. e[k] # n /\ s[e[k]].new = s[n].new /\ s[n].new # 0 /\ s[n].new \in Nat /\ n \in DOMAIN s
      BY <1>6, <3>1, <3>2
    <3>4. e[k] < n \/ n < e[k]
      BY <1>11, <3>2, <3>3
    <3>. QED
      BY <1>5, <3>2, <3>3, <3>4 DEF Ordered
  <2>3. Y = {s[n].new : n \in H}
    OBVIOUS
  <2>. HIDE DEF Y, H
  <2>. QED
    BY <2>1, <2>2, <2>3
<1>20. Hidden(a, OldSide(t)) = Hidden(b, NewSide(t))
  <2>. HIDE DEF X, Y
  <2>1. Hidden(a, OldSide(t)) = Select(a, X)
    BY <1>9, <1>18 DEF Hidden, Places
  <2>2. Hidden(b, NewSide(t)) = Select(b, Y)
    BY <1>9, <1>19 DEF Hidden, Places
  <2>. QED
    BY <1>16, <2>1, <2>2
<1>21. \A k \in DOMAIN t : t[k].kind = "gap" =>
        /\ \A n \in DOMAIN t \ {k} : n \in (k - Context)..(k + Context) => t[n].kind = "same"
        /\ k > 1 => k > Context
        /\ k < Len(t) => k + Context <= Len(t)
    BY <1>1, ClippedGaps
<1>. QED
    BY <1>9, <1>10, <1>20, <1>21 DEF ClippedWell

LEMMA SelectNone ==
    ASSUME NEW A, NEW a \in Seq(A)
    PROVE  Select(a, {}) = <<>>
<1>1. PICK e : Picks(Select(a, {}), a, {}, e)
    BY SelectPicks
<1>2. Lists(e, {}) /\ Select(a, {}) = [n \in DOMAIN e |-> a[e[n]]]
  <2>1. {} \cap DOMAIN a = {}
    OBVIOUS
  <2>. QED
    BY <1>1, <2>1 DEF Picks
<1>3. DOMAIN e = {}
    BY <1>2 DEF Lists
<1>. QED
    BY <1>2, <1>3

\* Text that is all new, or all gone.
LEMMA AllWell ==
    ASSUME NEW A, NEW a \in Seq(A), NEW b \in Seq(A), NEW t,
           (a = Empty /\ b # Empty /\ t = AllLines(b, "add")) \/ (a # Empty /\ b = Empty /\ t = AllLines(a, "del"))
    PROVE  ClippedWell(a, b, t)
<1>. DEFINE text == IF a = Empty THEN b ELSE a
<1>1. text \in Seq(A) /\ Len(text) \in Nat /\ DOMAIN text = 1..Len(text)
    OBVIOUS
<1>2. /\ DOMAIN t = DOMAIN text
      /\ a = Empty => \A k \in DOMAIN text : t[k] = Op("add", 0, k)
      /\ a # Empty => \A k \in DOMAIN text : t[k] = Op("del", k, 0)
    BY DEF AllLines
<1>. HIDE DEF text
<1>3. \A k \in DOMAIN text : /\ a = Empty => t[k] \in PlainOps /\ t[k].kind = "add" /\ t[k].old = 0 /\ t[k].new = k
                             /\ a # Empty => t[k] \in PlainOps /\ t[k].kind = "del" /\ t[k].old = k /\ t[k].new = 0
  <2>. TAKE k \in DOMAIN text
  <2>1. k \in Nat
    BY <1>1
  <2>. QED
    BY <1>2, <2>1, OpIs
<1>4. t \in Seq(PlainOps)
  <2>1. t = [k \in DOMAIN t |-> t[k]]
    BY DEF AllLines
  <2>2. t \in [1..Len(text) -> PlainOps] /\ Len(text) \in Nat
    BY <1>1, <1>2, <1>3, <2>1
  <2>. DEFINE L == Len(text)
  <2>. HIDE DEF L
  <2>3. t \in [1..L -> PlainOps] /\ L \in Nat
    BY <2>2 DEF L
  <2>. QED
    BY <2>3
<1>5. \A n \in DOMAIN t : t[n].old \in Nat /\ t[n].new \in Nat /\ t[n].kind # "same" /\ t[n].kind # "gap"
    BY <1>1, <1>2, <1>3
<1>6. Ordered(t)
    BY <1>1, <1>2, <1>3 DEF Ordered
<1>7. /\ Ascending(OldSide(t)) /\ {OldSide(t)[k] : k \in DOMAIN OldSide(t)} = Olds(t)
      /\ Ascending(NewSide(t)) /\ {NewSide(t)[k] : k \in DOMAIN NewSide(t)} = News(t)
    BY <1>4, <1>5, <1>6, SidesOf
<1>8. Places(a) \ Olds(t) = {}
  <2>1. CASE a = Empty
    BY <2>1 DEF Places
  <2>2. CASE a # Empty
    <3>1. \A k \in DOMAIN a : k # 0 /\ k \in DOMAIN t /\ t[k].old = k
      BY <1>1, <1>2, <1>3, <2>2 DEF text
    <3>. QED
      BY <2>2, <3>1 DEF Places, Olds
  <2>. QED
    BY <2>1, <2>2
<1>9. Places(b) \ News(t) = {}
  <2>1. CASE b = Empty
    BY <2>1 DEF Places
  <2>2. CASE b # Empty
    <3>1. \A k \in DOMAIN b : k # 0 /\ k \in DOMAIN t /\ t[k].new = k
      BY <1>1, <1>2, <1>3, <2>2 DEF text
    <3>. QED
      BY <2>2, <3>1 DEF Places, News
  <2>. QED
    BY <2>1, <2>2
<1>10. Hidden(a, OldSide(t)) = <<>> /\ Hidden(b, NewSide(t)) = <<>>
    BY <1>7, <1>8, <1>9, SelectNone DEF Hidden
<1>. QED
    BY <1>5, <1>7, <1>10 DEF ClippedWell

-----------------------------------------------------------------------------
(* The invariant, and what it gives.                                         *)

DiffInv ==
    /\ old \in Texts /\ new \in Texts /\ stage \in {"read", "aligned", "refined", "shown"}
    /\ stage = "read" => ops = <<>>
    /\ stage \in {"aligned", "refined"} =>
        /\ Empty \notin {old, new}
        /\ Whole(ops, old, new, 1, 1) /\ Counted(ops, Longest(old, new)) /\ Longest(old, new) \in Nat
    /\ stage = "aligned" => ops \in Seq(PlainOps)
    /\ stage = "refined" => ops \in Seq(Shown) /\ AllAgree(ops)
    /\ stage = "shown" => (ops = <<>> /\ old = new) \/ ClippedWell(old, new, ops)

LEMMA TextIs == ASSUME NEW text \in Texts PROVE text \in Seq(Lines)
BY TextsType

LEMMA DiffInvFirst == DiffInit => DiffInv
BY DEF DiffInit, DiffInv

LEMMA DiffInvStep == DiffInv /\ [DiffNext]_diffVars => DiffInv'
<1>. SUFFICES ASSUME DiffInv, [DiffNext]_diffVars PROVE DiffInv'
    OBVIOUS
<1>0. old \in Seq(Lines) /\ new \in Seq(Lines)
    BY TextIs DEF DiffInv
<1>1. CASE Shortcut
  <2>1. /\ stage' = "shown" /\ old' = old /\ new' = new
        /\ \/ old = new /\ ops' = <<>>
           \/ old = Empty /\ new # Empty /\ ops' = AllLines(new, "add")
           \/ old # Empty /\ new = Empty /\ ops' = AllLines(old, "del")
    BY <1>1 DEF Shortcut
  <2>2. (ops' = <<>> /\ old = new) \/ ClippedWell(old, new, ops')
    BY <1>0, <2>1, AllWell
  <2>3. (ops' = <<>> /\ old' = new') \/ ClippedWell(old, new, ops)'
    BY <2>1, <2>2
  <2>. QED
    BY <2>1, <2>3 DEF DiffInv
<1>2. CASE AlignLines
  <2>1. stage' = "aligned" /\ old' = old /\ new' = new /\ Empty \notin {old, new} /\ ops' = Align(old, new)
    BY <1>2 DEF AlignLines
  <2>2. Whole(ops', old, new, 1, 1) /\ Counted(ops', Longest(old, new)) /\ Longest(old, new) \in Nat /\ ops' \in Seq(PlainOps)
    BY <1>0, <2>1, WalkIsWhole, LongestIs DEF Walked
  <2>3. Whole(ops, old, new, 1, 1)' /\ Counted(ops, Longest(old, new))' /\ Longest(old, new)' \in Nat
    BY <2>1, <2>2
  <2>. QED
    BY <2>1, <2>2, <2>3 DEF DiffInv
<1>3. CASE Refine
  <2>1. stage' = "refined" /\ old' = old /\ new' = new /\ ops' = PairAndRefine(ops) /\ stage = "aligned"
    BY <1>3 DEF Refine
  <2>2. /\ Empty \notin {old, new} /\ Whole(ops, old, new, 1, 1) /\ Counted(ops, Longest(old, new))
        /\ Longest(old, new) \in Nat /\ ops \in Seq(PlainOps)
    BY <2>1 DEF DiffInv
  <2>3. Tidy(PairAndRefine(ops), ops, DOMAIN ops)
    BY <1>0, <2>2, RefinedTidy
  <2>4. Whole(PairAndRefine(ops), old, new, 1, 1)
    BY <2>2, <2>3, WholeKept
  <2>5. Counted(PairAndRefine(ops), Longest(old, new))
    BY <1>0, <2>2, <2>3, CountKept
  <2>6. PairAndRefine(ops) \in Seq(Shown) /\ AllAgree(PairAndRefine(ops))
    BY <2>3 DEF Tidy
  <2>7. /\ Whole(ops, old, new, 1, 1)' /\ Counted(ops, Longest(old, new))' /\ Longest(old, new)' \in Nat
        /\ ops' \in Seq(Shown) /\ AllAgree(ops)'
    BY <2>1, <2>2, <2>4, <2>5, <2>6 DEF AllAgree, Agree
  <2>. QED
    BY <2>1, <2>2, <2>7 DEF DiffInv
<1>4. CASE Clip
  <2>1. stage' = "shown" /\ old' = old /\ new' = new /\ ops' = ClipContext(ops) /\ stage = "refined"
    BY <1>4 DEF Clip
  <2>2. Empty \notin {old, new} /\ Whole(ops, old, new, 1, 1) /\ ops \in Seq(Shown)
    BY <2>1 DEF DiffInv
  <2>3. ClippedWell(old, new, ops')
    BY <1>0, <2>1, <2>2, ClipWell
  <2>4. ClippedWell(old, new, ops)'
    BY <2>1, <2>3
  <2>. QED
    BY <2>1, <2>4 DEF DiffInv
<1>5. CASE UNCHANGED diffVars
  <2>1. old' = old /\ new' = new /\ stage' = stage /\ ops' = ops
    BY <1>5 DEF diffVars
  <2>2. /\ Whole(ops, old, new, 1, 1) = Whole(ops, old, new, 1, 1)'
        /\ Counted(ops, Longest(old, new)) = Counted(ops, Longest(old, new))'
        /\ Longest(old, new) = Longest(old, new)'
        /\ ClippedWell(old, new, ops) = ClippedWell(old, new, ops)'
    BY <2>1
  <2>3. AllAgree(ops) = AllAgree(ops)'
    BY <2>1 DEF AllAgree, Agree
  <2>. QED
    BY <2>1, <2>2, <2>3 DEF DiffInv
<1>. QED
    BY <1>1, <1>2, <1>3, <1>4, <1>5 DEF DiffNext

LEMMA DiffInvAlways == DiffSpec => []DiffInv
BY DiffInvFirst, DiffInvStep, PTL DEF DiffSpec

\* The diff shows both texts whole until it is clipped, and what clipping hides
\* is the same in both and the context of no change: lcsDiff, pairAndRefine and
\* clipContext lose no line, double none and move none, for texts of any length.
THEOREM BothSidesShown == DiffSpec => []SidesAreWhole
<1>1. DiffInv => SidesAreWhole
  <2>. SUFFICES ASSUME DiffInv PROVE SidesAreWhole
    OBVIOUS
  <2>0. old \in Seq(Lines) /\ new \in Seq(Lines)
    BY TextIs DEF DiffInv
  <2>1. CASE stage \in {"aligned", "refined"}
    <3>1. Whole(ops, old, new, 1, 1) /\ (ops \in Seq(PlainOps) \/ ops \in Seq(Shown))
      BY <2>1 DEF DiffInv
    <3>2. OldSide(ops) = [k \in DOMAIN old |-> k] /\ NewSide(ops) = [k \in DOMAIN new |-> k]
      BY <2>0, <3>1, WholeSides
    <3>3. \A k \in DOMAIN ops : ops[k].kind = "same" => old[ops[k].old] = new[ops[k].new]
      BY <3>1 DEF Whole, Sound
    <3>. QED
      BY <2>1, <3>2, <3>3 DEF SidesAreWhole
  <2>2. CASE stage = "shown"
    <3>1. (ops = <<>> /\ old = new) \/ ClippedWell(old, new, ops)
      BY <2>2 DEF DiffInv
    <3>. QED
      BY <2>2, <3>1 DEF SidesAreWhole, ClippedWell, GapsKeepContext
  <2>3. CASE stage = "read"
    BY <2>3 DEF SidesAreWhole, DiffInv
  <2>. QED
    BY <2>1, <2>2, <2>3 DEF DiffInv
<1>. QED
    BY <1>1, DiffInvAlways, PTL

\* As many lines are unchanged as in the longest common subsequence of the
\* texts, and in a refined pair as many words: the table and the walk of lcsDiff
\* and tokenLCS give up nothing, and similar keeps pairs with nothing in common
\* from being refined.
THEOREM NothingGivenUp == DiffSpec => []NothingNeedless
<1>1. DiffInv => NothingNeedless
  <2>. SUFFICES ASSUME DiffInv PROVE NothingNeedless
    OBVIOUS
  <2>1. stage \in {"aligned", "refined"} => Count(ops, "same") = Longest(old, new)
    <3>. SUFFICES ASSUME stage \in {"aligned", "refined"} PROVE Count(ops, "same") = Longest(old, new)
      OBVIOUS
    <3>1. /\ Counted(ops, Longest(old, new)) /\ Longest(old, new) \in Nat
          /\ ops \in Seq(PlainOps) \/ ops \in Seq(Shown)
      BY DEF DiffInv
    <3>. QED
      BY <3>1, CountIs
  <2>2. stage = "refined" => PairsAgree
    BY DEF DiffInv, PairsAgree, AllAgree, Agree
  <2>. QED
    BY <2>1, <2>2 DEF NothingNeedless
<1>. QED
    BY <1>1, DiffInvAlways, PTL

-----------------------------------------------------------------------------
(* Where a text holds one of some characters first.                         *)

LEMMA MinIs ==
    ASSUME NEW T \in SUBSET Nat, T # {}
    PROVE  Min(T) \in T /\ \A y \in T : Min(T) <= y
<1>1. \E x \in T : \A y \in T : x <= y
    BY LeastExists
<1>. QED
    BY <1>1 DEF Min

\* The first character of some, or none.
FirstAt(text, chars, m) ==
    \/ m = 0 /\ \A i \in 1..Len(text) : text[i] \notin chars
    \/ m \in 1..Len(text) /\ text[m] \in chars /\ \A i \in 1..(m - 1) : text[i] \notin chars

LEMMA LeastAt ==
    ASSUME NEW T, NEW text \in Seq(T), NEW chars
    PROVE  LET at == {i \in DOMAIN text : text[i] \in chars}
           IN  FirstAt(text, chars, IF at = {} THEN 0 ELSE Min(at))
<1>. DEFINE at == {i \in DOMAIN text : text[i] \in chars}
            m == Min(at)
<1>1. at \in SUBSET (1..Len(text)) /\ \A i \in 1..Len(text) : text[i] \in chars <=> i \in at
    OBVIOUS
<1>2. CASE at = {}
    BY <1>1, <1>2 DEF FirstAt
<1>3. CASE at # {}
  <2>0. at \in SUBSET Nat
    BY <1>1
  <2>1. m \in at /\ \A y \in at : m <= y
    BY <2>0, <1>3, MinIs
  <2>. HIDE DEF m, at
  <2>2. m \in 1..Len(text) /\ text[m] \in chars /\ \A i \in 1..(m - 1) : text[i] \notin chars
    BY <1>1, <2>1
  <2>3. FirstAt(text, chars, m)
    BY <2>2 DEF FirstAt
  <2>. QED
    BY <1>3, <2>3 DEF m, at
<1>. QED
    BY <1>2, <1>3

LEMMA IndexIs ==
    ASSUME NEW T, NEW text \in Seq(T), NEW chars
    PROVE  FirstAt(text, chars, Re!IndexOf(text, chars))
BY LeastAt DEF Re!IndexOf, Re!Min, Min

-----------------------------------------------------------------------------
(* A state that is carried through a sequence.                              *)

LEMMA UpTo ==
    ASSUME NEW L \in Nat, NEW T, 0 \in T, \A k \in 1..L : k - 1 \in T => k \in T
    PROVE  0..L \subseteq T
<1>. DEFINE G == {n \in Nat : n <= L => n \in T}
<1>1. 0 \in G
    OBVIOUS
<1>2. ASSUME NEW n \in Nat, n \in G PROVE n + 1 \in G
  <2>. SUFFICES ASSUME n + 1 <= L PROVE n + 1 \in T
    OBVIOUS
  <2>1. n + 1 \in 1..L /\ (n + 1) - 1 \in T
    BY <1>2
  <2>. QED
    BY <2>1
<1>3. Nat \subseteq G
    BY <1>1, <1>2, FromZeroOn
<1>. QED
    BY <1>3

StepOn(F, V, T) == F \in [V \X T -> V]

\* The states u: the first is b, each other one what F makes of it and the element.
Carries(u, b, F, s) == u[0] = b /\ \A n \in 1..Len(s) : u[n] = F[<<u[n - 1], s[n]>>]
Carried(u, b, F, s, V) == u \in [0..Len(s) -> V] /\ Carries(u, b, F, s)

LEMMA CarrySolved ==
    ASSUME NEW V, NEW T, NEW b, b \in V, NEW F, StepOn(F, V, T), NEW s, s \in Seq(T)
    PROVE  \E u : Carried(u, b, F, s, V)
<1>. USE DEF StepOn
<1>. DEFINE Fits(n) == \E u \in [0..n -> V] : u[0] = b /\ \A k \in 1..n : u[k] = F[<<u[k - 1], s[k]>>]
            G == {n \in 0..Len(s) : Fits(n)}
<1>1. 0 \in G
  <2>. DEFINE w == [k \in 0..0 |-> b]
  <2>1. w \in [0..0 -> V] /\ w[0] = b /\ 1..0 = {}
    OBVIOUS
  <2>. HIDE DEF w
  <2>2. Fits(0)
    BY <2>1
  <2>. QED
    BY <2>2
<1>2. ASSUME NEW n \in 1..Len(s), n - 1 \in G PROVE n \in G
  <2>1. PICK u \in [0..(n - 1) -> V] : u[0] = b /\ \A k \in 1..(n - 1) : u[k] = F[<<u[k - 1], s[k]>>]
    BY <1>2
  <2>. DEFINE v == [k \in 0..n |-> IF k = n THEN F[<<u[n - 1], s[n]>>] ELSE u[k]]
  <2>2. n - 1 \in 0..(n - 1) /\ u[n - 1] \in V /\ s[n] \in T
    OBVIOUS
  <2>3. F[<<u[n - 1], s[n]>>] \in V
    BY <2>2
  <2>4. v \in [0..n -> V]
    BY <2>3
  <2>5. v[0] = b
    BY <2>1
  <2>6. ASSUME NEW k \in 1..n PROVE v[k] = F[<<v[k - 1], s[k]>>]
    <3>1. v[k - 1] = u[k - 1]
      OBVIOUS
    <3>2. CASE k = n
      <4>1. v[n] = F[<<u[n - 1], s[n]>>] /\ v[n - 1] = u[n - 1]
        OBVIOUS
      <4>. QED
        BY <3>2, <4>1
    <3>3. CASE k # n
      <4>1. k \in 1..(n - 1) /\ v[k] = u[k]
        BY <3>3
      <4>. QED
        BY <2>1, <3>1, <4>1
    <3>. QED
      BY <3>2, <3>3
  <2>. HIDE DEF v
  <2>7. Fits(n)
    BY <2>4, <2>5, <2>6
  <2>. QED
    BY <2>7
<1>. HIDE DEF Fits
<1>. HIDE DEF G
<1>3. 0..Len(s) \subseteq G
  <2>1. Len(s) \in Nat /\ \A n \in 1..Len(s) : n - 1 \in G => n \in G
    BY <1>2
  <2>. QED
    BY <1>1, <2>1, UpTo
<1>. USE DEF G
<1>4. Fits(Len(s))
    BY <1>3
<1>. QED
    BY <1>4 DEF Fits, Carried, Carries

-----------------------------------------------------------------------------
(* A text without the blanks around it.                                     *)

\* The text between two solid characters, without the blanks around it.
Filled(text, i, j) == \E k \in i..j : text[k] # Re!Space

Trimmed(text, lo, hi) ==
    /\ lo \in 1..Len(text) /\ hi \in lo..Len(text) /\ text[lo] # Re!Space /\ text[hi] # Re!Space
    /\ ~Filled(text, 1, lo - 1) /\ ~Filled(text, hi + 1, Len(text))

LEMMA TrimmedIs ==
    ASSUME NEW T, NEW text \in Seq(T)
    PROVE  \/ ~Filled(text, 1, Len(text)) /\ Re!TrimSpace(text, {Re!Space}) = <<>>
           \/ \E lo, hi \in 1..Len(text) :
                 Trimmed(text, lo, hi) /\ Re!TrimSpace(text, {Re!Space}) = SubSeq(text, lo, hi)
<1>. DEFINE solid == {i \in DOMAIN text : text[i] \notin {Re!Space}}
            N == Len(text)
<1>1. N \in Nat /\ \A i : i \in solid <=> i \in 1..N /\ text[i] # Re!Space
    OBVIOUS
<1>2. Re!TrimSpace(text, {Re!Space}) = IF solid = {} THEN <<>> ELSE SubSeq(text, Min(solid), Max(solid))
    BY DEF Re!TrimSpace, Re!Min, Re!Max, Min, Max
<1>3. CASE solid = {}
    BY <1>1, <1>2, <1>3 DEF Filled
<1>4. CASE solid # {}
  <2>. DEFINE lo == Min(solid)
              hi == Max(solid)
  <2>1. solid \in SUBSET Nat
    BY <1>1
  <2>. HIDE DEF solid
  <2>2. lo \in solid /\ \A y \in solid : lo <= y
    BY <1>4, <2>1, MinIs
  <2>3. hi \in solid /\ \A y \in solid : y <= hi
    <3>1. PICK m \in solid : \A y \in solid : y <= m
      <4>. DEFINE rest == {x \in 0..N : \A y \in solid : y <= x}
      <4>1. N \in rest /\ rest \in SUBSET Nat
        BY <1>1
      <4>. HIDE DEF rest
      <4>2. PICK m \in rest : \A x \in rest : m <= x
        BY <4>1, LeastExists
      <4>3. m \in 0..N /\ \A y \in solid : y <= m
        BY DEF rest
      <4>4. m \in solid
        <5>. SUFFICES ASSUME m \notin solid PROVE FALSE
          OBVIOUS
        <5>1. ASSUME NEW y \in solid PROVE y \in 1..N /\ y <= m - 1
          <6>1. y \in 1..N /\ y <= m /\ y # m
            BY <1>1, <4>3
          <6>. QED
            BY <1>1, <4>3, <6>1
        <5>2. m - 1 \in 0..N
          <6>1. PICK y : y \in solid
            BY <1>4
          <6>2. y \in 1..N /\ y <= m - 1
            BY <5>1, <6>1
          <6>. QED
            BY <1>1, <4>3, <6>2
        <5>3. m - 1 \in rest
          BY <5>1, <5>2 DEF rest
        <5>. QED
          BY <1>1, <4>2, <4>3, <5>3
      <4>. QED
        BY <4>3, <4>4
    <3>2. hi = m
      BY <2>1, <3>1, MaxIs
    <3>. QED
      BY <3>1, <3>2
  <2>. HIDE DEF lo, hi, N
  <2>4. lo \in 1..N /\ hi \in lo..N /\ hi \in 1..N /\ text[lo] # Re!Space /\ text[hi] # Re!Space
    <3>1. lo <= hi
      BY <2>2, <2>3
    <3>. QED
      BY <1>1, <2>2, <2>3, <3>1
  <2>5. ~Filled(text, 1, lo - 1)
    <3>1. ASSUME NEW k \in 1..(lo - 1), text[k] # Re!Space PROVE FALSE
      <4>1. k \in 1..N /\ ~(lo <= k)
        BY <1>1, <2>4
      <4>. QED
        BY <1>1, <2>2, <3>1, <4>1
    <3>. QED
      BY <3>1 DEF Filled
  <2>6. ~Filled(text, hi + 1, N)
    <3>1. ASSUME NEW k \in (hi + 1)..N, text[k] # Re!Space PROVE FALSE
      <4>1. k \in 1..N /\ ~(k <= hi)
        BY <1>1, <2>4
      <4>. QED
        BY <1>1, <2>3, <3>1, <4>1
    <3>. QED
      BY <3>1 DEF Filled
  <2>7. Trimmed(text, lo, hi)
    BY <2>4, <2>5, <2>6 DEF Trimmed, N
  <2>. QED
    BY <1>2, <1>4, <2>4, <2>7 DEF lo, hi, N
<1>. QED
    BY <1>3, <1>4

-----------------------------------------------------------------------------
(* Paths: cleaned, and walked.                                              *)

LEMMA PartsDiffer == Re!Up \notin {Re!NoName, Re!Here}
    BY DEF Re!Up, Re!NoName, Re!Here

LEMMA FrontIs ==
    ASSUME NEW T, NEW s \in Seq(T), s # <<>>
    PROVE  /\ Re!Front(s) \in Seq(T) /\ Len(Re!Front(s)) = Len(s) - 1
           /\ \A n \in 1..(Len(s) - 1) : Re!Front(s)[n] = s[n]
<1>1. Len(s) \in Nat /\ Len(s) # 0 /\ \A n \in 1..Len(s) : s[n] \in T
    OBVIOUS
<1>2. Re!Front(s) = SubSeq(s, 1, Len(s) - 1)
    BY DEF Re!Front
<1>3. \A n \in 1..(Len(s) - 1) : s[n] \in T
    BY <1>1
<1>4. /\ SubSeq(s, 1, Len(s) - 1) \in Seq(T)
      /\ Len(SubSeq(s, 1, Len(s) - 1)) = IF 1 <= Len(s) - 1 THEN (Len(s) - 1) - 1 + 1 ELSE 0
      /\ \A n \in 1..(Len(s) - 1) - 1 + 1 : SubSeq(s, 1, Len(s) - 1)[n] = s[1 + n - 1]
    BY <1>1, <1>3, SubSeqProperties
<1>5. \A n \in 1..(Len(s) - 1) : n \in 1..(Len(s) - 1) - 1 + 1 /\ 1 + n - 1 = n
    BY <1>1
<1>6. \A n \in Nat : n # 0 => (IF 1 <= n - 1 THEN (n - 1) - 1 + 1 ELSE 0) = n - 1
    OBVIOUS
<1>7. Len(SubSeq(s, 1, Len(s) - 1)) = Len(s) - 1
    BY <1>1, <1>4, <1>6
<1>8. \A n \in 1..(Len(s) - 1) : SubSeq(s, 1, Len(s) - 1)[n] = s[n]
    BY <1>4, <1>5
<1>. QED
    BY <1>2, <1>4, <1>7, <1>8

LEMMA CleanPartType ==
    ASSUME NEW T, NEW s \in Seq(T), NEW part \in T
    PROVE  Re!CleanPart(s, part) \in Seq(T)
<1>1. CASE part \in {Re!NoName, Re!Here}
    BY <1>1, PartsDiffer DEF Re!CleanPart
<1>2. CASE part \notin {Re!NoName, Re!Here} /\ part = Re!Up /\ s # <<>> /\ Re!Last(s) # Re!Up
    BY <1>2, FrontIs DEF Re!CleanPart
<1>3. CASE part \notin {Re!NoName, Re!Here} /\ ~(part = Re!Up /\ s # <<>> /\ Re!Last(s) # Re!Up)
  <2>1. Re!CleanPart(s, part) = Append(s, part)
    BY <1>3 DEF Re!CleanPart
  <2>. QED
    BY <2>1, AppendProperties
<1>. QED
    BY <1>1, <1>2, <1>3

LEMMA StepType ==
    ASSUME NEW T, NEW s \in Seq(T), NEW part \in T
    PROVE  Re!Step(s, part) \in Seq(T)
<1>1. CASE part \in {Re!NoName, Re!Here}
    BY <1>1, PartsDiffer DEF Re!Step
<1>2. CASE part = Re!Up
    BY <1>2, FrontIs, PartsDiffer DEF Re!Step
<1>3. CASE part \notin {Re!NoName, Re!Here, Re!Up}
  <2>1. Re!Step(s, part) = Append(s, part)
    BY <1>3 DEF Re!Step
  <2>. QED
    BY <2>1, AppendProperties
<1>. QED
    BY <1>1, <1>2, <1>3

LEMMA CleanedIs ==
    ASSUME NEW T, NEW path \in Seq(T)
    PROVE  /\ Re!Cleaned(path)[0] = <<>>
           /\ \A n \in 1..Len(path) : Re!Cleaned(path)[n] = Re!CleanPart(Re!Cleaned(path)[n - 1], path[n])
           /\ \A n \in 0..Len(path) : Re!Cleaned(path)[n] \in Seq(T)
           /\ DOMAIN Re!Cleaned(path) = 0..Len(path)
<1>. DEFINE V == Seq(T)
            F == [x \in V \X T |-> Re!CleanPart(x[1], x[2])]
            Is(f) == f = [n \in 0..Len(path) |-> IF n = 0 THEN <<>> ELSE Re!CleanPart(f[n - 1], path[n])]
            c == Re!Cleaned(path)
<1>1. StepOn(F, V, T) /\ <<>> \in V /\ Len(path) \in Nat
  <2>1. \A x \in V \X T : Re!CleanPart(x[1], x[2]) \in V
    <3>. TAKE x \in V \X T
    <3>1. x[1] \in V /\ x[2] \in T
      OBVIOUS
    <3>. QED
      BY <3>1, CleanPartType
  <2>2. <<>> \in V
    OBVIOUS
  <2>. QED
    BY <2>1, <2>2 DEF StepOn
<1>2. \E u : Is(u)
  <2>1. PICK u : Carried(u, <<>>, F, path, V)
    <3>. HIDE DEF F, V
    <3>. QED
      BY <1>1, CarrySolved
  <2>2. ASSUME NEW n \in 1..Len(path) PROVE u[n] = Re!CleanPart(u[n - 1], path[n])
    <3>1. u[n - 1] \in V /\ path[n] \in T
      <4>. HIDE DEF V
      <4>1. u \in [0..Len(path) -> V] /\ n - 1 \in 0..Len(path)
        BY <1>1, <2>1 DEF Carried
      <4>2. path[n] \in T
        BY ElementOfSeq
      <4>. QED
        BY <4>1, <4>2
    <3>. QED
      BY <2>1, <3>1 DEF Carried, Carries
  <2>3. Is(u)
    BY <1>1, <2>1, <2>2 DEF Carried, Carries
  <2>. QED
    BY <2>3
<1>3. Is(c)
    BY <1>2 DEF Re!Cleaned
<1>4. c[0] = <<>> /\ DOMAIN c = 0..Len(path) /\ \A n \in 1..Len(path) : c[n] = Re!CleanPart(c[n - 1], path[n])
  <2>. HIDE DEF c
  <2>. QED
    BY <1>1, <1>3
<1>5. \A n \in 0..Len(path) : c[n] \in V
  <2>. HIDE DEF c
  <2>. DEFINE G == {n \in 0..Len(path) : c[n] \in V}
  <2>1. 0 \in G
    <3>1. 0 \in 0..Len(path) /\ c[0] \in V
      BY <1>1, <1>4
    <3>. QED
      BY <3>1
  <2>2. ASSUME NEW n \in 1..Len(path), n - 1 \in G PROVE n \in G
    <3>1. c[n - 1] \in V /\ path[n] \in T
      <4>1. path[n] \in T
        BY ElementOfSeq
      <4>. QED
        BY <2>2, <4>1
    <3>2. c[n] \in V
      BY <1>4, <3>1, CleanPartType
    <3>. QED
      BY <3>2
  <2>3. 0..Len(path) \subseteq G
    <3>. HIDE DEF G
    <3>. QED
      BY <1>1, <2>1, <2>2, UpTo
  <2>. QED
    BY <2>3
<1>. QED
    BY <1>4, <1>5

LEMMA WalkedIs ==
    ASSUME NEW T, NEW path \in Seq(T), NEW from \in Seq(T)
    PROVE  /\ Re!Walk(from, path)[0] = from
           /\ \A n \in 1..Len(path) : Re!Walk(from, path)[n] = Re!Step(Re!Walk(from, path)[n - 1], path[n])
           /\ \A n \in 0..Len(path) : Re!Walk(from, path)[n] \in Seq(T)
           /\ DOMAIN Re!Walk(from, path) = 0..Len(path)
<1>. DEFINE V == Seq(T)
            F == [x \in V \X T |-> Re!Step(x[1], x[2])]
            Is(f) == f = [n \in 0..Len(path) |-> IF n = 0 THEN from ELSE Re!Step(f[n - 1], path[n])]
            c == Re!Walk(from, path)
<1>1. StepOn(F, V, T) /\ from \in V /\ Len(path) \in Nat
  <2>1. \A x \in V \X T : Re!Step(x[1], x[2]) \in V
    <3>. TAKE x \in V \X T
    <3>1. x[1] \in V /\ x[2] \in T
      OBVIOUS
    <3>. QED
      BY <3>1, StepType
  <2>2. from \in V
    OBVIOUS
  <2>. QED
    BY <2>1, <2>2 DEF StepOn
<1>2. \E u : Is(u)
  <2>1. PICK u : Carried(u, from, F, path, V)
    <3>. HIDE DEF F, V
    <3>. QED
      BY <1>1, CarrySolved
  <2>2. ASSUME NEW n \in 1..Len(path) PROVE u[n] = Re!Step(u[n - 1], path[n])
    <3>1. u[n - 1] \in V /\ path[n] \in T
      <4>. HIDE DEF V
      <4>1. u \in [0..Len(path) -> V] /\ n - 1 \in 0..Len(path)
        BY <1>1, <2>1 DEF Carried
      <4>2. path[n] \in T
        BY ElementOfSeq
      <4>. QED
        BY <4>1, <4>2
    <3>. QED
      BY <2>1, <3>1 DEF Carried, Carries
  <2>3. Is(u)
    BY <1>1, <2>1, <2>2 DEF Carried, Carries
  <2>. QED
    BY <2>3
<1>3. Is(c)
    BY <1>2 DEF Re!Walk
<1>4. c[0] = from /\ DOMAIN c = 0..Len(path) /\ \A n \in 1..Len(path) : c[n] = Re!Step(c[n - 1], path[n])
  <2>. HIDE DEF c
  <2>. QED
    BY <1>1, <1>3
<1>5. \A n \in 0..Len(path) : c[n] \in V
  <2>. HIDE DEF c
  <2>. DEFINE G == {n \in 0..Len(path) : c[n] \in V}
  <2>1. 0 \in G
    <3>1. 0 \in 0..Len(path) /\ c[0] \in V
      BY <1>1, <1>4
    <3>. QED
      BY <3>1
  <2>2. ASSUME NEW n \in 1..Len(path), n - 1 \in G PROVE n \in G
    <3>1. c[n - 1] \in V /\ path[n] \in T
      <4>1. path[n] \in T
        BY ElementOfSeq
      <4>. QED
        BY <2>2, <4>1
    <3>2. c[n] \in V
      BY <1>4, <3>1, StepType
    <3>. QED
      BY <3>2
  <2>3. 0..Len(path) \subseteq G
    <3>. HIDE DEF G
    <3>. QED
      BY <1>1, <2>1, <2>2, UpTo
  <2>. QED
    BY <2>3
<1>. QED
    BY <1>4, <1>5

\* Below the directory of a prototype.
Dir == <<"proto">>
Home == <<Dir>>
Below(s) == Home \o s

LEMMA BelowIs ==
    ASSUME NEW T, Dir \in T, NEW s \in Seq(T)
    PROVE  /\ Below(s) \in Seq(T) /\ Len(Below(s)) = Len(s) + 1 /\ Below(s)[1] = Dir
           /\ \A n \in 1..Len(s) : Below(s)[n + 1] = s[n]
<1>1. Home \in Seq(T) /\ Len(Home) = 1 /\ Home[1] = Dir
    BY DEF Home
<1>2. /\ Home \o s \in Seq(T) /\ Len(Home \o s) = Len(Home) + Len(s)
      /\ \A i \in 1..Len(Home) + Len(s) : (Home \o s)[i] = IF i <= Len(Home) THEN Home[i] ELSE s[i - Len(Home)]
    BY <1>1, ConcatProperties
<1>3. Len(s) \in Nat
    OBVIOUS
<1>4. ASSUME NEW n \in 1..Len(s) PROVE (Home \o s)[n + 1] = s[n]
  <2>1. n + 1 \in 1..Len(Home) + Len(s) /\ ~(n + 1 <= Len(Home)) /\ (n + 1) - Len(Home) = n
    BY <1>1, <1>3
  <2>. QED
    BY <1>2, <2>1
<1>5. (Home \o s)[1] = Dir
  <2>1. 1 \in 1..Len(Home) + Len(s) /\ 1 <= Len(Home)
    BY <1>1, <1>3
  <2>. QED
    BY <1>1, <1>2, <2>1
<1>. QED
    BY <1>1, <1>2, <1>3, <1>4, <1>5 DEF Below

LEMMA BelowFront ==
    ASSUME NEW T, Dir \in T, NEW s \in Seq(T), s # <<>>
    PROVE  Re!Front(Below(s)) = Below(Re!Front(s))
<1>1. /\ Below(s) \in Seq(T) /\ Len(Below(s)) = Len(s) + 1 /\ Below(s)[1] = Dir
      /\ \A n \in 1..Len(s) : Below(s)[n + 1] = s[n]
    BY BelowIs
<1>2. Len(s) \in Nat \ {0} /\ Below(s) # <<>>
    BY <1>1
<1>3. /\ Re!Front(s) \in Seq(T) /\ Len(Re!Front(s)) = Len(s) - 1
      /\ \A n \in 1..(Len(s) - 1) : Re!Front(s)[n] = s[n]
    BY FrontIs
<1>4. /\ Re!Front(Below(s)) \in Seq(T) /\ Len(Re!Front(Below(s))) = Len(Below(s)) - 1
      /\ \A n \in 1..(Len(Below(s)) - 1) : Re!Front(Below(s))[n] = Below(s)[n]
    BY <1>1, <1>2, FrontIs
<1>5. /\ Below(Re!Front(s)) \in Seq(T) /\ Len(Below(Re!Front(s))) = Len(Re!Front(s)) + 1
      /\ Below(Re!Front(s))[1] = Dir
      /\ \A n \in 1..Len(Re!Front(s)) : Below(Re!Front(s))[n + 1] = Re!Front(s)[n]
    BY <1>3, BelowIs
<1>6. Len(Re!Front(Below(s))) = Len(Below(Re!Front(s))) /\ Len(Re!Front(Below(s))) = Len(s)
    BY <1>1, <1>2, <1>3, <1>4, <1>5
<1>7. ASSUME NEW n \in 1..Len(s) PROVE Re!Front(Below(s))[n] = Below(Re!Front(s))[n]
  <2>1. Re!Front(Below(s))[n] = Below(s)[n]
    BY <1>1, <1>2, <1>4
  <2>2. CASE n = 1
    BY <2>1, <2>2, <1>1, <1>5
  <2>3. CASE n # 1
    <3>1. n - 1 \in 1..Len(s) /\ (n - 1) + 1 = n /\ n - 1 \in 1..(Len(s) - 1)
      BY <1>2, <2>3
    <3>2. Below(s)[n] = s[n - 1]
      BY <1>1, <3>1
    <3>3. Below(Re!Front(s))[n] = Re!Front(s)[n - 1]
      BY <1>3, <1>5, <3>1
    <3>. QED
      BY <1>3, <2>1, <3>1, <3>2, <3>3
  <2>. QED
    BY <2>2, <2>3
<1>. QED
    BY <1>4, <1>5, <1>6, <1>7, SeqEqual

LEMMA BelowAppend ==
    ASSUME NEW T, Dir \in T, NEW s \in Seq(T), NEW part \in T
    PROVE  Append(Below(s), part) = Below(Append(s, part))
<1>1. Home \in Seq(T)
    BY DEF Home
<1>. QED
    BY <1>1 DEF Below

\* What is cleaned never loses a step up that it holds.
LEMMA DotsStay ==
    ASSUME NEW T, NEW s \in Seq(T), NEW part \in T, Re!Within(Re!Up, s)
    PROVE  Re!Within(Re!Up, Re!CleanPart(s, part))
<1>1. PICK m \in 1..Len(s) : s[m] = Re!Up
    BY DEF Re!Within
<1>2. CASE part \in {Re!NoName, Re!Here}
    BY <1>2, PartsDiffer DEF Re!CleanPart
<1>3. CASE part \notin {Re!NoName, Re!Here} /\ part = Re!Up /\ s # <<>> /\ Re!Last(s) # Re!Up
  <2>1. m # Len(s)
    BY <1>1, <1>3 DEF Re!Last
  <2>2. m \in 1..(Len(s) - 1)
    BY <2>1
  <2>3. Re!Front(s)[m] = Re!Up /\ m \in DOMAIN Re!Front(s)
    BY <1>1, <1>3, <2>2, FrontIs
  <2>. QED
    BY <1>3, <2>3 DEF Re!CleanPart, Re!Within
<1>4. CASE part \notin {Re!NoName, Re!Here} /\ ~(part = Re!Up /\ s # <<>> /\ Re!Last(s) # Re!Up)
  <2>1. Re!CleanPart(s, part) = Append(s, part)
    BY <1>4 DEF Re!CleanPart
  <2>2. m \in DOMAIN Append(s, part) /\ Append(s, part)[m] = Re!Up
    BY <1>1
  <2>. QED
    BY <2>1, <2>2 DEF Re!Within
<1>. QED
    BY <1>2, <1>3, <1>4

\* As long as none is held, the walk is at what is cleaned.
LEMMA StepBelow ==
    ASSUME NEW T, Dir \in T, NEW s \in Seq(T), NEW part \in T, ~Re!Within(Re!Up, Re!CleanPart(s, part))
    PROVE  Re!Step(Below(s), part) = Below(Re!CleanPart(s, part))
<1>0. Below(s) # <<>>
  <2>1. Below(s) \in Seq(T) /\ Len(Below(s)) = Len(s) + 1
    BY BelowIs
  <2>2. Len(s) \in Nat
    OBVIOUS
  <2>. QED
    BY <2>1, <2>2
<1>1. CASE part \in {Re!NoName, Re!Here}
    BY <1>1, PartsDiffer DEF Re!CleanPart, Re!Step
<1>2. CASE part \notin {Re!NoName, Re!Here} /\ part = Re!Up /\ s # <<>> /\ Re!Last(s) # Re!Up
  <2>1. Re!CleanPart(s, part) = Re!Front(s)
    BY <1>2 DEF Re!CleanPart
  <2>2. Re!Step(Below(s), part) = Re!Front(Below(s))
    BY <1>0, <1>2, PartsDiffer DEF Re!Step
  <2>. QED
    BY <1>2, <2>1, <2>2, BelowFront
<1>3. CASE part \notin {Re!NoName, Re!Here} /\ ~(part = Re!Up /\ s # <<>> /\ Re!Last(s) # Re!Up)
  <2>1. Re!CleanPart(s, part) = Append(s, part)
    BY <1>3 DEF Re!CleanPart
  <2>2. part # Re!Up
    <3>. SUFFICES ASSUME part = Re!Up PROVE FALSE
      OBVIOUS
    <3>1. Len(s) + 1 \in DOMAIN Append(s, part) /\ Append(s, part)[Len(s) + 1] = part
      OBVIOUS
    <3>. QED
      BY <2>1, <3>1 DEF Re!Within
  <2>3. Re!Step(Below(s), part) = Append(Below(s), part)
    BY <1>3, <2>2 DEF Re!Step
  <2>. QED
    BY <2>1, <2>3, BelowAppend
<1>. QED
    BY <1>1, <1>2, <1>3

\* As long as the walk does not leave, none is held.
LEMMA StaysBelow ==
    ASSUME NEW T, Dir \in T, NEW s \in Seq(T), NEW part \in T, ~Re!Within(Re!Up, s),
           Re!Step(Below(s), part) # <<>>
    PROVE  ~Re!Within(Re!Up, Re!CleanPart(s, part))
<1>1. CASE part \in {Re!NoName, Re!Here}
    BY <1>1, PartsDiffer DEF Re!CleanPart
<1>2. CASE part \notin {Re!NoName, Re!Here} /\ part = Re!Up /\ s # <<>> /\ Re!Last(s) # Re!Up
  <2>1. Re!CleanPart(s, part) = Re!Front(s)
    BY <1>2 DEF Re!CleanPart
  <2>2. /\ Re!Front(s) \in Seq(T) /\ Len(Re!Front(s)) = Len(s) - 1
        /\ \A n \in 1..(Len(s) - 1) : Re!Front(s)[n] = s[n]
    BY <1>2, FrontIs
  <2>3. \A n \in 1..(Len(s) - 1) : n \in 1..Len(s)
    OBVIOUS
  <2>4. DOMAIN Re!Front(s) = 1..(Len(s) - 1) /\ DOMAIN s = 1..Len(s)
    BY <2>2
  <2>. QED
    BY <2>1, <2>2, <2>3, <2>4 DEF Re!Within
<1>3. CASE part \notin {Re!NoName, Re!Here} /\ part # Re!Up
  <2>1. Re!CleanPart(s, part) = Append(s, part)
    BY <1>3 DEF Re!CleanPart
  <2>2. /\ DOMAIN Append(s, part) = 1..Len(s) + 1 /\ DOMAIN s = 1..Len(s) /\ Len(s) \in Nat
        /\ Append(s, part)[Len(s) + 1] = part
        /\ \A n \in 1..Len(s) : Append(s, part)[n] = s[n]
    OBVIOUS
  <2>3. ASSUME NEW n \in DOMAIN Append(s, part), Append(s, part)[n] = Re!Up PROVE FALSE
    <3>1. n \in 1..Len(s) \/ n = Len(s) + 1
      BY <2>2
    <3>. QED
      BY <1>3, <2>2, <2>3, <3>1 DEF Re!Within
  <2>. QED
    BY <2>1, <2>3 DEF Re!Within
<1>4. CASE part = Re!Up /\ ~(s # <<>> /\ Re!Last(s) # Re!Up)
  <2>1. s = <<>>
    <3>. SUFFICES ASSUME s # <<>> PROVE FALSE
      OBVIOUS
    <3>1. Len(s) \in DOMAIN s /\ s[Len(s)] = Re!Up
      BY <1>4 DEF Re!Last
    <3>. QED
      BY <3>1 DEF Re!Within
  <2>2. Below(s) = Home /\ Home # <<>> /\ Re!Front(Home) = <<>>
    BY <2>1 DEF Below, Home, Re!Front
  <2>. QED
    BY <1>4, <2>2 DEF Re!Step
<1>. QED
    BY <1>1, <1>2, <1>3, <1>4

\* sanitizeRelPath accepts what leads to the place its cleaned form names, and
\* whatever leads below the directory without leaving it.
LEMMA PathIs ==
    ASSUME NEW T, Dir \in T, NEW path \in Seq(T), NEW N, N = Len(path)
    PROVE  /\ ~Re!Within(Re!Up, Re!Clean(path)) => Re!Walk(Home, path)[N] = Below(Re!Clean(path))
           /\ (\A n \in 0..N : Re!Walk(Home, path)[n] # <<>>) =>
                  Re!Walk(Home, path)[N] = Below(Re!Clean(path)) /\ ~Re!Within(Re!Up, Re!Clean(path))
<1>. DEFINE c == Re!Cleaned(path)
            w == Re!Walk(Home, path)
            Out(n) == Re!Within(Re!Up, c[n])
<1>1. Home \in Seq(T) /\ N \in Nat
    BY DEF Home
<1>2. /\ c[0] = <<>>
      /\ \A n \in 1..N : c[n] = Re!CleanPart(c[n - 1], path[n])
      /\ \A n \in 0..N : c[n] \in Seq(T)
    BY CleanedIs
<1>3. /\ w[0] = Home
      /\ \A n \in 1..N : w[n] = Re!Step(w[n - 1], path[n])
  <2>1. /\ w[0] = Home
        /\ \A n \in 1..Len(path) : w[n] = Re!Step(w[n - 1], path[n])
        /\ \A n \in 0..Len(path) : w[n] \in Seq(T)
        /\ DOMAIN w = 0..Len(path)
    BY <1>1, WalkedIs
  <2>. HIDE DEF w
  <2>. QED
    BY <2>1
<1>4. Re!Clean(path) = c[N] /\ \A n \in 1..N : path[n] \in T /\ n - 1 \in 0..N /\ n \in 0..N
    BY <1>1 DEF Re!Clean
<1>. HIDE DEF c, w
<1>5. w[0] = Below(c[0]) /\ ~Out(0)
    BY <1>1, <1>2, <1>3 DEF Below, Re!Within, Home
<1>6. ASSUME NEW n \in 1..N, Out(n - 1) PROVE Out(n)
    BY <1>2, <1>4, <1>6, DotsStay
<1>7. ASSUME NEW n \in 1..N, w[n - 1] = Below(c[n - 1]), ~Out(n) PROVE w[n] = Below(c[n])
  <2>1. Re!Step(Below(c[n - 1]), path[n]) = Below(Re!CleanPart(c[n - 1], path[n]))
    BY <1>2, <1>4, <1>7, StepBelow
  <2>. QED
    BY <1>2, <1>3, <1>7, <2>1
<1>8. ASSUME NEW n \in 1..N, w[n - 1] = Below(c[n - 1]), ~Out(n - 1), w[n] # <<>> PROVE ~Out(n)
  <2>1. Re!Step(Below(c[n - 1]), path[n]) # <<>>
    BY <1>3, <1>8
  <2>. QED
    BY <1>2, <1>4, <1>8, <2>1, StaysBelow
<1>. HIDE DEF Out
<1>9. ASSUME ~Out(N) PROVE w[N] = Below(c[N])
  <2>. DEFINE G == {n \in 0..N : Out(n) \/ w[n] = Below(c[n])}
  <2>1. 0 \in G
    BY <1>1, <1>5
  <2>2. ASSUME NEW n \in 1..N, n - 1 \in G PROVE n \in G
    BY <1>4, <1>6, <1>7, <2>2
  <2>3. 0..N \subseteq G
    <3>. HIDE DEF G
    <3>. QED
      BY <1>1, <2>1, <2>2, UpTo
  <2>. QED
    BY <1>1, <1>9, <2>3
<1>10. ASSUME \A n \in 0..N : w[n] # <<>> PROVE w[N] = Below(c[N]) /\ ~Out(N)
  <2>. DEFINE G == {n \in 0..N : w[n] = Below(c[n]) /\ ~Out(n)}
  <2>1. 0 \in G
    BY <1>1, <1>5
  <2>2. ASSUME NEW n \in 1..N, n - 1 \in G PROVE n \in G
    <3>1. w[n - 1] = Below(c[n - 1]) /\ ~Out(n - 1) /\ w[n] # <<>>
      BY <1>4, <1>10, <2>2
    <3>2. ~Out(n)
      BY <1>8, <3>1
    <3>. QED
      BY <1>4, <1>7, <3>1, <3>2
  <2>3. 0..N \subseteq G
    <3>. HIDE DEF G
    <3>. QED
      BY <1>1, <2>1, <2>2, UpTo
  <2>. QED
    BY <1>1, <2>3
<1>. QED
    BY <1>4, <1>9, <1>10 DEF c, w, Out

LEMMA SplitCharType ==
    ASSUME NEW U, NEW parts \in Seq(Seq(U)) \ {<<>>}, NEW ch \in U
    PROVE  Re!SplitChar(parts, ch) \in Seq(Seq(U)) \ {<<>>}
<1>. DEFINE K == Seq(U)
<1>1. <<>> \in K /\ Len(parts) \in Nat \ {0}
    OBVIOUS
<1>2. Re!Last(parts) \in K
  <2>1. Len(parts) \in 1..Len(parts)
    BY <1>1
  <2>. QED
    BY <2>1, ElementOfSeq DEF Re!Last
<1>3. Append(Re!Last(parts), ch) \in K
    BY <1>2, AppendProperties
<1>. HIDE DEF K
<1>4. Re!Front(parts) \in Seq(K)
  <2>1. parts \in Seq(K) /\ parts # <<>>
    BY DEF K
  <2>. QED
    BY <2>1, FrontIs
<1>5. parts \in Seq(K)
    BY DEF K
<1>6. ASSUME NEW s \in Seq(K), NEW x \in K PROVE Append(s, x) \in Seq(K) \ {<<>>}
  <2>1. Append(s, x) \in Seq(K) /\ Append(s, x) # <<>>
    BY AppendProperties
  <2>. QED
    BY <2>1
<1>7. Re!SplitChar(parts, ch) \in Seq(K) \ {<<>>}
  <2>1. CASE ch = Re!Slash
    <3>1. Re!SplitChar(parts, ch) = Append(parts, <<>>)
      BY <2>1 DEF Re!SplitChar, Re!NoName
    <3>. QED
      BY <1>1, <1>5, <1>6, <3>1
  <2>2. CASE ch # Re!Slash
    <3>1. Re!SplitChar(parts, ch) = Append(Re!Front(parts), Append(Re!Last(parts), ch))
      BY <2>2 DEF Re!SplitChar
    <3>. QED
      BY <1>3, <1>4, <1>6, <3>1
  <2>. QED
    BY <2>1, <2>2
<1>. QED
    BY <1>7 DEF K

LEMMA PartsType ==
    ASSUME NEW U, NEW path \in Seq(U)
    PROVE  /\ Re!Parts(path) \in Seq(Seq(U)) /\ Re!Parts(path) # <<>>
           /\ path = <<>> => Re!Parts(path) = <<Re!NoName>>
<1>. DEFINE V == Seq(Seq(U)) \ {<<>>}
            F == [x \in V \X U |-> Re!SplitChar(x[1], x[2])]
            first == <<Re!NoName>>
            Is(f) == f = [n \in 0..Len(path) |-> IF n = 0 THEN first ELSE Re!SplitChar(f[n - 1], path[n])]
            c == Re!Split(path)
<1>1. StepOn(F, V, U) /\ first \in V /\ Len(path) \in Nat
  <2>1. \A x \in V \X U : Re!SplitChar(x[1], x[2]) \in V
    <3>. TAKE x \in V \X U
    <3>1. x[1] \in V /\ x[2] \in U
      OBVIOUS
    <3>. QED
      BY <3>1, SplitCharType
  <2>2. first \in V
    BY DEF Re!NoName
  <2>. QED
    BY <2>1, <2>2 DEF StepOn
<1>2. \E u : Is(u)
  <2>1. PICK u : Carried(u, first, F, path, V)
    <3>. HIDE DEF F, V, first
    <3>. QED
      BY <1>1, CarrySolved
  <2>2. ASSUME NEW n \in 1..Len(path) PROVE u[n] = Re!SplitChar(u[n - 1], path[n])
    <3>1. u[n - 1] \in V /\ path[n] \in U
      <4>. HIDE DEF V
      <4>1. u \in [0..Len(path) -> V] /\ n - 1 \in 0..Len(path)
        BY <1>1, <2>1 DEF Carried
      <4>2. path[n] \in U
        BY ElementOfSeq
      <4>. QED
        BY <4>1, <4>2
    <3>. QED
      BY <2>1, <3>1 DEF Carried, Carries
  <2>3. Is(u)
    <3>. HIDE DEF V, first
    <3>. QED
      BY <1>1, <2>1, <2>2 DEF Carried, Carries
  <2>. QED
    BY <2>3
<1>3. Is(c)
    BY <1>2 DEF Re!Split
<1>4. c[0] = first /\ \A n \in 1..Len(path) : c[n] = Re!SplitChar(c[n - 1], path[n])
  <2>. HIDE DEF c, first
  <2>1. Len(path) \in Nat
    BY <1>1
  <2>. QED
    BY <1>3, <2>1
<1>5. 0..Len(path) \subseteq {n \in 0..Len(path) : c[n] \in V}
  <2>. HIDE DEF c, first
  <2>. DEFINE G == {n \in 0..Len(path) : c[n] \in V}
  <2>1. 0 \in G
    <3>1. 0 \in 0..Len(path) /\ c[0] \in V
      BY <1>1, <1>4
    <3>. QED
      BY <3>1
  <2>2. ASSUME NEW n \in 1..Len(path), n - 1 \in G PROVE n \in G
    <3>1. c[n - 1] \in V /\ path[n] \in U
      <4>1. path[n] \in U
        BY ElementOfSeq
      <4>. QED
        BY <2>2, <4>1
    <3>2. Re!SplitChar(c[n - 1], path[n]) \in V
      BY <3>1, SplitCharType
    <3>3. c[n] = Re!SplitChar(c[n - 1], path[n])
      BY <1>4
    <3>. HIDE DEF V
    <3>. QED
      BY <3>2, <3>3
  <2>3. 0..Len(path) \subseteq G
    <3>. HIDE DEF G
    <3>. QED
      BY <1>1, <2>1, <2>2, UpTo
  <2>. QED
    BY <2>3
<1>6. c[Len(path)] \in V
  <2>1. Len(path) \in 0..Len(path)
    BY <1>1
  <2>. QED
    BY <1>5, <2>1
<1>7. path = <<>> => c[Len(path)] = first
  <2>. HIDE DEF c, first
  <2>. QED
    BY <1>4
<1>. QED
    BY <1>6, <1>7 DEF Re!Parts

LEMMA TrimmedType ==
    ASSUME NEW U, NEW text \in Seq(U)
    PROVE  Re!Trimmed(text) \in Seq(U)
<1>1. CASE Re!TrimSpace(text, {Re!Space}) = <<>>
    BY <1>1 DEF Re!Trimmed
<1>2. ASSUME NEW lo \in 1..Len(text), NEW hi \in 1..Len(text), Re!TrimSpace(text, {Re!Space}) = SubSeq(text, lo, hi)
      PROVE  Re!Trimmed(text) \in Seq(U)
  <2>1. \A i \in lo..hi : text[i] \in U
    <3>1. \A i \in 1..Len(text) : text[i] \in U
      BY ElementOfSeq
    <3>. QED
      BY <3>1
  <2>2. SubSeq(text, lo, hi) \in Seq(U)
    BY <2>1, SubSeqProperties
  <2>. QED
    BY <1>2, <2>2 DEF Re!Trimmed
<1>. QED
    BY <1>1, <1>2, TrimmedIs

-----------------------------------------------------------------------------
(* Whatever is asked, the answer is the code's.                             *)

Answered(value) == answer \in {Nothing, value}

AskInv ==
    \/ \E text \in ReplyTexts :
          asked = [fn |-> "reply", text |-> text] /\ Answered([text |-> Re!Raw(text)])
    \/ \E path \in FilePaths :
          /\ asked = [fn |-> "path", path |-> path]
          /\ Answered([name |-> Re!SafeName(path), safe |-> Re!SafePath(path)])
    \/ \E w \in Commands : \E t \in Typings(w) : \E l \in Sh!LinesOf(t.typed) :
          /\ asked = [fn |-> "line", words |-> w, typed |-> t.typed, line |-> l, pinned |-> t.pinned]
          /\ Answered([words |-> Sh!Command(l, t.pinned)])
    \/ \E s \in Setups :
          /\ asked = [fn |-> "load", env |-> s.env, file |-> s.file]
          /\ Answered([client |-> Co!New(Co!Load(s.env, s.file))])

LEMMA AskInvFirst == AskInit => AskInv
    BY DEF AskInit, AskInv, Answered

LEMMA AskInvStep == AskInv /\ [AskNext]_askVars => AskInv'
<1>. SUFFICES ASSUME AskInv, [AskNext]_askVars PROVE AskInv'
    OBVIOUS
<1>0. CASE UNCHANGED askVars
    BY <1>0 DEF askVars, AskInv, Answered
<1>1. CASE AskNext
  <2>1. asked' = asked
    BY <1>1 DEF AskNext, Reply, Path, Line, Setup, Say
  <2>2. ASSUME NEW text \in ReplyTexts, asked = [fn |-> "reply", text |-> text] PROVE AskInv'
    <3>1. answer' = [text |-> Re!Raw(text)]
      BY <1>1, <2>2 DEF AskNext, Reply, Path, Line, Setup, Say
    <3>. QED
      BY <2>1, <2>2, <3>1 DEF AskInv, Answered
  <2>3. ASSUME NEW path \in FilePaths, asked = [fn |-> "path", path |-> path] PROVE AskInv'
    <3>1. answer' = [name |-> Re!SafeName(path), safe |-> Re!SafePath(path)]
      BY <1>1, <2>3 DEF AskNext, Reply, Path, Line, Setup, Say
    <3>. QED
      BY <2>1, <2>3, <3>1 DEF AskInv, Answered
  <2>4. ASSUME NEW w \in Commands, NEW t \in Typings(w), NEW l \in Sh!LinesOf(t.typed),
               asked = [fn |-> "line", words |-> w, typed |-> t.typed, line |-> l, pinned |-> t.pinned]
        PROVE  AskInv'
    <3>1. answer' = [words |-> Sh!Command(l, t.pinned)]
      BY <1>1, <2>4 DEF AskNext, Reply, Path, Line, Setup, Say
    <3>. QED
      BY <2>1, <2>4, <3>1 DEF AskInv, Answered
  <2>5. ASSUME NEW s \in Setups, asked = [fn |-> "load", env |-> s.env, file |-> s.file] PROVE AskInv'
    <3>1. answer' = [client |-> Co!New(Co!Load(s.env, s.file))]
      BY <1>1, <2>5 DEF AskNext, Reply, Path, Line, Setup, Say
    <3>. QED
      BY <2>1, <2>5, <3>1 DEF AskInv, Answered
  <2>. QED
    BY <2>2, <2>3, <2>4, <2>5 DEF AskInv
<1>. QED
    BY <1>0, <1>1

LEMMA AskInvAlways == AskSpec => []AskInv
    BY AskInvFirst, AskInvStep, PTL DEF AskSpec

\* What is asked about paths.
LEMMA PathAsked ==
    ASSUME AskInv, asked.fn = "path", answer # Nothing
    PROVE  /\ asked.path \in FilePaths /\ answer.name = Re!SafeName(asked.path)
           /\ answer.safe = Re!SafePath(asked.path)
    BY DEF AskInv, Answered

\* A path of a manifest that sanitizeRelPath accepts leads below the directory of
\* the prototype, to the place its cleaned form names, and one that leads there
\* without leaving it is accepted, however many parts its 200 bytes make, unless
\* it holds a backslash or a NUL (prototype.go:133).
THEOREM FilesStayInside == AskSpec => []PathsStayInside
<1>1. AskInv => PathsStayInside
  <2>. SUFFICES ASSUME AskInv, asked.fn = "path", answer # Nothing PROVE PathsStayInside
    BY DEF PathsStayInside
  <2>. DEFINE path == Re!Trimmed(asked.path)
              parts == Re!Parts(path)
              N == Len(parts)
              absolute == path # <<>> /\ Head(path) = Re!Slash
              from == IF absolute THEN <<>> ELSE Home
              w == Re!Walk(from, parts)
              c == Re!Clean(parts)
  <2>1. asked.path \in FilePaths /\ answer.name = c /\ answer.safe = Re!SafePath(asked.path)
    BY PathAsked DEF Re!SafeName
  <2>3. PICK U : U = STRING
    OBVIOUS
  <2>. DEFINE T == Seq(U) \cup {Dir}
  <2>4. Dir \in T
    OBVIOUS
  <2>5. parts \in Seq(T) /\ parts # <<>> /\ (path = <<>> => parts = <<Re!NoName>>)
    <3>1. asked.path \in Seq(U)
      BY <2>1, <2>3, PathsType
    <3>2. path \in Seq(U)
      BY <3>1, TrimmedType
    <3>. HIDE DEF path
    <3>3. parts \in Seq(Seq(U)) /\ parts # <<>> /\ (path = <<>> => parts = <<Re!NoName>>)
      BY <3>2, PartsType
    <3>. HIDE DEF parts
    <3>. QED
      BY <3>3
  <2>. HIDE DEF T
  <2>. HIDE DEF parts
  <2>6. N \in Nat /\ N # 0 /\ DOMAIN w = 0..N /\ w[0] = from
    <3>1. from \in Seq(T)
      BY <2>4 DEF Home
    <3>. HIDE DEF from
    <3>. QED
      BY <2>5, <3>1, WalkedIs
  <2>7. ~absolute => /\ ~Re!Within(Re!Up, c) => w[N] = Below(c)
                     /\ (\A n \in 0..N : w[n] # <<>>) => w[N] = Below(c) /\ ~Re!Within(Re!Up, c)
    <3>1. /\ ~Re!Within(Re!Up, c) => Re!Walk(Home, parts)[N] = Below(c)
          /\ (\A n \in 0..N : Re!Walk(Home, parts)[n] # <<>>) =>
                 Re!Walk(Home, parts)[N] = Below(c) /\ ~Re!Within(Re!Up, c)
      BY <2>4, <2>5, PathIs
    <3>2. ~absolute => w = Re!Walk(Home, parts)
      OBVIOUS
    <3>. HIDE DEF w, absolute, c
    <3>. QED
      BY <3>1, <3>2
  <2>8. Below(c) # Home <=> c # <<>>
    <3>1. N \in 0..N /\ c \in Seq(T)
      BY <2>5, <2>6, CleanedIs DEF Re!Clean
    <3>2. Len(Below(c)) = Len(c) + 1 /\ Below(c) \in Seq(T)
      BY <2>4, <3>1, BelowIs
    <3>3. Len(Home) = 1 /\ Home \in Seq(T)
      BY <2>4 DEF Home
    <3>4. c = <<>> => Below(c) = Home
      BY <3>3 DEF Below
    <3>. HIDE DEF c
    <3>5. Len(c) \in Nat /\ (c # <<>> => Len(c) # 0)
      BY <3>1
    <3>6. c # <<>> => Below(c) # Home
      <4>1. c # <<>> => Len(Below(c)) # 1
        BY <3>2, <3>5
      <4>. QED
        BY <3>3, <4>1
    <3>. QED
      BY <3>4, <3>6
  <2>a. answer.safe <=> /\ path # <<>> /\ Head(path) # Re!Slash /\ ~Re!Within(Re!Odd, path)
                        /\ Len(path) <= LongestName /\ c # <<>> /\ ~Re!Within(Re!Up, c)
    BY <2>1 DEF Re!SafePath, Re!SafeName, parts
  <2>b. absolute => w[0] = <<>>
    BY <2>6
  <2>. HIDE DEF w, c
  <2>9. answer.safe => w[N] = Home \o c /\ w[N] # Home
    BY <2>7, <2>8, <2>a DEF Below
  <2>10. ASSUME \A n \in DOMAIN w : w[n] # <<>>, w[N] # Home, ~Re!Within(Re!Odd, path), Len(path) <= LongestName
         PROVE  answer.safe
    <3>1. ~absolute
      BY <2>6, <2>10, <2>b
    <3>2. w[N] = Below(c) /\ ~Re!Within(Re!Up, c) /\ c # <<>>
      BY <2>6, <2>7, <2>8, <2>10, <3>1
    <3>3. path # <<>>
      <4>. SUFFICES ASSUME path = <<>> PROVE c = <<>>
        BY <3>2
      <4>1. parts = <<Re!NoName>>
        BY <2>5
      <4>. QED
        <5>1. PICK one : one = 1
          OBVIOUS
        <5>2. /\ Re!Cleaned(parts)[0] = <<>>
              /\ \A n \in 1..Len(parts) : Re!Cleaned(parts)[n] = Re!CleanPart(Re!Cleaned(parts)[n - 1], parts[n])
          BY <2>5, CleanedIs
        <5>3. Len(parts) = 1 /\ parts[1] = Re!NoName
          BY <4>1
        <5>4. Re!Cleaned(parts)[1] = Re!CleanPart(<<>>, Re!NoName)
          BY <5>2, <5>3
        <5>5. Re!CleanPart(<<>>, Re!NoName) = <<>>
          BY DEF Re!CleanPart
        <5>. QED
          BY <5>3, <5>4, <5>5 DEF c, Re!Clean
    <3>. QED
      BY <2>10, <2>a, <3>1, <3>2, <3>3
  <2>. QED
    BY <2>1, <2>9, <2>10 DEF PathsStayInside, Home, Dir, w, c, parts
<1>. QED
    BY <1>1, AskInvAlways, PTL

-----------------------------------------------------------------------------
(* Settings.                                                                *)

Envs(U) == UNION {[D -> U] : D \in SUBSET U}

LEMMA WithLineIs ==
    ASSUME NEW U, NEW e \in Envs(U), NEW line \in [var : U, value : U]
    PROVE  /\ Co!WithLine(e, line) \in Envs(U)
           /\ \A v \in DOMAIN e : v \in DOMAIN Co!WithLine(e, line) /\ Co!WithLine(e, line)[v] = e[v]
           /\ \A v : v \notin DOMAIN e =>
                  /\ v \in DOMAIN Co!WithLine(e, line) <=> v = line.var
                  /\ v = line.var => Co!WithLine(e, line)[v] = line.value
<1>1. PICK D \in SUBSET U : e \in [D -> U]
    BY DEF Envs
<1>2. line.var \in U /\ line.value \in U
    OBVIOUS
<1>3. CASE line.var \in DOMAIN e
    BY <1>1, <1>3 DEF Co!WithLine
<1>4. CASE line.var \notin DOMAIN e
  <2>. DEFINE f == [v \in DOMAIN e \cup {line.var} |-> IF v = line.var THEN line.value ELSE e[v]]
  <2>1. Co!WithLine(e, line) = f
    BY <1>4 DEF Co!WithLine
  <2>2. f \in [D \cup {line.var} -> U] /\ D \cup {line.var} \in SUBSET U
    BY <1>1, <1>2
  <2>3. f \in Envs(U)
    <3>. HIDE DEF f
    <3>. QED
      BY <2>2 DEF Envs
  <2>4. \A v \in DOMAIN e : v \in DOMAIN f /\ f[v] = e[v]
    BY <1>4
  <2>5. \A v : v \notin DOMAIN e => (v \in DOMAIN f <=> v = line.var) /\ (v = line.var => f[v] = line.value)
    OBVIOUS
  <2>. HIDE DEF f
  <2>. QED
    BY <2>1, <2>3, <2>4, <2>5
<1>. QED
    BY <1>3, <1>4

LEMMA WithLineType ==
    ASSUME NEW U, NEW e \in Envs(U), NEW line \in [var : U, value : U]
    PROVE  Co!WithLine(e, line) \in Envs(U)
BY WithLineIs

LEMMA AfterLinesIs ==
    ASSUME NEW U, NEW env \in Envs(U), NEW file \in Seq([var : U, value : U])
    PROVE  /\ Co!AfterLines(env, file)[0] = env
           /\ \A n \in 1..Len(file) : Co!AfterLines(env, file)[n] = Co!WithLine(Co!AfterLines(env, file)[n - 1], file[n])
           /\ \A n \in 0..Len(file) : Co!AfterLines(env, file)[n] \in Envs(U)
           /\ DOMAIN Co!AfterLines(env, file) = 0..Len(file)
<1>. DEFINE V == Envs(U)
            F == [x \in V \X [var : U, value : U] |-> Co!WithLine(x[1], x[2])]
            Is(f) == f = [n \in 0..Len(file) |-> IF n = 0 THEN env ELSE Co!WithLine(f[n - 1], file[n])]
            c == Co!AfterLines(env, file)
<1>1. StepOn(F, V, [var : U, value : U]) /\ env \in V /\ Len(file) \in Nat
  <2>1. \A x \in V \X [var : U, value : U] : Co!WithLine(x[1], x[2]) \in V
    <3>. TAKE x \in V \X [var : U, value : U]
    <3>1. x[1] \in V /\ x[2] \in [var : U, value : U]
      OBVIOUS
    <3>. QED
      BY <3>1, WithLineType
  <2>2. env \in V
    OBVIOUS
  <2>. QED
    BY <2>1, <2>2 DEF StepOn
<1>2. \E u : Is(u)
  <2>1. PICK u : Carried(u, env, F, file, V)
    <3>. HIDE DEF F, V
    <3>. QED
      BY <1>1, CarrySolved
  <2>2. ASSUME NEW n \in 1..Len(file) PROVE u[n] = Co!WithLine(u[n - 1], file[n])
    <3>1. u[n - 1] \in V /\ file[n] \in [var : U, value : U]
      <4>. HIDE DEF V
      <4>1. u \in [0..Len(file) -> V] /\ n - 1 \in 0..Len(file)
        BY <1>1, <2>1 DEF Carried
      <4>2. file[n] \in [var : U, value : U]
        BY ElementOfSeq
      <4>. QED
        BY <4>1, <4>2
    <3>. QED
      BY <2>1, <3>1 DEF Carried, Carries
  <2>3. Is(u)
    BY <1>1, <2>1, <2>2 DEF Carried, Carries
  <2>. QED
    BY <2>3
<1>3. Is(c)
    BY <1>2 DEF Co!AfterLines
<1>4. c[0] = env /\ DOMAIN c = 0..Len(file) /\ \A n \in 1..Len(file) : c[n] = Co!WithLine(c[n - 1], file[n])
  <2>. HIDE DEF c
  <2>. QED
    BY <1>1, <1>3
<1>5. \A n \in 0..Len(file) : c[n] \in V
  <2>. HIDE DEF c
  <2>. DEFINE G == {n \in 0..Len(file) : c[n] \in V}
  <2>1. 0 \in G
    <3>1. 0 \in 0..Len(file) /\ c[0] \in V
      BY <1>1, <1>4
    <3>. QED
      BY <3>1
  <2>2. ASSUME NEW n \in 1..Len(file), n - 1 \in G PROVE n \in G
    <3>1. c[n - 1] \in V /\ file[n] \in [var : U, value : U]
      <4>1. file[n] \in [var : U, value : U]
        BY ElementOfSeq
      <4>. QED
        BY <2>2, <4>1
    <3>2. c[n] \in V
      BY <1>4, <3>1, WithLineType
    <3>. QED
      BY <3>2
  <2>3. 0..Len(file) \subseteq G
    <3>. HIDE DEF G
    <3>. QED
      BY <1>1, <2>1, <2>2, UpTo
  <2>. QED
    BY <2>3
<1>. QED
    BY <1>4, <1>5

\* What the file does to one variable.
StandsFirst(file, v, m, n) == m \in 1..n /\ file[m].var = v /\ \A k \in 1..(m - 1) : file[k].var # v
Stands(env, file, v, n, e) ==
    \/ v \in DOMAIN env /\ v \in DOMAIN e /\ e[v] = env[v]
    \/ v \notin DOMAIN env /\ v \notin DOMAIN e /\ \A m \in 1..n : file[m].var # v
    \/ /\ v \notin DOMAIN env /\ v \in DOMAIN e
       /\ \E m : StandsFirst(file, v, m, n) /\ e[v] = file[m].value

LEMMA DotenvStands ==
    ASSUME NEW U, NEW env \in Envs(U), NEW file \in Seq([var : U, value : U]), NEW v
    PROVE  Stands(env, file, v, Len(file), Co!LoadDotenv(env, file))
<1>. DEFINE N == Len(file)
            a == Co!AfterLines(env, file)
            G == {n \in 0..N : Stands(env, file, v, n, a[n])}
<1>1. /\ a[0] = env /\ \A n \in 1..N : a[n] = Co!WithLine(a[n - 1], file[n])
      /\ \A n \in 0..N : a[n] \in Envs(U)
    BY AfterLinesIs
<1>2. N \in Nat /\ \A n \in 1..N : file[n] \in [var : U, value : U] /\ n - 1 \in 0..N
  <2>1. \A n \in 1..N : file[n] \in [var : U, value : U]
    BY ElementOfSeq
  <2>. QED
    BY <2>1
<1>. HIDE DEF a, N
<1>3. 0 \in G
    BY <1>1, <1>2 DEF Stands
<1>4. ASSUME NEW n \in 1..N, n - 1 \in G PROVE n \in G
  <2>. DEFINE e == a[n - 1]
              line == file[n]
  <2>1. a[n] = Co!WithLine(e, line) /\ e \in Envs(U) /\ line \in [var : U, value : U] /\ Stands(env, file, v, n - 1, e)
    BY <1>1, <1>2, <1>4
  <2>. HIDE DEF e
  <2>2. /\ v \in DOMAIN e => v \in DOMAIN a[n] /\ a[n][v] = e[v]
        /\ v \notin DOMAIN e => (v \in DOMAIN a[n] <=> v = line.var) /\ (v = line.var => a[n][v] = line.value)
    BY <2>1, WithLineIs
  <2>3. n \in Nat /\ 1..n = 1..(n - 1) \cup {n}
    BY <1>2
  <2>4. CASE v \in DOMAIN env /\ v \in DOMAIN e /\ e[v] = env[v]
    BY <1>2, <2>2, <2>4 DEF Stands
  <2>5. CASE v \notin DOMAIN env /\ v \notin DOMAIN e /\ \A m \in 1..(n - 1) : file[m].var # v
    <3>1. CASE v = line.var
      <4>1. StandsFirst(file, v, n, n)
        BY <2>3, <2>5, <3>1 DEF StandsFirst
      <4>. QED
        BY <1>2, <2>2, <2>5, <3>1, <4>1 DEF Stands
    <3>2. CASE v # line.var
      <4>1. \A m \in 1..n : file[m].var # v
        BY <2>3, <2>5, <3>2
      <4>. QED
        BY <1>2, <2>2, <2>5, <3>2, <4>1 DEF Stands
    <3>. QED
      BY <3>1, <3>2
  <2>6. CASE /\ v \notin DOMAIN env /\ v \in DOMAIN e
             /\ \E m : StandsFirst(file, v, m, n - 1) /\ e[v] = file[m].value
    <3>1. PICK m : StandsFirst(file, v, m, n - 1) /\ e[v] = file[m].value
      BY <2>6
    <3>2. StandsFirst(file, v, m, n)
      BY <2>3, <3>1 DEF StandsFirst
    <3>. QED
      BY <1>2, <2>2, <2>6, <3>1, <3>2 DEF Stands
  <2>. QED
    BY <2>1, <2>4, <2>5, <2>6 DEF Stands
<1>5. 0..N \subseteq G
  <2>. HIDE DEF G
  <2>. QED
    BY <1>2, <1>3, <1>4, UpTo
<1>6. N \in G
    BY <1>2, <1>5
<1>. QED
    BY <1>6 DEF Co!LoadDotenv, a, N

\* After the file, a variable is what is said of it.
LEMMA DotenvIs ==
    ASSUME NEW U, NEW env \in Envs(U), NEW file \in Seq([var : U, value : U]), NEW v
    PROVE  Co!Get(Co!LoadDotenv(env, file), v) = Co!Said(env, file, v)
<1>. DEFINE e == Co!LoadDotenv(env, file)
            lines == {n \in DOMAIN file : file[n].var = v}
<1>1. Stands(env, file, v, Len(file), e)
    BY DotenvStands
<1>2. Co!Said(env, file, v) = IF v \in DOMAIN env THEN env[v] ELSE IF lines = {} THEN Co!Unset ELSE file[Min(lines)].value
    BY DEF Co!Said, Co!Min, Min
<1>3. Co!Get(e, v) = IF v \in DOMAIN e THEN e[v] ELSE Co!Unset
    BY DEF Co!Get
<1>4. DOMAIN file = 1..Len(file) /\ Len(file) \in Nat /\ lines \in SUBSET Nat
    OBVIOUS
<1>5. CASE v \in DOMAIN env /\ v \in DOMAIN e /\ e[v] = env[v]
    BY <1>2, <1>3, <1>5
<1>6. CASE v \notin DOMAIN env /\ v \notin DOMAIN e /\ \A m \in 1..Len(file) : file[m].var # v
  <2>1. lines = {}
    BY <1>4, <1>6
  <2>. QED
    BY <1>2, <1>3, <1>6, <2>1
<1>7. CASE /\ v \notin DOMAIN env /\ v \in DOMAIN e
           /\ \E m : StandsFirst(file, v, m, Len(file)) /\ e[v] = file[m].value
  <2>1. PICK m : StandsFirst(file, v, m, Len(file)) /\ e[v] = file[m].value
    BY <1>7
  <2>2. m \in lines /\ \A k \in lines : ~(k < m)
    BY <1>4, <2>1 DEF StandsFirst
  <2>3. Min(lines) \in lines /\ Min(lines) <= m
    BY <1>4, <2>2, MinIs
  <2>4. Min(lines) = m
    <3>1. Min(lines) \in Nat /\ m \in Nat /\ ~(Min(lines) < m)
      BY <1>4, <2>2, <2>3
    <3>. HIDE DEF lines
    <3>. QED
      BY <2>3, <3>1
  <2>. QED
    BY <1>2, <1>3, <1>7, <2>1, <2>2, <2>4
<1>. QED
    BY <1>1, <1>5, <1>6, <1>7 DEF Stands

\* The first of some variables that is set, or none.
FirstIs(e, vars, m) ==
    \/ m = 0 /\ \A i \in DOMAIN vars : Co!Get(e, vars[i]) = Co!Unset
    \/ m \in DOMAIN vars /\ Co!Get(e, vars[m]) # Co!Unset /\ \A i \in DOMAIN vars : i < m => Co!Get(e, vars[i]) = Co!Unset

LEMMA FirstSetIs ==
    ASSUME NEW e, NEW vars, DOMAIN vars \in SUBSET Nat
    PROVE  FirstIs(e, vars, Co!FirstSet(e, vars))
<1>. DEFINE set == {i \in DOMAIN vars : Co!Get(e, vars[i]) # Co!Unset}
            m == Min(set)
<1>1. Co!FirstSet(e, vars) = IF set = {} THEN 0 ELSE m
    BY DEF Co!FirstSet, Co!Min, Min
<1>2. set \in SUBSET Nat /\ \A i \in DOMAIN vars : i \in set <=> Co!Get(e, vars[i]) # Co!Unset
    OBVIOUS
<1>3. CASE set = {}
    BY <1>1, <1>2, <1>3 DEF FirstIs
<1>4. CASE set # {}
  <2>1. m \in set /\ \A i \in set : m <= i
    BY <1>2, <1>4, MinIs
  <2>2. m \in DOMAIN vars /\ Co!Get(e, vars[m]) # Co!Unset
    BY <2>1
  <2>. HIDE DEF m
  <2>3. ASSUME NEW i \in DOMAIN vars, i < m PROVE i \notin set
    <3>. HIDE DEF set
    <3>1. i \in Nat /\ m \in Nat
      BY <1>2, <2>1
    <3>2. ~(m <= i)
      BY <2>3, <3>1
    <3>. QED
      BY <2>1, <3>2
  <2>. HIDE DEF set
  <2>4. FirstIs(e, vars, m)
    BY <1>2, <2>2, <2>3 DEF FirstIs
  <2>. QED
    BY <1>1, <1>4, <2>4
<1>. QED
    BY <1>3, <1>4

\* The same about the values themselves.
FirstOf(g, m) ==
    \/ m = 0 /\ \A i \in DOMAIN g : g[i] = Co!Unset
    \/ m \in DOMAIN g /\ g[m] # Co!Unset /\ \A i \in DOMAIN g : i < m => g[i] = Co!Unset

LEMMA FirstValueIs ==
    ASSUME NEW e, NEW vars, DOMAIN vars \in SUBSET Nat,
           NEW g, DOMAIN g = DOMAIN vars, \A i \in DOMAIN vars : g[i] = Co!Get(e, vars[i])
    PROVE  FirstOf(g, Co!FirstSet(e, vars))
BY FirstSetIs DEF FirstIs, FirstOf

LEMMA FirstNonEmptyIs ==
    ASSUME NEW e, NEW vars, DOMAIN vars \in SUBSET Nat, 0 \notin DOMAIN vars,
           NEW g, DOMAIN g = DOMAIN vars, \A i \in DOMAIN vars : g[i] = Co!Get(e, vars[i])
    PROVE  \E m : FirstOf(g, m) /\ Co!FirstNonEmpty(e, vars) = IF m = 0 THEN Co!Unset ELSE g[m]
<1>. DEFINE m == Co!FirstSet(e, vars)
<1>1. FirstOf(g, m)
    BY FirstValueIs
<1>2. Co!FirstNonEmpty(e, vars) = IF m = 0 THEN Co!Unset ELSE Co!Get(e, vars[m])
    BY DEF Co!FirstNonEmpty
<1>. HIDE DEF m
<1>3. m # 0 => Co!Get(e, vars[m]) = g[m]
    BY <1>1 DEF FirstOf
<1>. QED
    BY <1>1, <1>2, <1>3

\* firstNonEmpty of two and of four variables, inferProvider.
LEMMA FirstOfTwo ==
    ASSUME NEW e, NEW a, NEW b
    PROVE  Co!FirstNonEmpty(e, <<a, b>>) = IF Co!Get(e, a) # Co!Unset THEN Co!Get(e, a) ELSE Co!Get(e, b)
<1>1. PICK x : x = Co!Get(e, a)
    OBVIOUS
<1>2. PICK y : y = Co!Get(e, b)
    OBVIOUS
<1>. DEFINE g == <<x, y>>
<1>3. PICK m : FirstOf(g, m) /\ Co!FirstNonEmpty(e, <<a, b>>) = IF m = 0 THEN Co!Unset ELSE g[m]
  <2>1. /\ DOMAIN <<a, b>> \in SUBSET Nat /\ 0 \notin DOMAIN <<a, b>> /\ DOMAIN g = DOMAIN <<a, b>>
        /\ \A i \in DOMAIN <<a, b>> : i = 1 \/ i = 2
    OBVIOUS
  <2>2. \A i \in DOMAIN <<a, b>> : g[i] = Co!Get(e, <<a, b>>[i])
    BY <1>1, <1>2, <2>1
  <2>. DEFINE vars == <<a, b>>
  <2>3. \E m : FirstOf(g, m) /\ Co!FirstNonEmpty(e, vars) = IF m = 0 THEN Co!Unset ELSE g[m]
    <3>. HIDE DEF g
    <3>. QED
      BY <2>1, <2>2, FirstNonEmptyIs
  <2>. QED
    BY <2>3
<1>4. PICK z : z = Co!FirstNonEmpty(e, <<a, b>>)
    OBVIOUS
<1>5. z = IF x # Co!Unset THEN x ELSE y
  <2>1. DOMAIN g = {1, 2} /\ g[1] = x /\ g[2] = y
    OBVIOUS
  <2>. HIDE DEF g
  <2>2. m \in {0, 1, 2}
    BY <1>3, <2>1 DEF FirstOf
  <2>3. CASE m = 0
    BY <1>3, <1>4, <2>1, <2>3 DEF FirstOf
  <2>4. CASE m = 1
    BY <1>3, <1>4, <2>1, <2>4 DEF FirstOf
  <2>5. CASE m = 2
    BY <1>3, <1>4, <2>1, <2>5 DEF FirstOf
  <2>. QED
    BY <2>2, <2>3, <2>4, <2>5
<1>. QED
    BY <1>1, <1>2, <1>4, <1>5

LEMMA FirstOfFour ==
    ASSUME NEW e, NEW a, NEW b, NEW c, NEW d
    PROVE  Co!FirstNonEmpty(e, <<a, b, c, d>>) =
               IF Co!Get(e, a) # Co!Unset THEN Co!Get(e, a)
               ELSE IF Co!Get(e, b) # Co!Unset THEN Co!Get(e, b)
               ELSE IF Co!Get(e, c) # Co!Unset THEN Co!Get(e, c) ELSE Co!Get(e, d)
<1>. DEFINE vars == <<a, b, c, d>>
<1>1. PICK x : x = Co!Get(e, a)
    OBVIOUS
<1>2. PICK y : y = Co!Get(e, b)
    OBVIOUS
<1>3. PICK z : z = Co!Get(e, c)
    OBVIOUS
<1>4. PICK w : w = Co!Get(e, d)
    OBVIOUS
<1>. DEFINE g == <<x, y, z, w>>
<1>5. PICK m : FirstOf(g, m) /\ Co!FirstNonEmpty(e, vars) = IF m = 0 THEN Co!Unset ELSE g[m]
  <2>1. /\ DOMAIN vars \in SUBSET Nat /\ 0 \notin DOMAIN vars /\ DOMAIN g = DOMAIN vars
        /\ \A i \in DOMAIN vars : i = 1 \/ i = 2 \/ i = 3 \/ i = 4
    OBVIOUS
  <2>2. \A i \in DOMAIN vars : g[i] = Co!Get(e, vars[i])
    BY <1>1, <1>2, <1>3, <1>4, <2>1
  <2>3. \E m : FirstOf(g, m) /\ Co!FirstNonEmpty(e, vars) = IF m = 0 THEN Co!Unset ELSE g[m]
    <3>. HIDE DEF g, vars
    <3>. QED
      BY <2>1, <2>2, FirstNonEmptyIs
  <2>. QED
    BY <2>3
<1>6. PICK v : v = Co!FirstNonEmpty(e, vars)
    OBVIOUS
<1>7. v = IF x # Co!Unset THEN x ELSE IF y # Co!Unset THEN y ELSE IF z # Co!Unset THEN z ELSE w
  <2>1. DOMAIN g = {1, 2, 3, 4} /\ g[1] = x /\ g[2] = y /\ g[3] = z /\ g[4] = w
    OBVIOUS
  <2>. HIDE DEF g
  <2>2. m \in {0, 1, 2, 3, 4}
    BY <1>5, <2>1 DEF FirstOf
  <2>3. CASE m = 0
    BY <1>5, <1>6, <2>1, <2>3 DEF FirstOf
  <2>4. CASE m = 1
    BY <1>5, <1>6, <2>1, <2>4 DEF FirstOf
  <2>5. CASE m = 2
    BY <1>5, <1>6, <2>1, <2>5 DEF FirstOf
  <2>6. CASE m = 3
    BY <1>5, <1>6, <2>1, <2>6 DEF FirstOf
  <2>7. CASE m = 4
    BY <1>5, <1>6, <2>1, <2>7 DEF FirstOf
  <2>. QED
    BY <2>2, <2>3, <2>4, <2>5, <2>6, <2>7
<1>. QED
    BY <1>1, <1>2, <1>3, <1>4, <1>6, <1>7

LEMMA InferredIs ==
    ASSUME NEW e
    PROVE  Co!InferProvider(e) =
               IF Co!Get(e, "DEEPSEEK_API_KEY") # Co!Unset THEN "deepseek"
               ELSE IF Co!Get(e, "ANTHROPIC_API_KEY") # Co!Unset THEN "anthropic" ELSE "openai"
<1>. DEFINE vendors == <<"deepseek", "anthropic", "openai">>
            vars == [i \in DOMAIN vendors |-> Co!KeyOf[vendors[i]]]
            m == Co!FirstSet(e, vars)
<1>1. DOMAIN vendors = {1, 2, 3} /\ vendors[1] = "deepseek" /\ vendors[2] = "anthropic" /\ vendors[3] = "openai"
    OBVIOUS
<1>2. /\ DOMAIN vars = {1, 2, 3} /\ vars[1] = "DEEPSEEK_API_KEY" /\ vars[2] = "ANTHROPIC_API_KEY"
      /\ vars[3] = "OPENAI_API_KEY"
    BY <1>1 DEF Co!KeyOf
<1>3. Co!InferProvider(e) = IF m = 0 THEN "openai" ELSE vendors[m]
    BY DEF Co!InferProvider, Co!FirstWithKey
<1>4. PICK x : x = Co!Get(e, "DEEPSEEK_API_KEY")
    OBVIOUS
<1>5. PICK y : y = Co!Get(e, "ANTHROPIC_API_KEY")
    OBVIOUS
<1>6. PICK z : z = Co!Get(e, "OPENAI_API_KEY")
    OBVIOUS
<1>. DEFINE g == <<x, y, z>>
<1>7. FirstOf(g, m)
  <2>. HIDE DEF vars, m
  <2>1. DOMAIN vars \in SUBSET Nat /\ DOMAIN g = DOMAIN vars
    BY <1>2
  <2>2. \A i \in DOMAIN vars : g[i] = Co!Get(e, vars[i])
    BY <1>2, <1>4, <1>5, <1>6
  <2>. HIDE DEF g
  <2>. QED
    BY <2>1, <2>2, FirstValueIs DEF m
<1>8. PICK n : n = m
    OBVIOUS
<1>9. PICK p : p = Co!InferProvider(e)
    OBVIOUS
<1>10. FirstOf(g, n) /\ p = IF n = 0 THEN "openai" ELSE vendors[n]
    BY <1>3, <1>7, <1>8, <1>9
<1>11. p = IF x # Co!Unset THEN "deepseek" ELSE IF y # Co!Unset THEN "anthropic" ELSE "openai"
  <2>1. DOMAIN g = {1, 2, 3} /\ g[1] = x /\ g[2] = y /\ g[3] = z
    OBVIOUS
  <2>. HIDE DEF g
  <2>. HIDE DEF vendors
  <2>2. n \in {0, 1, 2, 3}
    BY <1>10, <2>1 DEF FirstOf
  <2>3. CASE n = 0
    BY <1>1, <1>10, <2>1, <2>3 DEF FirstOf
  <2>4. CASE n = 1
    BY <1>1, <1>10, <2>1, <2>4 DEF FirstOf
  <2>5. CASE n = 2
    BY <1>1, <1>10, <2>1, <2>5 DEF FirstOf
  <2>6. CASE n = 3
    BY <1>1, <1>10, <2>1, <2>6 DEF FirstOf
  <2>. QED
    BY <2>2, <2>3, <2>4, <2>5, <2>6
<1>. QED
    BY <1>4, <1>5, <1>9, <1>11

\* What is asked about settings.
LEMMA SettingsAsked ==
    ASSUME AskInv, asked.fn = "load", answer # Nothing
    PROVE  \E s \in Setups : /\ asked.env = s.env /\ asked.file = s.file
                             /\ answer.client = Co!New(Co!Load(s.env, s.file))
    BY DEF AskInv, Answered

\* A variable of a vendor holds, if anything, a value for that vendor.
LEMMA SaidIs ==
    ASSUME NEW s \in Setups, NEW v
    PROVE  /\ Co!Get(Co!LoadDotenv(s.env, s.file), v) = Co!Said(s.env, s.file, v)
           /\ Co!Said(s.env, s.file, v) = Co!Unset \/ Co!Said(s.env, s.file, v) \in Values(v)
<1>. DEFINE env == s.env
            file == s.file
            lines == {n \in DOMAIN file : file[n].var = v}
<1>1. /\ DOMAIN env \subseteq STRING /\ env \in [DOMAIN env -> STRING] /\ file \in Seq([var : STRING, value : STRING])
      /\ \A x \in DOMAIN env : env[x] = Co!Unset \/ env[x] \in Values(x)
      /\ \A n \in DOMAIN file : file[n].value = Co!Unset \/ file[n].value \in Values(file[n].var)
    BY SetupsType
<1>. HIDE DEF env, file
<1>2. PICK U : U = STRING
    OBVIOUS
<1>3. env \in Envs(U) /\ file \in Seq([var : U, value : U])
  <2>1. DOMAIN env \in SUBSET U /\ env \in [DOMAIN env -> U]
    BY <1>1, <1>2
  <2>2. file \in Seq([var : U, value : U])
    BY <1>1, <1>2
  <2>. QED
    BY <2>1, <2>2 DEF Envs
<1>4. Co!Get(Co!LoadDotenv(env, file), v) = Co!Said(env, file, v)
    BY <1>3, DotenvIs
<1>5. Co!Said(env, file, v) = IF v \in DOMAIN env THEN env[v] ELSE IF lines = {} THEN Co!Unset ELSE file[Min(lines)].value
    BY DEF Co!Said, Co!Min, Min
<1>6. lines # {} => Min(lines) \in DOMAIN file /\ file[Min(lines)].var = v
  <2>1. DOMAIN file \in SUBSET Nat
    BY <1>3
  <2>2. lines \in SUBSET Nat
    BY <2>1
  <2>3. lines # {} => Min(lines) \in lines
    BY <2>2, MinIs
  <2>. QED
    BY <2>3
<1>7. Co!Said(env, file, v) = Co!Unset \/ Co!Said(env, file, v) \in Values(v)
    BY <1>1, <1>5, <1>6
<1>. QED
    BY <1>4, <1>7 DEF env, file

\* The values of the variables the client is made of.
Holds(x, who) == x = Co!Unset \/ x = who

LEMMA HeldIs ==
    ASSUME NEW s \in Setups
    PROVE  LET said(v) == Co!Said(s.env, s.file, v)
           IN  /\ Holds(said("LLM_API_KEY"), "anybody") /\ Holds(said("LLM_BASE_URL"), "anybody")
               /\ Holds(said("LLM_MODEL_FLASH"), "anybody")
               /\ Holds(said("DEEPSEEK_API_KEY"), "deepseek") /\ Holds(said("OPENAI_API_KEY"), "openai")
               /\ Holds(said("ANTHROPIC_API_KEY"), "anthropic")
               /\ Holds(said("DEEPSEEK_BASE_URL"), "deepseek")
<1>1. /\ Values("LLM_API_KEY") = {"anybody"} /\ Values("LLM_BASE_URL") = {"anybody"}
      /\ Values("LLM_MODEL_FLASH") = {"anybody"}
  <2>1. Values("LLM_API_KEY") = {"anybody"}
    BY DEF Values, Co!KeyOf
  <2>2. Values("LLM_BASE_URL") = {"anybody"}
    BY DEF Values, Co!KeyOf
  <2>3. Values("LLM_MODEL_FLASH") = {"anybody"}
    BY DEF Values, Co!KeyOf
  <2>. QED
    BY <2>1, <2>2, <2>3
<1>2. DOMAIN Co!KeyOf = {"deepseek", "openai", "anthropic"}
    BY DEF Co!KeyOf
<1>3. /\ Co!KeyOf["deepseek"] = "DEEPSEEK_API_KEY" /\ Co!KeyOf["openai"] = "OPENAI_API_KEY"
      /\ Co!KeyOf["anthropic"] = "ANTHROPIC_API_KEY"
    BY DEF Co!KeyOf
<1>4. Values("DEEPSEEK_API_KEY") = {"deepseek"}
    BY <1>2, <1>3 DEF Values
<1>5. Values("OPENAI_API_KEY") = {"openai"}
    BY <1>2, <1>3 DEF Values
<1>6. Values("ANTHROPIC_API_KEY") = {"anthropic"}
    BY <1>2, <1>3 DEF Values
<1>7. Values("DEEPSEEK_BASE_URL") = {"deepseek"}
    BY <1>2, <1>3 DEF Values
<1>8. ASSUME NEW v, NEW who, Values(v) = {who} PROVE Holds(Co!Said(s.env, s.file, v), who)
  <2>1. Co!Said(s.env, s.file, v) = Co!Unset \/ Co!Said(s.env, s.file, v) \in Values(v)
    BY SaidIs
  <2>. QED
    BY <1>8, <2>1 DEF Holds
<1>. QED
    BY <1>1, <1>4, <1>5, <1>6, <1>7, <1>8

\* config.Load and llm.New over those values.
LEMMA ClientIs ==
    ASSUME NEW s \in Setups, Co!New(Co!Load(s.env, s.file)) # Co!Refused
    PROVE  LET said(v) == Co!Said(s.env, s.file, v)
               c == Co!New(Co!Load(s.env, s.file))
               provider == IF said("LLM_PROVIDER") # Co!Unset THEN said("LLM_PROVIDER")
                           ELSE IF said("DEEPSEEK_API_KEY") # Co!Unset THEN "deepseek"
                           ELSE IF said("ANTHROPIC_API_KEY") # Co!Unset THEN "anthropic" ELSE "openai"
               key == IF said("LLM_API_KEY") # Co!Unset THEN said("LLM_API_KEY")
                      ELSE IF said("DEEPSEEK_API_KEY") # Co!Unset THEN said("DEEPSEEK_API_KEY")
                      ELSE IF said("OPENAI_API_KEY") # Co!Unset THEN said("OPENAI_API_KEY")
                      ELSE said("ANTHROPIC_API_KEY")
               url == IF said("LLM_BASE_URL") # Co!Unset THEN said("LLM_BASE_URL")
                      ELSE IF provider = "deepseek" THEN said("DEEPSEEK_BASE_URL") ELSE Co!Unset
               model == IF said("LLM_MODEL_FLASH") # Co!Unset THEN said("LLM_MODEL_FLASH")
                        ELSE said("DEEPSEEK_MODEL_FLASH")
           IN  /\ c.provider = provider /\ c.key = key /\ key # Co!Unset
               /\ c.url = IF url # Co!Unset THEN url ELSE provider
               /\ c.model = IF model # Co!Unset THEN model ELSE Co!DefaultModel(provider)
<1>. DEFINE all == Co!LoadDotenv(s.env, s.file)
            said(v) == Co!Said(s.env, s.file, v)
            key == Co!FirstNonEmpty(all, <<"LLM_API_KEY", "DEEPSEEK_API_KEY", "OPENAI_API_KEY", "ANTHROPIC_API_KEY">>)
            cfg == [provider |-> Co!Provider(all), key |-> key, url |-> Co!BaseURL(all), model |-> Co!Model(all)]
            c == Co!New(Co!Load(s.env, s.file))
<1>1. \A v : Co!Get(all, v) = said(v)
    BY SaidIs
<1>2. Co!Load(s.env, s.file) = IF key = Co!Unset THEN Co!Refused ELSE cfg
    BY DEF Co!Load
<1>3. key # Co!Unset /\ Co!Load(s.env, s.file) = cfg
    BY <1>2 DEF Co!New
<1>4. c = [cfg EXCEPT !.url = IF @ = Co!Unset THEN cfg.provider ELSE @]
    BY <1>3 DEF Co!New
<1>5. /\ c.provider = Co!Provider(all) /\ c.key = key /\ c.model = Co!Model(all)
      /\ c.url = IF Co!BaseURL(all) = Co!Unset THEN Co!Provider(all) ELSE Co!BaseURL(all)
    BY <1>4
<1>. HIDE DEF c, all, said
<1>6. key = IF said("LLM_API_KEY") # Co!Unset THEN said("LLM_API_KEY")
            ELSE IF said("DEEPSEEK_API_KEY") # Co!Unset THEN said("DEEPSEEK_API_KEY")
            ELSE IF said("OPENAI_API_KEY") # Co!Unset THEN said("OPENAI_API_KEY")
            ELSE said("ANTHROPIC_API_KEY")
  <2>1. key = IF Co!Get(all, "LLM_API_KEY") # Co!Unset THEN Co!Get(all, "LLM_API_KEY")
              ELSE IF Co!Get(all, "DEEPSEEK_API_KEY") # Co!Unset THEN Co!Get(all, "DEEPSEEK_API_KEY")
              ELSE IF Co!Get(all, "OPENAI_API_KEY") # Co!Unset THEN Co!Get(all, "OPENAI_API_KEY")
              ELSE Co!Get(all, "ANTHROPIC_API_KEY")
    BY FirstOfFour
  <2>. QED
    BY <1>1, <2>1
<1>7. Co!InferProvider(all) = IF said("DEEPSEEK_API_KEY") # Co!Unset THEN "deepseek"
                              ELSE IF said("ANTHROPIC_API_KEY") # Co!Unset THEN "anthropic" ELSE "openai"
  <2>1. Co!InferProvider(all) =
            IF Co!Get(all, "DEEPSEEK_API_KEY") # Co!Unset THEN "deepseek"
            ELSE IF Co!Get(all, "ANTHROPIC_API_KEY") # Co!Unset THEN "anthropic" ELSE "openai"
    BY InferredIs
  <2>. QED
    BY <1>1, <2>1
<1>8. Co!Provider(all) = IF said("LLM_PROVIDER") # Co!Unset THEN said("LLM_PROVIDER")
                         ELSE IF said("DEEPSEEK_API_KEY") # Co!Unset THEN "deepseek"
                         ELSE IF said("ANTHROPIC_API_KEY") # Co!Unset THEN "anthropic" ELSE "openai"
    BY <1>1, <1>7 DEF Co!Provider
<1>9. Co!BaseURL(all) = IF said("LLM_BASE_URL") # Co!Unset THEN said("LLM_BASE_URL")
                        ELSE IF Co!Provider(all) = "deepseek" THEN said("DEEPSEEK_BASE_URL") ELSE Co!Unset
    BY <1>1 DEF Co!BaseURL
<1>10. Co!FirstNonEmpty(all, <<"LLM_MODEL_FLASH", "DEEPSEEK_MODEL_FLASH">>) =
           IF said("LLM_MODEL_FLASH") # Co!Unset THEN said("LLM_MODEL_FLASH") ELSE said("DEEPSEEK_MODEL_FLASH")
  <2>1. Co!FirstNonEmpty(all, <<"LLM_MODEL_FLASH", "DEEPSEEK_MODEL_FLASH">>) =
            IF Co!Get(all, "LLM_MODEL_FLASH") # Co!Unset THEN Co!Get(all, "LLM_MODEL_FLASH")
            ELSE Co!Get(all, "DEEPSEEK_MODEL_FLASH")
    BY FirstOfTwo
  <2>. QED
    BY <1>1, <2>1
<1>11. Co!Model(all) = LET m == IF said("LLM_MODEL_FLASH") # Co!Unset THEN said("LLM_MODEL_FLASH")
                                ELSE said("DEEPSEEK_MODEL_FLASH")
                       IN  IF m # Co!Unset THEN m ELSE Co!DefaultModel(Co!Provider(all))
    BY <1>10 DEF Co!Model
<1>. HIDE DEF key
<1>. QED
    BY <1>3, <1>5, <1>6, <1>8, <1>9, <1>11 DEF c, said

\* What a process sets for a vendor goes to that vendor, whatever it sets
\* (config.go:36-57, 79).
THEOREM SettingsAlwaysAgree == AskSpec => []SettingsAgree
<1>1. ASSUME AskInv PROVE SettingsAgree
  <2>. SUFFICES ASSUME asked.fn = "load", answer # Nothing, answer.client # Co!Refused
                PROVE  SettingsAgree
    BY DEF SettingsAgree
  <2>1. PICK s \in Setups : /\ asked.env = s.env /\ asked.file = s.file
                            /\ answer.client = Co!New(Co!Load(s.env, s.file))
    BY <1>1, SettingsAsked
  <2>. DEFINE said(v) == Co!Said(s.env, s.file, v)
              c == Co!New(Co!Load(s.env, s.file))
  <2>2. PICK provider, key, url, model, prov, any, dk, ok, ak, burl, durl, mf, dmf :
            /\ prov = said("LLM_PROVIDER") /\ any = said("LLM_API_KEY") /\ dk = said("DEEPSEEK_API_KEY")
            /\ ok = said("OPENAI_API_KEY") /\ ak = said("ANTHROPIC_API_KEY")
            /\ burl = said("LLM_BASE_URL") /\ durl = said("DEEPSEEK_BASE_URL")
            /\ mf = said("LLM_MODEL_FLASH") /\ dmf = said("DEEPSEEK_MODEL_FLASH")
            /\ provider = c.provider /\ key = c.key /\ url = c.url /\ model = c.model
    OBVIOUS
  <2>3. /\ provider = IF prov # Co!Unset THEN prov
                      ELSE IF dk # Co!Unset THEN "deepseek"
                      ELSE IF ak # Co!Unset THEN "anthropic" ELSE "openai"
        /\ key = IF any # Co!Unset THEN any
                 ELSE IF dk # Co!Unset THEN dk ELSE IF ok # Co!Unset THEN ok ELSE ak
        /\ key # Co!Unset
        /\ url = LET u == IF burl # Co!Unset THEN burl ELSE IF provider = "deepseek" THEN durl ELSE Co!Unset
                 IN  IF u # Co!Unset THEN u ELSE provider
        /\ model = LET m == IF mf # Co!Unset THEN mf ELSE dmf
                   IN  IF m # Co!Unset THEN m ELSE Co!DefaultModel(provider)
    BY <2>1, <2>2, ClientIs
  <2>4. /\ Holds(any, "anybody") /\ Holds(burl, "anybody") /\ Holds(mf, "anybody")
        /\ Holds(dk, "deepseek") /\ Holds(ok, "openai") /\ Holds(ak, "anthropic") /\ Holds(durl, "deepseek")
    BY <2>2, HeldIs
  <2>5. Co!DefaultModel(provider) \in {provider, Co!Unset}
    BY DEF Co!DefaultModel
  <2>6. prov # Co!Unset => provider = prov
    BY <2>3
  <2>7. IF burl # Co!Unset THEN url = "anybody" ELSE url = provider
    BY <2>3, <2>4 DEF Holds
  <2>8. mf = Co!Unset /\ dmf = Co!Unset => model \in {provider, Co!Unset}
    BY <2>3, <2>5
  <2>9. prov = Co!Unset /\ any = Co!Unset =>
            key = provider \/ (dk = Co!Unset /\ ok # Co!Unset /\ ak # Co!Unset)
    BY <2>3, <2>4 DEF Holds
  <2>10. any # Co!Unset => key = "anybody"
    BY <2>3, <2>4 DEF Holds
  <2>. HIDE DEF c
  <2>. QED
    BY <2>1, <2>2, <2>6, <2>7, <2>8, <2>9, <2>10 DEF SettingsAgree, c
<1>. QED
    BY <1>1, AskInvAlways, PTL

-----------------------------------------------------------------------------
(* Words on a line.                                                         *)

\* Reading a text leads from the state a to the state b.
Steps(u, text, a) == u = [n \in 0..Len(text) |-> IF n = 0 THEN a ELSE Sh!NextChar(u[n - 1], text[n])]
Reads(a, text, b) == \E u : Steps(u, text, a) /\ u[Len(text)] = b

LEMMA StepsAre ==
    ASSUME NEW T, NEW text \in Seq(T), NEW u, NEW a, Steps(u, text, a)
    PROVE  u[0] = a /\ DOMAIN u = 0..Len(text) /\ \A n \in 1..Len(text) : u[n] = Sh!NextChar(u[n - 1], text[n])
<1>1. Len(text) \in Nat
    OBVIOUS
<1>2. u = [n \in 0..Len(text) |-> IF n = 0 THEN a ELSE Sh!NextChar(u[n - 1], text[n])]
    BY DEF Steps
<1>. QED
    BY <1>1, <1>2

LEMMA StepsAlike ==
    ASSUME NEW T, NEW text \in Seq(T), NEW u, NEW v, NEW a, Steps(u, text, a), Steps(v, text, a)
    PROVE  u[Len(text)] = v[Len(text)]
<1>. DEFINE G == {n \in 0..Len(text) : u[n] = v[n]}
<1>1. Len(text) \in Nat
    OBVIOUS
<1>2. 0 \in G
    BY <1>1, StepsAre
<1>3. ASSUME NEW n \in 1..Len(text), n - 1 \in G PROVE n \in G
  <2>1. u[n] = Sh!NextChar(u[n - 1], text[n]) /\ v[n] = Sh!NextChar(v[n - 1], text[n])
    BY StepsAre
  <2>. QED
    BY <1>3, <2>1
<1>4. 0..Len(text) \subseteq G
  <2>. HIDE DEF G
  <2>. QED
    BY <1>1, <1>2, <1>3, UpTo
<1>. QED
    BY <1>1, <1>4

\* What is known of a line.
At(words, word, quote) == [words |-> words, word |-> word, quote |-> quote, escaped |-> FALSE]
Before == At(<<>>, <<>>, Sh!NoQuote)

LEMMA ReadEnds ==
    ASSUME NEW T, NEW line \in Seq(T), NEW st, Reads(Before, line, st)
    PROVE  Sh!Read(line)[Len(line)] = st
<1>1. PICK u : Steps(u, line, Before) /\ u[Len(line)] = st
    BY DEF Reads
<1>2. Steps(Sh!Read(line), line, Before)
  <2>. DEFINE Is(f) == f = [n \in 0..Len(line) |->
                               IF n = 0
                               THEN [words |-> <<>>, word |-> <<>>, quote |-> Sh!NoQuote, escaped |-> FALSE]
                               ELSE Sh!NextChar(f[n - 1], line[n])]
  <2>1. Is(u)
    BY <1>1 DEF Steps, Before, At
  <2>2. Is(Sh!Read(line))
    BY <2>1 DEF Sh!Read
  <2>. QED
    BY <2>2 DEF Steps, Before, At
<1>. QED
    BY <1>1, <1>2, StepsAlike

LEMMA ReadsNothing == ASSUME NEW a PROVE Reads(a, <<>>, a)
<1>. DEFINE u == [n \in 0..0 |-> a]
<1>1. u = [n \in 0..0 |-> IF n = 0 THEN a ELSE Sh!NextChar(u[n - 1], <<>>[n])]
    OBVIOUS
<1>2. Len(<<>>) = 0 /\ u[0] = a
    OBVIOUS
<1>. QED
    BY <1>1, <1>2 DEF Reads, Steps

LEMMA ReadsMore ==
    ASSUME NEW T, NEW text \in Seq(T), NEW ch \in T, NEW a, NEW b, Reads(a, text, b)
    PROVE  Reads(a, Append(text, ch), Sh!NextChar(b, ch))
<1>1. PICK u : Steps(u, text, a) /\ u[Len(text)] = b
    BY DEF Reads
<1>. DEFINE N == Len(text)
            more == Append(text, ch)
            c == Sh!NextChar(b, ch)
            v == [n \in 0..(N + 1) |-> IF n = N + 1 THEN c ELSE u[n]]
<1>2. N \in Nat /\ Len(more) = N + 1 /\ more[N + 1] = ch /\ \A n \in 1..N : more[n] = text[n]
    BY AppendProperties
<1>3. u[0] = a /\ u[N] = b /\ \A n \in 1..N : u[n] = Sh!NextChar(u[n - 1], text[n])
    BY <1>1, StepsAre
<1>. HIDE DEF more, c, N
<1>4. v[0] = a /\ v[N + 1] = c /\ DOMAIN v = 0..(N + 1)
    BY <1>2, <1>3
<1>5. ASSUME NEW n \in 1..(N + 1) PROVE v[n] = Sh!NextChar(v[n - 1], more[n])
  <2>1. v[n - 1] = u[n - 1]
    BY <1>2
  <2>2. CASE n = N + 1
    <3>1. n - 1 = N
      BY <1>2, <2>2
    <3>. QED
      BY <1>2, <1>3, <1>4, <2>1, <2>2, <3>1 DEF c
  <2>3. CASE n # N + 1
    <3>1. n \in 1..N /\ v[n] = u[n]
      BY <1>2, <2>3
    <3>. QED
      BY <1>2, <1>3, <2>1, <3>1
  <2>. QED
    BY <2>2, <2>3
<1>6. v = [n \in 0..(N + 1) |-> IF n = 0 THEN a ELSE Sh!NextChar(v[n - 1], more[n])]
  <2>1. \A n \in 0..(N + 1) : v[n] = IF n = 0 THEN a ELSE Sh!NextChar(v[n - 1], more[n])
    BY <1>2, <1>4, <1>5
  <2>2. v = [n \in 0..(N + 1) |-> v[n]]
    OBVIOUS
  <2>. HIDE DEF v
  <2>. QED
    BY <2>1, <2>2
<1>7. Steps(v, more, a) /\ v[Len(more)] = c
    BY <1>2, <1>4, <1>6 DEF Steps
<1>. QED
    BY <1>7 DEF Reads, more, c

LEMMA ReadsOn ==
    ASSUME NEW T, NEW s \in Seq(T), NEW t \in Seq(T), NEW a, NEW b, NEW c, Reads(a, s, b), Reads(b, t, c)
    PROVE  Reads(a, s \o t, c)
<1>1. PICK w : Steps(w, t, b) /\ w[Len(t)] = c
    BY DEF Reads
<1>. DEFINE N == Len(t)
            P(n) == SubSeq(t, 1, n)
            G == {n \in 0..N : Reads(a, s \o P(n), w[n])}
<1>2. N \in Nat /\ w[0] = b /\ \A n \in 1..N : w[n] = Sh!NextChar(w[n - 1], t[n])
    BY <1>1, StepsAre
<1>3. 0 \in G
  <2>1. s \o P(0) = s
    <3>1. P(0) = <<>> /\ s \o <<>> = s
      OBVIOUS
    <3>. QED
      BY <3>1
  <2>. HIDE DEF P
  <2>2. Reads(a, s \o P(0), w[0])
    BY <1>2, <2>1
  <2>. QED
    BY <1>2, <2>2 DEF P
<1>4. ASSUME NEW n \in 1..N, n - 1 \in G PROVE n \in G
  <2>1. /\ t[n] \in T /\ P(n - 1) \in Seq(T) /\ s \o P(n - 1) \in Seq(T)
        /\ P(n) = Append(P(n - 1), t[n])
    <3>1. t[n] \in T
      BY ElementOfSeq
    <3>2. P(n - 1) \in Seq(T)
      OBVIOUS
    <3>3. P(n) = Append(P(n - 1), t[n])
      BY SubSeqRecursiveSecond
    <3>4. s \o P(n - 1) \in Seq(T)
      BY <3>2, ConcatProperties
    <3>. QED
      BY <3>1, <3>2, <3>3, <3>4
  <2>. HIDE DEF P
  <2>2. s \o P(n) = Append(s \o P(n - 1), t[n])
    BY <2>1
  <2>3. Reads(a, Append(s \o P(n - 1), t[n]), Sh!NextChar(w[n - 1], t[n]))
    BY <1>4, <2>1, ReadsMore
  <2>4. Reads(a, s \o P(n), w[n]) /\ n \in 0..N
    BY <1>2, <2>2, <2>3
  <2>. QED
    BY <2>4 DEF P
<1>5. 0..N \subseteq G
  <2>. HIDE DEF G, N
  <2>. QED
    BY <1>2, <1>3, <1>4, UpTo
<1>6. Reads(a, s \o P(N), w[N])
    BY <1>2, <1>5
<1>7. P(N) = t
    OBVIOUS
<1>. QED
    BY <1>1, <1>6, <1>7

\* What single characters do.
QuoteSigns == {"double", "single"}

LEMMA PlainRead ==
    ASSUME NEW W, NEW w, NEW ch, ch \notin {"blank", "tab", "double", "single", "escape"}
    PROVE  Sh!NextChar(At(W, w, Sh!NoQuote), ch) = At(W, Append(w, ch), Sh!NoQuote)
    BY DEF Sh!NextChar, Sh!InWord, Sh!Blanks, Sh!Quotes, Sh!Escape, At

LEMMA QuotedRead ==
    ASSUME NEW W, NEW w, NEW q \in QuoteSigns, NEW ch, ch \notin {q, "escape"}
    PROVE  Sh!NextChar(At(W, w, q), ch) = At(W, Append(w, ch), q)
    BY DEF Sh!NextChar, Sh!InWord, Sh!Escape, Sh!NoQuote, At, QuoteSigns

LEMMA EscapedRead ==
    ASSUME NEW W, NEW w, NEW q, NEW ch
    PROVE  Sh!NextChar(Sh!NextChar(At(W, w, q), Sh!Escape), ch) = At(W, Append(w, ch), q)
<1>1. Sh!NextChar(At(W, w, q), Sh!Escape) = [words |-> W, word |-> w, quote |-> q, escaped |-> TRUE]
    BY DEF Sh!NextChar, At
<1>2. Sh!NextChar([words |-> W, word |-> w, quote |-> q, escaped |-> TRUE], ch) = At(W, Append(w, ch), q)
    BY DEF Sh!NextChar, Sh!InWord, At
<1>. QED
    BY <1>1, <1>2

LEMMA QuoteOpens ==
    ASSUME NEW W, NEW w, NEW q \in QuoteSigns
    PROVE  Sh!NextChar(At(W, w, Sh!NoQuote), q) = At(W, w, q)
    BY DEF Sh!NextChar, Sh!Quotes, Sh!Escape, Sh!NoQuote, At, QuoteSigns

LEMMA QuoteCloses ==
    ASSUME NEW W, NEW w, NEW q \in QuoteSigns
    PROVE  Sh!NextChar(At(W, w, q), q) = At(W, w, Sh!NoQuote)
    BY DEF Sh!NextChar, Sh!Quotes, Sh!Escape, Sh!NoQuote, At, QuoteSigns

LEMMA BlankEnds ==
    ASSUME NEW W, NEW w, w # <<>>
    PROVE  Sh!NextChar(At(W, w, Sh!NoQuote), "blank") = At(Append(W, w), <<>>, Sh!NoQuote)
    BY DEF Sh!NextChar, Sh!Quotes, Sh!Escape, Sh!NoQuote, Sh!Blanks, At

\* One more character between quotes.
Enclosed(done, ch, quote) ==
    IF ch \in {quote, Sh!Escape} THEN done \o <<Sh!Escape, ch>> ELSE Append(done, ch)

LEMMA EnclosedType ==
    ASSUME NEW T, "escape" \in T, NEW done \in Seq(T), NEW ch \in T, NEW q
    PROVE  Enclosed(done, ch, q) \in Seq(T)
    BY DEF Enclosed, Sh!Escape

\* What stands between the quotes, after the first of them.
Inner(word, quote, first) ==
    LET within[n \in 0..Len(word)] == IF n = 0 THEN first ELSE Enclosed(within[n - 1], word[n], quote)
    IN  within

LEMMA InnerIs ==
    ASSUME NEW T, "escape" \in T, NEW word \in Seq(T), NEW quote \in T, NEW first \in Seq(T)
    PROVE  /\ Inner(word, quote, first)[0] = first
           /\ \A n \in 1..Len(word) : Inner(word, quote, first)[n] = Enclosed(Inner(word, quote, first)[n - 1], word[n], quote)
           /\ \A n \in 0..Len(word) : Inner(word, quote, first)[n] \in Seq(T)
           /\ DOMAIN Inner(word, quote, first) = 0..Len(word)
<1>. DEFINE V == Seq(T)
            F == [x \in V \X T |-> Enclosed(x[1], x[2], quote)]
            Is(f) == f = [n \in 0..Len(word) |-> IF n = 0 THEN first ELSE Enclosed(f[n - 1], word[n], quote)]
            c == Inner(word, quote, first)
<1>1. StepOn(F, V, T) /\ first \in V /\ Len(word) \in Nat
  <2>1. \A x \in V \X T : Enclosed(x[1], x[2], quote) \in V
    <3>. TAKE x \in V \X T
    <3>1. x[1] \in V /\ x[2] \in T
      OBVIOUS
    <3>. QED
      BY <3>1, EnclosedType
  <2>2. first \in V
    OBVIOUS
  <2>. QED
    BY <2>1, <2>2 DEF StepOn
<1>2. \E u : Is(u)
  <2>1. PICK u : Carried(u, first, F, word, V)
    <3>. HIDE DEF F, V
    <3>. QED
      BY <1>1, CarrySolved
  <2>2. ASSUME NEW n \in 1..Len(word) PROVE u[n] = Enclosed(u[n - 1], word[n], quote)
    <3>1. u[n - 1] \in V /\ word[n] \in T
      <4>. HIDE DEF V
      <4>1. u \in [0..Len(word) -> V] /\ n - 1 \in 0..Len(word)
        BY <1>1, <2>1 DEF Carried
      <4>2. word[n] \in T
        BY ElementOfSeq
      <4>. QED
        BY <4>1, <4>2
    <3>. QED
      BY <2>1, <3>1 DEF Carried, Carries
  <2>3. Is(u)
    BY <1>1, <2>1, <2>2 DEF Carried, Carries
  <2>. QED
    BY <2>3
<1>3. Is(c)
    BY <1>2 DEF Inner
<1>4. c[0] = first /\ DOMAIN c = 0..Len(word) /\ \A n \in 1..Len(word) : c[n] = Enclosed(c[n - 1], word[n], quote)
  <2>. HIDE DEF c
  <2>. QED
    BY <1>1, <1>3
<1>5. \A n \in 0..Len(word) : c[n] \in V
  <2>. HIDE DEF c
  <2>. DEFINE G == {n \in 0..Len(word) : c[n] \in V}
  <2>1. 0 \in G
    <3>1. 0 \in 0..Len(word) /\ c[0] \in V
      BY <1>1, <1>4
    <3>. QED
      BY <3>1
  <2>2. ASSUME NEW n \in 1..Len(word), n - 1 \in G PROVE n \in G
    <3>1. c[n - 1] \in V /\ word[n] \in T
      <4>1. word[n] \in T
        BY ElementOfSeq
      <4>. QED
        BY <2>2, <4>1
    <3>2. c[n] \in V
      BY <1>4, <3>1, EnclosedType
    <3>. QED
      BY <3>2
  <2>3. 0..Len(word) \subseteq G
    <3>. HIDE DEF G
    <3>. QED
      BY <1>1, <2>1, <2>2, UpTo
  <2>. QED
    BY <2>3
<1>. QED
    BY <1>4, <1>5

LEMMA QuotedIs ==
    ASSUME NEW word, NEW quote
    PROVE  Sh!Quoted(word, quote) = Append(Inner(word, quote, <<quote>>)[Len(word)], quote)
    BY DEF Sh!Quoted, Inner, Enclosed

\* Such a character is one more of the word.
LEMMA EnclosedRead ==
    ASSUME NEW T, "escape" \in T, NEW done \in Seq(T), NEW ch \in T, NEW q \in QuoteSigns,
           NEW a, NEW W, NEW w, Reads(a, done, At(W, w, q)), done # <<>>
    PROVE  /\ Reads(a, Enclosed(done, ch, q), At(W, Append(w, ch), q))
           /\ Enclosed(done, ch, q) # <<>> /\ Enclosed(done, ch, q)[1] = done[1]
<1>0. Len(done) \in Nat \ {0}
    OBVIOUS
<1>1. CASE ch \in {q, Sh!Escape}
  <2>. DEFINE d == Append(done, Sh!Escape)
  <2>1. Enclosed(done, ch, q) = Append(d, ch)
    <3>1. Enclosed(done, ch, q) = done \o <<Sh!Escape, ch>>
      BY <1>1 DEF Enclosed
    <3>2. done \o <<Sh!Escape, ch>> = Append(d, ch)
      BY DEF Sh!Escape
    <3>. QED
      BY <3>1, <3>2
  <2>2. Reads(a, d, Sh!NextChar(At(W, w, q), Sh!Escape)) /\ d \in Seq(T) /\ d # <<>> /\ d[1] = done[1]
    <3>1. Sh!Escape \in T
      BY DEF Sh!Escape
    <3>2. Reads(a, d, Sh!NextChar(At(W, w, q), Sh!Escape))
      BY <3>1, ReadsMore
    <3>3. d \in Seq(T) /\ d # <<>> /\ d[1] = done[1]
      BY <1>0, <3>1, AppendProperties
    <3>. QED
      BY <3>2, <3>3
  <2>. HIDE DEF d
  <2>3. Reads(a, Append(d, ch), Sh!NextChar(Sh!NextChar(At(W, w, q), Sh!Escape), ch))
    BY <2>2, ReadsMore
  <2>4. Append(d, ch) # <<>> /\ Append(d, ch)[1] = d[1]
    <3>1. Len(d) \in Nat \ {0}
      BY <2>2
    <3>. QED
      BY <2>2, <3>1, AppendProperties
  <2>. QED
    BY <2>1, <2>2, <2>3, <2>4, EscapedRead
<1>2. CASE ch \notin {q, Sh!Escape}
  <2>1. Enclosed(done, ch, q) = Append(done, ch)
    BY <1>2 DEF Enclosed
  <2>2. Reads(a, Append(done, ch), Sh!NextChar(At(W, w, q), ch))
    BY ReadsMore
  <2>3. Sh!NextChar(At(W, w, q), ch) = At(W, Append(w, ch), q)
    BY <1>2, QuotedRead DEF Sh!Escape
  <2>4. Append(done, ch) # <<>> /\ Append(done, ch)[1] = done[1]
    BY <1>0, AppendProperties
  <2>. QED
    BY <2>1, <2>2, <2>3, <2>4
<1>. QED
    BY <1>1, <1>2

\* No blank stands at either end.
Solid(text) == text # <<>> /\ text[1] \notin Sh!Blanks /\ text[Len(text)] \notin Sh!Blanks

\* A way of writing a word on a line.
Means(way, word, T) ==
    /\ way \in Seq(T) /\ Solid(way)
    /\ \A W : Reads(At(W, <<>>, Sh!NoQuote), way, At(W, word, Sh!NoQuote))

LEMMA OneMore ==
    ASSUME NEW T, NEW word \in Seq(T), NEW n \in 1..Len(word)
    PROVE  /\ word[n] \in T /\ SubSeq(word, 1, n - 1) \in Seq(T)
           /\ SubSeq(word, 1, n) = Append(SubSeq(word, 1, n - 1), word[n])
<1>1. word[n] \in T
    BY ElementOfSeq
<1>2. SubSeq(word, 1, n - 1) \in Seq(T)
    OBVIOUS
<1>3. SubSeq(word, 1, n) = Append(SubSeq(word, 1, n - 1), word[n])
    BY SubSeqRecursiveSecond
<1>. QED
    BY <1>1, <1>2, <1>3

LEMMA QuotedMeans ==
    ASSUME NEW T, "escape" \in T, QuoteSigns \subseteq T, NEW word \in Seq(T), NEW q \in QuoteSigns
    PROVE  Means(Sh!Quoted(word, q), word, T)
<1>. DEFINE first == <<q>>
            N == Len(word)
            x == Inner(word, q, first)
            way == Sh!Quoted(word, q)
<1>1. N \in Nat /\ q \in T /\ first \in Seq(T) /\ first # <<>> /\ first[1] = q
    OBVIOUS
<1>2. /\ x[0] = first /\ \A n \in 1..N : x[n] = Enclosed(x[n - 1], word[n], q)
      /\ \A n \in 0..N : x[n] \in Seq(T)
  <2>. HIDE DEF first
  <2>. QED
    BY <1>1, InnerIs
<1>3. way = Append(x[N], q)
    BY QuotedIs
<1>4. ASSUME NEW W
      PROVE  x[N] # <<>> /\ x[N][1] = q /\ Reads(At(W, <<>>, Sh!NoQuote), x[N], At(W, word, q))
  <2>. DEFINE a == At(W, <<>>, Sh!NoQuote)
              P(n) == SubSeq(word, 1, n)
              Fine(n) == x[n] # <<>> /\ x[n][1] = q /\ Reads(a, x[n], At(W, P(n), q))
              G == {n \in 0..N : Fine(n)}
  <2>1. 0 \in G
    <3>1. Reads(a, Append(<<>>, q), Sh!NextChar(a, q))
      <4>1. Reads(a, <<>>, a) /\ <<>> \in Seq(T)
        BY ReadsNothing
      <4>. HIDE DEF a
      <4>. QED
        BY <1>1, <4>1, ReadsMore
    <3>2. Append(<<>>, q) = first /\ P(0) = <<>>
      OBVIOUS
    <3>3. Sh!NextChar(a, q) = At(W, <<>>, q)
      BY QuoteOpens
    <3>4. Reads(a, first, At(W, P(0), q))
      BY <3>1, <3>2, <3>3
    <3>5. Fine(0)
      <4>. HIDE DEF P, first, x, a
      <4>. QED
        BY <1>1, <1>2, <3>4
    <3>. QED
      BY <1>1, <3>5
  <2>2. ASSUME NEW n \in 1..N, n - 1 \in G PROVE n \in G
    <3>1. word[n] \in T /\ P(n) = Append(P(n - 1), word[n])
      BY OneMore
    <3>2. x[n - 1] \in Seq(T) /\ x[n] = Enclosed(x[n - 1], word[n], q)
      BY <1>2
    <3>3. Fine(n - 1)
      BY <2>2
    <3>. HIDE DEF P, x, a
    <3>4. /\ Reads(a, Enclosed(x[n - 1], word[n], q), At(W, Append(P(n - 1), word[n]), q))
          /\ Enclosed(x[n - 1], word[n], q) # <<>> /\ Enclosed(x[n - 1], word[n], q)[1] = x[n - 1][1]
      BY <3>1, <3>2, <3>3, EnclosedRead
    <3>5. Fine(n)
      BY <3>1, <3>2, <3>3, <3>4
    <3>. HIDE DEF Fine
    <3>. QED
      BY <3>5
  <2>3. 0..N \subseteq G
    <3>. HIDE DEF G, N
    <3>. QED
      BY <1>1, <2>1, <2>2, UpTo
  <2>4. Fine(N)
    <3>. HIDE DEF Fine
    <3>. QED
      BY <1>1, <2>3
  <2>5. P(N) = word
    OBVIOUS
  <2>. HIDE DEF P
  <2>. QED
    BY <2>4, <2>5
<1>5. x[N] \in Seq(T)
    BY <1>1, <1>2
<1>. HIDE DEF x, N, way
<1>6. way \in Seq(T) /\ way # <<>> /\ way[1] = q /\ way[Len(way)] = q
  <2>1. x[N] # <<>> /\ x[N][1] = q
    BY <1>4
  <2>2. Len(x[N]) \in Nat \ {0}
    BY <1>5, <2>1
  <2>3. /\ Append(x[N], q) \in Seq(T) /\ Append(x[N], q) # <<>> /\ Append(x[N], q)[1] = x[N][1]
        /\ Len(Append(x[N], q)) = Len(x[N]) + 1 /\ Append(x[N], q)[Len(x[N]) + 1] = q
    BY <1>1, <1>5, <2>2, AppendProperties
  <2>. QED
    BY <1>3, <2>1, <2>3
<1>7. Solid(way)
    BY <1>6 DEF Solid, Sh!Blanks, QuoteSigns
<1>8. ASSUME NEW W PROVE Reads(At(W, <<>>, Sh!NoQuote), way, At(W, word, Sh!NoQuote))
  <2>1. Reads(At(W, <<>>, Sh!NoQuote), x[N], At(W, word, q))
    BY <1>4
  <2>2. Reads(At(W, <<>>, Sh!NoQuote), Append(x[N], q), Sh!NextChar(At(W, word, q), q))
    BY <1>1, <1>5, <2>1, ReadsMore
  <2>3. Sh!NextChar(At(W, word, q), q) = At(W, word, Sh!NoQuote)
    BY QuoteCloses
  <2>. QED
    BY <1>3, <2>2, <2>3
<1>. QED
    BY <1>6, <1>7, <1>8 DEF Means, way

LEMMA BareMeans ==
    ASSUME NEW T, NEW word \in Seq(T), word # <<>>, Sh!Bare(word)
    PROVE  Means(word, word, T)
<1>. DEFINE N == Len(word)
<1>1. N \in Nat \ {0} /\ \A n \in 1..N : word[n] \notin Sh!Blanks \cup Sh!Quotes \cup {Sh!Escape}
    BY DEF Sh!Bare
<1>2. Solid(word)
    BY <1>1 DEF Solid
<1>3. ASSUME NEW W PROVE Reads(At(W, <<>>, Sh!NoQuote), word, At(W, word, Sh!NoQuote))
  <2>. DEFINE a == At(W, <<>>, Sh!NoQuote)
              P(n) == SubSeq(word, 1, n)
              Fine(n) == Reads(a, P(n), At(W, P(n), Sh!NoQuote))
              G == {n \in 0..N : Fine(n)}
  <2>1. 0 \in G
    <3>1. P(0) = <<>>
      OBVIOUS
    <3>2. Reads(a, <<>>, a)
      BY ReadsNothing
    <3>3. Fine(0)
      <4>. HIDE DEF P
      <4>. QED
        BY <3>1, <3>2
    <3>. HIDE DEF Fine
    <3>. QED
      BY <1>1, <3>3
  <2>2. ASSUME NEW n \in 1..N, n - 1 \in G PROVE n \in G
    <3>1. word[n] \in T /\ P(n - 1) \in Seq(T) /\ P(n) = Append(P(n - 1), word[n])
      BY OneMore
    <3>2. Fine(n - 1)
      <4>. HIDE DEF Fine
      <4>. QED
        BY <2>2
    <3>. HIDE DEF P, a
    <3>3. Reads(a, Append(P(n - 1), word[n]), Sh!NextChar(At(W, P(n - 1), Sh!NoQuote), word[n]))
      BY <3>1, <3>2, ReadsMore
    <3>4. Sh!NextChar(At(W, P(n - 1), Sh!NoQuote), word[n]) = At(W, Append(P(n - 1), word[n]), Sh!NoQuote)
      <4>1. word[n] \notin {"blank", "tab", "double", "single", "escape"}
        BY <1>1 DEF Sh!Blanks, Sh!Quotes, Sh!Escape
      <4>. QED
        BY <4>1, PlainRead
    <3>5. Fine(n)
      BY <3>1, <3>3, <3>4
    <3>. HIDE DEF Fine
    <3>. QED
      BY <3>5
  <2>3. 0..N \subseteq G
    <3>. HIDE DEF G, N
    <3>. QED
      BY <1>1, <2>1, <2>2, UpTo
  <2>4. Fine(N)
    <3>. HIDE DEF Fine
    <3>. QED
      BY <1>1, <2>3
  <2>5. P(N) = word
    OBVIOUS
  <2>. HIDE DEF P
  <2>. QED
    BY <2>4, <2>5
<1>. QED
    BY <1>2, <1>3 DEF Means

LEMMA WaysMean ==
    ASSUME NEW T, "escape" \in T, QuoteSigns \subseteq T, NEW word \in Seq(T), word # <<>>,
           NEW way \in Sh!WaysOf(word)
    PROVE  Means(way, word, T)
<1>1. \/ \E q \in QuoteSigns : way = Sh!Quoted(word, q)
      \/ way = word /\ Sh!Bare(word)
    BY DEF Sh!WaysOf, Sh!Quotes, QuoteSigns
<1>. QED
    BY <1>1, QuotedMeans, BareMeans

\* What words are typed with.
Typed(T) == Seq(T) \ {<<>>}
Signs(T) == {"escape", "double", "single", "blank"} \subseteq T

\* One more word on every line.
Glued(line, way) == line \o <<"blank">> \o way
Joins(lines, word) == {Glued(line, way) : line \in lines, way \in Sh!WaysOf(word)}

LEMMA JoinsAre ==
    ASSUME NEW lines, NEW word, NEW x \in Joins(lines, word)
    PROVE  \E line \in lines, way \in Sh!WaysOf(word) : x = Glued(line, way)
    BY DEF Joins

LEMMA WaysType ==
    ASSUME NEW T, Signs(T), NEW word \in Typed(T)
    PROVE  Sh!WaysOf(word) \in SUBSET Seq(T)
<1>1. "escape" \in T /\ QuoteSigns \subseteq T /\ word \in Seq(T) /\ word # <<>>
    BY DEF Signs, QuoteSigns, Typed
<1>2. ASSUME NEW way \in Sh!WaysOf(word) PROVE way \in Seq(T)
    BY <1>1, WaysMean DEF Means
<1>. QED
    BY <1>2

LEMMA JoinsType ==
    ASSUME NEW T, Signs(T), NEW lines \in SUBSET Seq(T), NEW word \in Typed(T)
    PROVE  Joins(lines, word) \in SUBSET Seq(T)
<1>1. "escape" \in T /\ QuoteSigns \subseteq T /\ word \in Seq(T) /\ word # <<>> /\ <<"blank">> \in Seq(T)
    BY DEF Signs, QuoteSigns, Typed
<1>2. Sh!WaysOf(word) \in SUBSET Seq(T)
    BY WaysType
<1>3. ASSUME NEW line \in lines, NEW way \in Sh!WaysOf(word) PROVE Glued(line, way) \in Seq(T)
  <2>1. line \o <<"blank">> \in Seq(T)
    BY <1>1, ConcatProperties
  <2>. QED
    BY <1>2, <2>1, ConcatProperties DEF Glued
<1>4. ASSUME NEW x \in Joins(lines, word) PROVE x \in Seq(T)
  <2>1. PICK line \in lines, way \in Sh!WaysOf(word) : x = Glued(line, way)
    BY JoinsAre
  <2>. QED
    BY <1>3, <2>1
<1>. QED
    BY <1>4

LinesUpTo(words) ==
    LET upTo[n \in 1..Len(words)] ==
            IF n = 1 THEN Sh!WaysOf(words[1])
            ELSE Joins(upTo[n - 1], words[n])
    IN  upTo

LEMMA LinesOfIs ==
    ASSUME NEW words
    PROVE  Sh!LinesOf(words) = LinesUpTo(words)[Len(words)]
    BY DEF Sh!LinesOf, LinesUpTo, Joins, Glued

LEMMA LinesUpToAre ==
    ASSUME NEW T, Signs(T), NEW words \in Seq(Typed(T)), words # <<>>
    PROVE  /\ LinesUpTo(words)[1] = Sh!WaysOf(words[1])
           /\ \A n \in 2..Len(words) : LinesUpTo(words)[n] = Joins(LinesUpTo(words)[n - 1], words[n])
<1>. DEFINE N == Len(words)
            V == SUBSET Seq(T)
            K == Typed(T)
            F == [x \in V \X K |-> Joins(x[1], x[2])]
            b == Sh!WaysOf(words[1])
            s == [i \in 1..(N - 1) |-> words[i + 1]]
            Is(f) == f = [n \in 1..N |-> IF n = 1 THEN Sh!WaysOf(words[1]) ELSE Joins(f[n - 1], words[n])]
            c == LinesUpTo(words)
<1>1. N \in Nat \ {0} /\ \A n \in 1..N : words[n] \in K
  <2>1. N \in Nat \ {0}
    OBVIOUS
  <2>2. \A n \in 1..N : words[n] \in K
    BY ElementOfSeq
  <2>. QED
    BY <2>1, <2>2
<1>2. b \in V
    BY <1>1, WaysType
<1>3. StepOn(F, V, K)
  <2>1. \A x \in V \X K : Joins(x[1], x[2]) \in V
    <3>. TAKE x \in V \X K
    <3>1. x[1] \in V /\ x[2] \in K
      OBVIOUS
    <3>. QED
      BY <3>1, JoinsType
  <2>. HIDE DEF V, K
  <2>. QED
    BY <2>1 DEF StepOn
<1>4. s \in Seq(K) /\ Len(s) = N - 1 /\ \A n \in 1..(N - 1) : s[n] = words[n + 1]
  <2>. HIDE DEF K, N
  <2>1. N - 1 \in Nat /\ \A n \in 1..(N - 1) : words[n + 1] \in K
    BY <1>1
  <2>. QED
    BY <2>1
<1>5. PICK u : Carried(u, b, F, s, V)
  <2>. HIDE DEF F, V, K, b, s
  <2>. QED
    BY <1>2, <1>3, <1>4, CarrySolved
<1>6. u[0] = b /\ \A n \in 1..(N - 1) : u[n] = Joins(u[n - 1], words[n + 1])
  <2>1. u \in [0..(N - 1) -> V]
    <3>. HIDE DEF s, V
    <3>. QED
      BY <1>4, <1>5 DEF Carried
  <2>2. u[0] = b /\ \A n \in 1..(N - 1) : u[n] = F[<<u[n - 1], s[n]>>]
    <3>. HIDE DEF s, F, b
    <3>. QED
      BY <1>4, <1>5 DEF Carried, Carries
  <2>3. ASSUME NEW n \in 1..(N - 1) PROVE u[n] = Joins(u[n - 1], words[n + 1])
    <3>1. u[n - 1] \in V /\ words[n + 1] \in K /\ s[n] = words[n + 1]
      <4>. HIDE DEF V, K, s, N
      <4>1. n - 1 \in 0..(N - 1) /\ n + 1 \in 1..N
        BY <1>1
      <4>. QED
        BY <1>1, <1>4, <2>1, <4>1
    <3>2. <<u[n - 1], words[n + 1]>> \in V \X K
      <4>. HIDE DEF V, K
      <4>. QED
        BY <3>1
    <3>3. F[<<u[n - 1], words[n + 1]>>] = Joins(u[n - 1], words[n + 1])
      <4>. HIDE DEF V, K
      <4>. QED
        BY <3>2
    <3>. HIDE DEF F, s
    <3>. QED
      BY <2>2, <3>1, <3>3
  <2>. QED
    BY <2>2, <2>3
<1>7. \E v : Is(v)
  <2>. DEFINE v == [n \in 1..N |-> u[n - 1]]
  <2>1. \A n \in 1..N : v[n] = IF n = 1 THEN Sh!WaysOf(words[1]) ELSE Joins(v[n - 1], words[n])
    <3>. TAKE n \in 1..N
    <3>. HIDE DEF N
    <3>1. CASE n = 1
      BY <1>1, <1>6, <3>1
    <3>2. CASE n # 1
      <4>1. n - 1 \in 1..(N - 1) /\ (n - 1) + 1 = n /\ n - 1 \in 1..N
        BY <1>1, <3>2
      <4>2. u[n - 1] = Joins(u[(n - 1) - 1], words[n])
        BY <1>6, <4>1
      <4>. QED
        BY <3>2, <4>1, <4>2
    <3>. QED
      BY <3>1, <3>2
  <2>2. v = [n \in 1..N |-> v[n]]
    OBVIOUS
  <2>. HIDE DEF v
  <2>3. Is(v)
    BY <2>1, <2>2
  <2>. QED
    BY <2>3
<1>8. Is(c)
    BY <1>7 DEF LinesUpTo
<1>. HIDE DEF c
<1>. QED
    BY <1>1, <1>8 DEF c

\* Where a line leads: to its last word, after the others.
Goes(line, words, n, T) ==
    /\ line \in Seq(T) /\ Solid(line)
    /\ Reads(Before, line, At(SubSeq(words, 1, n - 1), words[n], Sh!NoQuote))

LEMMA JoinGoes ==
    ASSUME NEW T, Signs(T), NEW words \in Seq(Typed(T)), NEW n \in 2..Len(words),
           NEW line, Goes(line, words, n - 1, T), NEW way \in Sh!WaysOf(words[n])
    PROVE  Goes(Glued(line, way), words, n, T)
<1>. DEFINE W == SubSeq(words, 1, n - 1)
            V == SubSeq(words, 1, n - 2)
            spaced == line \o <<"blank">>
<1>1. /\ n \in 1..Len(words) /\ n - 1 \in 1..Len(words) /\ words[n] \in Typed(T) /\ words[n - 1] \in Typed(T)
      /\ W = Append(V, words[n - 1])
  <2>1. n \in 1..Len(words) /\ n - 1 \in 1..Len(words) /\ (n - 1) - 1 = n - 2
    OBVIOUS
  <2>2. words[n] \in Typed(T) /\ words[n - 1] \in Typed(T)
    BY <2>1, ElementOfSeq
  <2>3. W = Append(SubSeq(words, 1, (n - 1) - 1), words[n - 1])
    <3>. HIDE DEF W
    <3>1. SubSeq(words, 1, n - 1) = Append(SubSeq(words, 1, (n - 1) - 1), words[n - 1])
      BY <2>1, OneMore
    <3>. QED
      BY <3>1 DEF W
  <2>. QED
    BY <2>1, <2>2, <2>3
<1>2. /\ "blank" \in T /\ "escape" \in T /\ QuoteSigns \subseteq T
      /\ words[n] \in Seq(T) /\ words[n] # <<>> /\ words[n - 1] # <<>>
    BY <1>1 DEF Signs, QuoteSigns, Typed
<1>3. /\ line \in Seq(T) /\ Solid(line)
      /\ Reads(Before, line, At(V, words[n - 1], Sh!NoQuote))
  <2>1. (n - 1) - 1 = n - 2
    OBVIOUS
  <2>. HIDE DEF V
  <2>. QED
    BY <2>1 DEF Goes, V
<1>4. spaced = Append(line, "blank") /\ spaced \in Seq(T) /\ Reads(Before, spaced, At(W, <<>>, Sh!NoQuote))
  <2>. HIDE DEF W, V
  <2>1. Reads(Before, Append(line, "blank"), Sh!NextChar(At(V, words[n - 1], Sh!NoQuote), "blank"))
    BY <1>2, <1>3, ReadsMore
  <2>2. Sh!NextChar(At(V, words[n - 1], Sh!NoQuote), "blank") = At(Append(V, words[n - 1]), <<>>, Sh!NoQuote)
    BY <1>2, BlankEnds
  <2>3. spaced = Append(line, "blank") /\ spaced \in Seq(T)
    BY <1>2, <1>3
  <2>. HIDE DEF spaced
  <2>. QED
    BY <1>1, <2>1, <2>2, <2>3
<1>5. way \in Seq(T) /\ Solid(way) /\ Reads(At(W, <<>>, Sh!NoQuote), way, At(W, words[n], Sh!NoQuote))
  <2>1. Means(way, words[n], T)
    BY <1>2, WaysMean
  <2>. HIDE DEF W
  <2>. QED
    BY <2>1 DEF Means
<1>6. Reads(Before, spaced \o way, At(W, words[n], Sh!NoQuote))
  <2>. HIDE DEF spaced, W
  <2>. QED
    BY <1>4, <1>5, ReadsOn
<1>7. spaced \o way \in Seq(T) /\ Solid(spaced \o way)
  <2>1. Len(line) \in Nat \ {0} /\ Len(way) \in Nat \ {0}
    BY <1>3, <1>5 DEF Solid
  <2>2. Len(spaced) = Len(line) + 1 /\ spaced[1] = line[1]
    BY <1>2, <1>3, <1>4, <2>1, AppendProperties
  <2>. HIDE DEF spaced
  <2>3. /\ spaced \o way \in Seq(T) /\ Len(spaced \o way) = Len(spaced) + Len(way)
        /\ \A i \in 1..(Len(spaced) + Len(way)) :
               (spaced \o way)[i] = IF i <= Len(spaced) THEN spaced[i] ELSE way[i - Len(spaced)]
    BY <1>4, <1>5, ConcatProperties
  <2>4. (spaced \o way)[1] = line[1]
    <3>1. 1 \in 1..(Len(spaced) + Len(way)) /\ 1 <= Len(spaced)
      BY <2>1, <2>2
    <3>. QED
      BY <2>2, <2>3, <3>1
  <2>5. (spaced \o way)[Len(spaced) + Len(way)] = way[Len(way)]
    <3>1. /\ Len(spaced) + Len(way) \in 1..(Len(spaced) + Len(way)) /\ ~(Len(spaced) + Len(way) <= Len(spaced))
          /\ (Len(spaced) + Len(way)) - Len(spaced) = Len(way)
      BY <2>1, <2>2
    <3>. QED
      BY <2>3, <3>1
  <2>6. spaced \o way # <<>>
    <3>1. Len(spaced \o way) # 0
      BY <2>1, <2>2, <2>3
    <3>. QED
      BY <3>1
  <2>. QED
    BY <1>3, <1>5, <2>3, <2>4, <2>5, <2>6 DEF Solid
<1>. HIDE DEF spaced
<1>. QED
    BY <1>6, <1>7 DEF Goes, Glued, spaced

LEMMA LinesGo ==
    ASSUME NEW T, Signs(T), NEW words \in Seq(Typed(T)), words # <<>>, NEW line \in Sh!LinesOf(words)
    PROVE  Goes(line, words, Len(words), T)
<1>. DEFINE N == Len(words)
            c == LinesUpTo(words)
            Fine(n) == \A l \in c[n] : Goes(l, words, n, T)
            G == {n \in 0..(N - 1) : Fine(n + 1)}
<1>1. N \in Nat \ {0}
    OBVIOUS
<1>2. c[1] = Sh!WaysOf(words[1]) /\ \A n \in 2..N : c[n] = Joins(c[n - 1], words[n])
    BY LinesUpToAre
<1>. HIDE DEF c
<1>3. Fine(1)
  <2>1. 1 \in 1..N /\ words[1] \in Typed(T)
    <3>1. 1 \in 1..N
      BY <1>1
    <3>. QED
      BY <3>1, ElementOfSeq
  <2>2. words[1] \in Seq(T) /\ words[1] # <<>> /\ "escape" \in T /\ QuoteSigns \subseteq T
    BY <2>1 DEF Typed, Signs, QuoteSigns
  <2>. SUFFICES ASSUME NEW l \in Sh!WaysOf(words[1]) PROVE Goes(l, words, 1, T)
    BY <1>2
  <2>3. Means(l, words[1], T)
    BY <2>2, WaysMean
  <2>4. SubSeq(words, 1, 1 - 1) = <<>>
    OBVIOUS
  <2>. QED
    BY <2>3, <2>4 DEF Means, Goes, Before
<1>4. ASSUME NEW n \in 2..N, Fine(n - 1) PROVE Fine(n)
  <2>. SUFFICES ASSUME NEW l \in c[n] PROVE Goes(l, words, n, T)
    OBVIOUS
  <2>1. PICK before \in c[n - 1], way \in Sh!WaysOf(words[n]) : l = Glued(before, way)
    <3>1. l \in Joins(c[n - 1], words[n])
      BY <1>2
    <3>. QED
      BY <3>1, JoinsAre
  <2>2. Goes(before, words, n - 1, T)
    BY <1>4
  <2>3. Goes(Glued(before, way), words, n, T)
    BY <2>2, JoinGoes
  <2>. QED
    BY <2>1, <2>3
<1>. HIDE DEF Fine
<1>5. 0 \in G
    BY <1>1, <1>3
<1>6. ASSUME NEW n \in 1..(N - 1), n - 1 \in G PROVE n \in G
  <2>1. n + 1 \in 2..N /\ (n + 1) - 1 = n /\ (n - 1) + 1 = n
    BY <1>1
  <2>2. Fine((n + 1) - 1)
    BY <1>6, <2>1
  <2>3. Fine(n + 1)
    BY <1>4, <2>1, <2>2
  <2>. QED
    BY <1>1, <2>3
<1>7. 0..(N - 1) \subseteq G
  <2>. HIDE DEF G
  <2>1. N - 1 \in Nat
    BY <1>1
  <2>. HIDE DEF N
  <2>. QED
    BY <1>5, <1>6, <2>1, UpTo
<1>8. Fine(N)
  <2>1. N - 1 \in 0..(N - 1) /\ (N - 1) + 1 = N
    BY <1>1
  <2>. QED
    BY <1>7, <2>1
<1>9. line \in c[N]
    BY LinesOfIs DEF c
<1>. QED
    BY <1>8, <1>9 DEF Fine

\* strings.TrimSpace of a line that neither starts nor ends with a blank.
LEMMA NothingTrimmed ==
    ASSUME NEW T, NEW line \in Seq(T), Solid(line)
    PROVE  Sh!TrimSpace(line, Sh!Blanks) = line
<1>. DEFINE solid == {i \in DOMAIN line : line[i] \notin Sh!Blanks}
            N == Len(line)
<1>1. N \in Nat \ {0} /\ 1 \in solid /\ N \in solid /\ \A i \in solid : i \in 1..N
    BY DEF Solid
<1>2. Min(solid) = 1
  <2>1. solid \in SUBSET Nat /\ solid # {}
    BY <1>1
  <2>2. Min(solid) \in solid /\ \A y \in solid : Min(solid) <= y
    BY <2>1, MinIs
  <2>. HIDE DEF solid
  <2>3. Min(solid) \in 1..N /\ Min(solid) <= 1
    BY <1>1, <2>2
  <2>. QED
    BY <1>1, <2>3
<1>3. Max(solid) = N
  <2>1. \E x \in solid : \A y \in solid : x >= y
    BY <1>1
  <2>2. Max(solid) \in solid /\ \A y \in solid : Max(solid) >= y
    BY <2>1 DEF Max
  <2>. HIDE DEF solid
  <2>3. Max(solid) \in 1..N /\ Max(solid) >= N
    BY <1>1, <2>2
  <2>. QED
    BY <1>1, <2>3
<1>4. Sh!TrimSpace(line, Sh!Blanks) = IF solid = {} THEN <<>> ELSE SubSeq(line, Min(solid), Max(solid))
    BY DEF Sh!TrimSpace, Sh!Min, Sh!Max, Min, Max
<1>. HIDE DEF solid
<1>5. Sh!TrimSpace(line, Sh!Blanks) = SubSeq(line, 1, N)
    BY <1>1, <1>2, <1>3, <1>4
<1>6. SubSeq(line, 1, N) = line
    OBVIOUS
<1>. QED
    BY <1>5, <1>6

LEMMA SplitLast ==
    ASSUME NEW K, NEW words \in Seq(K), words # <<>>
    PROVE  Append(SubSeq(words, 1, Len(words) - 1), words[Len(words)]) = words
<1>1. Len(words) \in 1..Len(words)
    OBVIOUS
<1>2. SubSeq(words, 1, Len(words)) = Append(SubSeq(words, 1, Len(words) - 1), words[Len(words)])
    BY <1>1, OneMore
<1>3. SubSeq(words, 1, Len(words)) = words
    OBVIOUS
<1>. QED
    BY <1>2, <1>3

LEMMA Tokenized ==
    ASSUME NEW T, Signs(T), NEW words \in Seq(Typed(T)), words # <<>>, NEW line \in Sh!LinesOf(words)
    PROVE  Sh!Tokenize(Sh!TrimSpace(line, Sh!Blanks)) = words
<1>. DEFINE W == SubSeq(words, 1, Len(words) - 1)
            w == words[Len(words)]
            end == Sh!Read(line)[Len(line)]
<1>1. line \in Seq(T) /\ Solid(line) /\ Reads(Before, line, At(W, w, Sh!NoQuote))
    BY LinesGo DEF Goes
<1>2. Sh!TrimSpace(line, Sh!Blanks) = line
    BY <1>1, NothingTrimmed
<1>3. w # <<>>
  <2>1. Len(words) \in 1..Len(words)
    OBVIOUS
  <2>2. w \in Typed(T)
    BY <2>1, ElementOfSeq
  <2>. QED
    BY <2>2 DEF Typed
<1>4. Append(W, w) = words
    BY SplitLast
<1>. HIDE DEF W, w
<1>5. end = At(W, w, Sh!NoQuote)
    BY <1>1, ReadEnds
<1>6. end.quote = Sh!NoQuote /\ end.word = w /\ end.words = W
    BY <1>5 DEF At
<1>7. Sh!Tokenize(line) = IF end.quote # Sh!NoQuote THEN Sh!Unterminated
                          ELSE IF end.word = <<>> THEN end.words ELSE Append(end.words, end.word)
    BY DEF Sh!Tokenize
<1>. HIDE DEF end
<1>. QED
    BY <1>2, <1>3, <1>4, <1>6, <1>7

LEMMA CommandIs ==
    ASSUME NEW T, Signs(T), NEW words \in Seq(Typed(T)), words # <<>>, NEW line \in Sh!LinesOf(words), NEW pid
    PROVE  Sh!Command(line, pid) = <<Head(words)>> \o Sh!ExpandSticky(Head(words), Tail(words), pid)
<1>1. Sh!Tokenize(Sh!TrimSpace(line, Sh!Blanks)) = words
    BY Tokenized
<1>2. words \notin {<<>>, Sh!Unterminated}
  <2>1. words[1] \in Typed(T)
    <3>1. 1 \in 1..Len(words)
      OBVIOUS
    <3>. QED
      BY <3>1, ElementOfSeq
  <2>2. words[1] # <<>>
    BY <2>1 DEF Typed
  <2>3. Sh!Unterminated[1] = <<>>
    BY DEF Sh!Unterminated
  <2>. QED
    BY <2>2, <2>3
<1>. QED
    BY <1>1, <1>2 DEF Sh!Command

\* A sequence without its third element.
LEMMA WithoutThird ==
    ASSUME NEW K, NEW w \in Seq(K), Len(w) >= 3
    PROVE  LET u == SubSeq(w, 1, 2) \o SubSeq(w, 4, Len(w))
           IN  /\ u \in Seq(K) /\ Len(u) = Len(w) - 1 /\ u[1] = w[1] /\ u[2] = w[2]
               /\ \A n \in 3..(Len(w) - 1) : u[n] = w[n + 1]
<1>. DEFINE N == Len(w)
            a == SubSeq(w, 1, 2)
            b == SubSeq(w, 4, N)
<1>1. N \in Nat /\ \A n \in 1..N : w[n] \in K
  <2>1. \A n \in 1..N : w[n] \in K
    BY ElementOfSeq
  <2>. QED
    BY <2>1
<1>2. a \in Seq(K) /\ Len(a) = 2 /\ \A i \in 1..(2 - 1 + 1) : a[i] = w[1 + i - 1]
  <2>1. 1 \in Int /\ 2 \in Int /\ \A i \in 1..2 : w[i] \in K
    BY <1>1
  <2>. HIDE DEF N
  <2>2. a \in Seq(K) /\ Len(a) = (IF 1 <= 2 THEN 2 - 1 + 1 ELSE 0) /\ \A i \in 1..(2 - 1 + 1) : a[i] = w[1 + i - 1]
    BY <2>1, SubSeqProperties
  <2>. HIDE DEF a
  <2>. QED
    BY <2>2
<1>3. b \in Seq(K) /\ Len(b) = N - 3 /\ \A i \in 1..(N - 4 + 1) : b[i] = w[4 + i - 1]
  <2>1. 4 \in Int /\ N \in Int /\ \A i \in 4..N : w[i] \in K
    BY <1>1
  <2>. HIDE DEF N
  <2>2. b \in Seq(K) /\ Len(b) = (IF 4 <= N THEN N - 4 + 1 ELSE 0) /\ \A i \in 1..(N - 4 + 1) : b[i] = w[4 + i - 1]
    BY <2>1, SubSeqProperties
  <2>. HIDE DEF b
  <2>3. N >= 3
    BY DEF N
  <2>. QED
    BY <1>1, <2>2, <2>3
<1>. HIDE DEF a, b
<1>4. /\ a \o b \in Seq(K) /\ Len(a \o b) = Len(a) + Len(b)
      /\ \A i \in 1..(Len(a) + Len(b)) : (a \o b)[i] = IF i <= Len(a) THEN a[i] ELSE b[i - Len(a)]
    BY <1>2, <1>3, ConcatProperties
<1>5. N >= 3
    OBVIOUS
<1>. HIDE DEF N
<1>6. (a \o b)[1] = w[1] /\ (a \o b)[2] = w[2] /\ Len(a \o b) = N - 1
    BY <1>1, <1>2, <1>3, <1>4, <1>5
<1>7. ASSUME NEW n \in 3..(N - 1) PROVE (a \o b)[n] = w[n + 1]
  <2>1. (a \o b)[n] = b[n - 2]
    BY <1>1, <1>2, <1>3, <1>4
  <2>2. n - 2 \in 1..(N - 4 + 1) /\ 4 + (n - 2) - 1 = n + 1
    BY <1>1
  <2>. QED
    BY <1>3, <2>1, <2>2
<1>. QED
    BY <1>4, <1>6, <1>7 DEF a, b, N

\* What the shell makes of a command that is typed with or without its id.
LEMMA AllThere ==
    ASSUME NEW K, NEW w \in Seq(K), Len(w) >= 3, NEW pid,
           \/ pid = Sh!NoPin
           \/ w[2] \in Sh!Named /\ Len(w) = 3
           \/ Sh!IsNumber(w[3]) /\ Len(w) # 2
    PROVE  <<Head(w)>> \o Sh!ExpandSticky(Head(w), Tail(w), pid) = w
<1>. DEFINE t == Tail(w)
<1>1. Len(w) \in Nat /\ w # <<>> /\ Len(t) = Len(w) - 1 /\ t[2] = w[3]
    OBVIOUS
<1>2. Sh!ExpandSticky(Head(w), t, pid) = t
  <2>. HIDE DEF t
  <2>1. CASE pid = Sh!NoPin
    BY <2>1 DEF Sh!ExpandSticky
  <2>2. CASE w[2] \in Sh!Named /\ Len(w) = 3
    BY <1>1, <2>2 DEF Sh!ExpandSticky, Sh!LacksId
  <2>3. CASE Sh!IsNumber(w[3])
    BY <1>1, <2>3 DEF Sh!ExpandSticky, Sh!LacksId
  <2>. QED
    BY <2>1, <2>2, <2>3
<1>3. <<Head(w)>> \o t = w
    OBVIOUS
<1>. QED
    BY <1>2, <1>3

LEMMA ThreeThere ==
    ASSUME NEW K, NEW w \in Seq(K), Len(w) >= 3
    PROVE  w[1] \in K /\ w[2] \in K /\ w[3] \in K
<1>1. 1 \in 1..Len(w) /\ 2 \in 1..Len(w) /\ 3 \in 1..Len(w)
    OBVIOUS
<1>. QED
    BY <1>1, ElementOfSeq

LEMMA FirstThree ==
    ASSUME NEW K, NEW x \in K, NEW y \in K, NEW z \in K
    PROVE  LET three == <<x>> \o <<y, z>>
           IN  /\ <<x>> \in Seq(K) /\ <<y, z>> \in Seq(K) /\ three \in Seq(K) /\ Len(three) = 3
               /\ three[1] = x /\ three[2] = y /\ three[3] = z
<1>. DEFINE a == <<x>>
            b == <<y, z>>
<1>1. a \in Seq(K) /\ Len(a) = 1 /\ a[1] = x
    OBVIOUS
<1>2. b \in Seq(K) /\ Len(b) = 2 /\ b[1] = y /\ b[2] = z
    OBVIOUS
<1>. HIDE DEF a, b
<1>3. /\ a \o b \in Seq(K) /\ Len(a \o b) = Len(a) + Len(b)
      /\ \A i \in 1..(Len(a) + Len(b)) : (a \o b)[i] = IF i <= Len(a) THEN a[i] ELSE b[i - Len(a)]
    BY <1>1, <1>2, ConcatProperties
<1>4. Len(a \o b) = 3 /\ (a \o b)[1] = x /\ (a \o b)[2] = y /\ (a \o b)[3] = z
    BY <1>1, <1>2, <1>3
<1>. QED
    BY <1>1, <1>2, <1>3, <1>4 DEF a, b

\* Three elements and the rest.
LEMMA AfterThree ==
    ASSUME NEW K, NEW three \in Seq(K), NEW r \in Seq(K), Len(three) = 3
    PROVE  /\ three \o r \in Seq(K) /\ Len(three \o r) = 3 + Len(r)
           /\ \A i \in 1..(3 + Len(r)) : (three \o r)[i] = IF i <= 3 THEN three[i] ELSE r[i - 3]
<1>1. /\ three \o r \in Seq(K) /\ Len(three \o r) = Len(three) + Len(r)
      /\ \A i \in 1..(Len(three) + Len(r)) : (three \o r)[i] = IF i <= Len(three) THEN three[i] ELSE r[i - Len(three)]
    BY ConcatProperties
<1>. QED
    BY <1>1

Splits(w, three, r) ==
    /\ Len(w) >= 3 /\ Len(three) = 3 /\ three[1] = w[1] /\ three[2] = w[2] /\ three[3] = w[3]
    /\ Len(r) = Len(w) - 3 /\ \A i \in 1..(Len(w) - 3) : r[i] = w[i + 3]

LEMMA ThreeAndRest ==
    ASSUME NEW K, NEW w \in Seq(K), NEW three \in Seq(K), NEW r \in Seq(K), Splits(w, three, r)
    PROVE  three \o r = w
<1>0. /\ Len(w) >= 3 /\ Len(three) = 3 /\ three[1] = w[1] /\ three[2] = w[2] /\ three[3] = w[3]
      /\ Len(r) = Len(w) - 3 /\ \A i \in 1..(Len(w) - 3) : r[i] = w[i + 3]
    BY DEF Splits
<1>1. /\ three \o r \in Seq(K) /\ Len(three \o r) = 3 + Len(r)
      /\ \A i \in 1..(3 + Len(r)) : (three \o r)[i] = IF i <= 3 THEN three[i] ELSE r[i - 3]
  <2>1. Len(three) = 3
    BY <1>0
  <2>. QED
    BY <2>1, AfterThree
<1>2. Len(three \o r) = Len(w) /\ Len(w) \in Nat
    BY <1>0, <1>1
<1>3. ASSUME NEW i \in 1..Len(w) PROVE (three \o r)[i] = w[i]
  <2>1. (three \o r)[i] = IF i <= 3 THEN three[i] ELSE r[i - 3]
    BY <1>1, <1>2
  <2>2. CASE i <= 3
    <3>1. i = 1 \/ i = 2 \/ i = 3
      BY <2>2
    <3>. QED
      BY <1>0, <2>1, <2>2, <3>1
  <2>3. CASE ~(i <= 3)
    <3>1. i - 3 \in 1..(Len(w) - 3) /\ (i - 3) + 3 = i
      BY <1>2, <2>3
    <3>. QED
      BY <1>0, <2>1, <2>3, <3>1
  <2>. QED
    BY <2>2, <2>3
<1>. QED
    BY <1>1, <1>2, <1>3, SeqEqual

LEMMA OneAndTwo ==
    ASSUME NEW K, NEW x \in K, NEW y \in K, NEW z \in K, NEW r \in Seq(K)
    PROVE  <<x>> \o (<<y, z>> \o r) = (<<x>> \o <<y, z>>) \o r
<1>1. <<x>> \in Seq(K) /\ <<y, z>> \in Seq(K)
    OBVIOUS
<1>. QED
    BY <1>1, ConcatAssociative

LEMMA IdFilledIn ==
    ASSUME NEW K, NEW w \in Seq(K), Len(w) >= 3, w[1] = <<"projects">>, w[3] # Sh!NoPin,
           NEW u \in Seq(K), Len(u) = Len(w) - 1, u[1] = w[1], u[2] = w[2],
           \A n \in 3..(Len(w) - 1) : u[n] = w[n + 1],
           \/ w[2] \in Sh!Named /\ Len(w) = 3
           \/ w[2] = Sh!Decide /\ Len(w) >= 5 /\ ~Sh!IsNumber(w[4])
    PROVE  <<Head(u)>> \o Sh!ExpandSticky(Head(u), Tail(u), w[3]) = w
<1>1. /\ Len(w) \in Nat /\ u # <<>> /\ Head(u) = w[1] /\ Tail(u) \in Seq(K) /\ Len(Tail(u)) = Len(w) - 2
      /\ \A i \in 1..(Len(w) - 2) : Tail(u)[i] = u[i + 1]
  <2>1. Len(w) \in Nat /\ u # <<>>
    OBVIOUS
  <2>2. Tail(u) \in Seq(K) /\ Len(Tail(u)) = Len(u) - 1 /\ \A i \in 1..Len(Tail(u)) : Tail(u)[i] = u[i + 1]
    BY <2>1, HeadTailProperties
  <2>. QED
    BY <2>1, <2>2
<1>. DEFINE t == Tail(u)
<1>2. t # <<>> /\ t[1] = w[2] /\ (Len(w) >= 4 => t[2] = w[4])
  <2>1. t[1] = u[2]
    BY <1>1
  <2>2. Len(w) >= 4 => t[2] = u[3] /\ u[3] = w[4]
    BY <1>1
  <2>3. Len(t) # 0
    BY <1>1
  <2>. HIDE DEF t
  <2>4. t # <<>>
    BY <2>3
  <2>. QED
    BY <2>1, <2>2, <2>4
<1>. HIDE DEF t
<1>3. Sh!LacksId(t)
  <2>1. Len(t) = Len(w) - 2 /\ Len(w) \in Nat
    BY <1>1 DEF t
  <2>2. CASE w[2] \in Sh!Named /\ Len(w) = 3
    BY <1>2, <2>1, <2>2 DEF Sh!LacksId
  <2>3. CASE w[2] = Sh!Decide /\ Len(w) >= 5 /\ ~Sh!IsNumber(w[4])
    <3>1. Len(t) >= 3 /\ t[1] = Sh!Decide /\ ~Sh!IsNumber(t[2])
      BY <1>2, <2>1, <2>3
    <3>. QED
      BY <3>1 DEF Sh!LacksId
  <2>. QED
    BY <2>2, <2>3
<1>4. Sh!ExpandSticky(Head(u), t, w[3]) = <<t[1], w[3]>> \o Tail(t)
    BY <1>1, <1>3 DEF Sh!ExpandSticky
<1>5. /\ t \in Seq(K) /\ Tail(t) \in Seq(K) /\ Len(Tail(t)) = Len(w) - 3
      /\ \A i \in 1..(Len(w) - 3) : Tail(t)[i] = w[i + 3]
  <2>1. t \in Seq(K) /\ Len(t) = Len(w) - 2
    BY <1>1 DEF t
  <2>2. Tail(t) \in Seq(K) /\ Len(Tail(t)) = Len(t) - 1 /\ \A i \in 1..Len(Tail(t)) : Tail(t)[i] = t[i + 1]
    BY <1>2, <2>1, HeadTailProperties
  <2>3. ASSUME NEW i \in 1..(Len(w) - 3) PROVE Tail(t)[i] = w[i + 3]
    <3>1. Tail(t)[i] = t[i + 1] /\ i + 1 \in 1..(Len(w) - 2) /\ i + 2 \in 3..(Len(w) - 1)
      BY <1>1, <2>1, <2>2
    <3>2. t[i + 1] = u[(i + 1) + 1] /\ (i + 1) + 1 = i + 2
      BY <1>1, <3>1 DEF t
    <3>3. u[i + 2] = w[(i + 2) + 1] /\ (i + 2) + 1 = i + 3
      BY <3>1
    <3>. QED
      BY <3>1, <3>2, <3>3
  <2>. QED
    BY <2>1, <2>2, <2>3
<1>. DEFINE r == Tail(t)
            three == <<w[1]>> \o <<w[2], w[3]>>
<1>6. <<w[1]>> \o (<<w[2], w[3]>> \o r) = three \o r
  <2>1. w[1] \in K /\ w[2] \in K /\ w[3] \in K
    BY ThreeThere
  <2>2. r \in Seq(K)
    BY <1>5
  <2>. HIDE DEF r
  <2>. QED
    BY <2>1, <2>2, OneAndTwo
<1>7. three \o r = w
  <2>1. three \in Seq(K) /\ Len(three) = 3 /\ three[1] = w[1] /\ three[2] = w[2] /\ three[3] = w[3]
    <3>1. w[1] \in K /\ w[2] \in K /\ w[3] \in K
      BY ThreeThere
    <3>. QED
      BY <3>1, FirstThree
  <2>2. r \in Seq(K) /\ Len(r) = Len(w) - 3 /\ \A i \in 1..(Len(w) - 3) : r[i] = w[i + 3]
    BY <1>5
  <2>. HIDE DEF r, three
  <2>3. Splits(w, three, r)
    BY <2>1, <2>2 DEF Splits
  <2>. QED
    BY <2>1, <2>2, <2>3, ThreeAndRest
<1>. HIDE DEF three
<1>. QED
    BY <1>1, <1>2, <1>4, <1>6, <1>7 DEF t

\* What is asked about lines.
LEMMA LineAsked ==
    ASSUME AskInv, asked.fn = "line", answer # Nothing
    PROVE  \E w \in Commands : \E t \in Typings(w) : \E l \in Sh!LinesOf(t.typed) :
               asked.words = w /\ asked.typed = t.typed /\ answer.words = Sh!Command(l, t.pinned)
    BY DEF AskInv, Answered

LEMMA TypingsAre ==
    ASSUME NEW w, NEW t \in Typings(w)
    PROVE  \/ t.typed = w /\ t.pinned \in {Sh!NoPin, w[3]}
           \/ t.typed = SubSeq(w, 1, 2) \o SubSeq(w, 4, Len(w)) /\ t.pinned = w[3]
    BY DEF Typings

LEMMA NumberIsWord == ~Sh!IsNumber(<<>>)
<1>1. PICK word : word = <<>>
    OBVIOUS
<1>2. ~(word # <<>> /\ Head(word) \in {"+", "-"})
    BY <1>1
<1>3. ~Sh!IsNumber(word)
    BY <1>1, <1>2 DEF Sh!IsNumber
<1>. QED
    BY <1>1, <1>3

\* What a command is made of.
LEMMA CommandIsTyped ==
    ASSUME NEW T, STRING \subseteq T, NEW w \in Commands
    PROVE  w \in Seq(Typed(T)) /\ Len(w) >= 3 /\ w[3] # Sh!NoPin
<1>1. PICK U : U = STRING
    OBVIOUS
<1>2. w \in Seq(Seq(U)) /\ (\A n \in DOMAIN w : w[n] # <<>>) /\ Len(w) >= 3 /\ Sh!IsNumber(w[3])
    BY <1>1, CommandsType
<1>3. U \subseteq T
    BY <1>1
<1>4. ASSUME NEW n \in 1..Len(w) PROVE w[n] \in Typed(T)
  <2>1. w[n] \in Seq(U)
    BY <1>2, ElementOfSeq
  <2>2. w[n] \in Seq(T)
    BY <1>3, <2>1
  <2>3. w[n] # <<>>
    BY <1>2
  <2>. QED
    BY <2>2, <2>3 DEF Typed
<1>5. w \in Seq(Typed(T))
  <2>1. Len(w) \in Nat /\ w = [n \in 1..Len(w) |-> w[n]]
    BY <1>2
  <2>. QED
    BY <1>4, <2>1
<1>6. w[3] # Sh!NoPin
    BY <1>2, NumberIsWord DEF Sh!NoPin
<1>. QED
    BY <1>2, <1>5, <1>6

\* The words of a command arrive, in whatever quotes, with the id typed or pinned,
\* and however long they are, unless a question that is a number stands where the
\* id was left out (repl.go:105, 121, 133).
THEOREM WordsAlwaysArrive == AskSpec => []WordsArrive
<1>1. ASSUME AskInv PROVE WordsArrive
  <2>. DEFINE Right(w, typed, words) ==
                  words = IF typed # w /\ w[2] = Sh!Decide /\ Sh!IsNumber(w[4]) THEN typed ELSE w
  <2>. SUFFICES ASSUME asked.fn = "line", answer # Nothing PROVE Right(asked.words, asked.typed, answer.words)
    BY DEF WordsArrive
  <2>a. PICK w \in Commands : \E t \in Typings(w) : \E l \in Sh!LinesOf(t.typed) :
            asked.words = w /\ asked.typed = t.typed /\ answer.words = Sh!Command(l, t.pinned)
    BY <1>1, LineAsked
  <2>b. PICK t \in Typings(w) : \E l \in Sh!LinesOf(t.typed) :
            asked.words = w /\ asked.typed = t.typed /\ answer.words = Sh!Command(l, t.pinned)
    BY <2>a
  <2>1. PICK l \in Sh!LinesOf(t.typed) :
            asked.words = w /\ asked.typed = t.typed /\ answer.words = Sh!Command(l, t.pinned)
    BY <2>b
  <2>c. Right(w, t.typed, answer.words) => Right(asked.words, asked.typed, answer.words)
    BY <2>1
  <2>2. PICK U : U = STRING
    OBVIOUS
  <2>. DEFINE T == U \cup {"escape", "double", "single", "blank"}
  <2>3. Signs(T) /\ STRING \subseteq T
    BY <2>2 DEF Signs
  <2>. HIDE DEF T
  <2>4. w \in Seq(Typed(T)) /\ Len(w) >= 3 /\ w[3] # Sh!NoPin
    BY <2>3, CommandIsTyped
  <2>5. /\ w[1] = <<"projects">> /\ Sh!IsNumber(w[3])
        /\ \/ w[2] \in Sh!Named /\ Len(w) = 3
           \/ w[2] = Sh!Decide /\ Len(w) >= 5
    BY CommandsType
  <2>6. CASE t.typed = w /\ t.pinned \in {Sh!NoPin, w[3]}
    <3>1. w # <<>> /\ Len(w) # 2
      BY <2>4
    <3>2. Sh!Command(l, t.pinned) = <<Head(w)>> \o Sh!ExpandSticky(Head(w), Tail(w), t.pinned)
      BY <2>3, <2>4, <2>6, <3>1, CommandIs
    <3>3. <<Head(w)>> \o Sh!ExpandSticky(Head(w), Tail(w), t.pinned) = w
      BY <2>4, <2>5, <3>1, AllThere
    <3>. QED
      BY <2>1, <2>6, <2>c, <3>2, <3>3
  <2>7. CASE t.typed = SubSeq(w, 1, 2) \o SubSeq(w, 4, Len(w)) /\ t.pinned = w[3]
    <3>. DEFINE u == SubSeq(w, 1, 2) \o SubSeq(w, 4, Len(w))
    <3>1. /\ u \in Seq(Typed(T)) /\ Len(u) = Len(w) - 1 /\ u[1] = w[1] /\ u[2] = w[2]
          /\ \A n \in 3..(Len(w) - 1) : u[n] = w[n + 1]
      BY <2>4, WithoutThird
    <3>0. t.typed = u
      BY <2>7
    <3>. HIDE DEF u
    <3>2. u # <<>> /\ t.typed = u
      <4>1. Len(u) # 0
        BY <2>4, <3>1
      <4>. QED
        BY <3>0, <4>1
    <3>3. Sh!Command(l, w[3]) = <<Head(u)>> \o Sh!ExpandSticky(Head(u), Tail(u), w[3])
      BY <2>3, <3>1, <3>2, CommandIs
    <3>a. answer.words = <<Head(u)>> \o Sh!ExpandSticky(Head(u), Tail(u), w[3])
      BY <2>1, <2>7, <3>3
    <3>b. Len(w) \in Nat /\ u # w
      <4>1. Len(w) \in Nat
        BY <2>4
      <4>2. Len(u) # Len(w)
        BY <3>1, <4>1
      <4>. QED
        BY <4>1, <4>2
    <3>4. CASE w[2] = Sh!Decide /\ Sh!IsNumber(w[4])
      <4>1. Len(w) >= 5
        <5>1. Len(w) # 3 \/ w[2] \notin Sh!Named
          BY <3>4 DEF Sh!Named, Sh!Decide
        <5>. QED
          BY <2>5, <5>1
      <4>2. Len(u) >= 3 /\ Len(u) # 2 /\ u[3] = w[4]
        BY <3>1, <3>b, <4>1
      <4>3. <<Head(u)>> \o Sh!ExpandSticky(Head(u), Tail(u), w[3]) = u
        BY <3>1, <3>4, <4>2, AllThere
      <4>. QED
        BY <2>c, <3>0, <3>4, <3>a, <3>b, <4>3
    <3>5. CASE ~(w[2] = Sh!Decide /\ Sh!IsNumber(w[4]))
      <4>1. \/ w[2] \in Sh!Named /\ Len(w) = 3
            \/ w[2] = Sh!Decide /\ Len(w) >= 5 /\ ~Sh!IsNumber(w[4])
        BY <2>5, <3>5
      <4>2. <<Head(u)>> \o Sh!ExpandSticky(Head(u), Tail(u), w[3]) = w
        BY <2>4, <2>5, <3>1, <4>1, IdFilledIn
      <4>. QED
        BY <2>c, <3>5, <3>a, <4>2
    <3>. QED
      BY <3>4, <3>5
  <2>. QED
    BY <2>6, <2>7, TypingsAre
<1>. QED
    BY <1>1, AskInvAlways, PTL

-----------------------------------------------------------------------------
(* The scanner of parseClustererJSON and parsePrototypeJSON.                *)

ScanStates == [depth : Int, inStr : BOOLEAN, esc : BOOLEAN]
State(d, inStr, esc) == [depth |-> d, inStr |-> inStr, esc |-> esc]

LEMMA StateType == ASSUME NEW d \in Int, NEW s \in BOOLEAN, NEW e \in BOOLEAN PROVE State(d, s, e) \in ScanStates
    BY DEF State, ScanStates

LEMMA StateIs ==
    ASSUME NEW d, NEW s, NEW e
    PROVE  State(d, s, e).depth = d /\ State(d, s, e).inStr = s /\ State(d, s, e).esc = e
    BY DEF State

LEMMA StateOf ==
    ASSUME NEW st \in ScanStates
    PROVE  st = State(st.depth, st.inStr, st.esc) /\ st.depth \in Int /\ st.inStr \in BOOLEAN /\ st.esc \in BOOLEAN
    BY DEF State, ScanStates

\* One character outside a string, and within one.
LEMMA ScanOutside ==
    ASSUME NEW d \in Int, NEW ch
    PROVE  /\ ch = Re!Quote => Re!Scan(State(d, FALSE, FALSE), ch) = State(d, TRUE, FALSE)
           /\ ch = Re!Open => Re!Scan(State(d, FALSE, FALSE), ch) = State(d + 1, FALSE, FALSE)
           /\ ch = Re!Close => Re!Scan(State(d, FALSE, FALSE), ch) = State(d - 1, FALSE, FALSE)
           /\ ch \notin {Re!Quote, Re!Open, Re!Close} => Re!Scan(State(d, FALSE, FALSE), ch) = State(d, FALSE, FALSE)
<1>1. CASE ch = Re!Quote
    BY <1>1 DEF State, Re!Scan, Re!Quote, Re!Open, Re!Close
<1>2. CASE ch = Re!Open
    BY <1>2 DEF State, Re!Scan, Re!Quote, Re!Open, Re!Close
<1>3. CASE ch = Re!Close
    BY <1>3 DEF State, Re!Scan, Re!Quote, Re!Open, Re!Close
<1>4. CASE ch \notin {Re!Quote, Re!Open, Re!Close}
    BY <1>4 DEF State, Re!Scan
<1>. QED
    BY <1>1, <1>2, <1>3, <1>4 DEF Re!Quote, Re!Open, Re!Close

LEMMA ScanInside ==
    ASSUME NEW d \in Int, NEW e \in BOOLEAN, NEW ch
    PROVE  /\ Re!Scan(State(d, TRUE, e), ch) = State(d, e \/ ch # Re!Quote, ~e /\ ch = Re!Escape)
           /\ ch = Re!Quote => ch # Re!Escape
<1>1. Re!Scan(State(d, TRUE, e), ch) = State(d, e \/ ch # Re!Quote, ~e /\ ch = Re!Escape)
    BY DEF State, Re!Scan
<1>2. ch = Re!Quote => ch # Re!Escape
    BY DEF Re!Quote, Re!Escape
<1>. QED
    BY <1>1, <1>2

\* Nothing is escaped outside a string, and the depth changes by one at most.
Sane(st) == st \in ScanStates /\ (st.inStr \/ ~st.esc)

LEMMA ScanSane ==
    ASSUME NEW st, Sane(st), NEW ch
    PROVE  /\ Sane(Re!Scan(st, ch))
           /\ Re!Scan(st, ch).depth \in {st.depth - 1, st.depth, st.depth + 1}
           /\ Re!Scan(st, ch).depth < st.depth =>
                  /\ ch = Re!Close /\ st = State(st.depth, FALSE, FALSE)
                  /\ Re!Scan(st, ch) = State(st.depth - 1, FALSE, FALSE)
<1>. DEFINE d == st.depth
            e == st.esc
<1>1. st = State(d, st.inStr, e) /\ d \in Int /\ st.inStr \in BOOLEAN /\ e \in BOOLEAN /\ (st.inStr \/ ~e)
    BY StateOf DEF Sane
<1>. HIDE DEF d, e
<1>2. CASE st.inStr
  <2>1. st = State(d, TRUE, e)
    BY <1>1, <1>2
  <2>2. Re!Scan(st, ch) = State(d, e \/ ch # Re!Quote, ~e /\ ch = Re!Escape) /\ (ch = Re!Quote => ch # Re!Escape)
    BY <1>1, <2>1, ScanInside
  <2>. DEFINE i == e \/ ch # Re!Quote
              f == ~e /\ ch = Re!Escape
  <2>3. i \in BOOLEAN /\ f \in BOOLEAN /\ (i \/ ~f)
    BY <1>1, <2>2
  <2>4. Re!Scan(st, ch) = State(d, i, f)
    BY <2>2
  <2>. HIDE DEF i, f
  <2>5. State(d, i, f) \in ScanStates /\ State(d, i, f).depth = d /\ State(d, i, f).inStr = i /\ State(d, i, f).esc = f
    BY <1>1, <2>3, StateType, StateIs
  <2>6. Sane(State(d, i, f))
    BY <2>3, <2>5, Zenon DEF Sane
  <2>7. ~(d < d)
    BY <1>1
  <2>. QED
    BY <2>4, <2>5, <2>6, <2>7 DEF d
<1>3. CASE ~st.inStr
  <2>1. st = State(d, FALSE, FALSE)
    BY <1>1, <1>3
  <2>2. /\ ch = Re!Quote => Re!Scan(st, ch) = State(d, TRUE, FALSE)
        /\ ch = Re!Open => Re!Scan(st, ch) = State(d + 1, FALSE, FALSE)
        /\ ch = Re!Close => Re!Scan(st, ch) = State(d - 1, FALSE, FALSE)
        /\ ch \notin {Re!Quote, Re!Open, Re!Close} => Re!Scan(st, ch) = State(d, FALSE, FALSE)
    BY <1>1, <2>1, ScanOutside
  <2>3. ASSUME NEW x \in Int, NEW i \in BOOLEAN
        PROVE  Sane(State(x, i, FALSE)) /\ State(x, i, FALSE).depth = x
    <3>1. State(x, i, FALSE) \in ScanStates
      BY DEF State, ScanStates
    <3>2. State(x, i, FALSE).depth = x /\ State(x, i, FALSE).esc = FALSE
      BY DEF State
    <3>. QED
      BY <3>1, <3>2 DEF Sane
  <2>4. d - 1 \in Int /\ d + 1 \in Int /\ ~(d < d) /\ ~(d + 1 < d)
    BY <1>1
  <2>5. CASE ch = Re!Quote
    BY <1>1, <2>2, <2>3, <2>4, <2>5 DEF d
  <2>6. CASE ch = Re!Open
    BY <1>1, <2>2, <2>3, <2>4, <2>6 DEF d
  <2>7. CASE ch = Re!Close
    BY <1>1, <2>1, <2>2, <2>3, <2>4, <2>7 DEF d
  <2>8. CASE ch \notin {Re!Quote, Re!Open, Re!Close}
    BY <1>1, <2>2, <2>3, <2>4, <2>8 DEF d
  <2>. QED
    BY <2>5, <2>6, <2>7, <2>8
<1>. QED
    BY <1>2, <1>3

SaneStates == {st \in ScanStates : Sane(st)}

LEMMA ScanType ==
    ASSUME NEW st \in SaneStates, NEW ch
    PROVE  Re!Scan(st, ch) \in SaneStates
<1>1. Sane(Re!Scan(st, ch))
    BY ScanSane DEF SaneStates
<1>. QED
    BY <1>1 DEF SaneStates, Sane

Zero == State(0, FALSE, FALSE)

LEMMA ZeroSane == Zero \in SaneStates /\ Zero.depth = 0
<1>1. Zero \in ScanStates /\ Zero.depth = 0 /\ Zero.esc = FALSE
    BY DEF Zero, State, ScanStates
<1>. QED
    BY <1>1 DEF SaneStates, Sane

\* The state of the scanner after each character, from the first brace on.
Scans(c, text, p) ==
    /\ \A i \in 0..(p - 1) : c[i] = Zero
    /\ \A i \in p..Len(text) : c[i] = Re!Scan(c[i - 1], text[i])

LEMMA ScannedIs ==
    ASSUME NEW T, NEW text \in Seq(T), NEW p \in 1..Len(text), p = Re!IndexOf(text, {Re!Open})
    PROVE  Scans(Re!Scanned(text), text, p)
<1>. DEFINE N == Len(text)
            V == SaneStates
            F == [x \in V \X T |-> Re!Scan(x[1], x[2])]
            s == [j \in 1..(N - p + 1) |-> text[p + j - 1]]
            zero == [depth |-> 0, inStr |-> FALSE, esc |-> FALSE]
            Is(f) == f = [i \in 0..N |-> IF i < p THEN Zero ELSE Re!Scan(f[i - 1], text[i])]
            c == Re!Scanned(text)
<1>1. N \in Nat /\ p \in 1..N /\ N - p + 1 \in Nat /\ \A i \in 1..N : text[i] \in T
  <2>1. \A i \in 1..N : text[i] \in T
    BY ElementOfSeq
  <2>. QED
    BY <2>1
<1>2. StepOn(F, V, T)
  <2>1. \A x \in V \X T : Re!Scan(x[1], x[2]) \in V
    <3>. TAKE x \in V \X T
    <3>1. x[1] \in V /\ x[2] \in T
      OBVIOUS
    <3>. QED
      BY <3>1, ScanType
  <2>. HIDE DEF V
  <2>. QED
    BY <2>1 DEF StepOn
<1>3. s \in Seq(T) /\ Len(s) = N - p + 1 /\ \A j \in 1..(N - p + 1) : s[j] = text[p + j - 1]
  <2>. HIDE DEF N
  <2>1. \A j \in 1..(N - p + 1) : p + j - 1 \in 1..N
    BY <1>1
  <2>. DEFINE M == N - p + 1
  <2>2. M \in Nat
    BY <1>1
  <2>3. s \in [1..M -> T] /\ \A j \in 1..M : s[j] = text[p + j - 1]
    BY <1>1, <2>1
  <2>. HIDE DEF M, s
  <2>4. s \in Seq(T) /\ Len(s) = M
    BY <2>2, <2>3
  <2>. QED
    BY <2>3, <2>4 DEF M
<1>4. PICK u : Carried(u, Zero, F, s, V)
  <2>1. Zero \in V
    BY ZeroSane
  <2>. HIDE DEF F, V, s
  <2>. QED
    BY <1>2, <1>3, <2>1, CarrySolved
<1>5. u[0] = Zero /\ \A j \in 1..(N - p + 1) : u[j] = Re!Scan(u[j - 1], text[p + j - 1])
  <2>1. u \in [0..(N - p + 1) -> V]
    <3>. HIDE DEF s, V
    <3>. QED
      BY <1>3, <1>4 DEF Carried
  <2>2. u[0] = Zero /\ \A j \in 1..(N - p + 1) : u[j] = F[<<u[j - 1], s[j]>>]
    <3>. HIDE DEF s, F
    <3>. QED
      BY <1>3, <1>4 DEF Carried, Carries
  <2>3. ASSUME NEW j \in 1..(N - p + 1) PROVE u[j] = Re!Scan(u[j - 1], text[p + j - 1])
    <3>1. u[j - 1] \in V /\ text[p + j - 1] \in T /\ s[j] = text[p + j - 1]
      <4>. HIDE DEF V, s, N
      <4>1. j - 1 \in 0..(N - p + 1) /\ p + j - 1 \in 1..N
        BY <1>1
      <4>. QED
        BY <1>1, <1>3, <2>1, <4>1
    <3>2. <<u[j - 1], text[p + j - 1]>> \in V \X T
      <4>. HIDE DEF V
      <4>. QED
        BY <3>1
    <3>3. F[<<u[j - 1], text[p + j - 1]>>] = Re!Scan(u[j - 1], text[p + j - 1])
      <4>. HIDE DEF V
      <4>. QED
        BY <3>2
    <3>. HIDE DEF F, s
    <3>. QED
      BY <2>2, <3>1, <3>3
  <2>. QED
    BY <2>2, <2>3
<1>6. \E v : Is(v)
  <2>. DEFINE v == [i \in 0..N |-> IF i < p THEN Zero ELSE u[i - p + 1]]
  <2>1. \A i \in 0..N : v[i] = IF i < p THEN Zero ELSE Re!Scan(v[i - 1], text[i])
    <3>. TAKE i \in 0..N
    <3>. HIDE DEF N
    <3>. SUFFICES ASSUME ~(i < p) PROVE v[i] = Re!Scan(v[i - 1], text[i])
      BY <1>1
    <3>1. i \in p..N /\ i - 1 \in 0..N /\ i - p + 1 \in 1..(N - p + 1) /\ p + (i - p + 1) - 1 = i
      BY <1>1
    <3>2. v[i] = u[i - p + 1] /\ u[i - p + 1] = Re!Scan(u[(i - p + 1) - 1], text[i])
      BY <1>5, <3>1
    <3>3. v[i - 1] = u[(i - p + 1) - 1]
      <4>1. CASE i = p
        <5>1. i - 1 < p /\ (i - p + 1) - 1 = 0
          BY <1>1, <4>1
        <5>. QED
          BY <1>5, <3>1, <5>1
      <4>2. CASE i # p
        <5>1. ~(i - 1 < p) /\ (i - 1) - p + 1 = (i - p + 1) - 1
          <6>1. i \in Int /\ p \in Int /\ i > p
            BY <1>1, <3>1, <4>2
          <6>. QED
            BY <6>1
        <5>. QED
          BY <3>1, <5>1
      <4>. QED
        BY <4>1, <4>2
    <3>. QED
      BY <3>2, <3>3
  <2>2. v = [i \in 0..N |-> v[i]]
    OBVIOUS
  <2>. HIDE DEF v
  <2>3. Is(v)
    BY <2>1, <2>2
  <2>. QED
    BY <2>3
<1>7. Is(c)
  <2>. HIDE DEF N
  <2>1. \E v : v = [i \in 0..N |-> IF i < p THEN [depth |-> 0, inStr |-> FALSE, esc |-> FALSE]
                                   ELSE Re!Scan(v[i - 1], text[i])]
    BY <1>6 DEF Zero, State
  <2>. QED
    BY <2>1 DEF Re!Scanned, N, Zero, State
<1>. HIDE DEF c, N
<1>8. c = [i \in 0..N |-> IF i < p THEN Zero ELSE Re!Scan(c[i - 1], text[i])]
    BY <1>7
<1>9. ASSUME NEW i \in 0..N PROVE c[i] = IF i < p THEN Zero ELSE Re!Scan(c[i - 1], text[i])
    BY <1>8
<1>10. \A i \in 0..(p - 1) : i \in 0..N /\ i < p
    BY <1>1
<1>11. \A i \in p..N : i \in 0..N /\ ~(i < p)
    BY <1>1
<1>. QED
    BY <1>9, <1>10, <1>11 DEF Scans, N, c

LEMMA ScansSane ==
    ASSUME NEW T, NEW text \in Seq(T), NEW p \in 1..Len(text), NEW c, Scans(c, text, p)
    PROVE  \A i \in 0..Len(text) : Sane(c[i])
<1>. DEFINE N == Len(text)
            G == {i \in 0..N : Sane(c[i])}
<1>1. N \in Nat
    OBVIOUS
<1>2. 0 \in G
  <2>1. c[0] = Zero /\ Sane(Zero)
    BY ZeroSane DEF Scans, SaneStates
  <2>. QED
    BY <1>1, <2>1
<1>3. ASSUME NEW i \in 1..N, i - 1 \in G PROVE i \in G
  <2>1. CASE i < p
    <3>1. i \in 0..(p - 1)
      BY <2>1
    <3>2. Sane(c[i])
      BY <3>1, ZeroSane DEF Scans, SaneStates
    <3>. QED
      BY <3>2
  <2>2. CASE ~(i < p)
    <3>1. i \in p..N
      BY <1>1, <2>2
    <3>2. c[i] = Re!Scan(c[i - 1], text[i])
      BY <3>1 DEF Scans
    <3>3. Sane(c[i - 1])
      BY <1>3
    <3>4. Sane(c[i])
      BY <3>2, <3>3, ScanSane
    <3>. QED
      BY <3>4
  <2>. QED
    BY <2>1, <2>2
<1>4. 0..N \subseteq G
  <2>. HIDE DEF G, N
  <2>. QED
    BY <1>1, <1>2, <1>3, UpTo
<1>. QED
    BY <1>4

LEMMA OtherParity == ASSUME NEW y \in Nat PROVE ((y + 1) % 2 = 0) <=> ~(y % 2 = 0)
    OBVIOUS

\* The last character before m that is no backslash, or the quote at i.
LastOther(text, i, m, x) ==
    /\ x \in i..(m - 1) /\ (x = i \/ text[x] # Re!Escape)
    /\ \A k \in (x + 1)..(m - 1) : text[k] = Re!Escape

LEMMA EscapedBy ==
    ASSUME NEW text, NEW i \in Nat, NEW m \in Nat, NEW x, LastOther(text, i, m, x)
    PROVE  Re!Escaped(text, i, m) <=> (m - x) % 2 = 0
<1>. DEFINE others == {k \in i..(m - 1) : k = i \/ text[k] # Re!Escape}
<1>1. x \in others /\ x \in Nat /\ x < m
    BY DEF LastOther
<1>2. \A y \in others : y <= x
    BY <1>1 DEF LastOther
<1>3. Max(others) = x
  <2>1. others \in SUBSET Nat
    OBVIOUS
  <2>. HIDE DEF others
  <2>. QED
    BY <1>1, <1>2, <2>1, MaxIs
<1>. QED
    BY <1>3 DEF Re!Escaped, Re!Max, Max

LEMMA LastOtherNext ==
    ASSUME NEW text, NEW i \in Nat, NEW m \in Nat, i < m, NEW x, LastOther(text, i, m, x)
    PROVE  LastOther(text, i, m + 1, IF text[m] = Re!Escape THEN x ELSE m)
<1>1. /\ x \in i..(m - 1) /\ x \in Nat /\ (x = i \/ text[x] # Re!Escape)
      /\ \A k \in (x + 1)..(m - 1) : text[k] = Re!Escape
    BY DEF LastOther
<1>2. (m + 1) - 1 = m
    OBVIOUS
<1>3. CASE text[m] = Re!Escape
  <2>1. \A k \in (x + 1)..m : k \in (x + 1)..(m - 1) \/ k = m
    BY <1>1
  <2>2. \A k \in (x + 1)..m : text[k] = Re!Escape
    BY <1>1, <1>3, <2>1
  <2>3. x \in i..m
    BY <1>1
  <2>. QED
    BY <1>1, <1>2, <1>3, <2>2, <2>3 DEF LastOther
<1>4. CASE text[m] # Re!Escape
  <2>1. m \in i..m /\ \A k \in (m + 1)..m : FALSE
    OBVIOUS
  <2>. QED
    BY <1>2, <1>4, <2>1 DEF LastOther
<1>. QED
    BY <1>3, <1>4

LEMMA LastOtherExists ==
    ASSUME NEW text, NEW i \in Nat, NEW m \in Nat, i < m
    PROVE  \E x : LastOther(text, i, m, x)
<1>. DEFINE Has(n) == \E x : LastOther(text, i, n, x)
            G == {n \in Nat : Has(i + 1 + n)}
<1>1. 0 \in G
  <2>1. LastOther(text, i, i + 1 + 0, i)
    BY DEF LastOther
  <2>. QED
    BY <2>1
<1>2. ASSUME NEW n \in Nat, n \in G PROVE n + 1 \in G
  <2>1. PICK x : LastOther(text, i, i + 1 + n, x)
    BY <1>2
  <2>. DEFINE k == i + 1 + n
  <2>2. k \in Nat /\ i < k /\ i + 1 + (n + 1) = k + 1
    OBVIOUS
  <2>3. LastOther(text, i, k, x)
    BY <2>1
  <2>. HIDE DEF k
  <2>4. Has(k + 1)
    BY <2>2, <2>3, LastOtherNext
  <2>5. Has(i + 1 + (n + 1))
    BY <2>2, <2>4
  <2>. QED
    BY <2>5
<1>3. Nat \subseteq G
  <2>. HIDE DEF G
  <2>. QED
    BY <1>1, <1>2, FromZeroOn
<1>4. m - i - 1 \in Nat /\ i + 1 + (m - i - 1) = m
    OBVIOUS
<1>5. m - i - 1 \in G
    BY <1>3, <1>4
<1>6. Has(i + 1 + (m - i - 1))
    BY <1>5
<1>. HIDE DEF Has
<1>7. Has(m)
    BY <1>4, <1>6
<1>. QED
    BY <1>7 DEF Has

\* A character is escaped by a backslash that is not.
LEMMA EscapedNext ==
    ASSUME NEW text, NEW i \in Nat, NEW m \in Nat, i < m
    PROVE  /\ ~Re!Escaped(text, i, i + 1)
           /\ Re!Escaped(text, i, m + 1) <=> text[m] = Re!Escape /\ ~Re!Escaped(text, i, m)
<1>1. ~Re!Escaped(text, i, i + 1)
  <2>1. LastOther(text, i, i + 1, i)
    BY DEF LastOther
  <2>2. Re!Escaped(text, i, i + 1) <=> ((i + 1) - i) % 2 = 0
    BY <2>1, EscapedBy
  <2>3. (i + 1) - i = 1
    OBVIOUS
  <2>. QED
    BY <2>2, <2>3
<1>2. PICK x : LastOther(text, i, m, x)
    BY LastOtherExists
<1>3. x \in Nat /\ x < m /\ m - x \in Nat
    BY <1>2 DEF LastOther
<1>4. Re!Escaped(text, i, m) <=> (m - x) % 2 = 0
    BY <1>2, EscapedBy
<1>5. CASE text[m] = Re!Escape
  <2>1. LastOther(text, i, m + 1, x)
    BY <1>2, <1>5, LastOtherNext
  <2>2. Re!Escaped(text, i, m + 1) <=> ((m + 1) - x) % 2 = 0
    BY <2>1, EscapedBy
  <2>3. (m + 1) - x = (m - x) + 1
    BY <1>3
  <2>4. (((m - x) + 1) % 2 = 0) <=> ~((m - x) % 2 = 0)
    BY <1>3, OtherParity
  <2>. QED
    BY <1>1, <1>4, <1>5, <2>2, <2>3, <2>4
<1>6. CASE text[m] # Re!Escape
  <2>1. LastOther(text, i, m + 1, m)
    BY <1>2, <1>6, LastOtherNext
  <2>2. Re!Escaped(text, i, m + 1) <=> ((m + 1) - m) % 2 = 0
    BY <2>1, EscapedBy
  <2>3. (m + 1) - m = 1
    OBVIOUS
  <2>. QED
    BY <1>1, <1>6, <2>2, <2>3
<1>. QED
    BY <1>5, <1>6

\* Within a string, what is escaped for the scanner is what is escaped.
Inside(c, text, d, i) ==
    /\ i \in 1..Len(text) /\ text[i] = Re!Quote /\ c[i - 1] = State(d, FALSE, FALSE)
    /\ \A m \in i..Len(text) : c[m] = Re!Scan(c[m - 1], text[m])

NoEnd(text, i, j) == \A m \in (i + 1)..j : text[m] = Re!Quote => Re!Escaped(text, i, m)

InsideUpTo(c, text, d, i, j) == \A m \in i..j : c[m] = State(d, TRUE, Re!Escaped(text, i, m + 1))

LEMMA InString ==
    ASSUME NEW T, NEW text \in Seq(T), NEW c, NEW d \in Int, NEW i, Inside(c, text, d, i),
           NEW j \in i..Len(text), NoEnd(text, i, j)
    PROVE  InsideUpTo(c, text, d, i, j)
<1>. DEFINE N == j - i
            Fine(m) == c[m] = State(d, TRUE, Re!Escaped(text, i, m + 1))
            G == {n \in 0..N : Fine(i + n)}
<1>1. /\ i \in Nat /\ i >= 1 /\ j \in Nat /\ i <= j /\ N \in Nat /\ j <= Len(text)
      /\ \A m \in i..Len(text) : c[m] = Re!Scan(c[m - 1], text[m])
    BY DEF Inside
<1>2. 0 \in G
  <2>0. i \in i..Len(text)
    BY <1>1
  <2>1. c[i] = Re!Scan(State(d, FALSE, FALSE), Re!Quote)
    BY <2>0 DEF Inside
  <2>2. c[i] = State(d, TRUE, FALSE)
    BY <2>1, ScanOutside
  <2>3. ~Re!Escaped(text, i, i + 1)
    BY <1>1, EscapedNext
  <2>4. Re!Escaped(text, i, i + 1) = FALSE
    BY <2>3 DEF Re!Escaped
  <2>5. Fine(i)
    BY <2>2, <2>4
  <2>6. i + 0 = i
    BY <1>1
  <2>. HIDE DEF Fine
  <2>7. Fine(i + 0)
    BY <2>5, <2>6
  <2>. QED
    BY <1>1, <2>7
<1>3. ASSUME NEW n \in 1..N, n - 1 \in G PROVE n \in G
  <2>. DEFINE m == i + (n - 1)
              e == Re!Escaped(text, i, m + 1)
  <2>1. m \in Nat /\ i <= m /\ m + 1 \in (i + 1)..j /\ i + n = m + 1 /\ m + 1 \in i..Len(text) /\ (m + 1) - 1 = m
    BY <1>1
  <2>2. Fine(m)
    BY <1>3
  <2>. HIDE DEF m
  <2>3. c[m + 1] = Re!Scan(c[m], text[m + 1])
    BY <1>1, <2>1
  <2>4. e \in BOOLEAN
    BY DEF Re!Escaped
  <2>5. Re!Escaped(text, i, (m + 1) + 1) <=> text[m + 1] = Re!Escape /\ ~e
    <3>1. m + 1 \in Nat /\ i < m + 1
      BY <1>1, <2>1
    <3>. QED
      BY <1>1, <3>1, EscapedNext
  <2>6. text[m + 1] = Re!Quote => e
    BY <2>1 DEF NoEnd
  <2>. HIDE DEF e
  <2>7. c[m] = State(d, TRUE, e)
    BY <2>2 DEF e
  <2>8. c[m + 1] = State(d, e \/ text[m + 1] # Re!Quote, ~e /\ text[m + 1] = Re!Escape)
    <3>1. /\ Re!Scan(State(d, TRUE, e), text[m + 1])
                 = State(d, e \/ text[m + 1] # Re!Quote, ~e /\ text[m + 1] = Re!Escape)
          /\ text[m + 1] = Re!Quote => text[m + 1] # Re!Escape
      BY <2>4, ScanInside
    <3>. QED
      BY <2>3, <2>7, <3>1
  <2>9. (e \/ text[m + 1] # Re!Quote) = TRUE
    BY <2>6
  <2>10. Re!Escaped(text, i, (m + 1) + 1) = (~e /\ text[m + 1] = Re!Escape)
    BY <2>5 DEF Re!Escaped
  <2>11. Fine(m + 1)
    BY <2>8, <2>9, <2>10
  <2>. HIDE DEF Fine
  <2>. QED
    BY <2>1, <2>11
<1>4. 0..N \subseteq G
  <2>. HIDE DEF G, N
  <2>. QED
    BY <1>1, <1>2, <1>3, UpTo
<1>5. ASSUME NEW m \in i..j PROVE Fine(m)
  <2>1. m - i \in 0..N /\ i + (m - i) = m
    BY <1>1
  <2>2. Fine(i + (m - i))
    BY <1>4, <2>1
  <2>. QED
    BY <2>1, <2>2
<1>. QED
    BY <1>5 DEF InsideUpTo

LEMMA StringScanned ==
    ASSUME NEW T, NEW text \in Seq(T), NEW c, NEW d \in Int, NEW i, Inside(c, text, d, i),
           NEW k \in 1..Len(text), Re!IsString(text, i, k)
    PROVE  c[k] = State(d, FALSE, FALSE)
<1>1. /\ i \in Nat /\ i < k /\ text[k] = Re!Quote /\ ~Re!Escaped(text, i, k)
      /\ \A m \in (i + 1)..(k - 1) : text[m] = Re!Quote => Re!Escaped(text, i, m)
    BY DEF Re!IsString, Inside
<1>2. k - 1 \in i..Len(text) /\ k - 1 \in i..(k - 1) /\ (k - 1) + 1 = k /\ k \in i..Len(text)
    BY <1>1
<1>3. InsideUpTo(c, text, d, i, k - 1)
  <2>1. NoEnd(text, i, k - 1)
    BY <1>1 DEF NoEnd
  <2>. QED
    BY <1>2, <2>1, InString
<1>4. c[k - 1] = State(d, TRUE, Re!Escaped(text, i, k))
    BY <1>2, <1>3 DEF InsideUpTo
<1>5. Re!Escaped(text, i, k) = FALSE
    BY <1>1 DEF Re!Escaped
<1>6. c[k] = Re!Scan(State(d, TRUE, FALSE), Re!Quote)
    BY <1>1, <1>2, <1>4, <1>5 DEF Inside
<1>7. c[k] = State(d, FALSE \/ Re!Quote # Re!Quote, ~FALSE /\ Re!Quote = Re!Escape) /\ Re!Quote # Re!Escape
    BY <1>6, ScanInside
<1>. QED
    BY <1>7

LEMMA StringFound ==
    ASSUME NEW T, NEW text \in Seq(T), NEW c, NEW d \in Int, NEW i, Inside(c, text, d, i),
           NEW z \in i..Len(text), ~c[z].inStr
    PROVE  \E k \in (i + 1)..z : Re!IsString(text, i, k) /\ c[k] = State(d, FALSE, FALSE)
<1>. DEFINE ends == {m \in (i + 1)..z : text[m] = Re!Quote /\ ~Re!Escaped(text, i, m)}
<1>1. i \in Nat /\ i >= 1 /\ z \in Nat /\ i <= z /\ z <= Len(text) /\ text[i] = Re!Quote
    BY DEF Inside
<1>2. ends # {}
  <2>. SUFFICES ASSUME ends = {} PROVE FALSE
    OBVIOUS
  <2>1. NoEnd(text, i, z)
    BY DEF NoEnd
  <2>2. InsideUpTo(c, text, d, i, z)
    BY <2>1, InString
  <2>3. z \in i..z
    BY <1>1
  <2>4. c[z] = State(d, TRUE, Re!Escaped(text, i, z + 1))
    BY <2>2, <2>3 DEF InsideUpTo
  <2>5. c[z].inStr = TRUE
    BY <2>4 DEF State
  <2>. QED
    BY <2>5
<1>3. PICK k \in ends : \A m \in ends : k <= m
  <2>1. ends \in SUBSET Nat
    BY <1>1
  <2>. HIDE DEF ends
  <2>. QED
    BY <1>2, <2>1, LeastExists
<1>4. k \in (i + 1)..z /\ text[k] = Re!Quote /\ ~Re!Escaped(text, i, k)
    OBVIOUS
<1>5. ASSUME NEW m \in (i + 1)..(k - 1), text[m] = Re!Quote PROVE Re!Escaped(text, i, m)
  <2>1. m \in (i + 1)..z /\ ~(k <= m)
    BY <1>1, <1>4
  <2>. QED
    BY <1>3, <1>5, <2>1
<1>6. Re!IsString(text, i, k)
    BY <1>1, <1>4, <1>5 DEF Re!IsString
<1>7. k \in 1..Len(text)
    BY <1>1, <1>4
<1>8. c[k] = State(d, FALSE, FALSE)
    BY <1>6, <1>7, StringScanned
<1>. QED
    BY <1>4, <1>6, <1>8

\* Where items start, in terms of where shorter sequences of them do.
Closed(text, f, i, k) ==
    \/ Re!IsString(text, i, i + k - 1)
    \/ text[i] = Re!Open /\ text[i + k - 1] = Re!Close /\ i + 1 \in f[k - 2]

ItemFrom(text, f, n, i) ==
    \/ n = 0
    \/ n > 0 /\ text[i] \notin {Re!Quote, Re!Open, Re!Close} /\ i + 1 \in f[n - 1]
    \/ \E k \in 2..n : Closed(text, f, i, k) /\ i + k \in f[n - k]

ItemsFrom(text, f, n) == {i \in 1..(Len(text) + 1 - n) : ItemFrom(text, f, n, i)}

LEMMA ItemsLocal ==
    ASSUME NEW text, NEW f, NEW g, NEW n \in Nat, \A m \in 0..(n - 1) : f[m] = g[m]
    PROVE  ItemsFrom(text, f, n) = ItemsFrom(text, g, n)
<1>1. n > 0 => f[n - 1] = g[n - 1]
    OBVIOUS
<1>2. ASSUME NEW k \in 2..n PROVE f[k - 2] = g[k - 2] /\ f[n - k] = g[n - k]
    OBVIOUS
<1>3. ASSUME NEW i PROVE ItemFrom(text, f, n, i) <=> ItemFrom(text, g, n, i)
  <2>1. ASSUME NEW k \in 2..n PROVE Closed(text, f, i, k) <=> Closed(text, g, i, k)
    BY <1>2 DEF Closed
  <2>. QED
    BY <1>1, <1>2, <2>1 DEF ItemFrom
<1>. QED
    BY <1>3 DEF ItemsFrom

LEMMA ItemsSolved ==
    ASSUME NEW text, Len(text) \in Nat
    PROVE  \E u : u = [n \in 0..Len(text) |-> ItemsFrom(text, u, n)]
<1>. DEFINE L == Len(text)
            Fits(m) == \E u : u = [n \in 0..m |-> ItemsFrom(text, u, n)]
            G == {m \in 0..L : Fits(m)}
<1>1. 0 \in G
  <2>. DEFINE b == ItemsFrom(text, <<>>, 0)
              w == [n \in 0..0 |-> b]
  <2>1. ItemsFrom(text, w, 0) = b
    <3>1. \A m \in 0..(0 - 1) : w[m] = <<>>[m]
      OBVIOUS
    <3>. HIDE DEF w
    <3>. QED
      BY <3>1, ItemsLocal
  <2>2. w = [n \in 0..0 |-> ItemsFrom(text, w, n)]
    <3>1. \A n \in 0..0 : b = ItemsFrom(text, w, n)
      <4>1. \A n \in 0..0 : n = 0
        OBVIOUS
      <4>. HIDE DEF w, b
      <4>. QED
        BY <2>1, <4>1
    <3>2. w = [n \in 0..0 |-> b]
      OBVIOUS
    <3>. HIDE DEF w, b
    <3>. QED
      BY <3>1, <3>2
  <2>. HIDE DEF w
  <2>3. Fits(0)
    BY <2>2
  <2>. HIDE DEF Fits
  <2>. QED
    BY <2>3
<1>2. ASSUME NEW m \in 1..L, m - 1 \in G PROVE m \in G
  <2>1. PICK u : u = [n \in 0..(m - 1) |-> ItemsFrom(text, u, n)]
    BY <1>2
  <2>. DEFINE top == ItemsFrom(text, u, m)
              v == [n \in 0..m |-> IF n = m THEN top ELSE u[n]]
  <2>2. ASSUME NEW n \in 0..m PROVE v[n] = ItemsFrom(text, v, n)
    <3>1. \A x \in 0..(n - 1) : v[x] = u[x]
      OBVIOUS
    <3>2. v[n] = IF n = m THEN top ELSE u[n]
      OBVIOUS
    <3>. HIDE DEF v
    <3>3. ItemsFrom(text, v, n) = ItemsFrom(text, u, n)
      <4>1. n \in Nat
        OBVIOUS
      <4>. QED
        BY <3>1, <4>1, ItemsLocal
    <3>4. CASE n = m
      BY <3>2, <3>3, <3>4
    <3>5. CASE n # m
      <4>1. n \in 0..(m - 1)
        BY <3>5
      <4>2. u[n] = ItemsFrom(text, u, n)
        BY <2>1, <4>1
      <4>. QED
        BY <3>2, <3>3, <3>5, <4>2
    <3>. QED
      BY <3>4, <3>5
  <2>3. v = [n \in 0..m |-> v[n]]
    OBVIOUS
  <2>. HIDE DEF v
  <2>4. v = [n \in 0..m |-> ItemsFrom(text, v, n)]
    BY <2>2, <2>3
  <2>5. Fits(m)
    BY <2>4
  <2>. HIDE DEF Fits
  <2>. QED
    BY <2>5
<1>3. 0..L \subseteq G
  <2>. HIDE DEF G
  <2>. QED
    BY <1>1, <1>2, UpTo
<1>4. Fits(L)
  <2>. HIDE DEF Fits
  <2>. QED
    BY <1>3
<1>. QED
    BY <1>4

LEMMA ItemsAre ==
    ASSUME NEW T, NEW text \in Seq(T)
    PROVE  \A n \in 0..Len(text) : \A i : i \in Re!Items(text)[n] <=>
               i \in 1..(Len(text) + 1 - n) /\ ItemFrom(text, Re!Items(text), n, i)
<1>. DEFINE Is(f) == f = [n \in 0..Len(text) |->
                {i \in 1..(Len(text) + 1 - n) :
                    \/ n = 0
                    \/ n > 0 /\ text[i] \notin {Re!Quote, Re!Open, Re!Close} /\ i + 1 \in f[n - 1]
                    \/ \E k \in 2..n :
                           /\ \/ Re!IsString(text, i, i + k - 1)
                              \/ text[i] = Re!Open /\ text[i + k - 1] = Re!Close /\ i + 1 \in f[k - 2]
                           /\ i + k \in f[n - k]}]
            c == Re!Items(text)
<1>1. \E u : Is(u)
  <2>1. Len(text) \in Nat
    OBVIOUS
  <2>2. \E u : u = [n \in 0..Len(text) |-> ItemsFrom(text, u, n)]
    BY <2>1, ItemsSolved
  <2>. QED
    BY <2>2 DEF ItemsFrom, ItemFrom, Closed
<1>2. Is(c)
    BY <1>1 DEF Re!Items
<1>3. c = [n \in 0..Len(text) |-> ItemsFrom(text, c, n)]
    BY <1>2 DEF ItemsFrom, ItemFrom, Closed
<1>. HIDE DEF c
<1>4. \A n \in 0..Len(text) : c[n] = ItemsFrom(text, c, n)
    BY <1>3
<1>. QED
    BY <1>4 DEF c, ItemsFrom

LEMMA StrongUpTo ==
    ASSUME NEW N \in Nat, NEW G, \A n \in 0..N : (0..(n - 1) \subseteq G) => n \in G
    PROVE  0..N \subseteq G
<1>. DEFINE bad == {n \in 0..N : n \notin G}
<1>. SUFFICES ASSUME bad # {} PROVE FALSE
    OBVIOUS
<1>1. PICK n \in bad : \A m \in bad : n <= m
  <2>1. bad \in SUBSET Nat
    OBVIOUS
  <2>. HIDE DEF bad
  <2>. QED
    BY <2>1, LeastExists
<1>2. n \in 0..N /\ n \notin G
    OBVIOUS
<1>3. 0..(n - 1) \subseteq G
  <2>1. ASSUME NEW m \in 0..(n - 1), m \notin G PROVE FALSE
    <3>1. m \in 0..N /\ ~(n <= m)
      BY <1>2
    <3>2. m \in bad
      BY <2>1, <3>1
    <3>. QED
      BY <1>1, <3>1, <3>2
  <2>. QED
    BY <2>1
<1>. QED
    BY <1>2, <1>3

\* The scanner c of a text whose first brace is at p, and where its items start.
Scanning(c, text, p) ==
    p \in 1..Len(text) /\ Scans(c, text, p) /\ \A i \in 0..Len(text) : Sane(c[i])

Itemized(text, f) ==
    \A n \in 0..Len(text) : \A i : i \in f[n] <=> i \in 1..(Len(text) + 1 - n) /\ ItemFrom(text, f, n, i)

LEMMA ScansOn ==
    ASSUME NEW T, NEW text \in Seq(T), NEW c, NEW p, Scanning(c, text, p), NEW d \in Int,
           NEW i \in p..Len(text), c[i - 1] = State(d, FALSE, FALSE)
    PROVE  /\ c[i] = Re!Scan(State(d, FALSE, FALSE), text[i])
           /\ text[i] = Re!Quote => Inside(c, text, d, i)
<1>1. p \in Nat /\ p >= 1 /\ i \in 1..Len(text) /\ \A m \in p..Len(text) : c[m] = Re!Scan(c[m - 1], text[m])
    BY DEF Scanning, Scans
<1>2. \A m \in i..Len(text) : m \in p..Len(text)
    BY <1>1
<1>3. \A m \in i..Len(text) : c[m] = Re!Scan(c[m - 1], text[m])
    BY <1>1, <1>2
<1>. QED
    BY <1>1, <1>3 DEF Inside

\* Items leave the scanner as it was,
Leads(c, text, p, f, n) ==
    \A i \in (p + 1)..(Len(text) + 1 - n) : \A d \in Int :
        i \in f[n] /\ c[i - 1] = State(d, FALSE, FALSE) => c[i + n - 1] = State(d, FALSE, FALSE)

AllLead(c, text, p, f, n) == \A m \in 0..(n - 1) : Leads(c, text, p, f, m)

LEMMA LeadsNext ==
    ASSUME NEW T, NEW text \in Seq(T), NEW c, NEW p, Scanning(c, text, p), NEW f, Itemized(text, f),
           NEW n \in 0..Len(text), AllLead(c, text, p, f, n)
    PROVE  Leads(c, text, p, f, n)
<1>. SUFFICES ASSUME NEW i \in (p + 1)..(Len(text) + 1 - n), NEW d \in Int,
                     i \in f[n], c[i - 1] = State(d, FALSE, FALSE)
              PROVE  c[i + n - 1] = State(d, FALSE, FALSE)
    BY DEF Leads
<1>. DEFINE L == Len(text)
            Out(m, x) == c[m] = State(x, FALSE, FALSE)
<1>1. L \in Nat /\ p \in 1..L /\ n \in 0..L /\ i \in Nat /\ p + 1 <= i /\ i + n <= L + 1 /\ i + n \in Nat
    BY DEF Scanning
<1>2. ItemFrom(text, f, n, i)
    BY DEF Itemized
<1>. HIDE DEF L
<1>3. ASSUME NEW m \in 0..(n - 1), NEW j \in (p + 1)..(L + 1 - m), NEW x \in Int, j \in f[m], Out(j - 1, x)
      PROVE  Out(j + m - 1, x)
  <2>1. Leads(c, text, p, f, m)
    BY DEF AllLead
  <2>. QED
    BY <1>3, <2>1 DEF Leads, L
<1>4. CASE n = 0
  <2>1. i + n - 1 = i - 1
    BY <1>1, <1>4
  <2>. QED
    BY <2>1
<1>5. CASE n > 0 /\ text[i] \notin {Re!Quote, Re!Open, Re!Close} /\ i + 1 \in f[n - 1]
  <2>1. i \in p..L /\ n - 1 \in 0..(n - 1) /\ i + 1 \in (p + 1)..(L + 1 - (n - 1)) /\ (i + 1) - 1 = i
        /\ (i + 1) + (n - 1) - 1 = i + n - 1
    BY <1>1, <1>5
  <2>2. i \in p..Len(text)
    BY <2>1 DEF L
  <2>3. c[i] = Re!Scan(State(d, FALSE, FALSE), text[i]) /\ (text[i] = Re!Quote => Inside(c, text, d, i))
    BY <2>2, ScansOn
  <2>8. Out(i, d)
    BY <1>5, <2>3, ScanOutside
  <2>. HIDE DEF Out
  <2>4. Out((i + 1) + (n - 1) - 1, d)
    BY <1>3, <1>5, <2>1, <2>8
  <2>. QED
    BY <2>1, <2>4 DEF Out
<1>6. CASE \E k \in 2..n : Closed(text, f, i, k) /\ i + k \in f[n - k]
  <2>1. PICK k \in 2..n : Closed(text, f, i, k) /\ i + k \in f[n - k]
    BY <1>6
  <2>2. /\ k \in Nat /\ k >= 2 /\ k <= n /\ i \in p..L /\ i + k - 1 \in 1..L /\ i + k - 1 \in p..L /\ i \in 1..L
        /\ n - k \in 0..(n - 1) /\ i + k \in (p + 1)..(L + 1 - (n - k))
        /\ (i + k) - 1 = i + k - 1 /\ (i + k) + (n - k) - 1 = i + n - 1
    BY <1>1
  <2>3. /\ c[i] = Re!Scan(State(d, FALSE, FALSE), text[i])
        /\ text[i] = Re!Quote => Inside(c, text, d, i)
    BY <2>2, ScansOn DEF L
  <2>4. Out(i + k - 1, d)
    <3>1. CASE Re!IsString(text, i, i + k - 1)
      <4>1. text[i] = Re!Quote
        BY <3>1 DEF Re!IsString
      <4>2. Inside(c, text, d, i)
        BY <2>3, <4>1
      <4>. QED
        BY <2>2, <3>1, <4>2, StringScanned DEF L
    <3>2. CASE text[i] = Re!Open /\ text[i + k - 1] = Re!Close /\ i + 1 \in f[k - 2]
      <4>1. Out(i, d + 1)
        BY <2>3, <3>2, ScanOutside
      <4>2. /\ k - 2 \in 0..(n - 1) /\ i + 1 \in (p + 1)..(L + 1 - (k - 2)) /\ d + 1 \in Int
            /\ (i + 1) - 1 = i /\ (i + 1) + (k - 2) - 1 = (i + k - 1) - 1 /\ (d + 1) - 1 = d
        <5>1. /\ k \in Int /\ 2 <= k /\ k <= n /\ n \in Int /\ L \in Int /\ p \in Int /\ d \in Int
              /\ i \in Int /\ p + 1 <= i /\ i + n <= L + 1
          BY <1>1, <2>2
        <5>. QED
          BY <5>1
      <4>3. Out((i + k - 1) - 1, d + 1)
        <5>. HIDE DEF Out
        <5>. QED
          BY <1>3, <3>2, <4>1, <4>2
      <4>. DEFINE j == i + k - 1
      <4>4. j \in p..Len(text) /\ c[j - 1] = State(d + 1, FALSE, FALSE) /\ text[j] = Re!Close
        BY <2>2, <3>2, <4>3 DEF L
      <4>. HIDE DEF j
      <4>5. /\ c[j] = Re!Scan(State(d + 1, FALSE, FALSE), text[j])
            /\ text[j] = Re!Quote => Inside(c, text, d + 1, j)
        BY <4>2, <4>4, ScansOn
      <4>6. c[j] = State(d, FALSE, FALSE)
        BY <4>2, <4>4, <4>5, ScanOutside
      <4>. QED
        BY <4>6 DEF j
    <3>. QED
      BY <2>1, <3>1, <3>2 DEF Closed
  <2>. HIDE DEF Out
  <2>5. Out((i + k) + (n - k) - 1, d)
    <3>1. Out((i + k) - 1, d)
      BY <2>2, <2>4
    <3>. QED
      BY <1>3, <2>1, <2>2, <3>1
  <2>. QED
    BY <2>2, <2>5 DEF Out
<1>. QED
    BY <1>2, <1>4, <1>5, <1>6 DEF ItemFrom

LEMMA ItemsLead ==
    ASSUME NEW T, NEW text \in Seq(T), NEW c, NEW p, Scanning(c, text, p), NEW f, Itemized(text, f),
           NEW n \in 0..Len(text)
    PROVE  Leads(c, text, p, f, n)
<1>. DEFINE G == {m \in 0..Len(text) : Leads(c, text, p, f, m)}
<1>1. Len(text) \in Nat
    OBVIOUS
<1>2. ASSUME NEW m \in 0..Len(text), 0..(m - 1) \subseteq G PROVE m \in G
  <2>1. AllLead(c, text, p, f, m)
    BY <1>2 DEF AllLead
  <2>. QED
    BY <2>1, LeadsNext
<1>3. 0..Len(text) \subseteq G
  <2>. HIDE DEF G
  <2>. QED
    BY <1>1, <1>2, StrongUpTo
<1>. QED
    BY <1>3

\* and what leaves it as it was, without closing what is around it, is items.
Above(c, d, i, j) == \A m \in i..j : c[m].depth >= d

Levels(c, d, i, j) == c[i] = State(d, FALSE, FALSE) /\ c[j] = State(d, FALSE, FALSE) /\ Above(c, d, i, j)

Makes(c, text, p, f, n) ==
    \A i \in (p + 1)..(Len(text) + 1 - n) : \A d \in Int : Levels(c, d, i - 1, i + n - 1) => i \in f[n]

LEMMA BraceFound ==
    ASSUME NEW T, NEW text \in Seq(T), NEW c, NEW p, Scanning(c, text, p), NEW d \in Int,
           NEW i \in p..Len(text), NEW z \in i..Len(text), c[i].depth > d, c[z].depth <= d
    PROVE  \E j \in (i + 1)..z :
               /\ text[j] = Re!Close /\ c[j - 1] = State(d + 1, FALSE, FALSE) /\ c[j] = State(d, FALSE, FALSE)
               /\ Above(c, d + 1, i, j - 1)
<1>. DEFINE down == {j \in i..z : c[j].depth <= d}
<1>1. /\ p \in Nat /\ p >= 1 /\ i \in Nat /\ p <= i /\ z \in Nat /\ i <= z /\ z <= Len(text)
      /\ \A m \in 0..Len(text) : Sane(c[m])
      /\ \A m \in p..Len(text) : c[m] = Re!Scan(c[m - 1], text[m])
    BY DEF Scanning, Scans
<1>2. PICK j \in down : \A m \in down : j <= m
  <2>1. down \in SUBSET Nat /\ z \in down
    BY <1>1
  <2>. HIDE DEF down
  <2>. QED
    BY <2>1, LeastExists
<1>3. j \in i..z /\ c[j].depth <= d
    OBVIOUS
<1>4. ASSUME NEW m \in i..(j - 1) PROVE c[m].depth \in Int /\ c[m].depth >= d + 1
  <2>1. m \in i..z /\ ~(j <= m) /\ m \in 0..Len(text)
    BY <1>1, <1>3
  <2>2. c[m].depth \in Int
    BY <1>1, <2>1, StateOf DEF Sane
  <2>3. ~(c[m].depth <= d)
    BY <1>2, <2>1
  <2>. QED
    BY <2>2, <2>3
<1>5. j \in Nat /\ i < j /\ j - 1 \in i..(j - 1) /\ j \in p..Len(text) /\ j \in 0..Len(text) /\ j - 1 \in 0..Len(text)
      /\ j \in (i + 1)..z
  <2>1. c[i].depth \in Int
    <3>1. Sane(c[i])
      BY <1>1
    <3>. QED
      BY <3>1, StateOf DEF Sane
  <2>2. j # i
    BY <1>3, <2>1
  <2>. QED
    BY <1>1, <1>3, <2>2
<1>. HIDE DEF down
<1>. DEFINE x == c[j - 1].depth
<1>6. x \in Int /\ x >= d + 1
    BY <1>4, <1>5
<1>7. c[j] = Re!Scan(c[j - 1], text[j]) /\ Sane(c[j - 1]) /\ Sane(c[j])
    BY <1>1, <1>5
<1>8. c[j].depth < x
  <2>1. c[j].depth \in Int
    BY <1>7, StateOf DEF Sane
  <2>. HIDE DEF x
  <2>. QED
    BY <1>3, <1>6, <2>1
<1>9. text[j] = Re!Close /\ c[j - 1] = State(x, FALSE, FALSE) /\ c[j] = State(x - 1, FALSE, FALSE)
    BY <1>7, <1>8, ScanSane
<1>10. x = d + 1 /\ x - 1 = d
  <2>1. c[j].depth = x - 1
    BY <1>9 DEF State
  <2>. HIDE DEF x
  <2>. QED
    BY <1>3, <1>6, <2>1
<1>. HIDE DEF x
<1>11. Above(c, d + 1, i, j - 1)
    BY <1>4 DEF Above
<1>. QED
    BY <1>5, <1>9, <1>10, <1>11

AllMake(c, text, p, f, n) == \A m \in 0..(n - 1) : Makes(c, text, p, f, m)

LEMMA MakesNext ==
    ASSUME NEW T, NEW text \in Seq(T), NEW c, NEW p, Scanning(c, text, p), NEW f, Itemized(text, f),
           NEW n \in 0..Len(text), AllMake(c, text, p, f, n)
    PROVE  Makes(c, text, p, f, n)
<1>. SUFFICES ASSUME NEW i \in (p + 1)..(Len(text) + 1 - n), NEW d \in Int, Levels(c, d, i - 1, i + n - 1)
              PROVE  i \in f[n]
    BY DEF Makes
<1>. DEFINE L == Len(text)
            z == i + n - 1
            Out(m, x) == c[m] = State(x, FALSE, FALSE)
<1>1. /\ L \in Nat /\ p \in 1..L /\ n \in 0..L /\ i \in Nat /\ p + 1 <= i /\ i + n <= L + 1 /\ z \in Nat
      /\ i \in 1..(L + 1 - n)
    BY DEF Scanning
<1>2. Out(i - 1, d) /\ Out(z, d) /\ Above(c, d, i - 1, z)
    BY DEF Levels
<1>. SUFFICES ItemFrom(text, f, n, i)
    BY <1>1 DEF Itemized
<1>. HIDE DEF L
<1>3. ASSUME NEW m \in 0..(n - 1), NEW j \in (p + 1)..(L + 1 - m), NEW x \in Int, Levels(c, x, j - 1, j + m - 1)
      PROVE  j \in f[m]
  <2>1. Makes(c, text, p, f, m)
    BY DEF AllMake
  <2>. QED
    BY <1>3, <2>1 DEF Makes, L
\* What is left once an item of k characters is behind.
<1>4. ASSUME NEW k \in 1..n, Out(i + k - 1, d)
      PROVE  i + k \in f[n - k]
  <2>1. /\ n - k \in 0..(n - 1) /\ i + k \in (p + 1)..(L + 1 - (n - k))
        /\ (i + k) - 1 = i + k - 1 /\ (i + k) + (n - k) - 1 = z /\ \A m \in (i + k - 1)..z : m \in (i - 1)..z
    BY <1>1
  <2>2. Above(c, d, i + k - 1, z)
    BY <1>2, <2>1 DEF Above
  <2>3. Levels(c, d, (i + k) - 1, (i + k) + (n - k) - 1)
    BY <1>2, <1>4, <2>1, <2>2 DEF Levels
  <2>. QED
    BY <1>3, <2>1, <2>3
<1>5. CASE n = 0
    BY <1>5 DEF ItemFrom
<1>6. CASE n # 0
  <2>1. n > 0 /\ 1 \in 1..n /\ i \in 1..L /\ i \in p..L /\ z \in i..L /\ i + 1 - 1 = i /\ i \in (i - 1)..z
    BY <1>1, <1>6
  <2>2. /\ c[i] = Re!Scan(State(d, FALSE, FALSE), text[i])
        /\ text[i] = Re!Quote => Inside(c, text, d, i)
    BY <1>2, <2>1, ScansOn DEF L
  <2>3. c[i].depth >= d
    BY <1>2, <2>1 DEF Above
  <2>4. CASE text[i] \notin {Re!Quote, Re!Open, Re!Close}
    <3>1. Out(i, d)
      BY <2>2, <2>4, ScanOutside
    <3>2. Out(i + 1 - 1, d)
      BY <2>1, <3>1
    <3>. HIDE DEF Out
    <3>3. i + 1 \in f[n - 1]
      BY <1>4, <2>1, <3>2
    <3>. QED
      BY <2>1, <2>4, <3>3 DEF ItemFrom
  <2>5. CASE text[i] = Re!Close
    <3>1. c[i] = State(d - 1, FALSE, FALSE)
      BY <2>2, <2>5, ScanOutside
    <3>2. c[i].depth = d - 1
      BY <3>1 DEF State
    <3>. QED
      BY <2>3, <3>2
  \* An item that ends at j: a string, or an object.
  <2>6. ASSUME NEW j \in (i + 1)..z, Out(j, d), Closed(text, f, i, j - i + 1)
        PROVE  ItemFrom(text, f, n, i)
    <3>. DEFINE k == j - i + 1
    <3>1. k \in 2..n /\ k \in 1..n /\ i + k - 1 = j
      BY <1>1, <2>1
    <3>2. Closed(text, f, i, k) /\ Out(i + k - 1, d)
      BY <2>6, <3>1
    <3>. HIDE DEF k, Out
    <3>3. i + k \in f[n - k]
      BY <1>4, <3>1, <3>2
    <3>. QED
      BY <3>1, <3>2, <3>3 DEF ItemFrom
  <2>7. CASE text[i] = Re!Quote
    <3>1. Inside(c, text, d, i)
      BY <2>2, <2>7
    <3>2. ~c[z].inStr
      BY <1>2 DEF State
    <3>3. z \in i..Len(text)
      BY <2>1 DEF L
    <3>. HIDE DEF z
    <3>4. PICK j \in (i + 1)..z : Re!IsString(text, i, j) /\ c[j] = State(d, FALSE, FALSE)
      BY <3>1, <3>2, <3>3, StringFound
    <3>5. i + (j - i + 1) - 1 = j
      BY <1>1
    <3>6. Closed(text, f, i, j - i + 1)
      BY <3>4, <3>5 DEF Closed
    <3>. QED
      BY <2>6, <3>4, <3>6
  <2>8. CASE text[i] = Re!Open
    <3>1. Out(i, d + 1)
      BY <2>2, <2>8, ScanOutside
    <3>2. c[i].depth > d /\ c[z].depth <= d
      <4>1. c[i].depth = d + 1 /\ c[z].depth = d
        BY <1>2, <3>1 DEF State
      <4>. QED
        BY <4>1
    <3>3. i \in p..Len(text) /\ z \in i..Len(text)
      BY <2>1 DEF L
    <3>. HIDE DEF z
    <3>4. PICK j \in (i + 1)..z :
              /\ text[j] = Re!Close /\ c[j - 1] = State(d + 1, FALSE, FALSE) /\ c[j] = State(d, FALSE, FALSE)
              /\ Above(c, d + 1, i, j - 1)
      BY <3>2, <3>3, BraceFound
    <3>. DEFINE m == (j - i + 1) - 2
    <3>5. /\ m \in 0..(n - 1) /\ i + 1 \in (p + 1)..(L + 1 - m) /\ d + 1 \in Int
          /\ (i + 1) - 1 = i /\ (i + 1) + m - 1 = j - 1 /\ i + (j - i + 1) - 1 = j
      BY <1>1, <2>1 DEF z
    <3>. HIDE DEF m
    <3>6. Levels(c, d + 1, (i + 1) - 1, (i + 1) + m - 1)
      BY <3>1, <3>4, <3>5 DEF Levels
    <3>7. i + 1 \in f[m]
      BY <1>3, <3>5, <3>6
    <3>8. Closed(text, f, i, j - i + 1)
      BY <2>8, <3>4, <3>5, <3>7 DEF Closed, m
    <3>. QED
      BY <2>6, <3>4, <3>8
  <2>. QED
    BY <2>4, <2>5, <2>7, <2>8
<1>. QED
    BY <1>5, <1>6

LEMMA ItemsMade ==
    ASSUME NEW T, NEW text \in Seq(T), NEW c, NEW p, Scanning(c, text, p), NEW f, Itemized(text, f),
           NEW n \in 0..Len(text)
    PROVE  Makes(c, text, p, f, n)
<1>. DEFINE G == {m \in 0..Len(text) : Makes(c, text, p, f, m)}
<1>1. Len(text) \in Nat
    OBVIOUS
<1>2. ASSUME NEW m \in 0..Len(text), 0..(m - 1) \subseteq G PROVE m \in G
  <2>1. AllMake(c, text, p, f, m)
    BY <1>2 DEF AllMake
  <2>. QED
    BY <2>1, MakesNext
<1>3. 0..Len(text) \subseteq G
  <2>. HIDE DEF G
  <2>. QED
    BY <1>1, <1>2, StrongUpTo
<1>. QED
    BY <1>3

\* Is it an object, given where items start?
ObjectOf(text, f, i, n) ==
    n \in 2..(Len(text) + 1 - i) /\ text[i] = Re!Open /\ text[i + n - 1] = Re!Close /\ i + 1 \in f[n - 2]

\* The first brace opens, and so the next character at depth 0 ends an object.
LEMMA FirstOpens ==
    ASSUME NEW T, NEW text \in Seq(T), NEW c, NEW p, Scanning(c, text, p), text[p] = Re!Open,
           NEW o \in Int, Zero = State(o, FALSE, FALSE)
    PROVE  c[p] = State(o + 1, FALSE, FALSE) /\ c[p].depth > o
<1>1. p \in 1..Len(text) /\ p \in p..Len(text) /\ p - 1 \in 0..(p - 1)
    BY DEF Scanning
<1>2. c[p - 1] = State(o, FALSE, FALSE)
    BY <1>1 DEF Scanning, Scans
<1>3. /\ c[p] = Re!Scan(State(o, FALSE, FALSE), text[p])
      /\ text[p] = Re!Quote => Inside(c, text, o, p)
    BY <1>1, <1>2, ScansOn
<1>4. Re!Scan(State(o, FALSE, FALSE), Re!Open) = State(o + 1, FALSE, FALSE)
    BY ScanOutside
<1>5. State(o + 1, FALSE, FALSE).depth = o + 1 /\ o + 1 > o
    BY DEF State
<1>. QED
    BY <1>3, <1>4, <1>5

FirstZero(c, text, p, e) ==
    e \in p..Len(text) /\ c[e].depth = 0 /\ \A m \in p..Len(text) : c[m].depth = 0 => e <= m

LEMMA EndsObject ==
    ASSUME NEW T, NEW text \in Seq(T), NEW c, NEW p, Scanning(c, text, p), text[p] = Re!Open,
           NEW f, Itemized(text, f), NEW e, FirstZero(c, text, p, e)
    PROVE  ObjectOf(text, f, p, e - p + 1)
<1>. DEFINE L == Len(text)
            n == e - p + 1
            m == n - 2
<1>1. L \in Nat /\ p \in Nat /\ p >= 1 /\ p <= L /\ p \in p..Len(text)
    BY DEF Scanning
<1>2. PICK o \in Int : o = 0
    OBVIOUS
<1>3. c[p] = State(o + 1, FALSE, FALSE) /\ c[p].depth > o
  <2>1. Zero = State(o, FALSE, FALSE)
    BY <1>2 DEF Zero
  <2>. QED
    BY <2>1, FirstOpens
<1>4. PICK j \in (p + 1)..e :
          /\ text[j] = Re!Close /\ c[j - 1] = State(o + 1, FALSE, FALSE) /\ c[j] = State(o, FALSE, FALSE)
          /\ Above(c, o + 1, p, j - 1)
  <2>1. e \in p..Len(text) /\ c[e].depth <= o
    BY <1>2 DEF FirstZero
  <2>2. p \in p..Len(text)
    BY <1>1
  <2>3. c[p].depth > o
    BY <1>3
  <2>. QED
    BY <2>1, <2>2, <2>3, BraceFound
<1>5. j = e
  <2>1. e \in p..Len(text)
    BY DEF FirstZero
  <2>2. c[j].depth = 0 /\ j \in p..Len(text)
    BY <1>1, <1>2, <1>4, <2>1 DEF State
  <2>3. e <= j
    BY <2>2 DEF FirstZero
  <2>. QED
    BY <1>1, <2>1, <2>3
<1>. HIDE DEF L
<1>6. /\ n \in 2..(L + 1 - p) /\ m \in 0..L /\ p + n - 1 = e
      /\ p + 1 \in (p + 1)..(L + 1 - m) /\ (p + 1) - 1 = p /\ (p + 1) + m - 1 = e - 1
  <2>1. e \in Nat /\ p + 1 <= e /\ e <= L
    BY <1>1, <1>4, <1>5 DEF L, FirstZero
  <2>2. n \in Int /\ m \in Int /\ n = e - p + 1 /\ m = e - p - 1
    BY <1>1, <2>1
  <2>. HIDE DEF n, m
  <2>. QED
    BY <1>1, <2>1, <2>2
<1>. HIDE DEF n, m
<1>7. Levels(c, o + 1, p, e - 1) /\ o + 1 \in Int
  <2>1. Above(c, o + 1, p, e - 1) /\ c[e - 1] = State(o + 1, FALSE, FALSE)
    BY <1>4, <1>5
  <2>2. Levels(c, o + 1, p, e - 1)
    BY <1>3, <2>1 DEF Levels
  <2>. QED
    BY <2>2
<1>8. p + 1 \in f[m]
  <2>1. m \in 0..Len(text) /\ p + 1 \in (p + 1)..(Len(text) + 1 - m)
    BY <1>6 DEF L
  <2>2. Makes(c, text, p, f, m)
    BY <2>1, ItemsMade
  <2>3. Levels(c, o + 1, (p + 1) - 1, (p + 1) + m - 1)
    BY <1>6, <1>7
  <2>. QED
    BY <1>7, <2>1, <2>2, <2>3 DEF Makes
<1>. QED
    BY <1>4, <1>5, <1>6, <1>8 DEF ObjectOf, L, n, m

LEMMA ObjectEnds ==
    ASSUME NEW T, NEW text \in Seq(T), NEW c, NEW p, Scanning(c, text, p),
           NEW f, Itemized(text, f), NEW n, ObjectOf(text, f, p, n)
    PROVE  \E z \in p..Len(text) : c[z].depth = 0
<1>. DEFINE L == Len(text)
            m == n - 2
            z == p + n - 1
<1>1. L \in Nat /\ p \in Nat /\ p >= 1 /\ p <= L
    BY DEF Scanning
<1>2. n \in 2..(L + 1 - p) /\ text[p] = Re!Open /\ text[z] = Re!Close /\ p + 1 \in f[m]
    BY DEF ObjectOf
<1>3. PICK o \in Int : o = 0
    OBVIOUS
<1>4. c[p] = State(o + 1, FALSE, FALSE) /\ c[p].depth > o
  <2>1. Zero = State(o, FALSE, FALSE)
    BY <1>3 DEF Zero
  <2>. QED
    BY <1>2, <2>1, FirstOpens
<1>. HIDE DEF L
<1>5. /\ m \in 0..L /\ p + 1 \in (p + 1)..(L + 1 - m) /\ (p + 1) - 1 = p
      /\ (p + 1) + m - 1 = z - 1 /\ z \in p..L
  <2>1. n \in Int /\ n >= 2 /\ n <= L + 1 - p
    BY <1>1, <1>2
  <2>2. m \in Int /\ z \in Int /\ m = n - 2 /\ z = p + n - 1
    BY <1>1, <2>1
  <2>. HIDE DEF m, z
  <2>. QED
    BY <1>1, <2>1, <2>2
<1>. HIDE DEF z, m
<1>. DEFINE a == o + 1
<1>6. a \in Int /\ a - 1 = o
    OBVIOUS
<1>. HIDE DEF a
<1>7. c[z - 1] = State(a, FALSE, FALSE)
  <2>1. m \in 0..Len(text) /\ p + 1 \in (p + 1)..(Len(text) + 1 - m)
    BY <1>5 DEF L
  <2>2. Leads(c, text, p, f, m)
    BY <2>1, ItemsLead
  <2>3. c[(p + 1) - 1] = State(a, FALSE, FALSE)
    BY <1>4, <1>5 DEF a
  <2>4. c[(p + 1) + m - 1] = State(a, FALSE, FALSE)
    BY <1>2, <1>6, <2>1, <2>2, <2>3 DEF Leads
  <2>. QED
    BY <1>5, <2>4
<1>8. z \in p..Len(text)
    BY <1>5 DEF L
<1>9. /\ c[z] = Re!Scan(State(a, FALSE, FALSE), text[z])
      /\ text[z] = Re!Quote => Inside(c, text, a, z)
    BY <1>6, <1>7, <1>8, ScansOn
<1>10. Re!Scan(State(a, FALSE, FALSE), Re!Close) = State(a - 1, FALSE, FALSE)
    BY <1>6, ScanOutside
<1>11. c[z] = State(o, FALSE, FALSE)
    BY <1>2, <1>6, <1>9, <1>10
<1>12. c[z].depth = 0
    BY <1>3, <1>11 DEF State
<1>. QED
    BY <1>8, <1>12

\* The object that starts at the first brace is the one parsed.
LEMMA ObjectIs ==
    ASSUME NEW T, NEW text \in Seq(T), Re!IndexOf(text, {Re!Open}) # 0
    PROVE  LET p == Re!IndexOf(text, {Re!Open})
               e == Re!EndOfObject(text)
           IN  \/ e # 0 /\ e \in p..Len(text) /\ Re!IsObject(text, p, e - p + 1)
               \/ e = 0 /\ \A n \in 1..Len(text) : ~Re!IsObject(text, p, n)
<1>. DEFINE p == Re!IndexOf(text, {Re!Open})
            e == Re!EndOfObject(text)
            c == Re!Scanned(text)
            f == Re!Items(text)
            ends == {i \in p..Len(text) : c[i].depth = 0}
<1>1. e = IF ends = {} THEN 0 ELSE Min(ends)
    BY DEF Re!EndOfObject, Re!Min, Min
<1>2. p \in 1..Len(text) /\ text[p] = Re!Open
  <2>1. FirstAt(text, {Re!Open}, p)
    BY IndexIs
  <2>. QED
    BY <2>1 DEF FirstAt
<1>3. Scanning(c, text, p)
  <2>1. Scans(c, text, p)
    BY <1>2, ScannedIs
  <2>. HIDE DEF c, p
  <2>2. \A i \in 0..Len(text) : Sane(c[i])
    BY <1>2, <2>1, ScansSane
  <2>. QED
    BY <1>2, <2>1, <2>2 DEF Scanning
<1>4. Itemized(text, f)
    BY ItemsAre DEF Itemized
<1>5. \A n : Re!IsObject(text, p, n) <=> ObjectOf(text, f, p, n)
    BY DEF Re!IsObject, ObjectOf
<1>. HIDE DEF c, f, p, e
<1>6. CASE ends # {}
  <2>1. ends \in SUBSET Nat
    BY <1>2
  <2>. HIDE DEF ends
  <2>2. Min(ends) \in ends /\ \A m \in ends : Min(ends) <= m
    BY <1>6, <2>1, MinIs
  <2>3. e \in ends /\ \A m \in ends : e <= m
    BY <1>1, <1>6, <2>2
  <2>4. FirstZero(c, text, p, e) /\ e \in p..Len(text)
    BY <2>3 DEF ends, FirstZero
  <2>5. ObjectOf(text, f, p, e - p + 1)
    BY <1>2, <1>3, <1>4, <2>4, EndsObject
  <2>6. e # 0
    BY <1>2, <2>4
  <2>. QED
    BY <1>5, <2>4, <2>5, <2>6 DEF p, e
<1>7. CASE ends = {}
  <2>1. e = 0
    BY <1>1, <1>7
  <2>2. ASSUME NEW n \in 1..Len(text), Re!IsObject(text, p, n) PROVE FALSE
    <3>1. ObjectOf(text, f, p, n)
      BY <1>5, <2>2
    <3>2. PICK z \in p..Len(text) : c[z].depth = 0
      BY <1>3, <1>4, <3>1, ObjectEnds
    <3>. QED
      BY <1>7, <3>2
  <2>. QED
    BY <2>1, <2>2 DEF p, e
<1>. QED
    BY <1>6, <1>7

-----------------------------------------------------------------------------
(* The text between two fences.                                             *)

\* Between the first fence marked json and the next fence.
FirstChar(text, i, ch) == text[i] = ch /\ \A k \in 1..(i - 1) : text[k] # ch

Fenced(text, i, j) ==
    /\ i < j /\ FirstChar(text, i, Re!Json) /\ text[j] \in {Re!Json, Re!Fence}
    /\ \A k \in (i + 1)..(j - 1) : text[k] \notin {Re!Json, Re!Fence}

\* The only such fences are at f and e further on, and they are if neither is 0.
FencesAt(text, f, e) ==
    /\ \A i, j \in 1..Len(text) : Fenced(text, i, j) => f # 0 /\ e # 0 /\ i = f /\ j = f + e
    /\ f # 0 /\ e # 0 => f + e \in 1..Len(text) /\ Fenced(text, f, f + e)

LEMMA RestIs ==
    ASSUME NEW T, NEW text \in Seq(T), NEW f \in 0..Len(text), NEW m \in 0..(Len(text) - f)
    PROVE  LET part == SubSeq(text, f + 1, f + m)
           IN  part \in Seq(T) /\ Len(part) = m /\ \A k \in 1..m : part[k] = text[f + k]
<1>1. \A k \in (f + 1)..(f + m) : text[k] \in T
  <2>1. \A k \in (f + 1)..(f + m) : k \in 1..Len(text)
    OBVIOUS
  <2>. QED
    BY <2>1, ElementOfSeq
<1>2. f + 1 \in Int /\ f + m \in Int /\ (f + m) - (f + 1) + 1 = m /\ (f + 1 <= f + m <=> m # 0)
      /\ \A k \in 1..m : f + 1 + k - 1 = f + k
    OBVIOUS
<1>. DEFINE a == f + 1
            b == f + m
            part == SubSeq(text, a, b)
<1>. HIDE DEF a, b
<1>3. /\ part \in Seq(T)
      /\ Len(part) = IF a <= b THEN b - a + 1 ELSE 0
      /\ \A i \in 1..(b - a + 1) : part[i] = text[a + i - 1]
    BY <1>1, <1>2, SubSeqProperties DEF a, b
<1>. HIDE DEF part
<1>4. Len(part) = m
    BY <1>2, <1>3 DEF a, b
<1>5. \A i \in 1..m : part[i] = text[f + i]
    BY <1>2, <1>3 DEF a, b
<1>. QED
    BY <1>3, <1>4, <1>5 DEF part, a, b

LEMMA FencesAre ==
    ASSUME NEW T, NEW text \in Seq(T), NEW f, NEW rest, NEW e,
           FirstAt(text, {Re!Json}, f), rest = SubSeq(text, f + 1, Len(text)),
           FirstAt(rest, {Re!Fence, Re!Json}, e), f \in 0..Len(text)
    PROVE  FencesAt(text, f, e)
<1>. DEFINE L == Len(text)
            m == L - f
<1>1. L \in Nat /\ f \in Nat /\ f <= L /\ m \in 0..(Len(text) - f) /\ m \in Nat /\ f + m = L
    OBVIOUS
<1>2. Len(rest) = m /\ \A k \in 1..m : rest[k] = text[f + k]
  <2>1. rest = SubSeq(text, f + 1, f + m)
    BY <1>1
  <2>2. m \in 0..(Len(text) - f)
    BY <1>1
  <2>. HIDE DEF m
  <2>3. LET part == SubSeq(text, f + 1, f + m)
        IN  part \in Seq(T) /\ Len(part) = m /\ \A k \in 1..m : part[k] = text[f + k]
    BY <2>2, RestIs
  <2>. QED
    BY <2>1, <2>3
<1>3. \/ e = 0 /\ \A k \in 1..m : rest[k] \notin {Re!Fence, Re!Json}
      \/ e \in 1..m /\ rest[e] \in {Re!Fence, Re!Json} /\ \A k \in 1..(e - 1) : rest[k] \notin {Re!Fence, Re!Json}
  <2>. HIDE DEF m
  <2>. QED
    BY <1>2 DEF FirstAt
<1>4. \/ f = 0 /\ \A k \in 1..L : text[k] # Re!Json
      \/ f \in 1..L /\ text[f] = Re!Json /\ \A k \in 1..(f - 1) : text[k] # Re!Json
    BY DEF FirstAt
<1>. HIDE DEF L, m
<1>5. ASSUME NEW i \in 1..L, NEW j \in 1..L, Fenced(text, i, j)
      PROVE  f # 0 /\ e # 0 /\ i = f /\ j = f + e
  <2>1. /\ i < j /\ text[i] = Re!Json /\ \A k \in 1..(i - 1) : text[k] # Re!Json
        /\ text[j] \in {Re!Json, Re!Fence} /\ \A k \in (i + 1)..(j - 1) : text[k] \notin {Re!Json, Re!Fence}
    BY <1>5 DEF Fenced, FirstChar
  <2>2. f # 0
    BY <1>4, <2>1
  <2>3. i = f
    <3>1. ~(i < f)
      <4>1. i < f => i \in 1..(f - 1)
        BY <1>1
      <4>. QED
        BY <1>4, <2>1, <2>2, <4>1
    <3>2. ~(f < i)
      <4>1. f < i => f \in 1..(i - 1)
        BY <1>1, <2>2
      <4>. QED
        BY <1>4, <2>1, <2>2, <4>1
    <3>. QED
      BY <1>1, <3>1, <3>2
  <2>. DEFINE d == j - f
  <2>4. d \in 1..m /\ f + d = j
    BY <1>1, <2>1, <2>3
  <2>. HIDE DEF d
  <2>5. rest[d] \in {Re!Fence, Re!Json}
    BY <1>2, <2>1, <2>4
  <2>6. e # 0
    <3>. SUFFICES ASSUME e = 0 PROVE FALSE
      OBVIOUS
    <3>1. e \notin 1..m
      BY <1>1
    <3>2. rest[d] \notin {Re!Fence, Re!Json}
      BY <1>3, <2>4, <3>1
    <3>. QED
      BY <2>5, <3>2
  <2>7. e \in 1..m /\ rest[e] \in {Re!Fence, Re!Json} /\ \A k \in 1..(e - 1) : rest[k] \notin {Re!Fence, Re!Json}
    BY <1>3, <2>6
  <2>8. ~(d < e)
    <3>1. d < e => d \in 1..(e - 1)
      BY <1>1, <2>4, <2>7
    <3>. QED
      BY <2>5, <2>7, <3>1
  <2>9. ~(e < d)
    <3>1. e < d => f + e \in (i + 1)..(j - 1)
      BY <1>1, <2>3, <2>4, <2>7
    <3>2. text[f + e] \in {Re!Fence, Re!Json}
      BY <1>2, <2>7
    <3>. QED
      BY <2>1, <3>1, <3>2
  <2>10. d = e
    BY <1>1, <2>4, <2>7, <2>8, <2>9
  <2>. QED
    BY <2>2, <2>3, <2>4, <2>6, <2>10
<1>6. ASSUME f # 0, e # 0 PROVE f + e \in 1..L /\ Fenced(text, f, f + e)
  <2>1. e \in 1..m /\ rest[e] \in {Re!Fence, Re!Json} /\ \A k \in 1..(e - 1) : rest[k] \notin {Re!Fence, Re!Json}
    BY <1>3, <1>6
  <2>2. FirstChar(text, f, Re!Json)
    BY <1>4, <1>6 DEF FirstChar
  <2>3. f + e \in 1..L /\ f < f + e /\ text[f + e] \in {Re!Json, Re!Fence}
    <3>1. f + e \in 1..L /\ f < f + e
      BY <1>1, <2>1
    <3>. QED
      BY <1>2, <2>1, <3>1
  <2>. DEFINE j == f + e
  <2>4. ASSUME NEW k \in (f + 1)..(j - 1) PROVE text[k] \notin {Re!Json, Re!Fence}
    <3>1. k - f \in 1..(e - 1) /\ k - f \in 1..m /\ f + (k - f) = k
      BY <1>1, <2>1
    <3>2. rest[k - f] = text[k]
      BY <1>2, <3>1
    <3>. QED
      BY <2>1, <3>1, <3>2
  <2>6. j \in 1..L /\ f < j /\ text[j] \in {Re!Json, Re!Fence}
    BY <2>3
  <2>. HIDE DEF j
  <2>7. Fenced(text, f, j)
    BY <2>2, <2>4, <2>6 DEF Fenced
  <2>. QED
    BY <2>6, <2>7 DEF j
<1>. QED
    BY <1>5, <1>6 DEF FencesAt, L

Around(text, i, j, a, b) ==
    ~Filled(text, i + 1, a - 1) /\ Filled(text, a, a) /\ Filled(text, b, b) /\ ~Filled(text, b + 1, j - 1)

\* What parses as JSON of a fence: nothing, or what is between the first marked one and the next.
LEMMA FencedIs ==
    ASSUME NEW T, NEW text \in Seq(T)
    PROVE  LET g == Re!FencedJSON(text)
           IN  \/ g = <<>> /\ \A i, j \in 1..Len(text) : Fenced(text, i, j) => ~Filled(text, i + 1, j - 1)
               \/ /\ g # <<>>
                  /\ \E i, j \in 1..Len(text) : \E a, b \in (i + 1)..(j - 1) :
                        Fenced(text, i, j) /\ g = SubSeq(text, a, b) /\ Around(text, i, j, a, b)
<1>. DEFINE L == Len(text)
            f == Re!IndexOf(text, {Re!Json})
            rest == SubSeq(text, f + 1, L)
            e == Re!IndexOf(rest, {Re!Fence, Re!Json})
            body == SubSeq(rest, 1, e - 1)
            g == Re!FencedJSON(text)
<1>1. g = IF f = 0 \/ e = 0 THEN <<>> ELSE Re!TrimSpace(body, {Re!Space})
    BY DEF Re!FencedJSON
<1>2. FirstAt(text, {Re!Json}, f)
    BY IndexIs
<1>3. f \in 0..L /\ L \in Nat
    BY <1>2 DEF FirstAt
<1>. HIDE DEF g, f
<1>4. rest \in Seq(T) /\ Len(rest) = L - f /\ \A k \in 1..(L - f) : rest[k] = text[f + k]
  <2>. DEFINE m == L - f
  <2>1. m \in 0..(Len(text) - f) /\ f + m = L /\ f \in 0..Len(text)
    BY <1>3
  <2>. HIDE DEF m, L
  <2>2. LET part == SubSeq(text, f + 1, f + m)
        IN  part \in Seq(T) /\ Len(part) = m /\ \A k \in 1..m : part[k] = text[f + k]
    BY <2>1, RestIs
  <2>. QED
    BY <2>1, <2>2 DEF m
<1>5. FirstAt(rest, {Re!Fence, Re!Json}, e)
  <2>. HIDE DEF rest
  <2>. QED
    BY <1>4, IndexIs
<1>6. /\ \A i, j \in 1..L : Fenced(text, i, j) => f # 0 /\ e # 0 /\ i = f /\ j = f + e
      /\ f # 0 /\ e # 0 => f + e \in 1..L /\ Fenced(text, f, f + e)
  <2>1. f \in 0..Len(text) /\ rest = SubSeq(text, f + 1, Len(text))
    BY <1>3
  <2>. HIDE DEF e, rest, L
  <2>2. FencesAt(text, f, e)
    BY <1>2, <1>5, <2>1, FencesAre
  <2>. QED
    BY <2>2 DEF FencesAt, L
<1>. HIDE DEF e, rest
<1>7. CASE f = 0 \/ e = 0
  <2>. HIDE DEF L
  <2>1. g = <<>> /\ \A i, j \in 1..L : ~Fenced(text, i, j)
    BY <1>1, <1>6, <1>7
  <2>. QED
    BY <2>1 DEF g, L
<1>8. CASE f # 0 /\ e # 0
  <2>. HIDE DEF L
  <2>. DEFINE M == e - 1
              z == f + e
  <2>1. f + e \in 1..L /\ Fenced(text, f, f + e) /\ e \in 1..(L - f)
    <3>1. e \in 1..Len(rest)
      BY <1>5, <1>8 DEF FirstAt
    <3>. QED
      BY <1>4, <1>6, <1>8, <3>1
  <2>2. /\ f \in 1..L /\ f \in Nat /\ e \in Nat /\ z \in 1..L /\ M \in Nat /\ M <= L - f /\ M \in 0..(L - f)
        /\ f + M = z - 1 /\ z - 1 = f + M /\ 0 + 1 = 1 /\ 0 + M = M
    BY <1>3, <1>8, <2>1
  <2>. HIDE DEF M
  <2>3. body \in Seq(T) /\ Len(body) = M /\ \A k \in 1..M : body[k] = text[f + k]
    <3>1. M \in 0..(Len(rest) - 0) /\ 0 \in 0..Len(rest)
      BY <1>3, <1>4, <2>2
    <3>2. LET part == SubSeq(rest, 0 + 1, 0 + M)
          IN  part \in Seq(T) /\ Len(part) = M /\ \A k \in 1..M : part[k] = rest[0 + k]
      BY <1>4, <3>1, RestIs
    <3>3. \A k \in 1..M : 0 + k = k /\ k \in 1..(L - f)
      BY <1>3, <2>2
    <3>. QED
      BY <1>4, <2>2, <3>2, <3>3 DEF M
  <2>. HIDE DEF body, z
  <2>4. ASSUME NEW i \in Int, NEW j \in Int, i >= 1, j <= M
        PROVE  Filled(text, f + i, f + j) <=> Filled(body, i, j)
    <3>1. ASSUME NEW k \in i..j, body[k] # Re!Space PROVE f + k \in (f + i)..(f + j) /\ text[f + k] # Re!Space
      <4>1. k \in 1..M
        BY <2>2, <2>4
      <4>. QED
        BY <2>2, <2>3, <3>1, <4>1
    <3>2. ASSUME NEW k \in (f + i)..(f + j), text[k] # Re!Space PROVE k - f \in i..j /\ body[k - f] # Re!Space
      <4>1. k - f \in 1..M /\ k - f \in i..j /\ f + (k - f) = k
        BY <2>2, <2>4
      <4>. QED
        BY <2>3, <3>2, <4>1
    <3>. QED
      BY <3>1, <3>2 DEF Filled
  <2>5. CASE ~Filled(body, 1, M) /\ Re!TrimSpace(body, {Re!Space}) = <<>>
    <3>1. g = <<>>
      BY <1>1, <1>8, <2>5
    <3>2. ~Filled(text, f + 1, z - 1)
      <4>1. 1 \in Int /\ M \in Int /\ 1 >= 1 /\ M <= M
        BY <2>2
      <4>2. ~Filled(text, f + 1, f + M)
        BY <2>4, <2>5, <4>1
      <4>. QED
        BY <2>2, <4>2
    <3>3. \A i, j \in 1..L : Fenced(text, i, j) => ~Filled(text, i + 1, j - 1)
      BY <1>6, <3>2 DEF z
    <3>. QED
      BY <3>1, <3>3 DEF g, L
  <2>6. CASE \E lo, hi \in 1..M : Trimmed(body, lo, hi) /\ Re!TrimSpace(body, {Re!Space}) = SubSeq(body, lo, hi)
    <3>1. PICK lo \in 1..M : \E hi \in 1..M :
              Trimmed(body, lo, hi) /\ Re!TrimSpace(body, {Re!Space}) = SubSeq(body, lo, hi)
      BY <2>6
    <3>2. PICK hi \in 1..M : Trimmed(body, lo, hi) /\ Re!TrimSpace(body, {Re!Space}) = SubSeq(body, lo, hi)
      BY <3>1
    <3>. DEFINE a == f + lo
                b == f + hi
    <3>3. /\ lo \in Int /\ hi \in Int /\ M \in Int /\ lo >= 1 /\ hi >= 1 /\ lo <= hi /\ hi <= M
          /\ body[lo] # Re!Space /\ body[hi] # Re!Space
          /\ ~Filled(body, 1, lo - 1) /\ ~Filled(body, hi + 1, M)
      BY <2>2, <2>3, <3>2 DEF Trimmed
    <3>4. /\ a \in (f + 1)..(z - 1) /\ b \in (f + 1)..(z - 1) /\ a \in Int /\ b \in Int
          /\ a - 1 = f + (lo - 1) /\ b + 1 = f + (hi + 1)
          /\ lo - 1 \in Int /\ lo - 1 <= M /\ hi + 1 \in Int /\ hi + 1 >= 1
      <4>1. z - 1 = f + M /\ f \in Int
        BY <2>2
      <4>. HIDE DEF z
      <4>. QED
        BY <3>3, <4>1
    <3>5. text[a] = body[lo] /\ text[b] = body[hi]
      BY <2>3
    <3>6. ~Filled(text, f + 1, f + (lo - 1)) /\ ~Filled(text, f + (hi + 1), f + M)
      <4>1. 1 \in Int /\ 1 >= 1 /\ M <= M
        BY <3>3
      <4>. HIDE DEF a, b
      <4>2. Filled(text, f + 1, f + (lo - 1)) <=> Filled(body, 1, lo - 1)
        BY <2>4, <3>4, <4>1
      <4>3. Filled(text, f + (hi + 1), f + M) <=> Filled(body, hi + 1, M)
        BY <2>4, <3>3, <3>4, <4>1
      <4>. QED
        BY <3>3, <4>2, <4>3
    <3>7. g = SubSeq(body, lo, hi)
      BY <1>1, <1>8, <3>2
    <3>8. SubSeq(body, lo, hi) = SubSeq(text, a, b)
      <4>. DEFINE n == hi - lo + 1
      <4>1. lo - 1 \in 0..Len(body) /\ n \in 0..(Len(body) - (lo - 1)) /\ (lo - 1) + 1 = lo /\ (lo - 1) + n = hi
            /\ a - 1 \in 0..Len(text) /\ n \in 0..(Len(text) - (a - 1)) /\ (a - 1) + 1 = a /\ (a - 1) + n = b
        <5>1. Len(body) = M /\ L = Len(text) /\ M <= L - f /\ L \in Nat /\ f \in Nat
          BY <1>3, <2>2, <2>3 DEF L
        <5>. QED
          BY <3>3, <5>1
      <4>. HIDE DEF a, b, n
      <4>. DEFINE u == lo - 1
      <4>0. body \in Seq(T) /\ u \in 0..Len(body) /\ n \in 0..(Len(body) - u)
        BY <2>3, <4>1
      <4>. HIDE DEF u
      <4>8. LET part == SubSeq(body, u + 1, u + n)
            IN  part \in Seq(T) /\ Len(part) = n /\ \A k \in 1..n : part[k] = body[u + k]
        BY <4>0, RestIs
      <4>2. LET part == SubSeq(body, (lo - 1) + 1, (lo - 1) + n)
            IN  part \in Seq(T) /\ Len(part) = n /\ \A k \in 1..n : part[k] = body[(lo - 1) + k]
        BY <4>8 DEF u
      <4>3. LET part == SubSeq(text, (a - 1) + 1, (a - 1) + n)
            IN  part \in Seq(T) /\ Len(part) = n /\ \A k \in 1..n : part[k] = text[(a - 1) + k]
        BY <4>1, RestIs
      <4>4. SubSeq(body, lo, hi) \in Seq(T) /\ SubSeq(text, a, b) \in Seq(T)
            /\ Len(SubSeq(body, lo, hi)) = n /\ Len(SubSeq(text, a, b)) = n
            /\ \A k \in 1..n : SubSeq(body, lo, hi)[k] = body[(lo - 1) + k] /\ SubSeq(text, a, b)[k] = text[(a - 1) + k]
        BY <4>1, <4>2, <4>3
      <4>5. ASSUME NEW k \in 1..n PROVE body[(lo - 1) + k] = text[(a - 1) + k]
        <5>1. (lo - 1) + k \in 1..M /\ f + ((lo - 1) + k) = (a - 1) + k
          BY <2>2, <3>3, <3>4 DEF n
        <5>. QED
          BY <2>3, <5>1
      <4>. DEFINE x == SubSeq(body, lo, hi)
                  y == SubSeq(text, a, b)
      <4>6. x \in Seq(T) /\ y \in Seq(T) /\ Len(x) = Len(y) /\ \A k \in 1..Len(x) : x[k] = y[k]
        BY <4>4, <4>5
      <4>. HIDE DEF x, y
      <4>7. x = y
        BY <4>6, SeqEqual
      <4>. QED
        BY <4>7 DEF x, y
    <3>9. Around(text, f, z, a, b)
      <4>1. Filled(text, a, a) /\ Filled(text, b, b)
        <5>1. a \in a..a /\ b \in b..b
          BY <3>4
        <5>. HIDE DEF a, b
        <5>. QED
          BY <3>3, <3>5, <5>1 DEF Filled
      <4>2. ~Filled(text, f + 1, a - 1) /\ ~Filled(text, b + 1, z - 1)
        <5>. HIDE DEF a, b
        <5>. QED
          BY <2>2, <3>4, <3>6
      <4>. QED
        BY <4>1, <4>2 DEF Around
    <3>. HIDE DEF a, b
    <3>10. g # <<>>
      <4>1. Filled(body, lo, hi) /\ Len(SubSeq(body, lo, hi)) # 0
        <5>1. lo \in lo..hi
          BY <3>3
        <5>2. Filled(body, lo, hi)
          BY <3>3, <5>1 DEF Filled
        <5>3. \A k \in lo..hi : body[k] \in T
          <6>1. \A k \in lo..hi : k \in 1..Len(body)
            BY <2>3, <3>3
          <6>. QED
            BY <2>3, <6>1, ElementOfSeq
        <5>4. Len(SubSeq(body, lo, hi)) = hi - lo + 1
          <6>1. Len(SubSeq(body, lo, hi)) = IF lo <= hi THEN hi - lo + 1 ELSE 0
            BY <3>3, <5>3, SubSeqProperties
          <6>. QED
            BY <3>3, <6>1
        <5>. QED
          BY <3>3, <5>2, <5>4
      <4>2. Len(<<>>) = 0
        OBVIOUS
      <4>. QED
        BY <3>7, <4>1, <4>2
    <3>11. \E i, j \in 1..L : \E x, y \in (i + 1)..(j - 1) :
               Fenced(text, i, j) /\ g = SubSeq(text, x, y) /\ Around(text, i, j, x, y)
      BY <2>1, <2>2, <3>4, <3>7, <3>8, <3>9 DEF z
    <3>. QED
      BY <3>10, <3>11 DEF g, L
  <2>7. \/ ~Filled(body, 1, M) /\ Re!TrimSpace(body, {Re!Space}) = <<>>
        \/ \E lo, hi \in 1..M : Trimmed(body, lo, hi) /\ Re!TrimSpace(body, {Re!Space}) = SubSeq(body, lo, hi)
    BY <2>3, TrimmedIs
  <2>. QED
    BY <2>5, <2>6, <2>7
<1>. QED
    BY <1>7, <1>8

FoundInFence(text, found) ==
    \E i, j \in 1..Len(text) : \E a, b \in (i + 1)..(j - 1) :
        Fenced(text, i, j) /\ found = SubSeq(text, a, b) /\ Around(text, i, j, a, b)

FoundInBraces(text, found) ==
    \/ found = <<>> /\ \A i \in 1..Len(text) : text[i] # Re!Open
    \/ \E i \in 1..Len(text) :
           /\ FirstChar(text, i, Re!Open)
           /\ \/ \E n \in 1..Len(text) : Re!IsObject(text, i, n) /\ found = SubSeq(text, i, i + n - 1)
              \/ found = <<>> /\ \A n \in 1..Len(text) : ~Re!IsObject(text, i, n)

InFence(text) == \E i, j \in 1..Len(text) : Fenced(text, i, j) /\ Filled(text, i + 1, j - 1)

LEMMA FirstObjectFound ==
    ASSUME NEW T, NEW text \in Seq(T)
    PROVE  FoundInBraces(text, Re!FirstObject(text))
<1>. DEFINE p == Re!IndexOf(text, {Re!Open})
            e == Re!EndOfObject(text)
            g == Re!FirstObject(text)
<1>1. g = IF p = 0 \/ e = 0 THEN <<>> ELSE SubSeq(text, p, e)
    BY DEF Re!FirstObject
<1>2. FirstAt(text, {Re!Open}, p)
    BY IndexIs
<1>3. p # 0 => \/ e # 0 /\ e \in p..Len(text) /\ Re!IsObject(text, p, e - p + 1)
               \/ e = 0 /\ \A n \in 1..Len(text) : ~Re!IsObject(text, p, n)
    BY ObjectIs
<1>. HIDE DEF p, e, g
<1>4. CASE p = 0
  <2>1. \A i \in 1..Len(text) : text[i] # Re!Open
    BY <1>2, <1>4 DEF FirstAt
  <2>2. g = <<>>
    BY <1>1, <1>4
  <2>. QED
    BY <2>1, <2>2 DEF FoundInBraces, g
<1>5. CASE p # 0
  <2>1. p \in 1..Len(text) /\ FirstChar(text, p, Re!Open)
    BY <1>2, <1>5 DEF FirstAt, FirstChar
  <2>2. CASE e # 0 /\ e \in p..Len(text) /\ Re!IsObject(text, p, e - p + 1)
    <3>. DEFINE n == e - p + 1
    <3>1. n \in 1..Len(text) /\ p + n - 1 = e
      BY <2>1, <2>2
    <3>2. g = SubSeq(text, p, e)
      BY <1>1, <1>5, <2>2
    <3>3. Re!IsObject(text, p, n)
      BY <2>2
    <3>. HIDE DEF n
    <3>4. g = SubSeq(text, p, p + n - 1)
      BY <3>1, <3>2
    <3>. QED
      BY <2>1, <3>1, <3>3, <3>4 DEF FoundInBraces, g
  <2>3. CASE e = 0 /\ \A n \in 1..Len(text) : ~Re!IsObject(text, p, n)
    <3>1. g = <<>>
      BY <1>1, <2>3
    <3>. QED
      BY <2>1, <2>3, <3>1 DEF FoundInBraces, g
  <2>. QED
    BY <1>3, <1>5, <2>2, <2>3
<1>. QED
    BY <1>4, <1>5

LEMMA RawFound ==
    ASSUME NEW T, NEW text \in Seq(T)
    PROVE  IF InFence(text) THEN FoundInFence(text, Re!Raw(text)) ELSE FoundInBraces(text, Re!Raw(text))
<1>. DEFINE g == Re!FencedJSON(text)
<1>1. Re!Raw(text) = IF g # <<>> THEN g ELSE Re!FirstObject(text)
    BY DEF Re!Raw
<1>2. \/ g = <<>> /\ \A i, j \in 1..Len(text) : Fenced(text, i, j) => ~Filled(text, i + 1, j - 1)
      \/ /\ g # <<>>
         /\ \E i, j \in 1..Len(text) : \E a, b \in (i + 1)..(j - 1) :
               Fenced(text, i, j) /\ g = SubSeq(text, a, b) /\ Around(text, i, j, a, b)
    BY FencedIs
<1>. HIDE DEF g
<1>3. CASE g = <<>> /\ \A i, j \in 1..Len(text) : Fenced(text, i, j) => ~Filled(text, i + 1, j - 1)
  <2>1. ~InFence(text)
    BY <1>3 DEF InFence
  <2>2. Re!Raw(text) = Re!FirstObject(text)
    BY <1>1, <1>3
  <2>. QED
    BY <2>1, <2>2, FirstObjectFound
<1>4. CASE g # <<>> /\ FoundInFence(text, g)
  <2>1. PICK i \in 1..Len(text), j \in 1..Len(text) :
            \E a, b \in (i + 1)..(j - 1) : Fenced(text, i, j) /\ Around(text, i, j, a, b)
    BY <1>4 DEF FoundInFence
  <2>2. Fenced(text, i, j) /\ Filled(text, i + 1, j - 1)
    <3>1. PICK a \in (i + 1)..(j - 1) : Fenced(text, i, j) /\ Filled(text, a, a)
      BY <2>1 DEF Around
    <3>2. PICK k \in a..a : text[k] # Re!Space
      BY <3>1 DEF Filled
    <3>3. k \in (i + 1)..(j - 1)
      OBVIOUS
    <3>. QED
      BY <3>1, <3>2, <3>3 DEF Filled
  <2>3. InFence(text)
    BY <2>2 DEF InFence
  <2>4. Re!Raw(text) = g
    BY <1>1, <1>4
  <2>. QED
    BY <1>4, <2>3, <2>4
<1>. QED
    BY <1>2, <1>3, <1>4 DEF FoundInFence

\* What is asked about replies.
LEMMA ReplyAsked ==
    ASSUME AskInv, asked.fn = "reply", answer # Nothing
    PROVE  asked.text \in ReplyTexts /\ answer.text = Re!Raw(asked.text)
    BY DEF AskInv, Answered

\* Whatever a model replies, and however long, the text that is handed to the JSON
\* parser is what stands between the first fence marked json and the next one, if
\* that is any, and else the object of the grammar that starts at the first brace.
THEOREM RepliesAlwaysFound == AskSpec => []ReplyIsFound
<1>1. AskInv => ReplyIsFound
  <2>. SUFFICES ASSUME AskInv, asked.fn = "reply", answer # Nothing PROVE ReplyIsFound
    BY DEF ReplyIsFound
  <2>. DEFINE text == asked.text
  <2>1. text \in Seq(STRING) /\ answer.text = Re!Raw(text)
    BY ReplyAsked, RepliesType
  <2>2. PICK U : U = STRING
    OBVIOUS
  <2>. HIDE DEF text
  <2>3. text \in Seq(U)
    BY <2>1, <2>2
  <2>4. DOMAIN text = 1..Len(text)
    BY <2>3
  <2>5. IF InFence(text) THEN FoundInFence(text, answer.text) ELSE FoundInBraces(text, answer.text)
    BY <2>1, <2>3, RawFound
  <2>6. CASE InFence(text)
    <3>1. FoundInFence(text, answer.text)
      BY <2>5, <2>6
    <3>. QED
      BY <2>4, <2>6, <3>1 DEF ReplyIsFound, text, InFence, FoundInFence, Fenced, FirstChar, Filled, Around
  <2>7. CASE ~InFence(text)
    <3>1. FoundInBraces(text, answer.text)
      BY <2>5, <2>7
    <3>. QED
      BY <2>4, <2>7, <3>1 DEF ReplyIsFound, text, InFence, FoundInBraces, Fenced, FirstChar, Filled
  <2>. QED
    BY <2>6, <2>7
<1>. QED
    BY <1>1, AskInvAlways, PTL
=============================================================================
