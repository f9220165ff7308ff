------------------------------ MODULE LineDiff ------------------------------
(***************************************************************************)
(* What the inbox shows between two runs of an agent: the lines of the old  *)
(* and the new text aligned, changed lines paired and their words aligned,  *)
(* and unchanged lines far from a change left out.                          *)
(***************************************************************************)
EXTENDS Integers, Sequences, FiniteSets, FiniteSetsExt

CONSTANTS Lines,     \* the lines of texts
          Blank,     \* the line of no characters; the empty text is it alone
          Words,     \* the words of each line
          Texts,     \* the texts compared: sequences of lines
          Context    \* unchanged lines shown beside a change

ASSUME TextsType == Blank \in Lines /\ \A t \in Texts : t \in Seq(Lines) /\ t # <<>>
ASSUME WordsType ==
    /\ DOMAIN Words = Lines /\ Words[Blank] = <<>>
    /\ \A l \in Lines : Words[l] \in Seq({Words[l][t] : t \in DOMAIN Words[l]})
ASSUME ContextType == Context \in Nat

VARIABLES
    old, new,   \* the texts
    stage,      \* what has been done with them
    ops         \* the lines of the diff

diffVars == <<old, new, stage, ops>>

Empty == <<Blank>>

\* A line of the diff points to the lines of the texts it stands for; html holds
\* the words of a changed line that has been refined, each kept or changed.
Op(kind, i, j) == [kind |-> kind, old |-> i, new |-> j, html |-> <<>>]
SameOp(i, j) == Op("same", i, j)

Gap == Op("gap", 0, 0)

DiffInit ==
    /\ old \in Texts /\ new \in Texts
    /\ stage = "read" /\ ops = <<>>

-----------------------------------------------------------------------------

\* The elements of a sequence at the positions in S, in their order.
Select(s, S) ==
    LET upto[k \in 0..Len(s)] ==
            IF k = 0 THEN <<>> ELSE IF k \in S THEN Append(upto[k - 1], s[k]) ELSE upto[k - 1]
    IN  upto[Len(s)]

-----------------------------------------------------------------------------
\* Alignment: lcsDiff of lines, tokenLCS of words.

\* Where the loops over a and b may be, past the ends included.
Corners(a, b) == (1..Len(a) + 1) \X (1..Len(b) + 1)

\* The table dp: how much a from i and b from j have in common.
InCommon(a, b) ==
    LET dp[c \in Corners(a, b)] ==
            LET i == c[1]
                j == c[2]
            IN  IF i > Len(a) \/ j > Len(b) THEN 0
                ELSE IF a[i] = b[j] THEN dp[<<i + 1, j + 1>>] + 1
                ELSE IF dp[<<i + 1, j>>] >= dp[<<i, j + 1>>] THEN dp[<<i + 1, j>>]
                ELSE dp[<<i, j + 1>>]
    IN  dp

\* Mutant: the walk takes the other side of the table.
WalkWorse(a, b) ==
    LET dp == InCommon(a, b)
        walk[c \in Corners(a, b)] ==
            LET i == c[1]
                j == c[2]
            IN  IF i <= Len(a) /\ j <= Len(b) /\ a[i] = b[j] THEN <<SameOp(i, j)>> \o walk[<<i + 1, j + 1>>]
                ELSE IF i <= Len(a) /\ (j > Len(b) \/ dp[<<i + 1, j>>] < dp[<<i, j + 1>>])
                     THEN <<Op("del", i, 0)>> \o walk[<<i + 1, j>>]
                ELSE IF j <= Len(b) THEN <<Op("add", 0, j)>> \o walk[<<i, j + 1>>]
                ELSE <<>>
    IN  walk

\* The walk through the table: a common element, else a deletion where that
\* loses nothing, else an addition.
Walk(a, b) ==
    LET dp == InCommon(a, b)
        walk[c \in Corners(a, b)] ==
            LET i == c[1]
                j == c[2]
            IN  IF i <= Len(a) /\ j <= Len(b) /\ a[i] = b[j] THEN <<SameOp(i, j)>> \o walk[<<i + 1, j + 1>>]
                ELSE IF i <= Len(a) /\ (j > Len(b) \/ dp[<<i + 1, j>>] >= dp[<<i, j + 1>>])
                     THEN <<Op("del", i, 0)>> \o walk[<<i + 1, j>>]
                ELSE IF j <= Len(b) THEN <<Op("add", 0, j)>> \o walk[<<i, j + 1>>]
                ELSE <<>>
    IN  walk

Align(a, b) == Walk(a, b)[<<1, 1>>]

-----------------------------------------------------------------------------
\* Pairs of changed lines.

\* At least 0.35 of the larger set of words is common.
Similar(a, b) ==
    LET A == {Words[a][t] : t \in DOMAIN Words[a]}
        B == {Words[b][t] : t \in DOMAIN Words[b]}
    IN  \/ A = {} /\ B = {}
        \/ /\ A # {} /\ B # {}
           /\ 100 * Cardinality(A \cap B) >= 35 * Max({Cardinality(A), Cardinality(B)})

\* Both lines again, word by word.
RefinedPair(d, a) ==
    LET from == Words[old[d.old]]
        to == Words[new[a.new]]
        tokens == Align(from, to)
        dels == Select(tokens, {t \in DOMAIN tokens : tokens[t].kind # "add"})
        adds == Select(tokens, {t \in DOMAIN tokens : tokens[t].kind # "del"})
    IN  <<[d EXCEPT !.html = [t \in DOMAIN dels |-> [word |-> from[dels[t].old], kept |-> dels[t].kind = "same"]]],
          [a EXCEPT !.html = [t \in DOMAIN adds |-> [word |-> to[adds[t].new], kept |-> adds[t].kind = "same"]]]>>

Pair(d, a) == IF Similar(old[d.old], new[a.new]) THEN RefinedPair(d, a) ELSE <<d, a>>

\* The first n of two runs of lines, a pair after the other.
Pairs(n, dels, adds) ==
    LET pairs == [p \in 1..n |-> Pair(dels[p], adds[p])]
    IN  [q \in 1..2 * n |-> pairs[(q + 1) \div 2][2 - (q % 2)]]

\* Mutant: additions beyond the last pair are lost.
PairedShort(dels, adds) ==
    LET n == Min({Len(dels), Len(adds)}) IN Pairs(n, dels, adds) \o SubSeq(dels, n + 1, Len(dels))

\* A run of deletions and the run of additions after it, paired by position.
Paired(dels, adds) ==
    LET n == Min({Len(dels), Len(adds)})
    IN  Pairs(n, dels, adds) \o SubSeq(dels, n + 1, Len(dels)) \o SubSeq(adds, n + 1, Len(adds))

\* The first position from i on whose line is not of the kind, past the end if none.
EndOfRun(s, i, kind) == Min({Len(s) + 1} \cup {k \in i..Len(s) : s[k].kind # kind})

\* What becomes of the lines from each position on.
RefinedFrom(s) ==
    LET from[i \in 1..Len(s) + 1] ==
            IF i > Len(s) THEN <<>>
            ELSE IF s[i].kind # "del" THEN <<s[i]>> \o from[i + 1]
            ELSE LET j == EndOfRun(s, i, "del")
                     k == EndOfRun(s, j, "add")
                 IN  Paired(SubSeq(s, i, j - 1), SubSeq(s, j, k - 1)) \o from[k]
    IN  from

PairAndRefine(s) == RefinedFrom(s)[1]

-----------------------------------------------------------------------------
\* Clipping.

Kept(s) == {k \in DOMAIN s : \E i \in DOMAIN s : s[i].kind # "same" /\ k \in (i - Context)..(i + Context)}

\* One gap for every stretch that is not kept.
ClipContext(s) ==
    LET kept == Kept(s)
        shown == {k \in DOMAIN s : k \in kept \/ k = 1 \/ k - 1 \in kept}
    IN  Select([k \in DOMAIN s |-> IF k \in kept THEN s[k] ELSE Gap], shown)

-----------------------------------------------------------------------------

AllLines(text, kind) ==
    [k \in DOMAIN text |-> IF kind = "add" THEN Op("add", 0, k) ELSE Op("del", k, 0)]

\* Nothing to compare, or nothing to compare with.
Shortcut ==
    /\ stage = "read" /\ stage' = "shown"
    /\ \/ old = new /\ ops' = <<>>
       \/ old = Empty /\ new # Empty /\ ops' = AllLines(new, "add")
       \/ old # Empty /\ new = Empty /\ ops' = AllLines(old, "del")
    /\ UNCHANGED <<old, new>>

AlignLines ==
    /\ stage = "read" /\ old # new /\ Empty \notin {old, new}
    /\ stage' = "aligned" /\ ops' = Align(old, new)
    /\ UNCHANGED <<old, new>>

Refine ==
    /\ stage = "aligned" /\ stage' = "refined"
    /\ ops' = PairAndRefine(ops)
    /\ UNCHANGED <<old, new>>

Clip ==
    /\ stage = "refined" /\ stage' = "shown"
    /\ ops' = ClipContext(ops)
    /\ UNCHANGED <<old, new>>

DiffNext == Shortcut \/ AlignLines \/ Refine \/ Clip

DiffSpec == DiffInit /\ [][DiffNext]_diffVars

-----------------------------------------------------------------------------

\* The lines of a text that the diff has, in its order.
OldSide(s) == LET t == Select(s, {k \in DOMAIN s : s[k].old # 0}) IN [k \in DOMAIN t |-> t[k].old]
NewSide(s) == LET t == Select(s, {k \in DOMAIN s : s[k].new # 0}) IN [k \in DOMAIN t |-> t[k].new]
Ascending(s) == \A m, n \in DOMAIN s : m < n => s[m] < s[n]
\* The empty text has no line when it is compared with another.
Places(text) == IF text = Empty THEN {} ELSE DOMAIN text
\* What the diff leaves out of a text, given the lines of it that it has.
Hidden(text, side) == Select(text, Places(text) \ {side[k] : k \in DOMAIN side})
Count(s, kind) == Len(Select(s, {k \in DOMAIN s : s[k].kind = kind}))

\* What is shown around a gap: Context unchanged lines on either side of it, or
\* the end of the text, and never another gap.
GapsKeepContext ==
    \A k \in DOMAIN ops : ops[k].kind = "gap" =>
        /\ \A n \in DOMAIN ops \ {k} : n \in (k - Context)..(k + Context) => ops[n].kind = "same"
        /\ k > 1 => k > Context
        /\ k < Len(ops) => k + Context <= Len(ops)

\* Leaving out the additions gives the old text, and leaving out the deletions
\* the new one: no line is lost, doubled or out of place in pairing runs of
\* different lengths; a gap hides only lines that are the same in both, and the
\* context of no change (diff.go:85-90, 96-124, 169-174).
SidesAreWhole ==
    /\ stage \in {"aligned", "refined"} =>
        OldSide(ops) = [k \in DOMAIN old |-> k] /\ NewSide(ops) = [k \in DOMAIN new |-> k]
    /\ \A k \in DOMAIN ops : ops[k].kind = "same" => old[ops[k].old] = new[ops[k].new]
    /\ stage = "shown" /\ old # new =>
        /\ Ascending(OldSide(ops)) /\ Ascending(NewSide(ops))
        /\ Hidden(old, OldSide(ops)) = Hidden(new, NewSide(ops))
        /\ GapsKeepContext

\* The length of the longest common subsequence, by its definition.
Subsequences(s) == {Select(s, S) : S \in SUBSET DOMAIN s}
Longest(a, b) == Max({Len(s) : s \in Subsequences(a) \cap Subsequences(b)})

\* A refined pair keeps all its words, agrees on those that are not marked,
\* marks no more of them than it must, and is never marked throughout: what is
\* similar enough to be refined has a word in common.
KeptWords(op) == Select(op.html, {t \in DOMAIN op.html : op.html[t].kept})
PairsAgree ==
    \A k \in DOMAIN ops : ops[k].kind = "del" /\ ops[k].html # <<>> =>
        LET d == ops[k]
            a == ops[k + 1]
        IN  /\ [t \in DOMAIN d.html |-> d.html[t].word] = Words[old[d.old]]
            /\ [t \in DOMAIN a.html |-> a.html[t].word] = Words[new[a.new]]
            /\ KeptWords(d) = KeptWords(a) /\ KeptWords(d) # <<>>
            /\ Len(KeptWords(d)) = Longest(Words[old[d.old]], Words[new[a.new]])

\* As many lines as can be are shown as unchanged, and in a line shown as changed
\* as many words: the walk never gives up a common one for nothing, and two lines
\* are refined only if that leaves something unmarked (diff.go:58-84, 159-164,
\* 216-249).
NothingNeedless ==
    /\ stage \in {"aligned", "refined"} => Count(ops, "same") = Longest(old, new)
    /\ stage = "refined" => PairsAgree
=============================================================================
