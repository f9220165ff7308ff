----------------------------- MODULE BoardProofs -----------------------------
(***************************************************************************)
(* Machine-checked proofs about Board, for any replies, ids and bounds.     *)
(***************************************************************************)
EXTENDS Board, TLAPS

-----------------------------------------------------------------------------
\* The inductive invariant.

\* Who stores a reply has one, and a reply once given stays.
Replied ==
    /\ \A c \in Clusterers :
        /\ clusterer[c] \in {"new", "asked"} => reply[c] = None
        /\ clusterer[c] \in {"answered", "storing"} => reply[c] \in Replies
    /\ writer # None => clusterer[writer] = "storing"

\* A label of a reply that has been given.
Real(label) == reply[label.by] \in Replies /\ label.position \in DOMAIN reply[label.by].clusters

\* Every cluster of some tables has such a label, and the ideas in it are named there.
Placed(data) ==
    /\ \A id \in DOMAIN data.clusters : Real(data.clusters[id])
    /\ \A m \in data.members : m[2] \in Named(data.clusters[m[1]])

\* Members go into the cluster inserted last.
InPlace ==
    /\ cursor.k > 0 /\ cursor.m > 0
    /\ At("members") =>
        /\ work.next - 1 \in DOMAIN work.clusters
        /\ work.clusters[work.next - 1] = [by |-> writer, position |-> cursor.k]
        /\ cursor.k \in DOMAIN reply[writer].clusters

\* The ids of a transaction that are not new are those it found.
Grown ==
    ~Free =>
        /\ work.next >= stored.next
        /\ \A id \in DOMAIN work.clusters : id < stored.next =>
            id \in DOMAIN stored.clusters /\ work.clusters[id] = stored.clusters[id]

\* Every member inserted is remembered as assigned.
Remembered ==
    At("clusters") \/ At("members") => \A m \in work.members : m[2] \in assigned

\* What pages have read of ideas agrees with the clusters there are, and what
\* they have read of clusters has labels.
Shown ==
    \A b \in Boards :
        /\ \A id \in DOMAIN board[b].clusters : Real(board[b].clusters[id])
        /\ \A x \in board[b].ideas :
            x[2] \in DOMAIN stored.clusters => x[1] \in Named(stored.clusters[x[2]])

IInv ==
    /\ TypeOK /\ Replied /\ Placed(stored) /\ Placed(work) /\ InPlace /\ Grown /\ Remembered /\ Shown
    /\ NoForeignCluster

-----------------------------------------------------------------------------
\* Steps, by what they leave alone.

\* A reply that has been given is not replaced.
LEMMA ReplyKept ==
    ASSUME TypeOK, Replied, [Next]_vars, NEW c \in Clusterers, reply[c] \in Replies
    PROVE  reply'[c] = reply[c]
<1>1. CASE \E d \in Clusterers : Answer(d)
  <2>1. PICK d \in Clusterers : Answer(d)
    BY <1>1
  <2>2. reply[d] = None /\ None \notin Replies
    BY <2>1, NoneType DEF Replied, Answer
  <2>3. d # c
    BY <2>2
  <2>. QED
    BY <2>1, <2>3 DEF Answer, TypeOK
<1>2. CASE ~\E d \in Clusterers : Answer(d)
  <2>1. reply' = reply
    BY <1>2 DEF Next, Clustering, Statement, Reading, CreateIdea, Ask, NoAnswer, Begin, Fails, Wipe,
        InsertCluster, InsertMember, NextCluster, LinksNext, InsertLink, Commit, ReadIdeas, ReadClusters,
        ReadLinks, Inside, Outside, requests, vars
  <2>. QED
    BY <2>1
<1>. QED
    BY <1>1, <1>2

\* So labels stay real and go on naming the same ideas.
LEMMA LabelsKept ==
    ASSUME TypeOK, Replied, [Next]_vars, NEW label \in Labels, Real(label)
    PROVE  Real(label)' /\ Named(label)' = Named(label)
<1>1. label.by \in Clusterers
    BY DEF Labels
<1>2. reply'[label.by] = reply[label.by]
    BY <1>1, ReplyKept DEF Real
<1>. QED
    BY <1>2 DEF Real, Named

\* Ideas are only added.
LEMMA IdeasGrow ==
    ASSUME TypeOK, [Next]_vars
    PROVE  ideas' \in 0..MaxIdeas /\ Existing \subseteq Existing'
<1>1. ideas' = ideas \/ CreateIdea
    BY DEF Next, Clustering, Statement, Reading, Ask, Answer, NoAnswer, Begin, Fails, Wipe,
        InsertCluster, InsertMember, NextCluster, LinksNext, InsertLink, Commit, ReadIdeas, ReadClusters,
        ReadLinks, Inside, Outside, vars
<1>2. ideas \in 0..MaxIdeas /\ MaxIdeas \in Nat
    BY IdsType DEF TypeOK
<1>3. ideas' \in 0..MaxIdeas /\ ideas <= ideas'
    BY <1>1, <1>2 DEF CreateIdea
<1>. QED
    BY <1>2, <1>3 DEF Existing

-----------------------------------------------------------------------------
\* Tables.

LEMMA NoDataType == ASSUME NEW n \in Nat \ {0} PROVE IsData(NoData(n))
    BY DEF IsData, NoData

\* One more cluster changes neither the others nor their members.
LEMMA ClusterAdded ==
    ASSUME NEW d, IsData(d), NEW label \in Labels
    PROVE  LET e == WithCluster(d, d.next, label)
           IN  /\ IsData(e)
               /\ e.next = d.next + 1 /\ e.members = d.members
               /\ DOMAIN e.clusters = DOMAIN d.clusters \cup {d.next}
               /\ e.clusters[d.next] = label
               /\ \A id \in DOMAIN d.clusters : e.clusters[id] = d.clusters[id]
<1>. DEFINE e == WithCluster(d, d.next, label)
            more == [i \in DOMAIN d.clusters \cup {d.next} |-> IF i = d.next THEN label ELSE d.clusters[i]]
<1>1. d = [clusters |-> d.clusters, members |-> d.members, links |-> d.links, next |-> d.next]
    BY DEF IsData
<1>2. e = [clusters |-> more, members |-> d.members, links |-> d.links, next |-> d.next + 1]
  <2>1. e = [d EXCEPT !.clusters = more, !.next = d.next + 1]
    BY DEF WithCluster
  <2>. HIDE DEF e, more
  <2>. QED
    BY <1>1, <2>1
<1>3. d.next \in Nat \ {0} /\ DOMAIN d.clusters \subseteq 1..(d.next - 1)
    BY DEF IsData
<1>4. d.next \notin DOMAIN d.clusters
    BY <1>3
<1>5. DOMAIN more \subseteq 1..(d.next + 1 - 1)
    BY <1>3
<1>6. \A id \in DOMAIN more : more[id] \in Labels
    BY DEF IsData
<1>7. d.members \subseteq (DOMAIN more) \X Existing
    BY DEF IsData
<1>8. IsData(e)
    BY <1>2, <1>3, <1>5, <1>6, <1>7 DEF IsData
<1>9. more[d.next] = label /\ \A id \in DOMAIN d.clusters : more[id] = d.clusters[id]
    BY <1>4
<1>10. e.next = d.next + 1 /\ e.members = d.members /\ e.clusters = more
    BY <1>2
<1>11. DOMAIN more = DOMAIN d.clusters \cup {d.next}
    OBVIOUS
<1>. HIDE DEF e, more
<1>. QED
    BY <1>8, <1>9, <1>10, <1>11 DEF e

LEMMA MemberAdded ==
    ASSUME NEW d, IsData(d), NEW id \in DOMAIN d.clusters, NEW i \in Existing
    PROVE  LET e == [d EXCEPT !.members = @ \cup {<<id, i>>}]
           IN  /\ IsData(e)
               /\ e.clusters = d.clusters /\ e.next = d.next
               /\ e.members = d.members \cup {<<id, i>>}
<1>. DEFINE e == [d EXCEPT !.members = @ \cup {<<id, i>>}]
<1>1. d = [clusters |-> d.clusters, members |-> d.members, links |-> d.links, next |-> d.next]
    BY DEF IsData
<1>2. e = [clusters |-> d.clusters, members |-> d.members \cup {<<id, i>>}, links |-> d.links, next |-> d.next]
    BY <1>1
<1>3. IsData(e)
    BY <1>2 DEF IsData
<1>. QED
    BY <1>2, <1>3

LEMMA LinkAdded ==
    ASSUME NEW d, IsData(d), NEW given \in Link,
           Normalised(given).a # Normalised(given).b,
           Normalised(given).a \in Existing, Normalised(given).b \in Existing
    PROVE  LET e == [d EXCEPT !.links = {m \in @ : ~SamePair(Normalised(given), m)} \cup {Normalised(given)}]
           IN  IsData(e) /\ e.clusters = d.clusters /\ e.members = d.members /\ e.next = d.next
<1>. DEFINE l == Normalised(given)
            e == [d EXCEPT !.links = {m \in @ : ~SamePair(l, m)} \cup {l}]
<1>1. d = [clusters |-> d.clusters, members |-> d.members, links |-> d.links, next |-> d.next]
    BY DEF IsData
<1>2. l \in Link /\ l.a < l.b
  <2>1. l \in Link
    BY DEF Normalised, Link
  <2>2. given.a \in Nat /\ given.b \in Nat
    BY IdsType DEF Link
  <2>3. CASE given.a > given.b
    <3>1. l.a = given.b /\ l.b = given.a
      BY <2>3 DEF Normalised, Link
    <3>. QED
      BY <2>1, <2>2, <2>3, <3>1
  <2>4. CASE ~(given.a > given.b)
    <3>1. l = given
      BY <2>4 DEF Normalised
    <3>. QED
      BY <2>1, <2>2, <2>4, <3>1
  <2>. QED
    BY <2>3, <2>4
<1>3. e = [clusters |-> d.clusters, members |-> d.members, next |-> d.next,
           links |-> {m \in d.links : ~SamePair(l, m)} \cup {l}]
    BY <1>1
<1>4. IsData(e)
    BY <1>2, <1>3 DEF IsData
<1>. QED
    BY <1>3, <1>4

-----------------------------------------------------------------------------
\* Which steps change what.

LEMMA WorkChanges ==
    ASSUME [Next]_vars
    PROVE  \/ UNCHANGED work
           \/ \E c \in Clusterers : Begin(c)
           \/ Wipe \/ InsertCluster \/ InsertMember \/ InsertLink
    BY DEF Next, Clustering, Statement, Reading, CreateIdea, Ask, Answer, NoAnswer, Fails, NextCluster,
        LinksNext, Commit, ReadIdeas, ReadClusters, ReadLinks, Outside, transaction, vars

LEMMA CursorChanges ==
    ASSUME [Next]_vars
    PROVE  \/ UNCHANGED cursor
           \/ \E c \in Clusterers : Begin(c)
           \/ Wipe \/ InsertCluster \/ InsertMember \/ NextCluster \/ LinksNext \/ InsertLink
    BY DEF Next, Clustering, Statement, Reading, CreateIdea, Ask, Answer, NoAnswer, Fails, Commit,
        ReadIdeas, ReadClusters, ReadLinks, Outside, transaction, vars

LEMMA StoredChanges ==
    ASSUME [Next]_vars PROVE UNCHANGED stored \/ Commit
    BY DEF Next, Clustering, Statement, Reading, CreateIdea, Ask, Answer, NoAnswer, Begin, Fails, Wipe,
        InsertCluster, InsertMember, NextCluster, LinksNext, InsertLink, ReadIdeas, ReadClusters, ReadLinks,
        Inside, Outside, vars

LEMMA BoardChanges ==
    ASSUME [Next]_vars PROVE UNCHANGED board \/ \E b \in Boards : Reading(b)
    BY DEF Next, Clustering, Statement, CreateIdea, Ask, Answer, NoAnswer, Begin, Fails, Wipe,
        InsertCluster, InsertMember, NextCluster, LinksNext, InsertLink, Commit, Inside, vars

\* The reply being stored has the form that was asked for.
LEMMA ReplyType ==
    ASSUME TypeOK, Replied, ~Free
    PROVE  /\ writer \in Clusterers /\ reply[writer] \in Replies
           /\ reply[writer].clusters \in Seq(Seq(Ids))
           /\ reply[writer].links \in Seq(Link)
<1>1. writer \in Clusterers /\ clusterer[writer] = "storing"
    BY DEF TypeOK, Replied, Free
<1>2. reply[writer] \in Replies
    BY <1>1 DEF Replied
<1>. QED
    BY <1>1, <1>2, RepliesType DEF Link

LEMMA WorkType ==
    ASSUME TypeOK, Replied, InPlace, [Next]_vars
    PROVE  IsData(work)'
<1>. USE DEF At
<1>1. IsData(work) /\ IsData(stored) /\ valid \subseteq Existing
    BY DEF TypeOK
<1>2. CASE UNCHANGED work
    BY <1>1, <1>2, IdeasGrow DEF IsData
<1>3. ASSUME NEW c \in Clusterers, Begin(c) PROVE IsData(work)'
  <2>1. work' = stored /\ ideas' = ideas
    BY <1>3 DEF Begin
  <2>. QED
    BY <1>1, <2>1 DEF IsData, Existing
<1>4. CASE Wipe
  <2>1. work.next \in Nat \ {0}
    BY <1>1 DEF IsData
  <2>2. IsData(NoData(work.next)) /\ work' = NoData(work.next) /\ ideas' = ideas
    BY <1>4, <2>1, NoDataType DEF Wipe, Inside
  <2>. QED
    BY <2>2 DEF IsData, Existing
<1>5. CASE InsertCluster
  <2>1. cursor.k \in Nat
    BY DEF TypeOK
  <2>2. [by |-> writer, position |-> cursor.k] \in Labels
    BY <1>5, <2>1, ReplyType DEF InsertCluster, Labels
  <2>3. work' = WithCluster(work, work.next, [by |-> writer, position |-> cursor.k]) /\ ideas' = ideas
    BY <1>5 DEF InsertCluster, Inside
  <2>4. IsData(WithCluster(work, work.next, [by |-> writer, position |-> cursor.k]))
    BY <1>1, <2>2, ClusterAdded
  <2>. QED
    BY <2>3, <2>4 DEF IsData, Existing
<1>6. CASE InsertMember
  <2>. DEFINE i == reply[writer].clusters[cursor.k][cursor.m]
  <2>1. CASE UNCHANGED work
    BY <1>1, <2>1, IdeasGrow DEF IsData
  <2>2. CASE ~Skipped(i) /\ work' = [work EXCEPT !.members = @ \cup {<<work.next - 1, i>>}]
    <3>1. i \in Existing /\ work.next - 1 \in DOMAIN work.clusters
      BY <1>1, <1>6, <2>2 DEF Skipped, InsertMember, InPlace
    <3>2. IsData([work EXCEPT !.members = @ \cup {<<work.next - 1, i>>}]) /\ ideas' = ideas
      BY <1>1, <1>6, <3>1, MemberAdded DEF InsertMember, Inside
    <3>. QED
      BY <2>2, <3>2 DEF IsData, Existing
  <2>. QED
    BY <1>6, <2>1, <2>2 DEF InsertMember
<1>7. CASE InsertLink
  <2>. DEFINE given == reply[writer].links[cursor.k]
              l == Normalised(given)
  <2>1. CASE UNCHANGED work
    BY <1>1, <2>1, IdeasGrow DEF IsData
  <2>2. CASE /\ l.a # l.b /\ l.a \in valid /\ l.b \in valid
             /\ work' = [work EXCEPT !.links = {m \in @ : ~SamePair(l, m)} \cup {l}]
    <3>1. given \in Link
      <4>1. cursor.k \in Nat /\ cursor.k > 0 /\ cursor.k <= Len(reply[writer].links)
        BY <1>7 DEF InsertLink, TypeOK, InPlace
      <4>. QED
        BY <1>7, <4>1, ReplyType DEF InsertLink
    <3>2. IsData([work EXCEPT !.links = {m \in @ : ~SamePair(l, m)} \cup {l}]) /\ ideas' = ideas
      BY <1>1, <1>7, <2>2, <3>1, LinkAdded DEF InsertLink, Inside
    <3>. HIDE DEF l
    <3>. QED
      BY <2>2, <3>2 DEF IsData, Existing
  <2>. QED
    BY <1>7, <2>1, <2>2 DEF InsertLink
<1>. QED
    BY <1>2, <1>3, <1>4, <1>5, <1>6, <1>7, WorkChanges

-----------------------------------------------------------------------------
\* Types.

LEMMA CursorType ==
    ASSUME TypeOK, [Next]_vars
    PROVE  cursor' \in [at : {"wipe", "clusters", "members", "links"}, k : Nat, m : Nat]
<1>. DEFINE C == [at : {"wipe", "clusters", "members", "links"}, k : Nat, m : Nat]
<1>1. cursor \in C
    BY DEF TypeOK
<1>2. \/ UNCHANGED cursor
      \/ \E c \in Clusterers : Begin(c)
      \/ Wipe \/ InsertCluster \/ InsertMember \/ NextCluster \/ LinksNext \/ InsertLink
    BY CursorChanges
<1>3. ASSUME NEW c \in Clusterers, Begin(c) PROVE cursor' \in C
    BY <1>3 DEF Begin, Start
<1>4. CASE Wipe
    BY <1>1, <1>4 DEF Wipe
<1>5. CASE InsertCluster
  <2>1. [cursor EXCEPT !.at = "members"] \in C
    BY <1>1
  <2>2. cursor' = [[cursor EXCEPT !.at = "members"] EXCEPT !.m = 1]
    BY <1>1, <1>5 DEF InsertCluster
  <2>. QED
    BY <2>1, <2>2
<1>6. CASE InsertMember
    BY <1>1, <1>6 DEF InsertMember
<1>7. CASE NextCluster
  <2>1. [cursor EXCEPT !.at = "clusters"] \in C /\ cursor.k + 1 \in Nat
    BY <1>1
  <2>2. cursor' = [[cursor EXCEPT !.at = "clusters"] EXCEPT !.k = cursor.k + 1]
    BY <1>1, <1>7 DEF NextCluster
  <2>. QED
    BY <2>1, <2>2
<1>8. CASE LinksNext
    BY <1>1, <1>8 DEF LinksNext
<1>9. CASE InsertLink
    BY <1>1, <1>9 DEF InsertLink
<1>. QED
    BY <1>1, <1>2, <1>3, <1>4, <1>5, <1>6, <1>7, <1>8, <1>9

LEMMA RequestsType ==
    ASSUME TypeOK, [Next]_vars
    PROVE  /\ writer' \in Clusterers \cup {None}
           /\ clusterer' \in [Clusterers -> {"new", "asked", "answered", "storing", "stored", "failed"}]
           /\ reply' \in [Clusterers -> Replies \cup {None}]
<1>1. /\ writer \in Clusterers \cup {None}
      /\ clusterer \in [Clusterers -> {"new", "asked", "answered", "storing", "stored", "failed"}]
      /\ reply \in [Clusterers -> Replies \cup {None}]
    BY DEF TypeOK
<1>2. writer' = writer \/ writer' = None \/ \E c \in Clusterers : writer' = c
    BY DEF Next, Clustering, Statement, Reading, CreateIdea, Ask, Answer, NoAnswer, Begin, Fails, Wipe,
        InsertCluster, InsertMember, NextCluster, LinksNext, InsertLink, Commit, ReadIdeas, ReadClusters,
        ReadLinks, Inside, Outside, transaction, vars
<1>3. \/ UNCHANGED clusterer
      \/ \E c \in Clusterers, s \in {"new", "asked", "answered", "storing", "stored", "failed"} :
            clusterer' = [clusterer EXCEPT ![c] = s]
      \/ Commit
    BY DEF Next, Clustering, Statement, Reading, CreateIdea, Ask, Answer, NoAnswer, Begin, Fails, Wipe,
        InsertCluster, InsertMember, NextCluster, LinksNext, InsertLink, ReadIdeas, ReadClusters,
        ReadLinks, Inside, Outside, requests, vars
<1>4. UNCHANGED reply \/ \E c \in Clusterers, r \in Replies : reply' = [reply EXCEPT ![c] = r]
    BY DEF Next, Clustering, Statement, Reading, CreateIdea, Ask, Answer, NoAnswer, Begin, Fails, Wipe,
        InsertCluster, InsertMember, NextCluster, LinksNext, InsertLink, Commit, ReadIdeas, ReadClusters,
        ReadLinks, Inside, Outside, requests, vars
<1>5. clusterer' \in [Clusterers -> {"new", "asked", "answered", "storing", "stored", "failed"}]
    BY <1>1, <1>3 DEF Commit
<1>6. reply' \in [Clusterers -> Replies \cup {None}]
    BY <1>1, <1>4
<1>. QED
    BY <1>1, <1>2, <1>5, <1>6

LEMMA AssignedType ==
    ASSUME TypeOK, [Next]_vars
    PROVE  valid' \subseteq Existing' /\ assigned' \subseteq Existing'
<1>1. valid \subseteq Existing /\ assigned \subseteq Existing /\ Existing \subseteq Existing'
    BY IdeasGrow DEF TypeOK
<1>2. (valid' = valid \/ valid' = Existing) /\ \A i \in assigned' : i \in assigned \/ i \in valid
    BY DEF Next, Clustering, Statement, Reading, CreateIdea, Ask, Answer, NoAnswer, Begin, Fails, Wipe,
        InsertCluster, InsertMember, NextCluster, LinksNext, InsertLink, Commit, ReadIdeas, ReadClusters,
        ReadLinks, Outside, transaction, vars, Skipped
<1>. QED
    BY <1>1, <1>2

LEMMA VersionType ==
    ASSUME TypeOK, [Next]_vars PROVE version' \in Nat
<1>1. version \in Nat
    BY DEF TypeOK
<1>2. version' = version \/ version' = version + 1
    BY DEF Next, Clustering, Statement, Reading, CreateIdea, Ask, Answer, NoAnswer, Begin, Fails, Wipe,
        InsertCluster, InsertMember, NextCluster, LinksNext, InsertLink, Commit, ReadIdeas, ReadClusters,
        ReadLinks, Inside, Outside, history, vars
<1>. QED
    BY <1>1, <1>2

\* No transaction gives an id back.
LEMMA NextGrows ==
    ASSUME TypeOK, Grown, [Next]_vars PROVE stored'.next >= stored.next
<1>1. stored.next \in Nat
    BY DEF TypeOK, IsData
<1>2. CASE Commit
    BY <1>2 DEF Commit, Grown, At, Free
<1>. QED
    BY <1>1, <1>2, StoredChanges

LEMMA BoardType ==
    ASSUME TypeOK, Grown, [Next]_vars
    PROVE  /\ DOMAIN board' = Boards
           /\ \A b \in Boards :
                /\ board'[b].at \in {"ideas", "clusters", "links", "shown"}
                /\ \A x \in board'[b].ideas : x[1] \in Existing' /\ x[2] \in 0..(stored'.next - 1)
                /\ \A id \in DOMAIN board'[b].clusters : board'[b].clusters[id] \in Labels
<1>1. Existing \subseteq Existing' /\ stored.next \in Nat /\ stored'.next >= stored.next
    BY IdeasGrow, NextGrows DEF TypeOK, IsData
<1>2. stored'.next \in Nat
    BY <1>1, StoredChanges DEF Commit, TypeOK, IsData
<1>3. CASE UNCHANGED board
    BY <1>1, <1>2, <1>3 DEF TypeOK
<1>4. ASSUME NEW b \in Boards, Reading(b)
      PROVE  /\ DOMAIN board' = Boards
             /\ \A c \in Boards : c # b => board'[c] = board[c]
             /\ board'[b].at \in {"clusters", "links", "shown"}
             /\ board'[b].ideas \in {{}, BoardIdeas, board[b].ideas}
             /\ board'[b].clusters \in {<<>>, stored.clusters, board[b].clusters}
    BY <1>4 DEF Reading, ReadIdeas, ReadClusters, ReadLinks, Page, TypeOK
<1>5. \A x \in BoardIdeas : x[1] \in Existing /\ x[2] \in 0..(stored.next - 1)
  <2>1. DOMAIN stored.clusters \subseteq 1..(stored.next - 1) /\ stored.next \in Nat \ {0}
    BY DEF TypeOK, IsData
  <2>. QED
    BY <2>1 DEF BoardIdeas
<1>6. /\ \A id \in DOMAIN stored.clusters : stored.clusters[id] \in Labels
      /\ \A id \in DOMAIN <<>> : <<>>[id] \in Labels
    BY DEF TypeOK, IsData
<1>7. ASSUME NEW b \in Boards, Reading(b), NEW c \in Boards
      PROVE  /\ board'[c].at \in {"ideas", "clusters", "links", "shown"}
             /\ \A x \in board'[c].ideas : x[1] \in Existing' /\ x[2] \in 0..(stored'.next - 1)
             /\ \A id \in DOMAIN board'[c].clusters : board'[c].clusters[id] \in Labels
  <2>1. /\ board[c].at \in {"ideas", "clusters", "links", "shown"}
        /\ \A x \in board[c].ideas : x[1] \in Existing /\ x[2] \in 0..(stored.next - 1)
        /\ \A id \in DOMAIN board[c].clusters : board[c].clusters[id] \in Labels
    BY DEF TypeOK
  <2>2. board'[c].at \in {"ideas", "clusters", "links", "shown"}
    BY <1>4, <1>7, <2>1
  <2>3. \A x \in board'[c].ideas : x[1] \in Existing /\ x[2] \in 0..(stored.next - 1)
    BY <1>4, <1>5, <1>7, <2>1
  <2>4. \A id \in DOMAIN board'[c].clusters : board'[c].clusters[id] \in Labels
    BY <1>4, <1>6, <1>7, <2>1
  <2>. QED
    BY <1>1, <1>2, <2>2, <2>3, <2>4
<1>. QED
    BY <1>3, <1>4, <1>7, BoardChanges

LEMMA TypeStep ==
    ASSUME TypeOK, Replied, InPlace, Grown, [Next]_vars PROVE TypeOK'
<1>1. IsData(stored)'
  <2>1. IsData(stored) /\ IsData(work)
    BY DEF TypeOK
  <2>2. CASE UNCHANGED stored
    BY <2>1, <2>2, IdeasGrow DEF IsData
  <2>3. CASE Commit
    BY <2>1, <2>3, IdeasGrow DEF Commit, IsData
  <2>. QED
    BY <2>2, <2>3, StoredChanges
<1>. QED
    BY <1>1, IdeasGrow, WorkType, CursorType, RequestsType, AssignedType, VersionType, BoardType DEF TypeOK

-----------------------------------------------------------------------------
\* The other parts of the invariant, each across a step.

LEMMA RepliedStep ==
    ASSUME TypeOK, Replied, [Next]_vars PROVE Replied'
<1>. USE DEF Replied
<1>1. /\ clusterer \in [Clusterers -> {"new", "asked", "answered", "storing", "stored", "failed"}]
      /\ reply \in [Clusterers -> Replies \cup {None}]
      /\ writer \in Clusterers \cup {None}
    BY DEF TypeOK
<1>2. ASSUME NEW c \in Clusterers, Ask(c) PROVE Replied'
    BY <1>1, <1>2 DEF Ask, transaction
<1>3. ASSUME NEW c \in Clusterers, Answer(c) PROVE Replied'
    BY <1>1, <1>3 DEF Answer, transaction
<1>4. ASSUME NEW c \in Clusterers, NoAnswer(c) PROVE Replied'
    BY <1>1, <1>4 DEF NoAnswer, transaction
<1>5. ASSUME NEW c \in Clusterers, Begin(c) PROVE Replied'
    BY <1>1, <1>5 DEF Begin
<1>6. ASSUME NEW c \in Clusterers, Fails(c) PROVE Replied'
    BY <1>1, <1>6, NoneType DEF Fails
<1>7. CASE Commit
    BY <1>1, <1>7, NoneType DEF Commit, At, Free
<1>8. CASE UNCHANGED <<writer, clusterer, reply>>
    BY <1>8
<1>9. \/ \E c \in Clusterers : Clustering(c)
      \/ Commit
      \/ UNCHANGED <<writer, clusterer, reply>>
    BY DEF Next, Statement, Reading, CreateIdea, Wipe, InsertCluster, InsertMember, NextCluster, LinksNext,
        InsertLink, ReadIdeas, ReadClusters, ReadLinks, Inside, Outside, transaction, requests, vars
<1>. QED
    BY <1>2, <1>3, <1>4, <1>5, <1>6, <1>7, <1>8, <1>9 DEF Clustering

LEMMA InPlaceStep ==
    ASSUME TypeOK, Replied, InPlace, [Next]_vars PROVE InPlace'
<1>. USE DEF At, Free
<1>1. /\ cursor \in [at : {"wipe", "clusters", "members", "links"}, k : Nat, m : Nat]
      /\ cursor.k > 0 /\ cursor.m > 0
    BY DEF TypeOK, InPlace
<1>2. ASSUME NEW c \in Clusterers, Begin(c) PROVE InPlace'
    BY <1>2 DEF Begin, InPlace, Start
<1>3. CASE Wipe
    BY <1>1, <1>3 DEF Wipe, InPlace
<1>4. CASE InsertCluster
  <2>. DEFINE label == [by |-> writer, position |-> cursor.k]
  <2>1. cursor.k \in DOMAIN reply[writer].clusters
    BY <1>1, <1>4, ReplyType DEF InsertCluster
  <2>2. label \in Labels /\ IsData(work)
    BY <1>1, <1>4, ReplyType DEF InsertCluster, Labels, TypeOK
  <2>3. /\ cursor'.k = cursor.k /\ cursor'.m = 1
        /\ work' = WithCluster(work, work.next, label)
        /\ UNCHANGED <<writer, reply>>
    <3>1. cursor' = [[cursor EXCEPT !.at = "members"] EXCEPT !.m = 1]
      BY <1>1, <1>4 DEF InsertCluster
    <3>. QED
      BY <1>1, <1>4, <3>1 DEF InsertCluster, Inside, requests
  <2>4. /\ work'.next = work.next + 1 /\ DOMAIN work'.clusters = DOMAIN work.clusters \cup {work.next}
        /\ work'.clusters[work.next] = label
    <3>. HIDE DEF label
    <3>. QED
      BY <2>2, <2>3, ClusterAdded
  <2>5. work'.next - 1 = work.next
    BY <2>2, <2>4 DEF IsData
  <2>. QED
    BY <1>1, <2>1, <2>3, <2>4, <2>5 DEF InPlace
<1>5. CASE InsertMember
  <2>1. /\ cursor'.at = "members" /\ cursor'.k = cursor.k /\ cursor'.m > 0
        /\ UNCHANGED <<writer, reply>>
    BY <1>1, <1>5 DEF InsertMember, Inside, requests
  <2>2. work'.next = work.next /\ work'.clusters = work.clusters
    BY <1>5, MemberAdded DEF InsertMember, TypeOK, IsData
  <2>. QED
    BY <1>1, <1>5, <2>1, <2>2 DEF InPlace, InsertMember
<1>6. CASE NextCluster
  <2>1. cursor'.at = "clusters" /\ cursor'.k > 0 /\ cursor'.m > 0
    <3>1. cursor' = [[cursor EXCEPT !.at = "clusters"] EXCEPT !.k = cursor.k + 1]
      BY <1>1, <1>6 DEF NextCluster
    <3>. QED
      BY <1>1, <3>1
  <2>. QED
    BY <2>1 DEF InPlace
<1>7. CASE LinksNext
    BY <1>1, <1>7 DEF LinksNext, InPlace
<1>8. CASE InsertLink
  <2>1. cursor'.at = "links" /\ cursor'.k > 0 /\ cursor'.m > 0
    BY <1>1, <1>8 DEF InsertLink
  <2>. QED
    BY <2>1 DEF InPlace
<1>9. CASE UNCHANGED <<cursor, work>> /\ (writer' = None \/ writer' = writer)
  <2>1. ~Free /\ writer' = writer => reply'[writer] = reply[writer]
    BY ReplyType, ReplyKept
  <2>. QED
    BY <1>9, <2>1 DEF InPlace
<1>10. UNCHANGED cursor /\ ~(\E c \in Clusterers : Begin(c))
        /\ ~(Wipe \/ InsertCluster \/ InsertMember \/ InsertLink)
        => UNCHANGED <<cursor, work>> /\ (writer' = None \/ writer' = writer)
    BY DEF Next, Clustering, Statement, Reading, CreateIdea, Ask, Answer, NoAnswer, Fails, NextCluster, LinksNext,
        Commit, ReadIdeas, ReadClusters, ReadLinks, Inside, Outside, transaction, vars
<1>. QED
    BY <1>2, <1>3, <1>4, <1>5, <1>6, <1>7, <1>8, <1>9, <1>10, CursorChanges

\* What the tables stored held stays placed, and so does what is being stored.
LEMMA PlacedKept ==
    ASSUME TypeOK, Replied, [Next]_vars, NEW d, IsData(d), Placed(d)
    PROVE  /\ stored' = d => Placed(stored)'
           /\ work'.clusters = d.clusters /\ work'.members = d.members => Placed(work)'
<1>1. \A id \in DOMAIN d.clusters : d.clusters[id] \in Labels /\ Real(d.clusters[id])
    BY DEF IsData, Placed
<1>2. \A m \in d.members : m[1] \in DOMAIN d.clusters
    BY DEF IsData
<1>3. \A id \in DOMAIN d.clusters : Real(d.clusters[id])'
    BY <1>1, LabelsKept
<1>4. \A m \in d.members : m[2] \in Named(d.clusters[m[1]])'
    BY <1>1, <1>2, LabelsKept DEF Placed
<1>5. ASSUME stored' = d PROVE Placed(stored)'
  <2>1. \A id \in DOMAIN stored'.clusters : Real(stored.clusters[id])'
    BY <1>3, <1>5 DEF Real
  <2>2. \A m \in stored'.members : m[2] \in Named(stored.clusters[m[1]])'
    BY <1>4, <1>5 DEF Named
  <2>. QED
    BY <2>1, <2>2 DEF Placed
<1>6. ASSUME work'.clusters = d.clusters, work'.members = d.members PROVE Placed(work)'
  <2>1. \A id \in DOMAIN work'.clusters : Real(work.clusters[id])'
    BY <1>3, <1>6 DEF Real
  <2>2. \A m \in work'.members : m[2] \in Named(work.clusters[m[1]])'
    <3>1. \A m \in d.members : Named(d.clusters[m[1]])' = Named(work.clusters[m[1]])'
      BY <1>6 DEF Named
    <3>. QED
      BY <1>4, <1>6, <3>1
  <2>. QED
    BY <2>1, <2>2 DEF Placed
<1>. QED
    BY <1>5, <1>6

LEMMA StoredPlacedStep ==
    ASSUME TypeOK, Replied, Placed(stored), Placed(work), [Next]_vars PROVE Placed(stored)'
<1>1. IsData(stored) /\ IsData(work)
    BY DEF TypeOK
<1>2. CASE UNCHANGED stored
    BY <1>1, <1>2, PlacedKept
<1>3. CASE Commit
  <2>1. stored' = work
    BY <1>3 DEF Commit
  <2>. QED
    BY <1>1, <2>1, PlacedKept
<1>. QED
    BY <1>2, <1>3, StoredChanges

LEMMA WorkPlacedStep ==
    ASSUME TypeOK, Replied, InPlace, Placed(stored), Placed(work), [Next]_vars PROVE Placed(work)'
<1>. USE DEF At
<1>1. IsData(stored) /\ IsData(work)
    BY DEF TypeOK
<1>2. CASE work'.clusters = work.clusters /\ work'.members = work.members
    BY <1>1, <1>2, PlacedKept
<1>3. ASSUME NEW c \in Clusterers, Begin(c) PROVE Placed(work)'
  <2>1. work' = stored
    BY <1>3 DEF Begin
  <2>. QED
    BY <1>1, <2>1, PlacedKept
<1>4. CASE Wipe
    BY <1>4 DEF Wipe, NoData, Placed
<1>5. CASE InsertCluster
  <2>. DEFINE label == [by |-> writer, position |-> cursor.k]
  <2>1. label \in Labels /\ Real(label) /\ reply' = reply
    <3>1. cursor.k \in Nat /\ cursor.k > 0
      BY DEF TypeOK, InPlace
    <3>. QED
      BY <1>5, <3>1, ReplyType DEF InsertCluster, Labels, Real, Inside, requests
  <2>2. work' = WithCluster(work, work.next, label)
    BY <1>5 DEF InsertCluster
  <2>. HIDE DEF label
  <2>3. /\ work'.members = work.members
        /\ DOMAIN work'.clusters = DOMAIN work.clusters \cup {work.next}
        /\ work'.clusters[work.next] = label
        /\ \A id \in DOMAIN work.clusters : work'.clusters[id] = work.clusters[id]
    BY <1>1, <2>1, <2>2, ClusterAdded
  <2>4. \A id \in DOMAIN work'.clusters : Real(work'.clusters[id])
    BY <2>1, <2>3 DEF Placed
  <2>5. \A m \in work'.members : m[2] \in Named(work'.clusters[m[1]])
    BY <1>1, <2>3 DEF Placed, IsData
  <2>. QED
    BY <2>1, <2>4, <2>5 DEF Placed, Real, Named
<1>6. CASE InsertMember
  <2>. DEFINE id == work.next - 1
              i == reply[writer].clusters[cursor.k][cursor.m]
  <2>1. UNCHANGED work \/ work' = [work EXCEPT !.members = @ \cup {<<id, i>>}]
    BY <1>6 DEF InsertMember
  <2>2. work.clusters[id] = [by |-> writer, position |-> cursor.k] /\ i \in Named(work.clusters[id])
    <3>1. work.clusters[id] = [by |-> writer, position |-> cursor.k] /\ cursor.k \in DOMAIN reply[writer].clusters
      BY <1>6 DEF InsertMember, InPlace
    <3>2. cursor.m \in Nat /\ cursor.m > 0 /\ cursor.m <= Len(reply[writer].clusters[cursor.k])
      BY <1>6 DEF InsertMember, TypeOK, InPlace
    <3>3. reply[writer].clusters[cursor.k] \in Seq(Ids)
      BY <1>6, <3>1, ReplyType DEF InsertMember
    <3>4. cursor.m \in DOMAIN reply[writer].clusters[cursor.k]
      BY <3>2, <3>3
    <3>. QED
      BY <3>1, <3>4 DEF Named
  <2>. HIDE DEF id, i
  <2>3. /\ work'.clusters = work.clusters
        /\ work'.members = work.members \/ work'.members = work.members \cup {<<id, i>>}
    BY <1>1, <2>1 DEF IsData
  <2>4. reply' = reply
    BY <1>6 DEF InsertMember, Inside, requests
  <2>5. \A c \in DOMAIN work'.clusters : Real(work'.clusters[c])
    BY <2>3 DEF Placed
  <2>6. \A m \in work'.members : m[2] \in Named(work'.clusters[m[1]])
    BY <2>2, <2>3 DEF Placed
  <2>. QED
    BY <2>4, <2>5, <2>6 DEF Placed, Real, Named
<1>7. CASE InsertLink
  <2>1. work'.clusters = work.clusters /\ work'.members = work.members
    BY <1>1, <1>7 DEF InsertLink, IsData
  <2>. QED
    BY <1>2, <2>1
<1>. QED
    BY <1>2, <1>3, <1>4, <1>5, <1>6, <1>7, WorkChanges

LEMMA GrownStep ==
    ASSUME TypeOK, Grown, [Next]_vars PROVE Grown'
<1>. USE DEF At, Free
<1>1. /\ IsData(stored) /\ IsData(work)
      /\ stored.next \in Nat /\ work.next \in Nat
    BY DEF TypeOK, IsData
<1>2. ASSUME NEW c \in Clusterers, Begin(c) PROVE Grown'
  <2>1. work' = stored /\ stored' = stored
    BY <1>2 DEF Begin
  <2>. QED
    BY <1>1, <2>1 DEF Grown
<1>3. CASE Wipe
  <2>1. /\ UNCHANGED <<writer, stored>>
        /\ work'.next = work.next /\ DOMAIN work'.clusters = {}
    BY <1>3 DEF Wipe, NoData, Inside
  <2>. QED
    BY <2>1 DEF Grown
<1>4. CASE InsertCluster
  <2>. DEFINE label == [by |-> writer, position |-> cursor.k]
  <2>1. writer \in Clusterers /\ cursor.k \in Nat
    BY <1>4 DEF InsertCluster, TypeOK
  <2>2. label \in Labels /\ work' = WithCluster(work, work.next, label) /\ UNCHANGED <<writer, stored>>
    BY <1>4, <2>1 DEF InsertCluster, Labels, Inside
  <2>. HIDE DEF label
  <2>3. /\ work'.next = work.next + 1
        /\ DOMAIN work'.clusters = DOMAIN work.clusters \cup {work.next}
        /\ \A id \in DOMAIN work.clusters : work'.clusters[id] = work.clusters[id]
    BY <1>1, <2>2, ClusterAdded
  <2>4. ~Free => work'.next >= stored.next /\ work.next >= stored.next
    BY <1>1, <2>3 DEF Grown
  <2>. QED
    BY <1>1, <2>2, <2>3, <2>4 DEF Grown
<1>5. CASE InsertMember \/ InsertLink
  <2>1. UNCHANGED <<writer, stored>> /\ work'.clusters = work.clusters /\ work'.next = work.next
    BY <1>1, <1>5 DEF InsertMember, InsertLink, Inside, IsData
  <2>. QED
    BY <2>1 DEF Grown
<1>6. CASE UNCHANGED work /\ ~(\E c \in Clusterers : Begin(c))
  <2>1. writer' = None \/ UNCHANGED <<writer, stored>>
    BY <1>6 DEF Next, Clustering, Statement, Reading, CreateIdea, Ask, Answer, NoAnswer, Fails, Wipe, InsertCluster,
        InsertMember, NextCluster, LinksNext, InsertLink, Commit, ReadIdeas, ReadClusters, ReadLinks, Inside,
        Outside, transaction, vars
  <2>. QED
    BY <1>6, <2>1 DEF Grown
<1>. QED
    BY <1>2, <1>3, <1>4, <1>5, <1>6, WorkChanges

LEMMA RememberedStep ==
    ASSUME TypeOK, Remembered, [Next]_vars PROVE Remembered'
<1>. USE DEF At, Free
<1>1. /\ IsData(work)
      /\ cursor \in [at : {"wipe", "clusters", "members", "links"}, k : Nat, m : Nat]
    BY DEF TypeOK
<1>2. ASSUME NEW c \in Clusterers, Begin(c) PROVE Remembered'
    BY <1>2 DEF Begin, Start, Remembered
<1>3. CASE Wipe
    BY <1>3 DEF Wipe, NoData, Remembered
<1>4. CASE InsertCluster
  <2>. DEFINE label == [by |-> writer, position |-> cursor.k]
  <2>1. writer \in Clusterers /\ cursor.k \in Nat
    BY <1>4 DEF InsertCluster, TypeOK
  <2>2. label \in Labels /\ work' = WithCluster(work, work.next, label) /\ assigned' = assigned
    BY <1>4, <2>1 DEF InsertCluster, Labels
  <2>. HIDE DEF label
  <2>3. work'.members = work.members
    BY <1>1, <2>2, ClusterAdded
  <2>. QED
    BY <1>4, <2>2, <2>3 DEF Remembered, InsertCluster
<1>5. CASE InsertMember
  <2>. DEFINE i == reply[writer].clusters[cursor.k][cursor.m]
              added == <<work.next - 1, i>>
  <2>1. \/ UNCHANGED <<work, assigned>>
        \/ work' = [work EXCEPT !.members = @ \cup {added}] /\ assigned' = assigned \cup {i}
    BY <1>5 DEF InsertMember
  <2>2. added[2] = i
    OBVIOUS
  <2>. HIDE DEF i, added
  <2>3. \A m \in work'.members : m \in work.members \/ (m = added /\ i \in assigned')
    BY <1>1, <2>1 DEF IsData
  <2>4. \A m \in work.members : m[2] \in assigned
    BY <1>5 DEF InsertMember, Remembered
  <2>5. \A m \in work'.members : m[2] \in assigned'
    BY <2>1, <2>2, <2>3, <2>4
  <2>. QED
    BY <2>5 DEF Remembered
<1>6. CASE NextCluster
    BY <1>6 DEF NextCluster, Inside, Remembered
<1>7. CASE LinksNext
    BY <1>1, <1>7 DEF LinksNext, Remembered
<1>8. CASE InsertLink
    BY <1>1, <1>8 DEF InsertLink, Remembered
<1>9. CASE UNCHANGED cursor /\ ~(\E c \in Clusterers : Begin(c)) /\ ~Wipe /\ ~InsertCluster /\ ~InsertMember
           /\ ~InsertLink
  <2>1. UNCHANGED <<work, assigned>> /\ (writer' = None \/ writer' = writer)
    BY <1>9 DEF Next, Clustering, Statement, Reading, CreateIdea, Ask, Answer, NoAnswer, Fails, NextCluster,
        LinksNext, Commit, ReadIdeas, ReadClusters, ReadLinks, Inside, Outside, transaction, vars
  <2>. QED
    BY <1>9, <2>1 DEF Remembered
<1>. QED
    BY <1>2, <1>3, <1>4, <1>5, <1>6, <1>7, <1>8, <1>9, CursorChanges

\* An idea the first query finds in a cluster is named in it.
LEMMA IdeasRead ==
    ASSUME TypeOK, Placed(stored), NEW x \in BoardIdeas, x[2] \in DOMAIN stored.clusters
    PROVE  x[1] \in Named(stored.clusters[x[2]])
<1>1. DOMAIN stored.clusters \subseteq 1..(stored.next - 1) /\ stored.next \in Nat
    BY DEF TypeOK, IsData
<1>2. x[2] # 0
    BY <1>1
<1>3. <<x[2], x[1]>> \in stored.members
    BY <1>2 DEF BoardIdeas
<1>. QED
    BY <1>3 DEF Placed

LEMMA LabelsShownStep ==
    ASSUME TypeOK, Replied, Placed(stored), Shown, [Next]_vars,
           NEW b \in Boards, NEW id \in DOMAIN board'[b].clusters
    PROVE  Real(board[b].clusters[id])'
<1>1. PICK label : label = board'[b].clusters[id]
    OBVIOUS
<1>2. label \in Labels /\ Real(label)
  <2>1. CASE id \in DOMAIN board[b].clusters /\ label = board[b].clusters[id]
    BY <2>1 DEF TypeOK, Shown
  <2>2. CASE id \in DOMAIN stored.clusters /\ label = stored.clusters[id]
    BY <2>2 DEF TypeOK, IsData, Placed
  <2>3. CASE UNCHANGED board
    BY <1>1, <2>1, <2>3
  <2>4. ASSUME NEW c \in Boards, Reading(c)
        PROVE  board'[b].clusters \in {<<>>, stored.clusters, board[b].clusters}
    BY <2>4 DEF Reading, ReadIdeas, ReadClusters, ReadLinks, Page, TypeOK
  <2>. QED
    BY <1>1, <2>1, <2>2, <2>3, <2>4, BoardChanges
<1>3. Real(label)'
    BY <1>2, LabelsKept
<1>. QED
    BY <1>1, <1>3 DEF Real

LEMMA IdeasShownStep ==
    ASSUME TypeOK, Replied, Placed(stored), Grown, Shown, [Next]_vars,
           NEW b \in Boards, NEW x \in board'[b].ideas, x[2] \in DOMAIN stored'.clusters
    PROVE  x[1] \in Named(stored.clusters[x[2]])'
<1>1. PICK label : label = stored'.clusters[x[2]]
    OBVIOUS
<1>2. x[2] \in DOMAIN stored.clusters /\ label = stored.clusters[x[2]] /\ x[1] \in Named(label)
  <2>1. CASE UNCHANGED <<stored, board>>
    BY <1>1, <2>1 DEF Shown
  <2>2. CASE Commit
    <3>1. x \in board[b].ideas /\ stored' = work /\ ~Free
      BY <2>2 DEF Commit, At
    <3>2. x[2] < stored.next
      <4>1. x[2] \in 0..(stored.next - 1) /\ stored.next \in Nat
        BY <3>1 DEF TypeOK, IsData
      <4>. QED
        BY <4>1
    <3>3. x[2] \in DOMAIN stored.clusters /\ work.clusters[x[2]] = stored.clusters[x[2]]
      BY <3>1, <3>2 DEF Grown
    <3>. QED
      BY <1>1, <3>1, <3>3 DEF Shown
  <2>3. ASSUME NEW c \in Boards, Reading(c)
        PROVE  UNCHANGED stored /\ (x \in BoardIdeas \/ x \in board[b].ideas)
    BY <2>3 DEF Reading, ReadIdeas, ReadClusters, ReadLinks, Page, TypeOK, Outside
  <2>4. CASE \E c \in Boards : Reading(c)
    BY <1>1, <2>3, <2>4, IdeasRead DEF Shown
  <2>5. CASE UNCHANGED board /\ ~UNCHANGED stored
    BY <2>2, <2>5, StoredChanges
  <2>. QED
    BY <2>1, <2>4, <2>5, BoardChanges
<1>3. label \in Labels /\ Real(label)
    BY <1>2 DEF TypeOK, IsData, Placed
<1>4. x[1] \in Named(label)'
    BY <1>2, <1>3, LabelsKept
<1>. QED
    BY <1>1, <1>4 DEF Named

LEMMA ForeignStep ==
    ASSUME TypeOK, Replied, Placed(stored), Shown, NoForeignCluster, [Next]_vars,
           NEW b \in Boards, NEW x \in board'[b].ideas, x[2] \in DOMAIN board'[b].clusters
    PROVE  x[1] \in Named(board[b].clusters[x[2]])'
<1>1. PICK label : label = board'[b].clusters[x[2]]
    OBVIOUS
<1>2. label \in Labels /\ Real(label) /\ x[1] \in Named(label)
  <2>1. CASE /\ x \in board[b].ideas /\ x[2] \in DOMAIN board[b].clusters
             /\ label = board[b].clusters[x[2]]
    BY <2>1 DEF TypeOK, Shown, NoForeignCluster
  <2>2. CASE /\ x \in board[b].ideas /\ x[2] \in DOMAIN stored.clusters
             /\ label = stored.clusters[x[2]]
    BY <2>2 DEF TypeOK, IsData, Placed, Shown
  <2>3. CASE board'[b] = board[b]
    BY <1>1, <2>1, <2>3
  <2>4. CASE ReadIdeas(b)
    BY <2>4 DEF ReadIdeas, Page, TypeOK
  <2>5. CASE ReadClusters(b)
    <3>1. /\ board'[b].ideas = board[b].ideas
          /\ board'[b].clusters \in {<<>>, stored.clusters}
      BY <2>5 DEF ReadClusters, Page, TypeOK
    <3>. QED
      BY <1>1, <2>2, <3>1
  <2>6. CASE ReadLinks(b)
    <3>1. board'[b].ideas = board[b].ideas /\ board'[b].clusters = board[b].clusters
      BY <2>6 DEF ReadLinks, Page, TypeOK
    <3>. QED
      BY <1>1, <2>1, <3>1
  <2>7. ASSUME NEW c \in Boards, Reading(c), c # b PROVE board'[b] = board[b]
    BY <2>7 DEF Reading, ReadIdeas, ReadClusters, ReadLinks, TypeOK
  <2>. QED
    BY <2>3, <2>4, <2>5, <2>6, <2>7, BoardChanges DEF Reading
<1>3. x[1] \in Named(label)'
    BY <1>2, LabelsKept
<1>. QED
    BY <1>1, <1>3 DEF Named

-----------------------------------------------------------------------------
\* The theorems.

LEMMA InvInit == Init => IInv
<1>. SUFFICES ASSUME Init PROVE IInv
    OBVIOUS
<1>1. IsData(NoData(1))
    BY NoDataType
<1>2. /\ stored = NoData(1) /\ work = NoData(1) /\ writer = None /\ cursor = Start
      /\ clusterer = [c \in Clusterers |-> "new"] /\ reply = [c \in Clusterers |-> None]
      /\ board = [b \in Boards |-> Unread]
    BY DEF Init
<1>3. \A b \in Boards : board[b].at = "ideas" /\ board[b].ideas = {} /\ board[b].clusters = <<>>
    BY <1>2 DEF Unread, Page
<1>4. TypeOK
    BY <1>1, <1>2, <1>3 DEF Init, TypeOK, Start
<1>5. Replied
    BY <1>2 DEF Replied
<1>6. Placed(stored) /\ Placed(work)
    BY <1>2 DEF Placed, NoData
<1>7. InPlace /\ Grown /\ Remembered
    BY <1>2 DEF InPlace, Grown, Remembered, At, Free, Start
<1>8. Shown /\ NoForeignCluster
    BY <1>3 DEF Shown, NoForeignCluster
<1>. QED
    BY <1>4, <1>5, <1>6, <1>7, <1>8 DEF IInv

LEMMA InvStep == IInv /\ [Next]_vars => IInv'
<1>. SUFFICES ASSUME IInv, [Next]_vars PROVE IInv'
    OBVIOUS
<1>1. /\ TypeOK /\ Replied /\ Placed(stored) /\ Placed(work) /\ InPlace /\ Grown /\ Remembered /\ Shown
      /\ NoForeignCluster
    BY DEF IInv
<1>2. TypeOK' /\ Replied' /\ InPlace' /\ Grown' /\ Remembered'
    BY <1>1, TypeStep, RepliedStep, InPlaceStep, GrownStep, RememberedStep
<1>3. Placed(stored)' /\ Placed(work)'
    BY <1>1, StoredPlacedStep, WorkPlacedStep
<1>4. Shown'
    BY <1>1, LabelsShownStep, IdeasShownStep DEF Shown
<1>5. NoForeignCluster'
    BY <1>1, ForeignStep DEF NoForeignCluster
<1>. QED
    BY <1>2, <1>3, <1>4, <1>5 DEF IInv

LEMMA InvHolds == Spec => []IInv
    BY InvInit, InvStep, PTL DEF Spec

\* The tables of the board, finished or half replaced, keep the schema's
\* constraints that the form of the reply does not give: links go from a lower to
\* a higher id, and members and links are of ideas (store.go:728-754).
THEOREM TypeCorrect == Spec => []TypeOK
<1>1. IInv => TypeOK
    BY DEF IInv
<1>. QED
    BY <1>1, InvHolds, PTL

\* Whatever a reply names, twice or though it does not exist, no insert of a
\* member breaks the primary or the foreign key (store.go:684-688, 718-735).
THEOREM ConstraintsKept == Spec => []NoConstraintBroken
<1>1. IInv => NoConstraintBroken
  <2>. SUFFICES ASSUME IInv PROVE NoConstraintBroken
    OBVIOUS
  <2>1. Remembered /\ valid \subseteq Existing
    BY DEF IInv, TypeOK
  <2>. SUFFICES ASSUME At("members"), NEW i, ~Skipped(i)
                PROVE  i \in Existing /\ <<work.next - 1, i>> \notin work.members
    BY DEF NoConstraintBroken
  <2>2. i \in valid /\ i \notin assigned
    BY DEF Skipped
  <2>. QED
      BY <2>1, <2>2 DEF Remembered
<1>. QED
    BY <1>1, InvHolds, PTL

\* A page that mixes two clusterings shows no idea in a cluster its reply did not
\* put it in, because ids of clusters are never given twice (db.go:119).
THEOREM NoneForeign == Spec => []NoForeignCluster
<1>1. IInv => NoForeignCluster
    BY DEF IInv
<1>. QED
    BY <1>1, InvHolds, PTL

-----------------------------------------------------------------------------
(* BoardIsOneSnapshot.  An idea is in one cluster at most, and what a page   *)
(* has read since the last reply was stored is what is there.                *)

Once(data) == \A m, n \in data.members : m[2] = n[2] => m = n

\* Ideas as a page shows them, each once, and in the clusters of some members.
EachOnce(shown) ==
    /\ \A x, y \in shown : x[1] = y[1] => x = y
    /\ \E n \in 0..ideas : {x[1] : x \in shown} = 1..n
Agree(shown, members) ==
    /\ \A x \in shown : x[2] # 0 => <<x[2], x[1]>> \in members
    /\ \A x \in shown, m \in members : x[1] = m[2] => x[2] = m[1]

Snapped(b) ==
    /\ board[b].versions \subseteq 0..version
    /\ board[b].at # "ideas" => board[b].versions # {}
    /\ EachOnce(board[b].ideas)
    /\ board[b].versions = {version} /\ ~board[b].refused =>
        /\ Agree(board[b].ideas, stored.members)
        /\ board[b].at \in {"links", "shown"} => board[b].clusters = stored.clusters
        /\ board[b].at = "shown" => board[b].links = stored.links

SnapshotInv == Once(stored) /\ Once(work) /\ \A b \in Boards : Snapped(b)

LEMMA OnceStep ==
    ASSUME IInv, Once(stored), Once(work), [Next]_vars PROVE Once(stored)' /\ Once(work)'
<1>. USE DEF At
<1>1. IsData(stored) /\ IsData(work) /\ Remembered
    BY DEF IInv, TypeOK
<1>2. Once(stored)'
  <2>1. CASE stored' = stored
    BY <2>1 DEF Once
  <2>2. CASE stored' = work
    BY <2>2 DEF Once
  <2>. QED
    BY <2>1, <2>2, StoredChanges DEF Commit
<1>3. CASE work'.members \in {work.members, stored.members, {}}
  <2>1. Once(work)'
    BY <1>3 DEF Once
  <2>. QED
    BY <1>2, <2>1
<1>4. ASSUME NEW c \in Clusterers, Begin(c) PROVE work'.members = stored.members
    BY <1>4 DEF Begin
<1>5. CASE Wipe
    BY <1>3, <1>5 DEF Wipe, NoData
<1>6. CASE InsertCluster
  <2>. DEFINE label == [by |-> writer, position |-> cursor.k]
  <2>1. writer \in Clusterers /\ cursor.k \in Nat
    BY <1>6 DEF InsertCluster, Free, IInv, TypeOK
  <2>2. label \in Labels /\ work' = WithCluster(work, work.next, label)
    BY <1>6, <2>1 DEF InsertCluster, Labels
  <2>. HIDE DEF label
  <2>3. work'.members = work.members
    BY <1>1, <2>2, ClusterAdded
  <2>. QED
    BY <1>3, <2>3
<1>7. CASE InsertMember
  <2>. DEFINE i == reply[writer].clusters[cursor.k][cursor.m]
              added == <<work.next - 1, i>>
  <2>1. \/ UNCHANGED work
        \/ i \notin assigned /\ work' = [work EXCEPT !.members = @ \cup {added}]
    BY <1>7 DEF InsertMember, Skipped
  <2>2. added[2] = i
    OBVIOUS
  <2>. HIDE DEF i, added
  <2>3. \/ work'.members = work.members
        \/ i \notin assigned /\ work'.members = work.members \cup {added}
    BY <1>1, <2>1 DEF IsData
  <2>4. \A m \in work.members : m[2] \in assigned
    BY <1>1, <1>7 DEF InsertMember, Remembered
  <2>5. Once(work)'
    BY <2>2, <2>3, <2>4 DEF Once
  <2>. QED
    BY <1>2, <2>5
<1>8. CASE InsertLink
  <2>1. work'.members = work.members
    BY <1>1, <1>8 DEF InsertLink, IsData
  <2>. QED
    BY <1>3, <2>1
<1>. QED
    BY <1>2, <1>3, <1>4, <1>5, <1>6, <1>7, <1>8, WorkChanges

\* What the first query returns.
LEMMA BoardIdeasAgree ==
    ASSUME TypeOK, Once(stored)
    PROVE  EachOnce(BoardIdeas) /\ Agree(BoardIdeas, stored.members)
<1>1. stored.members \subseteq (DOMAIN stored.clusters) \X Existing /\ 0 \notin DOMAIN stored.clusters
    BY DEF TypeOK, IsData
<1>2. ASSUME NEW x \in BoardIdeas
      PROVE  \/ <<x[2], x[1]>> \in stored.members /\ x[2] # 0 /\ x = <<x[1], x[2]>>
             \/ /\ x = <<x[1], 0>>
                /\ \A m \in stored.members : m[2] # x[1]
    BY <1>1 DEF BoardIdeas
<1>3. ASSUME NEW x \in BoardIdeas, NEW m \in stored.members, x[1] = m[2] PROVE x[2] = m[1]
  <2>1. <<x[2], x[1]>> \in stored.members
    BY <1>2, <1>3
  <2>2. <<x[2], x[1]>> = m
    BY <1>3, <2>1 DEF Once
  <2>. QED
    BY <2>2
<1>4. \A x \in BoardIdeas : x[2] # 0 => <<x[2], x[1]>> \in stored.members
    BY <1>2
<1>5. ASSUME NEW x \in BoardIdeas, NEW y \in BoardIdeas, x[1] = y[1] PROVE x = y
  <2>1. CASE <<x[2], x[1]>> \in stored.members
    <3>1. y[2] = x[2]
      BY <1>3, <1>5, <2>1
    <3>. QED
      BY <1>2, <1>5, <3>1
  <2>2. CASE <<y[2], y[1]>> \in stored.members
    <3>1. y[2] = x[2]
      BY <1>3, <1>5, <2>2
    <3>. QED
      BY <1>2, <1>5, <3>1
  <2>3. CASE x = <<x[1], 0>> /\ y = <<y[1], 0>>
    BY <1>5, <2>3
  <2>. QED
    BY <1>2, <2>1, <2>2, <2>3
<1>6. {x[1] : x \in BoardIdeas} = Existing
  <2>1. ASSUME NEW i \in Existing PROVE \E x \in BoardIdeas : x[1] = i
    <3>1. CASE \E c \in DOMAIN stored.clusters : <<c, i>> \in stored.members
      <4>1. PICK c \in DOMAIN stored.clusters : <<c, i>> \in stored.members
        BY <3>1
      <4>2. <<i, c>> \in BoardIdeas
        BY <4>1 DEF BoardIdeas
      <4>. QED
        BY <4>2
    <3>2. CASE \A c \in DOMAIN stored.clusters : <<c, i>> \notin stored.members
      <4>1. <<i, 0>> \in BoardIdeas
        BY <3>2 DEF BoardIdeas
      <4>. QED
        BY <4>1
    <3>. QED
      BY <3>1, <3>2
  <2>2. \A x \in BoardIdeas : x[1] \in Existing
    BY DEF BoardIdeas
  <2>. QED
    BY <2>1, <2>2
<1>7. ideas \in 0..ideas
    BY DEF TypeOK
<1>8. EachOnce(BoardIdeas)
    BY <1>5, <1>6, <1>7 DEF EachOnce, Existing
<1>. QED
    BY <1>3, <1>4, <1>8 DEF Agree

\* A page shown before stays as it was read when ideas are added or a reply is stored.
LEMMA UnreadSnapped ==
    ASSUME IInv, [Next]_vars, NEW b \in Boards, Snapped(b), board'[b] = board[b] PROVE Snapped(b)'
<1>1. ideas \in Nat /\ ideas' \in Nat /\ ideas <= ideas'
  <2>1. ideas \in 0..MaxIdeas /\ ideas' \in 0..MaxIdeas /\ MaxIdeas \in Nat
    BY IdeasGrow, IdsType DEF IInv, TypeOK
  <2>2. ideas' = ideas \/ ideas' = ideas + 1
    BY DEF Next, Clustering, Statement, Reading, CreateIdea, Ask, Answer, NoAnswer, Begin, Fails, Wipe,
        InsertCluster, InsertMember, NextCluster, LinksNext, InsertLink, Commit, ReadIdeas, ReadClusters,
        ReadLinks, Inside, Outside, vars
  <2>. QED
    BY <2>1, <2>2
<1>2. version \in Nat /\ (version' = version + 1 \/ UNCHANGED <<version, stored>>)
  <2>1. Commit \/ UNCHANGED <<version, stored>>
    BY DEF Next, Clustering, Statement, Reading, CreateIdea, Ask, Answer, NoAnswer, Begin, Fails, Wipe,
        InsertCluster, InsertMember, NextCluster, LinksNext, InsertLink, ReadIdeas, ReadClusters, ReadLinks,
        Inside, Outside, history, vars
  <2>. QED
    BY <2>1 DEF Commit, IInv, TypeOK
<1>3. EachOnce(board[b].ideas)'
  <2>1. PICK n \in 0..ideas : {x[1] : x \in board[b].ideas} = 1..n
    BY DEF Snapped, EachOnce
  <2>2. n \in 0..ideas'
    BY <1>1
  <2>3. \A x, y \in board[b].ideas : x[1] = y[1] => x = y
    BY DEF Snapped, EachOnce
  <2>4. {x[1] : x \in board'[b].ideas} = 1..n
    BY <2>1
  <2>. QED
    BY <2>2, <2>3, <2>4 DEF EachOnce
<1>4. board[b].versions \subseteq 0..version'
    BY <1>2 DEF Snapped
<1>5. CASE version' = version + 1
  <2>1. board[b].versions # {version'}
    BY <1>2, <1>5 DEF Snapped
  <2>2. board'[b].at # "ideas" => board'[b].versions # {}
    BY DEF Snapped
  <2>. QED
    BY <1>3, <1>4, <2>1, <2>2 DEF Snapped
<1>6. CASE UNCHANGED <<version, stored>>
  <2>1. board'[b].at # "ideas" => board'[b].versions # {}
    BY DEF Snapped
  <2>2. ASSUME board'[b].versions = {version'}, ~board'[b].refused
        PROVE  /\ Agree(board[b].ideas, stored.members)
               /\ board[b].at \in {"links", "shown"} => board[b].clusters = stored.clusters
               /\ board[b].at = "shown" => board[b].links = stored.links
    BY <1>6, <2>2 DEF Snapped
  <2>3. Agree(board[b].ideas, stored.members) => Agree(board'[b].ideas, stored'.members)
    BY <1>6
  <2>. QED
    BY <1>3, <1>4, <1>6, <2>1, <2>2, <2>3 DEF Snapped
<1>. QED
    BY <1>2, <1>5, <1>6

\* What a page has after one of its queries.
LEMMA ReadSnapped ==
    ASSUME IInv, Once(stored), NEW b \in Boards, Snapped(b), Reading(b) PROVE Snapped(b)'
<1>1. /\ UNCHANGED <<ideas, stored, version>>
      /\ version \in Nat
      /\ board' = [board EXCEPT ![b] = board'[b]] /\ b \in DOMAIN board
    BY DEF Reading, ReadIdeas, ReadClusters, ReadLinks, Outside, history, IInv, TypeOK
<1>2. EachOnce(BoardIdeas) /\ Agree(BoardIdeas, stored.members)
    BY BoardIdeasAgree DEF IInv
<1>3. EachOnce({}) /\ Agree({}, stored.members)
  <2>1. 0 \in 0..ideas /\ {x[1] : x \in {}} = 1..0
    BY DEF IInv, TypeOK
  <2>. QED
    BY <2>1 DEF EachOnce, Agree
<1>4. \A shown : EachOnce(shown) /\ shown = board'[b].ideas => EachOnce(board[b].ideas)'
    BY <1>1 DEF EachOnce
<1>5. CASE ReadIdeas(b)
  <2>1. /\ board'[b].at = "clusters" /\ board'[b].versions = {version}
        /\ board'[b].ideas \in {{}, BoardIdeas}
    BY <1>1, <1>5 DEF ReadIdeas, Page
  <2>2. EachOnce(board[b].ideas)' /\ Agree(board'[b].ideas, stored.members)
    BY <1>2, <1>3, <1>4, <2>1
  <2>. QED
    BY <1>1, <2>1, <2>2 DEF Snapped, Agree
<1>6. CASE ReadClusters(b)
  <2>1. /\ board[b].at = "clusters" /\ board'[b].at = "links"
        /\ board'[b].versions = board[b].versions \cup {version}
        /\ board'[b].ideas = board[b].ideas
        /\ ~board'[b].refused => ~board[b].refused /\ board'[b].clusters = stored.clusters
    <3>1. PICK refused \in BOOLEAN :
            board'[b] = Page("links", board[b].ideas, IF refused THEN <<>> ELSE stored.clusters, {},
                             board[b].versions \cup {version}, board[b].refused \/ refused)
      BY <1>1, <1>6 DEF ReadClusters
    <3>2. board[b].at = "clusters"
      BY <1>6 DEF ReadClusters, Reads
    <3>3. board'[b].refused = (board[b].refused \/ refused)
      BY <3>1 DEF Page
    <3>4. /\ board'[b].at = "links" /\ board'[b].versions = board[b].versions \cup {version}
          /\ board'[b].ideas = board[b].ideas
          /\ ~refused => board'[b].clusters = stored.clusters
      BY <3>1 DEF Page
    <3>5. ~board'[b].refused => ~board[b].refused /\ ~refused
      BY <3>3
    <3>. QED
      BY <3>2, <3>4, <3>5
  <2>2. EachOnce(board[b].ideas)'
    BY <1>4, <2>1 DEF Snapped
  <2>3. board'[b].versions = {version} => board[b].versions = {version}
    BY <2>1 DEF Snapped
  <2>4. board'[b].versions \subseteq 0..version /\ board'[b].versions # {}
    BY <1>1, <2>1 DEF Snapped
  <2>5. board'[b].versions = {version} /\ ~board'[b].refused => Agree(board'[b].ideas, stored.members)
    BY <2>1, <2>3 DEF Snapped
  <2>. QED
    BY <1>1, <2>1, <2>2, <2>4, <2>5 DEF Snapped, Agree
<1>7. CASE ReadLinks(b)
  <2>1. /\ board[b].at = "links" /\ board'[b].at = "shown"
        /\ board'[b].versions = board[b].versions \cup {version}
        /\ board'[b].ideas = board[b].ideas /\ board'[b].clusters = board[b].clusters
        /\ ~board'[b].refused => ~board[b].refused /\ board'[b].links = stored.links
    <3>1. PICK refused \in BOOLEAN :
            board'[b] = Page("shown", board[b].ideas, board[b].clusters, IF refused THEN {} ELSE stored.links,
                             board[b].versions \cup {version}, board[b].refused \/ refused)
      BY <1>1, <1>7 DEF ReadLinks
    <3>2. board[b].at = "links"
      BY <1>7 DEF ReadLinks, Reads
    <3>3. board'[b].refused = (board[b].refused \/ refused)
      BY <3>1 DEF Page
    <3>4. /\ board'[b].at = "shown" /\ board'[b].versions = board[b].versions \cup {version}
          /\ board'[b].ideas = board[b].ideas /\ board'[b].clusters = board[b].clusters
          /\ ~refused => board'[b].links = stored.links
      BY <3>1 DEF Page
    <3>5. ~board'[b].refused => ~board[b].refused /\ ~refused
      BY <3>3
    <3>. QED
      BY <3>2, <3>4, <3>5
  <2>2. EachOnce(board[b].ideas)'
    BY <1>4, <2>1 DEF Snapped
  <2>3. board'[b].versions = {version} => board[b].versions = {version}
    BY <2>1 DEF Snapped
  <2>4. board'[b].versions \subseteq 0..version /\ board'[b].versions # {}
    BY <1>1, <2>1 DEF Snapped
  <2>5. board'[b].versions = {version} /\ ~board'[b].refused =>
            Agree(board'[b].ideas, stored.members) /\ board'[b].clusters = stored.clusters
    BY <2>1, <2>3 DEF Snapped
  <2>. QED
    BY <1>1, <2>1, <2>2, <2>4, <2>5 DEF Snapped, Agree
<1>. QED
    BY <1>5, <1>6, <1>7 DEF Reading

LEMMA SnapshotStep ==
    ASSUME IInv, SnapshotInv, [Next]_vars PROVE SnapshotInv'
<1>1. Once(stored)' /\ Once(work)'
    BY OnceStep DEF SnapshotInv
<1>2. ASSUME NEW b \in Boards PROVE Snapped(b)'
  <2>1. Snapped(b) /\ Once(stored)
    BY DEF SnapshotInv
  <2>2. CASE Reading(b)
    BY <2>1, <2>2, ReadSnapped
  <2>3. CASE ~Reading(b)
    <3>1. ASSUME NEW c \in Boards, Reading(c), c # b PROVE board'[b] = board[b]
      BY <3>1 DEF Reading, ReadIdeas, ReadClusters, ReadLinks, IInv, TypeOK
    <3>2. board'[b] = board[b]
      BY <2>3, <3>1, BoardChanges
    <3>. QED
      BY <2>1, <3>2, UnreadSnapped
  <2>. QED
    BY <2>2, <2>3
<1>. QED
    BY <1>1, <1>2 DEF SnapshotInv

LEMMA SnapshotInit == Init => SnapshotInv
<1>. SUFFICES ASSUME Init PROVE SnapshotInv
    OBVIOUS
<1>1. Once(stored) /\ Once(work)
    BY DEF Init, NoData, Once
<1>2. ASSUME NEW b \in Boards PROVE Snapped(b)
  <2>1. /\ board[b].at = "ideas" /\ board[b].ideas = {} /\ board[b].versions = {}
        /\ version = 0
    BY DEF Init, Unread, Page
  <2>2. 0 \in 0..ideas /\ {x[1] : x \in {}} = 1..0
    BY IdsType DEF Init
  <2>3. EachOnce(board[b].ideas)
    BY <2>1, <2>2 DEF EachOnce
  <2>. QED
    BY <2>1, <2>3 DEF Snapped
<1>. QED
    BY <1>1, <1>2 DEF SnapshotInv

\* A page whose queries were answered with no reply stored between them shows one
\* state of the board, and any page shows the first ideas there are, each once
\* (handlers.go:1410-1413, store.go:775-780).
THEOREM OneSnapshot == Spec => []BoardIsOneSnapshot
<1>1. IInv /\ SnapshotInv => BoardIsOneSnapshot
  <2>. SUFFICES ASSUME IInv, SnapshotInv, NEW b \in Boards, board[b].at = "shown"
                PROVE  /\ \A x, y \in board[b].ideas : x[1] = y[1] => x = y
                       /\ \E n \in 0..ideas : {x[1] : x \in board[b].ideas} = 1..n
                       /\ board[b].versions = {version} /\ ~board[b].refused =>
                          /\ board[b].clusters = stored.clusters /\ board[b].links = stored.links
                          /\ {<<x[2], x[1]>> : x \in {y \in board[b].ideas : y[2] # 0}}
                              = {m \in stored.members : m[2] \in {x[1] : x \in board[b].ideas}}
    BY DEF BoardIsOneSnapshot
  <2>1. Snapped(b)
    BY DEF SnapshotInv
  <2>2. ASSUME board[b].versions = {version}, ~board[b].refused
        PROVE  {<<x[2], x[1]>> : x \in {y \in board[b].ideas : y[2] # 0}}
                   = {m \in stored.members : m[2] \in {x[1] : x \in board[b].ideas}}
    <3>1. Agree(board[b].ideas, stored.members)
      BY <2>1, <2>2 DEF Snapped
    <3>2. stored.members \subseteq (DOMAIN stored.clusters) \X Existing /\ 0 \notin DOMAIN stored.clusters
      BY DEF IInv, TypeOK, IsData
    <3>3. ASSUME NEW m \in stored.members, NEW x \in board[b].ideas, x[1] = m[2]
          PROVE  x[2] # 0 /\ m = <<x[2], x[1]>>
      <4>1. x[2] = m[1]
        BY <3>1, <3>3 DEF Agree
      <4>. QED
        BY <3>2, <3>3, <4>1
    <3>4. \A x \in board[b].ideas : x[2] # 0 => <<x[2], x[1]>> \in stored.members
      BY <3>1 DEF Agree
    <3>5. ASSUME NEW x \in board[b].ideas, x[2] # 0
          PROVE  <<x[2], x[1]>> \in {m \in stored.members : m[2] \in {y[1] : y \in board[b].ideas}}
      BY <3>4, <3>5
    <3>6. ASSUME NEW m \in stored.members, NEW x \in board[b].ideas, x[1] = m[2]
          PROVE  m \in {<<y[2], y[1]>> : y \in {z \in board[b].ideas : z[2] # 0}}
      BY <3>3, <3>6
    <3>. QED
      BY <3>5, <3>6
  <2>3. /\ \A x, y \in board[b].ideas : x[1] = y[1] => x = y
        /\ \E n \in 0..ideas : {x[1] : x \in board[b].ideas} = 1..n
    BY <2>1 DEF Snapped, EachOnce
  <2>4. board[b].versions = {version} /\ ~board[b].refused =>
            board[b].clusters = stored.clusters /\ board[b].links = stored.links
    BY <2>1 DEF Snapped
  <2>. QED
    BY <2>2, <2>3, <2>4
<1>2. IInv /\ SnapshotInv /\ [Next]_vars => SnapshotInv'
    BY SnapshotStep
<1>. QED
    BY <1>1, <1>2, SnapshotInit, InvHolds, PTL DEF Spec

-----------------------------------------------------------------------------
(* A transaction stores all of its reply, statement by statement.           *)

\* The ideas a reply has named in its cluster p when the transaction is at cur.
Passed(cur, p, n) ==
    \/ cur.at = "links"
    \/ p < cur.k
    \/ cur.at = "members" /\ p = cur.k /\ n < cur.m
Met(r, known, cur, p) == {r.clusters[p][n] : n \in {n \in DOMAIN r.clusters[p] : Passed(cur, p, n)}} \cap known

\* So far the clusters are those of the reply in its order,
Inserted(cur, p) == cur.at = "links" \/ p < cur.k \/ (cur.at = "members" /\ p = cur.k)
ClustersSoFar(d, r, by, cur) ==
    /\ \A id \in DOMAIN d.clusters :
        d.clusters[id].by = by /\ d.clusters[id].position \in DOMAIN r.clusters
    /\ \A c, e \in DOMAIN d.clusters : c < e => d.clusters[c].position < d.clusters[e].position
    /\ \A p \in DOMAIN r.clusters : (\E id \in DOMAIN d.clusters : d.clusters[id].position = p) <=> Inserted(cur, p)

\* each idea met is in the first cluster that names it and no idea is elsewhere,
Put(d, p, i) == \E x \in d.members : d.clusters[x[1]].position = p /\ x[2] = i
First(r, known, cur, p, i) ==
    i \in Met(r, known, cur, p) /\ \A j \in 1..(p - 1) : i \notin Met(r, known, cur, j)
MembersSoFar(d, r, known, cur) ==
    \A p \in DOMAIN r.clusters : \A i : Put(d, p, i) <=> First(r, known, cur, p, i)
AssignedSoFar(r, known, cur, ids) ==
    \A i : i \in ids <=> \E p \in DOMAIN r.clusters : i \in Met(r, known, cur, p)

\* and of the links of a pair the last is there.
Good(r, known) ==
    {n \in DOMAIN r.links :
        LET l == Normalised(r.links[n]) IN l.a # l.b /\ l.a \in known /\ l.b \in known}
LastOfPair(r, known, upto, n) ==
    n \in Good(r, known) /\ n < upto
        /\ \A later \in Good(r, known) :
            later < upto /\ SamePair(Normalised(r.links[n]), Normalised(r.links[later])) => later <= n
Linked(r, known, upto) == {Normalised(r.links[n]) : n \in {n \in DOMAIN r.links : LastOfPair(r, known, upto, n)}}

SoFar(d, r, by, known, cur, ids) ==
    /\ ClustersSoFar(d, r, by, cur) /\ MembersSoFar(d, r, known, cur)
    /\ cur.at # "links" => AssignedSoFar(r, known, cur, ids) /\ d.links = {}
    /\ cur.at = "links" => d.links = Linked(r, known, cur.k)

Midway == ~Free =>
    /\ cursor.at = "wipe" => cursor.k = 1
    /\ cursor.at # "wipe" => SoFar(work, reply[writer], writer, valid, cursor, assigned)

\* What is stored came from a request whose reply is there.
Sourced == source # None => source \in [by : Clusterers, ideas : SUBSET Nat] /\ reply[source.by] \in Replies

OneReplyInv == Midway /\ Sourced /\ StoredIsOneReply


LEMMA MetIs ==
    ASSUME NEW r, NEW known, NEW cur, NEW p, NEW i
    PROVE  i \in Met(r, known, cur, p) <=>
               i \in known /\ \E n \in DOMAIN r.clusters[p] : Passed(cur, p, n) /\ r.clusters[p][n] = i
    BY DEF Met

\* Where the cursor may be: its numbers count from 1.
Cursor == [at : {"wipe", "clusters", "members", "links"}, k : Nat \ {0}, m : Nat \ {0}]
\* Replies, in the form that was asked for.
Reply(r) == r.clusters \in Seq(Seq(Ids)) /\ r.links \in Seq(Link)

\* After the tables are wiped nothing has been met.
LEMMA SoFarWiped ==
    ASSUME NEW r, Reply(r), NEW by, NEW known, NEW next,
           NEW cur \in Cursor, cur.at = "clusters", cur.k = 1
    PROVE  SoFar(NoData(next), r, by, known, cur, {})
<1>. DEFINE d == NoData(next)
<1>1. d.clusters = <<>> /\ DOMAIN d.clusters = {} /\ d.members = {} /\ d.links = {}
    BY DEF NoData
<1>2. \A p \in DOMAIN r.clusters : ~(p < 1) /\ p # 0
    BY DEF Reply
<1>3. \A p \in DOMAIN r.clusters : ~Inserted(cur, p) /\ \A n : ~Passed(cur, p, n)
    BY <1>2 DEF Inserted, Passed
<1>4. \A p \in DOMAIN r.clusters : \A i : i \notin Met(r, known, cur, p)
    BY <1>3, MetIs
<1>. HIDE DEF d
<1>5. ClustersSoFar(d, r, by, cur)
    BY <1>1, <1>3 DEF ClustersSoFar
<1>6. MembersSoFar(d, r, known, cur)
    BY <1>1, <1>4 DEF MembersSoFar, Put, First
<1>7. AssignedSoFar(r, known, cur, {})
    BY <1>4 DEF AssignedSoFar
<1>. QED
    BY <1>1, <1>5, <1>6, <1>7 DEF SoFar, d

\* One more cluster, of which nothing has been met.
LEMMA SoFarCluster ==
    ASSUME NEW d, IsData(d), NEW r, Reply(r), NEW by \in Clusterers, NEW known, NEW ids,
           NEW cur \in Cursor, cur.at = "clusters", cur.k <= Len(r.clusters),
           SoFar(d, r, by, known, cur, ids),
           NEW to \in Cursor, to.at = "members", to.k = cur.k, to.m = 1
    PROVE  SoFar(WithCluster(d, d.next, [by |-> by, position |-> cur.k]), r, by, known, to, ids)
<1>. DEFINE label == [by |-> by, position |-> cur.k]
            e == WithCluster(d, d.next, label)
<1>1. label \in Labels /\ label.by = by /\ label.position = cur.k
    BY DEF Labels, Cursor
<1>. HIDE DEF label
<1>2. /\ e.members = d.members /\ DOMAIN e.clusters = DOMAIN d.clusters \cup {d.next}
      /\ e.clusters[d.next] = label /\ \A id \in DOMAIN d.clusters : e.clusters[id] = d.clusters[id]
    BY <1>1, ClusterAdded
<1>3. e.links = d.links
  <2>1. d = [clusters |-> d.clusters, members |-> d.members, links |-> d.links, next |-> d.next]
    BY DEF IsData
  <2>. QED
    BY <2>1 DEF WithCluster
<1>. HIDE DEF e
<1>4. /\ cur.k \in DOMAIN r.clusters /\ cur.k \in Nat
      /\ \A p \in DOMAIN r.clusters : p \in Nat \ {0}
      /\ \A p \in DOMAIN r.clusters : \A n \in DOMAIN r.clusters[p] : n \in Nat \ {0}
    BY DEF Reply, Cursor
<1>5. /\ DOMAIN d.clusters \subseteq 1..(d.next - 1) /\ d.next \in Nat \ {0}
      /\ d.members \subseteq (DOMAIN d.clusters) \X Existing
    BY DEF IsData
<1>6. /\ ClustersSoFar(d, r, by, cur) /\ MembersSoFar(d, r, known, cur)
      /\ AssignedSoFar(r, known, cur, ids) /\ d.links = {}
    BY DEF SoFar
<1>7. \A p \in DOMAIN r.clusters : Inserted(to, p) <=> Inserted(cur, p) \/ p = cur.k
    BY <1>4 DEF Inserted
<1>8. ASSUME NEW p \in DOMAIN r.clusters PROVE Met(r, known, to, p) = Met(r, known, cur, p)
  <2>1. \A n \in DOMAIN r.clusters[p] : Passed(to, p, n) <=> Passed(cur, p, n)
    BY <1>4 DEF Passed
  <2>2. \A i : i \in Met(r, known, to, p) <=> i \in Met(r, known, cur, p)
    BY <2>1, MetIs
  <2>. QED
    BY <2>2
<1>9. ClustersSoFar(e, r, by, to)
  <2>1. \A id \in DOMAIN e.clusters : e.clusters[id].by = by /\ e.clusters[id].position \in DOMAIN r.clusters
    BY <1>1, <1>2, <1>4, <1>6 DEF ClustersSoFar
  <2>2. ASSUME NEW id \in DOMAIN d.clusters PROVE d.clusters[id].position < cur.k /\ id < d.next
    <3>1. Inserted(cur, d.clusters[id].position)
      BY <1>6 DEF ClustersSoFar
    <3>. QED
      BY <1>5, <3>1 DEF Inserted
  <2>3. ASSUME NEW b \in DOMAIN e.clusters, NEW c \in DOMAIN e.clusters, b < c
        PROVE  e.clusters[b].position < e.clusters[c].position
    <3>1. CASE b \in DOMAIN d.clusters /\ c \in DOMAIN d.clusters
      BY <1>2, <1>6, <2>3, <3>1 DEF ClustersSoFar
    <3>2. CASE b \in DOMAIN d.clusters /\ c = d.next
      BY <1>1, <1>2, <2>2, <3>2
    <3>3. CASE b = d.next /\ c \in DOMAIN d.clusters
      BY <1>5, <2>2, <2>3, <3>3
    <3>4. CASE b = d.next /\ c = d.next
      BY <1>5, <2>3, <3>4
    <3>. QED
      BY <1>2, <3>1, <3>2, <3>3, <3>4
  <2>4. ASSUME NEW p \in DOMAIN r.clusters
        PROVE  (\E id \in DOMAIN e.clusters : e.clusters[id].position = p) <=> Inserted(to, p)
    <3>1. (\E id \in DOMAIN e.clusters : e.clusters[id].position = p)
              <=> (\E id \in DOMAIN d.clusters : d.clusters[id].position = p) \/ p = cur.k
      BY <1>1, <1>2
    <3>. QED
      BY <1>6, <1>7, <3>1 DEF ClustersSoFar
  <2>. QED
    BY <2>1, <2>3, <2>4 DEF ClustersSoFar
<1>10. \A p, i : Put(e, p, i) <=> Put(d, p, i)
  <2>1. \A x \in d.members : x[1] \in DOMAIN d.clusters
    BY <1>5
  <2>. QED
    BY <1>2, <2>1 DEF Put
<1>11. MembersSoFar(e, r, known, to)
  <2>1. \A p \in DOMAIN r.clusters : \A j \in 1..(p - 1) : j \in DOMAIN r.clusters
    BY <1>4 DEF Reply
  <2>. QED
    BY <1>6, <1>8, <1>10, <2>1 DEF MembersSoFar, First
<1>12. AssignedSoFar(r, known, to, ids)
    BY <1>6, <1>8 DEF AssignedSoFar
<1>. QED
    BY <1>3, <1>6, <1>9, <1>11, <1>12 DEF SoFar, e, label

\* A step that inserts no cluster and reads no member keeps what has been stored.
LEMMA SoFarAlike ==
    ASSUME NEW d, NEW e, e.clusters = d.clusters, e.members = d.members, NEW r, Reply(r), NEW by, NEW known,
           NEW ids, NEW cur, NEW to,
           \A p \in DOMAIN r.clusters :
               /\ Inserted(to, p) <=> Inserted(cur, p)
               /\ \A n \in DOMAIN r.clusters[p] : Passed(to, p, n) <=> Passed(cur, p, n),
           ClustersSoFar(d, r, by, cur), MembersSoFar(d, r, known, cur)
    PROVE  /\ ClustersSoFar(e, r, by, to) /\ MembersSoFar(e, r, known, to)
           /\ AssignedSoFar(r, known, cur, ids) => AssignedSoFar(r, known, to, ids)
<1>1. ASSUME NEW p \in DOMAIN r.clusters PROVE Met(r, known, to, p) = Met(r, known, cur, p)
  <2>1. \A i : i \in Met(r, known, to, p) <=> i \in Met(r, known, cur, p)
    BY MetIs
  <2>. QED
    BY <2>1
<1>2. ClustersSoFar(e, r, by, to)
    BY DEF ClustersSoFar
<1>3. \A p \in DOMAIN r.clusters : \A j \in 1..(p - 1) : j \in DOMAIN r.clusters
    BY DEF Reply
<1>4. \A p, i : Put(e, p, i) <=> Put(d, p, i)
    BY DEF Put
<1>5. MembersSoFar(e, r, known, to)
    BY <1>1, <1>3, <1>4 DEF MembersSoFar, First
<1>6. AssignedSoFar(r, known, cur, ids) => AssignedSoFar(r, known, to, ids)
    BY <1>1 DEF AssignedSoFar
<1>. QED
    BY <1>2, <1>5, <1>6

LEMMA EarlierPlaces ==
    ASSUME NEW r, Reply(r), NEW p \in DOMAIN r.clusters
    PROVE  p \in Nat \ {0} /\ \A j \in 1..(p - 1) : j \in DOMAIN r.clusters
<1>1. Len(r.clusters) \in Nat /\ DOMAIN r.clusters = 1..Len(r.clusters)
    BY DEF Reply
<1>. QED
    BY <1>1

\* One more member read.
LEMMA MetGrows ==
    ASSUME NEW r, Reply(r), NEW known, NEW cur \in Cursor, cur.at = "members", cur.k \in DOMAIN r.clusters,
           cur.m <= Len(r.clusters[cur.k]), NEW to \in Cursor, to.at = "members", to.k = cur.k, to.m = cur.m + 1,
           NEW p \in DOMAIN r.clusters, NEW x
    PROVE  x \in Met(r, known, to, p) <=>
               x \in Met(r, known, cur, p) \/ (p = cur.k /\ x = r.clusters[cur.k][cur.m] /\ x \in known)
<1>1. /\ cur.k \in Nat /\ cur.m \in DOMAIN r.clusters[cur.k] /\ cur.m \in Nat
      /\ p \in Nat \ {0} /\ \A n \in DOMAIN r.clusters[p] : n \in Nat \ {0}
  <2>1. r.clusters[p] \in Seq(Ids) /\ r.clusters[cur.k] \in Seq(Ids) /\ p \in Nat \ {0}
    BY DEF Reply
  <2>. QED
    BY <2>1 DEF Cursor
<1>2. \A n \in DOMAIN r.clusters[p] : Passed(to, p, n) <=> Passed(cur, p, n) \/ (p = cur.k /\ n = cur.m)
    BY <1>1 DEF Passed
<1>. QED
    BY <1>1, <1>2, MetIs

LEMMA MetUpTo ==
    ASSUME NEW r, Reply(r), NEW known, NEW cur \in Cursor, cur.at = "members", NEW p \in DOMAIN r.clusters,
           NEW x \in Met(r, known, cur, p)
    PROVE  p <= cur.k
<1>1. p \in Nat /\ cur.k \in Nat
    BY DEF Reply, Cursor
<1>2. \E n \in DOMAIN r.clusters[p] : Passed(cur, p, n)
    BY MetIs
<1>. QED
    BY <1>1, <1>2 DEF Passed

\* A member is skipped: no idea, or one that an earlier cluster named.
LEMMA SoFarSkipped ==
    ASSUME NEW d, NEW r, Reply(r), NEW by, NEW known, NEW ids,
           NEW cur \in Cursor, cur.at = "members", cur.k \in DOMAIN r.clusters, cur.m <= Len(r.clusters[cur.k]),
           SoFar(d, r, by, known, cur, ids),
           NEW to \in Cursor, to.at = "members", to.k = cur.k, to.m = cur.m + 1,
           r.clusters[cur.k][cur.m] \notin known \/ r.clusters[cur.k][cur.m] \in ids
    PROVE  SoFar(d, r, by, known, to, ids)
<1>. DEFINE i == r.clusters[cur.k][cur.m]
<1>1. /\ cur.k \in Nat /\ \A p \in DOMAIN r.clusters : p \in Nat \ {0}
      /\ \A p \in DOMAIN r.clusters : \A j \in 1..(p - 1) : j \in DOMAIN r.clusters
    BY EarlierPlaces DEF Cursor
<1>2. /\ ClustersSoFar(d, r, by, cur) /\ MembersSoFar(d, r, known, cur)
      /\ AssignedSoFar(r, known, cur, ids) /\ d.links = {}
    BY DEF SoFar
<1>3. ASSUME NEW p \in DOMAIN r.clusters, NEW x
      PROVE  /\ x \in Met(r, known, to, p) <=> x \in Met(r, known, cur, p) \/ (p = cur.k /\ x = i /\ x \in known)
             /\ x \in Met(r, known, cur, p) => p <= cur.k
  <2>. HIDE DEF i
  <2>1. x \in Met(r, known, to, p) <=> x \in Met(r, known, cur, p) \/ (p = cur.k /\ x = r.clusters[cur.k][cur.m] /\ x \in known)
    BY MetGrows
  <2>2. x \in Met(r, known, cur, p) => p <= cur.k
    BY MetUpTo
  <2>. QED
    BY <2>1, <2>2 DEF i
<1>. HIDE DEF i
<1>4. i \in known => \E q \in DOMAIN r.clusters : i \in Met(r, known, cur, q)
    BY <1>2 DEF AssignedSoFar, i
<1>5. ClustersSoFar(d, r, by, to)
    BY <1>2 DEF ClustersSoFar, Inserted
<1>6. ASSUME NEW p \in DOMAIN r.clusters, NEW x PROVE First(r, known, to, p, x) <=> First(r, known, cur, p, x)
  <2>1. CASE x # i \/ i \notin known
    BY <1>1, <1>3, <2>1 DEF First
  <2>2. CASE x = i /\ i \in known
    <3>1. PICK q \in DOMAIN r.clusters : i \in Met(r, known, cur, q)
      BY <1>4, <2>2
    <3>2. q <= cur.k /\ i \in Met(r, known, to, q)
      BY <1>3, <3>1
    <3>3. CASE p > q
      <4>1. q \in 1..(p - 1)
        BY <1>1, <3>3
      <4>. QED
        BY <2>2, <3>1, <3>2, <4>1 DEF First
    <3>4. CASE p <= q
      <4>1. \A j \in 1..(p - 1) : j # cur.k
        BY <1>1, <3>2, <3>4
      <4>2. i \in Met(r, known, to, p) <=> i \in Met(r, known, cur, p)
        BY <1>1, <1>3, <3>1, <3>2, <3>4
      <4>. QED
        BY <1>1, <1>3, <2>2, <4>1, <4>2 DEF First
    <3>. QED
      BY <1>1, <3>3, <3>4
  <2>. QED
    BY <2>1, <2>2
<1>7. MembersSoFar(d, r, known, to)
    BY <1>2, <1>6 DEF MembersSoFar
<1>8. AssignedSoFar(r, known, to, ids)
    BY <1>2, <1>3, <1>4 DEF AssignedSoFar
<1>. QED
    BY <1>2, <1>5, <1>7, <1>8 DEF SoFar

\* A member is taken: an idea that no cluster named so far.
LEMMA SoFarTaken ==
    ASSUME NEW d, NEW r, Reply(r), NEW by, NEW known, NEW ids,
           NEW cur \in Cursor, cur.at = "members", cur.k \in DOMAIN r.clusters, cur.m <= Len(r.clusters[cur.k]),
           SoFar(d, r, by, known, cur, ids),
           NEW to \in Cursor, to.at = "members", to.k = cur.k, to.m = cur.m + 1,
           r.clusters[cur.k][cur.m] \in known, r.clusters[cur.k][cur.m] \notin ids,
           NEW id, d.clusters[id].position = cur.k,
           NEW e, e.clusters = d.clusters, e.links = d.links,
           e.members = d.members \cup {<<id, r.clusters[cur.k][cur.m]>>}
    PROVE  SoFar(e, r, by, known, to, ids \cup {r.clusters[cur.k][cur.m]})
<1>. DEFINE i == r.clusters[cur.k][cur.m]
<1>1. /\ cur.k \in Nat /\ \A p \in DOMAIN r.clusters : p \in Nat \ {0}
      /\ \A p \in DOMAIN r.clusters : \A j \in 1..(p - 1) : j \in DOMAIN r.clusters
    BY EarlierPlaces DEF Cursor
<1>2. /\ ClustersSoFar(d, r, by, cur) /\ MembersSoFar(d, r, known, cur)
      /\ AssignedSoFar(r, known, cur, ids) /\ d.links = {}
    BY DEF SoFar
<1>3. ASSUME NEW p \in DOMAIN r.clusters, NEW x
      PROVE  x \in Met(r, known, to, p) <=> x \in Met(r, known, cur, p) \/ (p = cur.k /\ x = i /\ x \in known)
    BY MetGrows
<1>4. e.members = d.members \cup {<<id, i>>} /\ i \in known
    OBVIOUS
<1>5. \A q \in DOMAIN r.clusters : i \notin Met(r, known, cur, q)
    BY <1>2 DEF AssignedSoFar
<1>. HIDE DEF i
<1>6. ClustersSoFar(e, r, by, to)
    BY <1>2 DEF ClustersSoFar, Inserted
<1>7. ASSUME NEW p \in DOMAIN r.clusters, NEW x PROVE Put(e, p, x) <=> First(r, known, to, p, x)
  <2>1. Put(e, p, x) <=> Put(d, p, x) \/ (p = cur.k /\ x = i)
    <3>1. \A y : y \in e.members <=> y \in d.members \/ y = <<id, i>>
      BY <1>4
    <3>2. ASSUME Put(e, p, x), ~Put(d, p, x) PROVE p = cur.k /\ x = i
      BY <3>1, <3>2 DEF Put
    <3>3. CASE p = cur.k /\ x = i
      <4>1. <<id, i>> \in e.members /\ <<id, i>>[1] = id /\ <<id, i>>[2] = i
        BY <3>1
      <4>. QED
        BY <3>3, <4>1 DEF Put
    <3>4. CASE Put(d, p, x)
      BY <3>1, <3>4 DEF Put
    <3>. QED
      BY <3>2, <3>3, <3>4
  <2>2. Put(d, p, x) <=> First(r, known, cur, p, x)
    BY <1>2 DEF MembersSoFar
  <2>3. CASE x # i
    BY <1>1, <1>3, <2>1, <2>2, <2>3 DEF First
  <2>4. CASE x = i /\ p = cur.k
    <3>1. \A j \in 1..(p - 1) : j # cur.k
      BY <1>1, <2>4
    <3>. QED
      BY <1>1, <1>3, <1>4, <1>5, <2>1, <2>4, <3>1 DEF First
  <2>5. CASE x = i /\ p # cur.k
    BY <1>3, <1>5, <2>1, <2>2, <2>5 DEF First
  <2>. QED
    BY <2>3, <2>4, <2>5
<1>8. MembersSoFar(e, r, known, to)
    BY <1>7 DEF MembersSoFar
<1>9. AssignedSoFar(r, known, to, ids \cup {i})
    BY <1>2, <1>3, <1>4 DEF AssignedSoFar
<1>. QED
    BY <1>2, <1>6, <1>8, <1>9 DEF SoFar, i

\* The members of a cluster are through.
LEMMA SoFarNextCluster ==
    ASSUME NEW d, NEW r, Reply(r), NEW by, NEW known, NEW ids,
           NEW cur \in Cursor, cur.at = "members", cur.k \in DOMAIN r.clusters, cur.m > Len(r.clusters[cur.k]),
           SoFar(d, r, by, known, cur, ids),
           NEW to \in Cursor, to.at = "clusters", to.k = cur.k + 1
    PROVE  SoFar(d, r, by, known, to, ids)
<1>1. /\ cur.k \in Nat /\ cur.m \in Nat
      /\ \A p \in DOMAIN r.clusters : p \in Nat \ {0} /\ \A n \in DOMAIN r.clusters[p] : n \in Nat \ {0}
      /\ \A n \in DOMAIN r.clusters[cur.k] : n < cur.m
  <2>1. ASSUME NEW p \in DOMAIN r.clusters PROVE r.clusters[p] \in Seq(Ids) /\ p \in Nat \ {0}
    BY DEF Reply
  <2>2. \A p \in DOMAIN r.clusters : \A n \in DOMAIN r.clusters[p] : n \in Nat \ {0}
    BY <2>1
  <2>3. r.clusters[cur.k] \in Seq(Ids) /\ cur.k \in Nat /\ cur.m \in Nat
    BY <2>1 DEF Cursor
  <2>. QED
    BY <2>1, <2>2, <2>3
<1>2. \A p \in DOMAIN r.clusters :
        /\ Inserted(to, p) <=> Inserted(cur, p)
        /\ \A n \in DOMAIN r.clusters[p] : Passed(to, p, n) <=> Passed(cur, p, n)
    BY <1>1 DEF Inserted, Passed
<1>. QED
    BY <1>2, SoFarAlike DEF SoFar

\* The clusters are through.
LEMMA SoFarLinks ==
    ASSUME NEW d, NEW r, Reply(r), NEW by, NEW known, NEW ids,
           NEW cur \in Cursor, cur.at = "clusters", cur.k > Len(r.clusters),
           SoFar(d, r, by, known, cur, ids),
           NEW to \in Cursor, to.at = "links", to.k = 1
    PROVE  SoFar(d, r, by, known, to, ids)
<1>1. cur.k \in Nat /\ \A p \in DOMAIN r.clusters : p < cur.k
    BY DEF Reply, Cursor
<1>2. \A p \in DOMAIN r.clusters :
        /\ Inserted(to, p) <=> Inserted(cur, p)
        /\ \A n \in DOMAIN r.clusters[p] : Passed(to, p, n) <=> Passed(cur, p, n)
    BY <1>1 DEF Inserted, Passed
<1>3. \A n \in DOMAIN r.links : ~LastOfPair(r, known, 1, n)
    BY DEF Reply, LastOfPair
<1>4. d.links = Linked(r, known, to.k)
    BY <1>3 DEF SoFar, Linked
<1>. QED
    BY <1>2, <1>4, SoFarAlike DEF SoFar

\* One more link, left out or put in the place of an earlier one of its pair.
LEMMA SoFarLink ==
    ASSUME NEW d, NEW r, Reply(r), NEW by, NEW known, NEW ids,
           NEW cur \in Cursor, cur.at = "links", cur.k <= Len(r.links),
           SoFar(d, r, by, known, cur, ids),
           NEW to \in Cursor, to.at = "links", to.k = cur.k + 1,
           NEW e, e.clusters = d.clusters, e.members = d.members,
           IF cur.k \notin Good(r, known) THEN e.links = d.links
           ELSE e.links = {m \in d.links : ~SamePair(Normalised(r.links[cur.k]), m)} \cup {Normalised(r.links[cur.k])}
    PROVE  SoFar(e, r, by, known, to, ids)
<1>. DEFINE l(n) == Normalised(r.links[n])
            now(n) == LastOfPair(r, known, cur.k, n)
            then(n) == LastOfPair(r, known, to.k, n)
<1>1. cur.k \in DOMAIN r.links /\ cur.k \in Nat /\ \A n \in DOMAIN r.links : n \in Nat
    BY DEF Reply, Cursor
<1>2. Good(r, known) \subseteq DOMAIN r.links
    BY DEF Good
<1>3. d.links = {l(n) : n \in {n \in DOMAIN r.links : now(n)}}
    BY DEF SoFar, Linked
<1>4. /\ \A n : now(n) <=> n \in Good(r, known) /\ n < cur.k
            /\ \A later \in Good(r, known) : later < cur.k /\ SamePair(l(n), l(later)) => later <= n
      /\ \A n : then(n) <=> n \in Good(r, known) /\ n < cur.k + 1
            /\ \A later \in Good(r, known) : later < cur.k + 1 /\ SamePair(l(n), l(later)) => later <= n
    BY DEF LastOfPair
<1>5. \A m, n : SamePair(l(m), l(n)) <=> SamePair(l(n), l(m))
    BY DEF SamePair
<1>. HIDE DEF l, now, then
<1>6. e.links = {l(n) : n \in {n \in DOMAIN r.links : then(n)}}
  <2>1. CASE cur.k \notin Good(r, known)
    <3>1. \A n \in Good(r, known) : n < cur.k + 1 <=> n < cur.k
      BY <1>1, <1>2, <2>1
    <3>2. \A n : then(n) <=> now(n)
      BY <1>4, <3>1
    <3>. QED
      BY <1>3, <2>1, <3>2
  <2>2. CASE cur.k \in Good(r, known)
    <3>1. e.links = {m \in d.links : ~SamePair(l(cur.k), m)} \cup {l(cur.k)}
      BY <2>2 DEF l
    <3>2. then(cur.k)
      BY <1>1, <1>2, <1>4, <2>2
    <3>3. ASSUME NEW n, n # cur.k PROVE then(n) <=> now(n) /\ ~SamePair(l(cur.k), l(n))
      <4>1. ASSUME then(n) PROVE now(n) /\ ~SamePair(l(cur.k), l(n))
        BY <1>1, <1>2, <1>4, <1>5, <2>2, <3>3, <4>1
      <4>2. ASSUME now(n), ~SamePair(l(cur.k), l(n)) PROVE then(n)
        <5>1. \A later \in Good(r, known) : later < cur.k + 1 => later < cur.k \/ later = cur.k
          BY <1>1, <1>2
        <5>2. n < cur.k + 1
          BY <1>1, <1>2, <1>4, <4>2
        <5>. QED
          BY <1>4, <1>5, <4>2, <5>1, <5>2
      <4>. QED
        BY <4>1, <4>2
    <3>4. ~now(cur.k)
      BY <1>1, <1>4
    <3>. QED
      BY <1>1, <1>3, <3>1, <3>2, <3>3, <3>4
  <2>. QED
    BY <2>1, <2>2
<1>7. e.links = Linked(r, known, to.k)
    BY <1>6 DEF Linked, l, then
<1>8. \A p \in DOMAIN r.clusters :
        /\ Inserted(to, p) <=> Inserted(cur, p)
        /\ \A n \in DOMAIN r.clusters[p] : Passed(to, p, n) <=> Passed(cur, p, n)
    BY DEF Inserted, Passed
<1>. QED
    BY <1>7, <1>8, SoFarAlike DEF SoFar

\* After the last statement the tables are what the reply means.
LEMMA SoFarAll ==
    ASSUME NEW d, IsData(d), NEW r, Reply(r), NEW by, NEW known, NEW ids,
           NEW cur \in Cursor, cur.at = "links", cur.k > Len(r.links),
           SoFar(d, r, by, known, cur, ids)
    PROVE  LET meant == Meant(r, known)
               position(id) == d.clusters[id].position
           IN  /\ \A id \in DOMAIN d.clusters : d.clusters[id].by = by
               /\ \A c, e \in DOMAIN d.clusters : c < e => position(c) < position(e)
               /\ {position(id) : id \in DOMAIN d.clusters} = meant.clusters
               /\ {<<position(m[1]), m[2]>> : m \in d.members} = meant.members
               /\ d.links = meant.links
<1>. DEFINE named(p) == {r.clusters[p][n] : n \in DOMAIN r.clusters[p]} \cap known
            position(id) == d.clusters[id].position
            links == [k \in DOMAIN r.links |-> Normalised(r.links[k])]
            good == {k \in DOMAIN links : links[k].a # links[k].b /\ {links[k].a, links[k].b} \subseteq known}
            members == {m \in (DOMAIN r.clusters) \X known :
                           m[2] \in named(m[1]) /\ \A j \in 1..(m[1] - 1) : m[2] \notin named(j)}
            last == {links[k] : k \in {n \in good :
                         \A later \in good : SamePair(links[n], links[later]) => later <= n}}
<1>1. /\ Meant(r, known).clusters = DOMAIN r.clusters
      /\ Meant(r, known).members = members
      /\ Meant(r, known).links = last
    BY DEF Meant
<1>2. /\ ClustersSoFar(d, r, by, cur) /\ MembersSoFar(d, r, known, cur)
      /\ d.links = Linked(r, known, cur.k)
    BY DEF SoFar
<1>3. {position(id) : id \in DOMAIN d.clusters} = DOMAIN r.clusters
  <2>1. \A p \in DOMAIN r.clusters : \E id \in DOMAIN d.clusters : position(id) = p
    BY <1>2 DEF ClustersSoFar, Inserted
  <2>2. \A id \in DOMAIN d.clusters : position(id) \in DOMAIN r.clusters
    BY <1>2 DEF ClustersSoFar
  <2>. QED
    BY <2>1, <2>2
<1>4. {<<position(m[1]), m[2]>> : m \in d.members} = members
  <2>1. \A p \in DOMAIN r.clusters : Met(r, known, cur, p) = named(p)
    BY DEF Met, Passed
  <2>2. \A p \in DOMAIN r.clusters : \A j \in 1..(p - 1) : j \in DOMAIN r.clusters
    BY DEF Reply
  <2>3. \A p \in DOMAIN r.clusters : \A i :
            Put(d, p, i) <=> i \in named(p) /\ \A j \in 1..(p - 1) : i \notin named(j)
    BY <1>2, <2>1, <2>2 DEF MembersSoFar, First
  <2>4. \A m \in d.members : m = <<m[1], m[2]>> /\ position(m[1]) \in DOMAIN r.clusters
    BY <1>2 DEF IsData, ClustersSoFar
  <2>5. ASSUME NEW p \in DOMAIN r.clusters, NEW i PROVE i \in named(p) => i \in known
    OBVIOUS
  <2>6. \A m \in members : m = <<m[1], m[2]>> /\ m[1] \in DOMAIN r.clusters /\ Put(d, m[1], m[2])
    BY <2>3
  <2>7. ASSUME NEW m \in d.members PROVE <<position(m[1]), m[2]>> \in members
    <3>1. Put(d, position(m[1]), m[2])
      BY DEF Put
    <3>. QED
      BY <2>3, <2>4, <2>5, <3>1
  <2>8. ASSUME NEW x \in members PROVE x \in {<<position(m[1]), m[2]>> : m \in d.members}
    <3>1. PICK m \in d.members : position(m[1]) = x[1] /\ m[2] = x[2]
      BY <2>6 DEF Put
    <3>. QED
      BY <2>6, <3>1
  <2>. HIDE DEF members
  <2>. QED
    BY <2>7, <2>8
<1>5. d.links = last
  <2>1. good = Good(r, known) /\ \A n \in DOMAIN r.links : links[n] = Normalised(r.links[n])
    BY DEF Good
  <2>2. \A n \in DOMAIN r.links : n < cur.k /\ n \in Nat
    BY DEF Reply, Cursor
  <2>3. Good(r, known) \subseteq DOMAIN r.links
    BY DEF Good
  <2>. HIDE DEF good, links
  <2>4. \A n : LastOfPair(r, known, cur.k, n) <=>
            n \in good /\ \A later \in good : SamePair(links[n], links[later]) => later <= n
    BY <2>1, <2>2, <2>3 DEF LastOfPair
  <2>. QED
    BY <1>2, <2>1, <2>3, <2>4 DEF Linked
<1>6. /\ \A id \in DOMAIN d.clusters : d.clusters[id].by = by
      /\ \A c, e \in DOMAIN d.clusters : c < e => position(c) < position(e)
    BY <1>2 DEF ClustersSoFar
<1>. HIDE DEF members, last, position
<1>7. /\ {position(id) : id \in DOMAIN d.clusters} = Meant(r, known).clusters
      /\ {<<position(m[1]), m[2]>> : m \in d.members} = Meant(r, known).members
      /\ d.links = Meant(r, known).links
    BY <1>1, <1>3, <1>4, <1>5
<1>. QED
    BY <1>6, <1>7 DEF position

\* The cursor is somewhere in a reply of the form that was asked for.
LEMMA CursorIn ==
    ASSUME TypeOK, Replied, InPlace
    PROVE  /\ cursor \in Cursor
           /\ ~Free => Reply(reply[writer])
<1>1. cursor \in [at : {"wipe", "clusters", "members", "links"}, k : Nat, m : Nat] /\ cursor.k > 0 /\ cursor.m > 0
    BY DEF TypeOK, InPlace
<1>2. cursor \in Cursor
    BY <1>1 DEF Cursor
<1>. QED
    BY <1>2, ReplyType DEF Reply

LEMMA StatementStep ==
    ASSUME IInv, Midway, [Next]_vars, Statement, ~Commit
    PROVE  Midway'
<1>. DEFINE r == reply[writer]
<1>1. /\ TypeOK /\ Replied /\ InPlace /\ ~Free /\ IsData(work)
      /\ writer' = writer /\ reply' = reply
    BY DEF IInv, TypeOK, Statement, Wipe, InsertCluster, InsertMember, NextCluster, LinksNext, InsertLink,
        At, Inside, requests
<1>2. /\ cursor \in Cursor /\ cursor' \in Cursor /\ Reply(r)
      /\ r.clusters \in Seq(Seq(Ids)) /\ r.links \in Seq(Link) /\ writer \in Clusterers
  <2>1. TypeOK' /\ InPlace'
    BY InvStep DEF IInv
  <2>2. cursor' \in Cursor
    <3>1. /\ cursor' \in [at : {"wipe", "clusters", "members", "links"}, k : Nat, m : Nat]
          /\ cursor'.k > 0 /\ cursor'.m > 0
      BY <2>1 DEF TypeOK, InPlace
    <3>. QED
      BY <3>1 DEF Cursor
  <2>. QED
    BY <1>1, <2>2, CursorIn, ReplyType
<1>3. /\ cursor.at = "wipe" => cursor.k = 1
      /\ cursor.at # "wipe" => SoFar(work, r, writer, valid, cursor, assigned)
    BY <1>1 DEF Midway
<1>4. SUFFICES cursor'.at # "wipe" /\ SoFar(work', r, writer, valid', cursor', assigned')
    BY <1>1 DEF Midway
<1>5. /\ cursor.at = "members" => cursor.k \in DOMAIN r.clusters
      /\ cursor.at = "members" => work.clusters[work.next - 1].position = cursor.k
    BY <1>1 DEF InPlace, At
<1>6. cursor = [at |-> cursor.at, k |-> cursor.k, m |-> cursor.m]
    BY <1>2 DEF Cursor
<1>7. work = [clusters |-> work.clusters, members |-> work.members, links |-> work.links, next |-> work.next]
    BY <1>1 DEF IsData
<1>8. CASE Wipe
  <2>1. cursor'.at = "clusters" /\ cursor'.k = 1 /\ work' = NoData(work.next) /\ assigned' = {}
    BY <1>3, <1>6, <1>8 DEF Wipe, At
  <2>. QED
    BY <1>2, <2>1, SoFarWiped
<1>9. CASE InsertCluster
  <2>1. cursor'.at = "members" /\ cursor'.k = cursor.k /\ cursor'.m = 1
    <3>1. cursor' = [at |-> "members", k |-> cursor.k, m |-> 1]
      BY <1>6, <1>9 DEF InsertCluster
    <3>. QED
      BY <3>1
  <2>2. /\ cursor.at = "clusters" /\ cursor.k <= Len(r.clusters)
        /\ work' = WithCluster(work, work.next, [by |-> writer, position |-> cursor.k])
        /\ valid' = valid /\ assigned' = assigned
    BY <1>9 DEF InsertCluster, At
  <2>. HIDE DEF r
  <2>. QED
    BY <1>1, <1>2, <1>3, <2>1, <2>2, SoFarCluster
<1>10. CASE InsertMember
  <2>. DEFINE i == r.clusters[cursor.k][cursor.m]
  <2>1. cursor'.at = "members" /\ cursor'.k = cursor.k /\ cursor'.m = cursor.m + 1
    <3>1. cursor' = [cursor EXCEPT !.m = @ + 1]
      BY <1>10 DEF InsertMember
    <3>2. cursor' = [at |-> cursor.at, k |-> cursor.k, m |-> cursor.m + 1] /\ cursor.at = "members"
      BY <1>6, <1>10, <3>1 DEF InsertMember, At
    <3>. QED
      BY <3>2
  <2>2. cursor.at = "members" /\ cursor.m <= Len(r.clusters[cursor.k]) /\ valid' = valid
    BY <1>10 DEF InsertMember, At
  <2>3. CASE Skipped(i) /\ UNCHANGED <<work, assigned>>
    <3>1. i \notin valid \/ i \in assigned
      BY <2>3 DEF Skipped
    <3>. HIDE DEF r
    <3>. QED
      BY <1>2, <1>3, <1>5, <2>1, <2>2, <2>3, <3>1, SoFarSkipped
  <2>4. CASE /\ ~Skipped(i) /\ assigned' = assigned \cup {i}
             /\ work' = [work EXCEPT !.members = @ \cup {<<work.next - 1, i>>}]
    <3>1. i \in valid /\ i \notin assigned
      BY <2>4 DEF Skipped
    <3>. HIDE DEF r
    <3>2. /\ work'.clusters = work.clusters /\ work'.links = work.links
          /\ work'.members = work.members \cup {<<work.next - 1, i>>}
      BY <1>7, <2>4
    <3>. QED
      BY <1>2, <1>3, <1>5, <2>1, <2>2, <2>4, <3>1, <3>2, SoFarTaken
  <2>. QED
    BY <1>10, <2>3, <2>4 DEF InsertMember
<1>11. CASE NextCluster
  <2>1. cursor'.at = "clusters" /\ cursor'.k = cursor.k + 1
    <3>1. cursor' = [at |-> "clusters", k |-> cursor.k + 1, m |-> cursor.m]
      BY <1>6, <1>11 DEF NextCluster
    <3>. QED
      BY <3>1
  <2>2. /\ cursor.at = "members" /\ cursor.m > Len(r.clusters[cursor.k])
        /\ UNCHANGED <<work, valid, assigned>>
    BY <1>11 DEF NextCluster, At
  <2>. HIDE DEF r
  <2>. QED
    BY <1>2, <1>3, <1>5, <2>1, <2>2, SoFarNextCluster
<1>12. CASE LinksNext
  <2>1. cursor'.at = "links" /\ cursor'.k = 1
    <3>1. cursor' = [at |-> "links", k |-> 1, m |-> cursor.m]
      BY <1>6, <1>12 DEF LinksNext
    <3>. QED
      BY <3>1
  <2>2. cursor.at = "clusters" /\ cursor.k > Len(r.clusters) /\ UNCHANGED <<work, valid, assigned>>
    BY <1>12 DEF LinksNext, At
  <2>. HIDE DEF r
  <2>. QED
    BY <1>2, <1>3, <2>1, <2>2, SoFarLinks
<1>13. CASE InsertLink
  <2>. DEFINE l == Normalised(r.links[cursor.k])
  <2>1. cursor'.at = "links" /\ cursor'.k = cursor.k + 1
    <3>1. cursor' = [cursor EXCEPT !.k = @ + 1] /\ cursor.at = "links"
      BY <1>13 DEF InsertLink, At
    <3>. QED
      BY <1>6, <3>1
  <2>2. cursor.at = "links" /\ cursor.k <= Len(r.links) /\ UNCHANGED <<valid, assigned>>
    BY <1>13 DEF InsertLink, At
  <2>3. cursor.k \in Good(r, valid) <=> l.a # l.b /\ l.a \in valid /\ l.b \in valid
    BY <1>2, <2>2 DEF Good, Cursor
  <2>4. /\ work'.clusters = work.clusters /\ work'.members = work.members
        /\ IF cursor.k \notin Good(r, valid) THEN work'.links = work.links
           ELSE work'.links = {m \in work.links : ~SamePair(l, m)} \cup {l}
    <3>1. CASE (l.a = l.b \/ l.a \notin valid \/ l.b \notin valid) /\ UNCHANGED work
      BY <2>3, <3>1
    <3>2. CASE /\ l.a # l.b /\ l.a \in valid /\ l.b \in valid
               /\ work' = [work EXCEPT !.links = {m \in @ : ~SamePair(l, m)} \cup {l}]
      <4>. HIDE DEF l
      <4>. QED
        BY <1>7, <2>3, <3>2
    <3>. QED
      BY <1>13, <3>1, <3>2 DEF InsertLink
  <2>. HIDE DEF r
  <2>. QED
    BY <1>2, <1>3, <2>1, <2>2, <2>4, SoFarLink
<1>. QED
    BY <1>8, <1>9, <1>10, <1>11, <1>12, <1>13 DEF Statement

LEMMA MidwayStep ==
    ASSUME IInv, Midway, [Next]_vars PROVE Midway'
<1>1. CASE Statement /\ ~Commit
    BY <1>1, StatementStep
<1>2. CASE Commit
    BY <1>2 DEF Commit, Midway, Free
<1>3. ASSUME NEW c \in Clusterers, Begin(c) PROVE Midway'
    BY <1>3 DEF Begin, Start, Midway
<1>4. ASSUME NEW c \in Clusterers, Fails(c) PROVE Midway'
    BY <1>4 DEF Fails, Midway, Free
<1>5. CASE UNCHANGED transaction
  <2>1. Free' <=> Free
    BY <1>5 DEF transaction, Free
  <2>2. CASE ~Free
    <3>1. writer \in Clusterers /\ reply[writer] \in Replies /\ TypeOK /\ Replied
      BY <2>2, ReplyType DEF IInv
    <3>2. reply'[writer] = reply[writer]
      BY <3>1, ReplyKept
    <3>. QED
      BY <1>5, <2>2, <3>2 DEF Midway, transaction
  <2>. QED
    BY <2>1, <2>2 DEF Midway
<1>6. \/ Statement \/ UNCHANGED transaction
      \/ \E c \in Clusterers : Begin(c) \/ Fails(c)
    BY DEF Next, Clustering, Reading, CreateIdea, Ask, Answer, NoAnswer, ReadIdeas, ReadClusters,
        ReadLinks, Outside, vars
<1>. QED
    BY <1>1, <1>2, <1>3, <1>4, <1>5, <1>6

LEMMA SourcedStep ==
    ASSUME IInv, Midway, Sourced, StoredIsOneReply, [Next]_vars PROVE Sourced' /\ StoredIsOneReply'
<1>1. TypeOK /\ Replied /\ InPlace
    BY DEF IInv
<1>2. CASE Commit
  <2>. DEFINE r == reply[writer]
  <2>1. /\ ~Free /\ cursor.at = "links" /\ cursor.k > Len(r.links)
        /\ stored' = work /\ reply' = reply /\ source' = [by |-> writer, ideas |-> valid]
    BY <1>2 DEF Commit, At
  <2>2. writer \in Clusterers /\ r \in Replies /\ Reply(r) /\ cursor \in Cursor /\ IsData(work)
    BY <1>1, <2>1, ReplyType, CursorIn DEF TypeOK
  <2>3. valid \in SUBSET Nat
    BY <1>1, IdsType DEF TypeOK, Existing
  <2>4. source' \in [by : Clusterers, ideas : SUBSET Nat] /\ source' # None
    BY <2>1, <2>2, <2>3, NoneType
  <2>5. source'.by = writer /\ source'.ideas = valid
    BY <2>1
  <2>6. SoFar(work, r, writer, valid, cursor, assigned)
    BY <2>1 DEF Midway
  <2>. DEFINE meant == Meant(r, valid)
              position(id) == work.clusters[id].position
  <2>7. /\ \A id \in DOMAIN work.clusters : work.clusters[id].by = writer
        /\ \A c, e \in DOMAIN work.clusters : c < e => position(c) < position(e)
        /\ {position(id) : id \in DOMAIN work.clusters} = meant.clusters
        /\ {<<position(m[1]), m[2]>> : m \in work.members} = meant.members
        /\ work.links = meant.links
    <3>. HIDE DEF r
    <3>. QED
      BY <2>1, <2>2, <2>6, SoFarAll
  <2>8. StoredIsOneReply'
    <3>. HIDE DEF r, meant
    <3>1. meant = Meant(reply'[source'.by], source'.ideas)
      BY <2>1, <2>5 DEF r, meant
    <3>. QED
      BY <2>1, <2>4, <2>5, <2>7, <3>1 DEF StoredIsOneReply
  <2>. QED
    BY <2>1, <2>2, <2>4, <2>5, <2>8 DEF Sourced
<1>3. CASE UNCHANGED stored /\ UNCHANGED source
  <2>1. CASE source = None
    BY <1>3, <2>1 DEF Sourced, StoredIsOneReply
  <2>2. CASE source # None
    <3>1. source \in [by : Clusterers, ideas : SUBSET Nat] /\ reply[source.by] \in Replies
      BY <2>2 DEF Sourced
    <3>2. reply'[source.by] = reply[source.by]
      BY <1>1, <3>1, ReplyKept
    <3>. QED
      BY <1>3, <2>2, <3>1, <3>2 DEF Sourced, StoredIsOneReply
  <2>. QED
    BY <2>1, <2>2
<1>4. Commit \/ (UNCHANGED stored /\ UNCHANGED source)
    BY DEF Next, Clustering, Statement, Reading, CreateIdea, Ask, Answer, NoAnswer, Begin, Fails, Wipe,
        InsertCluster, InsertMember, NextCluster, LinksNext, InsertLink, ReadIdeas, ReadClusters, ReadLinks,
        Inside, Outside, history, vars
<1>. QED
    BY <1>2, <1>3, <1>4

LEMMA OneReplyStep == IInv /\ OneReplyInv /\ [Next]_vars => OneReplyInv'
    BY MidwayStep, SourcedStep DEF OneReplyInv

LEMMA OneReplyInit == Init => OneReplyInv
<1>. SUFFICES ASSUME Init PROVE OneReplyInv
    OBVIOUS
<1>1. Midway /\ Sourced
    BY DEF Init, Midway, Sourced, Free
<1>2. stored = NoData(stored.next) /\ source = None
    BY DEF Init, NoData
<1>. QED
    BY <1>1, <1>2 DEF OneReplyInv, StoredIsOneReply

\* A board that is stored is all of one reply and nothing of any other, for
\* replies of any length, whatever ids they repeat or invent and whatever breaks a
\* transaction off (store.go:664-756).
THEOREM OneReply == Spec => []StoredIsOneReply
<1>1. OneReplyInv => StoredIsOneReply
    BY DEF OneReplyInv
<1>. QED
    BY <1>1, OneReplyInit, OneReplyStep, InvHolds, PTL DEF Spec
=============================================================================
