------------------------------- MODULE Board -------------------------------
(***************************************************************************)
(* The board of ideas: requests that ask a model to cluster them and store   *)
(* its reply in one transaction of many statements, and pages that read      *)
(* ideas, clusters and links with one query each.  The database is one       *)
(* connection: while a transaction is open nobody else reads or writes.      *)
(***************************************************************************)
EXTENDS Naturals, Sequences

CONSTANTS Clusterers,   \* requests to /board/cluster
          Boards,       \* requests to /board/data
          Replies,      \* what the model may reply, once parsed
          Ids,          \* the ids replies name, those of ideas and others
          Weights,
          MaxIdeas,     \* bound: ideas in the end
          None

ASSUME RepliesType ==
    \A r \in Replies : r.clusters \in Seq(Seq(Ids)) /\ r.links \in Seq([a : Ids, b : Ids, weight : Weights])
ASSUME IdsType == Ids \subseteq Nat /\ MaxIdeas \in Nat
ASSUME NoneType == None \notin Clusterers /\ None \notin Replies /\ None \notin [by : Clusterers, ideas : SUBSET Nat]

VARIABLES
    ideas,       \* how many there are: their ids are 1 to ideas, none is ever deleted
    stored,      \* the tables of the board
    writer,      \* whose transaction is open
    work,        \* the tables as its statements have left them
    cursor,      \* which statement is next
    valid, assigned,
    clusterer,   \* where each request to cluster is
    reply,       \* the reply it got
    board,       \* what each page has read
    version,     \* history: how many replies have been stored
    source       \* history: whose reply is stored, and the ideas it met

transaction == <<writer, work, cursor, valid, assigned>>
requests == <<clusterer, reply>>
history == <<version, source>>
vars == <<ideas, stored, transaction, requests, board, history>>

Existing == 1..ideas
\* next is the AUTOINCREMENT counter of idea_clusters, which a DELETE leaves.
NoData(next) == [clusters |-> <<>>, members |-> {}, links |-> {}, next |-> next]
Start == [at |-> "wipe", k |-> 1, m |-> 1]
\* What a page has read, of which versions, and whether a query was refused.
Page(at, shown, clusters, links, versions, refused) ==
    [at |-> at, ideas |-> shown, clusters |-> clusters, links |-> links, versions |-> versions, refused |-> refused]
Unread == Page("ideas", {}, <<>>, {}, {}, FALSE)

Init ==
    /\ ideas \in 0..MaxIdeas
    /\ stored = NoData(1)
    /\ writer = None /\ work = stored /\ cursor = Start /\ valid = {} /\ assigned = {}
    /\ clusterer = [c \in Clusterers |-> "new"] /\ reply = [c \in Clusterers |-> None]
    /\ board = [b \in Boards |-> Unread]
    /\ version = 0 /\ source = None

Free == writer = None

CreateIdea ==
    /\ Free /\ ideas < MaxIdeas
    /\ ideas' = ideas + 1
    /\ UNCHANGED <<stored, transaction, requests, board, history>>

-----------------------------------------------------------------------------
\* A request to cluster, up to its reply.

Ask(c) ==
    /\ clusterer[c] = "new" /\ Free
    /\ clusterer' = [clusterer EXCEPT ![c] = IF ideas < 2 THEN "failed" ELSE "asked"]
    /\ UNCHANGED <<ideas, stored, transaction, reply, board, history>>

Answer(c) ==
    /\ clusterer[c] = "asked"
    /\ clusterer' = [clusterer EXCEPT ![c] = "answered"]
    /\ \E r \in Replies : reply' = [reply EXCEPT ![c] = r]
    /\ UNCHANGED <<ideas, stored, transaction, board, history>>

\* No answer, no object in it, or not of the form asked for.
NoAnswer(c) ==
    /\ clusterer[c] = "asked"
    /\ clusterer' = [clusterer EXCEPT ![c] = "failed"]
    /\ UNCHANGED <<ideas, stored, transaction, reply, board, history>>

-----------------------------------------------------------------------------
\* ReplaceClusterData, one statement after the other.

Begin(c) ==
    /\ clusterer[c] = "answered" /\ Free
    /\ writer' = c /\ work' = stored /\ cursor' = Start
    /\ clusterer' = [clusterer EXCEPT ![c] = "storing"]
    /\ UNCHANGED <<ideas, stored, valid, assigned, reply, board, history>>

\* The transaction ends without a commit: a statement is refused, BEGIN itself
\* is, or the process dies.
Fails(c) ==
    /\ clusterer[c] = "storing" \/ (clusterer[c] = "answered" /\ Free)
    /\ clusterer' = [clusterer EXCEPT ![c] = "failed"]
    /\ writer' = None
    /\ UNCHANGED <<ideas, stored, work, cursor, valid, assigned, reply, board, history>>

At(statement) == ~Free /\ cursor.at = statement
Inside == <<ideas, stored, writer, requests, board, history>>

\* Mutant: the old links stay.
WipeClusters ==
    /\ At("wipe")
    /\ work' = [NoData(work.next) EXCEPT !.links = work.links]
    /\ valid' = Existing /\ assigned' = {}
    /\ cursor' = [cursor EXCEPT !.at = "clusters"]
    /\ UNCHANGED Inside

Wipe ==
    /\ At("wipe")
    /\ work' = NoData(work.next)
    /\ valid' = Existing /\ assigned' = {}
    /\ cursor' = [cursor EXCEPT !.at = "clusters"]
    /\ UNCHANGED Inside

\* The tables with one more cluster, under the id the counter gives.
WithCluster(data, id, label) ==
    [data EXCEPT !.clusters = [i \in DOMAIN @ \cup {id} |-> IF i = id THEN label ELSE @[i]],
                 !.next = id + 1]

\* Mutant: without AUTOINCREMENT the ids of deleted rows are given again.
InsertClusterReusingIds ==
    /\ At("clusters") /\ cursor.k <= Len(reply[writer].clusters)
    /\ work' = WithCluster(work, cursor.k, [by |-> writer, position |-> cursor.k])
    /\ cursor' = [cursor EXCEPT !.at = "members", !.m = 1]
    /\ UNCHANGED <<valid, assigned, Inside>>

\* A label is known by the reply and the position it had there.
InsertCluster ==
    /\ At("clusters") /\ cursor.k <= Len(reply[writer].clusters)
    /\ work' = WithCluster(work, work.next, [by |-> writer, position |-> cursor.k])
    /\ cursor' = [cursor EXCEPT !.at = "members", !.m = 1]
    /\ UNCHANGED <<valid, assigned, Inside>>

Skipped(i) == i \notin valid \/ i \in assigned

\* The constraints on members are NoConstraintBroken's matter.
InsertMember ==
    /\ At("members") /\ cursor.m <= Len(reply[writer].clusters[cursor.k])
    /\ LET i == reply[writer].clusters[cursor.k][cursor.m]
       IN  \/ Skipped(i) /\ UNCHANGED <<work, assigned>>
           \/ /\ ~Skipped(i)
              /\ work' = [work EXCEPT !.members = @ \cup {<<work.next - 1, i>>}]
              /\ assigned' = assigned \cup {i}
    /\ cursor' = [cursor EXCEPT !.m = @ + 1]
    /\ UNCHANGED <<valid, Inside>>

NextCluster ==
    /\ At("members") /\ cursor.m > Len(reply[writer].clusters[cursor.k])
    /\ cursor' = [cursor EXCEPT !.at = "clusters", !.k = @ + 1]
    /\ UNCHANGED <<work, valid, assigned, Inside>>

LinksNext ==
    /\ At("clusters") /\ cursor.k > Len(reply[writer].clusters)
    /\ cursor' = [cursor EXCEPT !.at = "links", !.k = 1]
    /\ UNCHANGED <<work, valid, assigned, Inside>>

Normalised(l) == IF l.a > l.b THEN [l EXCEPT !.a = l.b, !.b = l.a] ELSE l
SamePair(l, m) == l.a = m.a /\ l.b = m.b

\* INSERT OR REPLACE: the last link of a pair stays.
InsertLink ==
    /\ At("links") /\ cursor.k <= Len(reply[writer].links)
    /\ LET l == Normalised(reply[writer].links[cursor.k])
       IN  \/ (l.a = l.b \/ l.a \notin valid \/ l.b \notin valid) /\ UNCHANGED work
           \/ /\ l.a # l.b /\ l.a \in valid /\ l.b \in valid
              /\ work' = [work EXCEPT !.links = {m \in @ : ~SamePair(l, m)} \cup {l}]
    /\ cursor' = [cursor EXCEPT !.k = @ + 1]
    /\ UNCHANGED <<valid, assigned, Inside>>

Commit ==
    /\ At("links") /\ cursor.k > Len(reply[writer].links)
    /\ stored' = work /\ writer' = None
    /\ clusterer' = [clusterer EXCEPT ![writer] = "stored"]
    /\ version' = version + 1 /\ source' = [by |-> writer, ideas |-> valid]
    /\ UNCHANGED <<ideas, work, cursor, valid, assigned, reply, board>>

-----------------------------------------------------------------------------
\* boardData: three queries, whose errors are dropped.

Outside == <<ideas, stored, transaction, requests, history>>
Reads(b, at) == board[b].at = at /\ Free

\* Mutant: an inner join.
BoardIdeasInner ==
    {x \in Existing \X (DOMAIN stored.clusters) : <<x[2], x[1]>> \in stored.members}

\* The left join: an idea in no cluster is once there, with 0.
BoardIdeas ==
    {x \in Existing \X (DOMAIN stored.clusters) : <<x[2], x[1]>> \in stored.members}
        \cup {<<i, 0>> : i \in {j \in Existing : \A c \in DOMAIN stored.clusters : <<c, j>> \notin stored.members}}

ReadIdeas(b) ==
    /\ Reads(b, "ideas")
    /\ \E refused \in BOOLEAN :
        board' = [board EXCEPT ![b] =
            Page("clusters", IF refused THEN {} ELSE BoardIdeas, <<>>, {}, {version}, refused)]
    /\ UNCHANGED Outside

ReadClusters(b) ==
    /\ Reads(b, "clusters")
    /\ \E refused \in BOOLEAN :
        board' = [board EXCEPT ![b] =
            Page("links", @.ideas, IF refused THEN <<>> ELSE stored.clusters, {},
                 @.versions \cup {version}, @.refused \/ refused)]
    /\ UNCHANGED Outside

ReadLinks(b) ==
    /\ Reads(b, "links")
    /\ \E refused \in BOOLEAN :
        board' = [board EXCEPT ![b] =
            Page("shown", @.ideas, @.clusters, IF refused THEN {} ELSE stored.links,
                 @.versions \cup {version}, @.refused \/ refused)]
    /\ UNCHANGED Outside

Clustering(c) == Ask(c) \/ Answer(c) \/ NoAnswer(c) \/ Begin(c) \/ Fails(c)
Statement == Wipe \/ InsertCluster \/ InsertMember \/ NextCluster \/ LinksNext \/ InsertLink \/ Commit
Reading(b) == ReadIdeas(b) \/ ReadClusters(b) \/ ReadLinks(b)

Next ==
    \/ CreateIdea
    \/ \E c \in Clusterers : Clustering(c)
    \/ Statement
    \/ \E b \in Boards : Reading(b)

Spec == Init /\ [][Next]_vars

-----------------------------------------------------------------------------

Link == [a : Ids, b : Ids, weight : Weights]

Labels == [by : Clusterers, position : Nat]
IsData(d) ==
    /\ d = [clusters |-> d.clusters, members |-> d.members, links |-> d.links, next |-> d.next]
    /\ d.next \in Nat \ {0}
    /\ DOMAIN d.clusters \subseteq 1..(d.next - 1)
    /\ \A id \in DOMAIN d.clusters : d.clusters[id] \in Labels
    /\ d.members \subseteq (DOMAIN d.clusters) \X Existing
    /\ d.links \subseteq {l \in Link : l.a \in Existing /\ l.b \in Existing /\ l.a < l.b}

TypeOK ==
    /\ ideas \in 0..MaxIdeas
    /\ IsData(stored) /\ IsData(work)
    /\ writer \in Clusterers \cup {None}
    /\ cursor \in [at : {"wipe", "clusters", "members", "links"}, k : Nat, m : Nat]
    /\ valid \subseteq Existing /\ assigned \subseteq Existing
    /\ clusterer \in [Clusterers -> {"new", "asked", "answered", "storing", "stored", "failed"}]
    /\ reply \in [Clusterers -> Replies \cup {None}]
    /\ DOMAIN board = Boards
    /\ \A b \in Boards :
        /\ board[b].at \in {"ideas", "clusters", "links", "shown"}
        /\ \A shown \in board[b].ideas : shown[1] \in Existing /\ shown[2] \in 0..(stored.next - 1)
        /\ \A id \in DOMAIN board[b].clusters : board[b].clusters[id] \in Labels
    /\ version \in Nat

\* The ideas a reply puts in the cluster at a position.
Named(label) == {reply[label.by].clusters[label.position][m] : m \in DOMAIN reply[label.by].clusters[label.position]}

\* The clusters, members and links of one reply: every cluster it has, each idea
\* where it is named first, and of every pair of ideas the last link.
Meant(r, known) ==
    LET named(k) == {r.clusters[k][m] : m \in DOMAIN r.clusters[k]} \cap known
        links == [k \in DOMAIN r.links |-> Normalised(r.links[k])]
        good == {k \in DOMAIN links : links[k].a # links[k].b /\ {links[k].a, links[k].b} \subseteq known}
    IN  [clusters |-> DOMAIN r.clusters,
         members |-> {m \in (DOMAIN r.clusters) \X known :
                         m[2] \in named(m[1]) /\ \A j \in 1..(m[1] - 1) : m[2] \notin named(j)},
         links |-> {links[k] : k \in {n \in good :
                         \A later \in good : SamePair(links[n], links[later]) => later <= n}}]

\* The board stored is all of one reply and nothing of any other, or nothing:
\* whatever fails in the middle, and whatever ids the reply repeats or invents
\* (store.go:664-756).
StoredIsOneReply ==
    IF source = None THEN stored = NoData(stored.next)
    ELSE LET meant == Meant(reply[source.by], source.ideas)
             position(id) == stored.clusters[id].position
         IN  /\ \A id \in DOMAIN stored.clusters : stored.clusters[id].by = source.by
             /\ \A c, d \in DOMAIN stored.clusters : c < d => position(c) < position(d)
             /\ {position(id) : id \in DOMAIN stored.clusters} = meant.clusters
             /\ {<<position(m[1]), m[2]>> : m \in stored.members} = meant.members
             /\ stored.links = meant.links

\* No id a reply invents and none it repeats costs the whole clustering: what is
\* inserted has an idea, and is not there yet (store.go:684-688, 718-735).
NoConstraintBroken ==
    At("members") /\ cursor.m <= Len(reply[writer].clusters[cursor.k]) =>
        LET i == reply[writer].clusters[cursor.k][cursor.m]
        IN  ~Skipped(i) => i \in Existing /\ <<work.next - 1, i>> \notin work.members

\* What a page shows is one state of the board unless a reply was stored between
\* its queries or one of them was refused, and in any case it shows the ideas
\* there were, each once (handlers.go:1410-1413, store.go:718-720, 775-780).
BoardIsOneSnapshot ==
    \A b \in Boards : board[b].at = "shown" =>
        /\ \A x, y \in board[b].ideas : x[1] = y[1] => x = y
        /\ \E n \in 0..ideas : {x[1] : x \in board[b].ideas} = 1..n
        /\ board[b].versions = {version} /\ ~board[b].refused =>
            /\ board[b].clusters = stored.clusters /\ board[b].links = stored.links
            /\ {<<x[2], x[1]>> : x \in {y \in board[b].ideas : y[2] # 0}}
                = {m \in stored.members : m[2] \in {x[1] : x \in board[b].ideas}}

\* Even a page that read ideas of one clustering and clusters of the next shows
\* no idea in a cluster it was not put in (db.go:119, handlers.go:1411-1412).
NoForeignCluster ==
    \A b \in Boards : \A x \in board[b].ideas :
        x[2] \in DOMAIN board[b].clusters => x[1] \in Named(board[b].clusters[x[2]])
=============================================================================
