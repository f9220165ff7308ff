SPECIFICATION Spec
CONSTANTS
    Clusterers = {c1, c2}
    Boards = {b1}
    Replies <- SomeReplies
    Ids = {1, 2, 3, 9}
    Weights = {"weak", "strong"}
    MaxIdeas = 3
    None = None
INVARIANTS
    StoredIsOneReply
    BoardIsOneSnapshot
    NoForeignCluster
\* The requests are answered once each.
CHECK_DEADLOCK FALSE
