SPECIFICATION FairSpec
CONSTANTS
    Pieces = {"x", "y", "z"}
    Chunks <- OneOrTwoPieces
    NL = NL
    MaxLines = 3
    MaxTicks = 1
INVARIANTS
    PageFollows
    ToldOnce
    RowIsWhatWasSaid
PROPERTIES
    HeartbeatEnds
\* The request has returned and its goroutine has ended.
CHECK_DEADLOCK FALSE
