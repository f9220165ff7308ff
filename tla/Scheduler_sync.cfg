SPECIFICATION PingSpec
CONSTANTS
    Agents = {a1, a2}
    Valid = {hourly, daily}
    Invalid = {bad}
    Prompts = {p1}
    Blank = Blank
    None = None
    MaxEdits = 1
    ListMayFail = TRUE
INVARIANTS
    FollowsSnapshot
    NoLostWakeup
PROPERTIES
    TickerConverges
\* The server may refuse to start, and its loop exits after Stop.
CHECK_DEADLOCK FALSE
