SPECIFICATION PromptSpec
CONSTANTS
    Streams = {s1}
    Teams = {}
    Prototypes = {}
    Manuals = {m1}
    Crons = {c1}
    Clis = {}
    MaxBoots = 2
    StoreMayFail = FALSE
    RivalStarts = FALSE
INVARIANTS
    NoPhantomRow
    StopLeavesNoRunning
PROPERTIES
    ImplementsRecord
    RunsEnd
    ShutdownEnds
\* Every start is used up and the server is down: the system has stopped.
CHECK_DEADLOCK FALSE
