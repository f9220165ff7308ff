SPECIFICATION FairSpec
CONSTANTS
    Procs = {p1, p2, p3}
    Script <- SomeTables
    StoreMayFail = TRUE
INVARIANTS
    OpenedIsCurrent
    FailureNeedsRace
PROPERTIES
    SomebodyOpens
\* Every process opens the file once.
CHECK_DEADLOCK FALSE
