SPECIFICATION Spec
CONSTANTS
    Streams = {s1}
    Teams = {t1}
    Prototypes = {p1}
    Manuals = {}
    Crons = {}
    Clis = {x1}
    MaxBoots = 2
    StoreMayFail = TRUE
    RivalStarts = TRUE
CONSTRAINT OneRequest
INVARIANTS
    ResultAgreesWithRow
    CancelledKeepsPartial
\* Every start is used up and the server is down: the system has stopped.
CHECK_DEADLOCK FALSE
