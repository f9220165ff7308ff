SPECIFICATION Spec
SYMMETRY Anyone
CONSTANTS
    Makers = {m1, m2}
    Kinds = {"brief", "note", "recon"}
    Absent = Absent
    Torn = Torn
    None = None
    MaxEvents = 3
    MaxSeconds = 1
    StoreMayFail = TRUE
INVARIANTS
    IndexAgrees
    NotOlderThanStart
