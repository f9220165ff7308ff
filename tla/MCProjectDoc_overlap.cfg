SPECIFICATION Spec
SYMMETRY Requests
CONSTANTS
    Passes = {p1, p2}
    Kinds = {"draft", "apply", "critique", "brief", "recon"}
    Presets = TRUE
    MaxArtifacts = 3
    MaxVersion = 2
    MaxClock = 2
INVARIANTS
    PendingIsUnfolded
    FreshReconShown
    ReconReadsList
