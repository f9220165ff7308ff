SPECIFICATION Spec
SYMMETRY Requests
CONSTANTS
    Ideas <- ThreeIdeas
    Candidates <- ThreeCandidates
    Webs = {w1, w2}
    None = None
    MaxProjects = 3
    StoreMayFail = TRUE
INVARIANTS
    AnswerLeadsHome
    FailureNeedsRace
PROPERTY
    DuplicateNeedsRace
