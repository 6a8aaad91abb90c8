SPECIFICATION SelectionSpec
CONSTANTS
    Subject = 0
    MinConfidence = 1
    MinCapacity = 1
    NeedsAdjacency = TRUE
    AllowsDegraded = FALSE
    MaxCandidates = 3
    Candidates <- Some
INVARIANTS
    SelectionValidated
    ObjectiveTotal
    InfeasibleCertified
CHECK_DEADLOCK FALSE
