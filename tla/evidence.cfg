SPECIFICATION Spec
CONSTANTS
    Subject = 0
    MinConfidence = 1
    MinCapacity = 1
    NeedsAdjacency = TRUE
    AllowsDegraded = FALSE
    MinFailureConfidence = 1
    Links <- SubjectAndAlternate
    Deployments <- Five
INVARIANTS
    EntriesCounted
    OnlyCurrentProcesses
    EstablishedByTestimony
    AlternatesByTestimony
CHECK_DEADLOCK FALSE
