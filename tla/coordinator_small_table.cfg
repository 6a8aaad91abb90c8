SPECIFICATION Spec
CONSTANTS
    Links <- TwoLinks
    Keys = {}
    NoKey = NoKey
    PolicyOf <- TrustingThenDisabled
    LinkGen <- OneLeaves
    MaxBudget = 2
    MaxAttempts = 2
    MaxFences = 0
    MaxIdempotency = 0
    MaxEpoch = 2
INVARIANTS
    AttemptsBounded
    LiveBinding
CHECK_DEADLOCK FALSE
