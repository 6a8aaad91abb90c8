SPECIFICATION Spec
CONSTANTS
    Links <- TwoLinks
    Keys = {}
    NoKey = NoKey
    PolicyOf <- VerifiedThenTrusting
    LinkGen <- TwoLinksFixed
    MaxBudget = 2
    MaxAttempts = 2
    MaxFences = 1
    MaxIdempotency = 0
    MaxEpoch = 1
INVARIANTS
    StandingIsActive
CHECK_DEADLOCK FALSE
