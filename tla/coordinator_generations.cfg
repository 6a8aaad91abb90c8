SPECIFICATION Spec
CONSTANTS
    Links <- OneLink
    Keys = {k1}
    NoKey = NoKey
    PolicyOf <- VerifiedTwice
    LinkGen <- SameThenNext
    MaxBudget = 2
    MaxAttempts = 2
    MaxFences = 1
    MaxIdempotency = 1
    MaxEpoch = 3
INVARIANTS
    TypeOK
    SingleWinner
    StandingIsActive
    OneClaim
    LiveBinding
    AckedDurable
    GrantedOnce
PROPERTIES
    NoResurrection
CHECK_DEADLOCK FALSE
