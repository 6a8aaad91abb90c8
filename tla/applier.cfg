SPECIFICATION ApplierSpec
CONSTANTS
    Links <- OneLink
    Keys = {}
    NoKey = NoKey
    PolicyOf <- VerifiedThenTrusting
    LinkGen <- Fixed
    MaxBudget = 1
    MaxAttempts = 1
    MaxFences = 1
    MaxIdempotency = 1
    MaxEpoch = 2
    Workers = {w1, w2}
    ClaimLimit = 1
INVARIANTS
    ApplierTypeOK
    NoStaleDirective
    EffectHasGrant
    CommittedHasEffect
    DeniedHasNoEffect
PROPERTIES
    PendingAnswered
CHECK_DEADLOCK FALSE
