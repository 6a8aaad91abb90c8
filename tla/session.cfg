SPECIFICATION Spec
CONSTANTS
    Clients = {c1}
    MaxConns = 2
    MaxEpoch = 2
    MaxCalls = 2
    MaxStray = 2
INVARIANTS RunsWhereMade RunsOnce AnswerIsOwn
PROPERTY CallReturns
CHECK_DEADLOCK FALSE
