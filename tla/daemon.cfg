SPECIFICATION Spec
CONSTANTS
    s1 = s1
    s2 = s2
    d0 = d0
    d1 = d1
    d2 = d2
    None = None
    Sessions <- TwoConnections
    Descriptors <- ThreeDescriptors
    ListenerFd = d0
    MaxSessions = 1
    MaxFailures = 2
    MaxRequests = 2
    ExitAfters = {0, 2}
INVARIANTS
    EngineOutlivesThreads
    SessionsBounded
    DescriptorsOwned
    ListenerNotRecycled
PROPERTIES
    Stops
CHECK_DEADLOCK FALSE
