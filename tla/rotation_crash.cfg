SPECIFICATION Spec
CONSTANTS
    a = a
    b = b
    fence = fence
    Compaction = Compaction
    Payloads <- Plain
    Fences <- NoFence
    MaxSeq = 4
INVARIANTS
    CoveredPrefixSkipped
CHECK_DEADLOCK FALSE
