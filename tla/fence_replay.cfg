SPECIFICATION Spec
CONSTANTS
    a = a
    b = b
    fence = fence
    Compaction = Compaction
    Payloads <- Mixed
    Fences <- OneFence
    MaxSeq = 4
INVARIANTS
    FencesReplay
CHECK_DEADLOCK FALSE
