SPECIFICATION Spec
CONSTANTS
    a = a
    b = b
    fence = fence
    Compaction = Compaction
    Payloads <- Mixed
    Fences <- OneFence
    MaxSeq = 6
INVARIANTS
    TypeOK
    Contiguous
    MemoryMatchesMedium
PROPERTIES
    ImplementsDurableLog
CHECK_DEADLOCK FALSE
