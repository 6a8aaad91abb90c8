SPECIFICATION Spec
CONSTANTS
    Header = 2
    MaxPayload = 2
    MaxChunk = 4
    MaxFrames = 4
INVARIANTS
    BufferBounded
    SoundNeverRefused
    DecodingFollowsArrival
CHECK_DEADLOCK FALSE
