CONSTANTS
    Uploaders = {u1, u2}
    Viewers = {v1, v2}
    Slots = {s1, s2, s3, s4}
    NoSlot = NoSlot
    Indices = {0, 1, 2, 3}
    Timestamps = {0, 1, 2, 3, 4}
    Generations = {0, 1}
    SegmentCap = 3
    BackwardBufferSize = 2
    PlaylistWindowSize = 2
    MaxLookaheadMs = 1
    MaxFutureTimestampMs = 2
    ClockStepsBack = TRUE
    MaxNow = 3
SPECIFICATION Spec
SYMMETRY Interchangeable
INVARIANTS
    TypeOK
    SlotPartition
    NoReadAfterRecycle
    NoPanic
    Ordered
    GenerationMonotone
    IInv
    SliceMatches
PROPERTY
    WindowRetained
