CONSTANTS
    Uploaders = {u1}
    Viewers = {}
    Slots = {s1, s2, s3, s4}
    NoSlot = NoSlot
    Indices = {0, 1, 2, 3}
    Timestamps = {0, 1, 2, 3, 4}
    Generations = {0}
    SegmentCap = 3
    BackwardBufferSize = 2
    PlaylistWindowSize = 2
    MaxLookaheadMs = 1
    MaxFutureTimestampMs = 2
    ClockStepsBack = FALSE
    MaxNow = 3
SPECIFICATION LiveSpec
SYMMETRY Interchangeable
PROPERTY
    TailNeverRetreats
