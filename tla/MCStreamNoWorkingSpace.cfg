CONSTANTS
    Uploaders = {u1, u2}
    Viewers = {v1}
    Slots = {s1, s2}
    NoSlot = NoSlot
    Indices = {0, 1, 2}
    Timestamps = {0, 1, 2, 3}
    Generations = {0, 1}
    SegmentCap = 2
    BackwardBufferSize = 1
    PlaylistWindowSize = 1
    MaxLookaheadMs = 1
    MaxFutureTimestampMs = 2
    ClockStepsBack = FALSE
    MaxNow = 3
SPECIFICATION FairSpec
PROPERTY
    UploadsResume
