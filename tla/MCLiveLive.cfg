CONSTANTS
    Uploaders = {u1}
    Viewers = {}
    Slots = {s1, s2, s3}
    NoSlot = NoSlot
    Indices = {0, 1, 2}
    Timestamps = {0, 1, 2}
    Generations = {0, 1}
    SegmentCap = 2
    BackwardBufferSize = 1
    PlaylistWindowSize = 1
    MaxLookaheadMs = 1
    MaxFutureTimestampMs = 2
    ClockStepsBack = FALSE
    MaxNow = 2
SPECIFICATION FairLiveSpec
PROPERTIES
    PlaylistConverges
    KeepsLifePromise
    PublishedSegmentStable
    ImplementsLife
