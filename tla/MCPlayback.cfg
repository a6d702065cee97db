CONSTANTS
    Uploaders = {u1}
    Viewers = {}
    Slots = {s1, s2, s3, s4}
    NoSlot = NoSlot
    Indices = {0, 1, 2, 3}
    Timestamps = {0, 1, 2, 3, 4, 5}
    Generations = {0}
    SegmentCap = 3
    BackwardBufferSize = 2
    PlaylistWindowSize = 2
    MaxLookaheadMs = 2
    MaxFutureTimestampMs = 3
    ClockStepsBack = FALSE
    MaxNow = 5
    TargetDuration = 1
    MaxSegmentDurationMs = 1
    MaxLookaheadCeilingMs = 2
    StickySlackMs = 1
    MaxPlaylistWindowSpan = 2
    PlaylistTokenTTL = 4
    MsPerMinute = 2
SPECIFICATION LiveSpec
SYMMETRY Interchangeable
INVARIANTS
    WellFormedPlaylist
    RenderMatches
    NoLostWakeup
    AnnouncedPlaylistServed
    StickyOffsetKept
    ListedTokensLive
PROPERTY
    FullWindowAdvances
