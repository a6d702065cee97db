CONSTANTS
    Streams = {a, b}
    NoKey = NoKey
    MaxInt64 = 31
    Secrets = {k1, k2}
    MsPerMinute = 2
    MaxUint32 = 10
    PlaylistTokenTTL = 4
    InitTokenBucketMs = 3
    MinViewerTokenTTLMs = 3
    MaxViewerTokenDefaultTTLMs = 8
    MaxLookaheadMs = 2
    MaxWindowSpanMs = 2
    SegmentTimes = {3}
    ExpiryRequests <- Expiries
    MaxGrants = 1
    MaxFetches = 2
    MaxNow = 13
SPECIFICATION Spec
SYMMETRY Interchangeable
INVARIANTS
    TypeOK
    PlaylistAccess
    ReplayBounded
    FreshPlaylistFetchable
    GrantLifetime
PROPERTY
    URIsStable
