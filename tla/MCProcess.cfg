CONSTANTS
    Admins = {a1, a2}
    Requests = {r1, r2}
    IPs = {ip1, ip2}
    Proxies = {}
    NoAddress = NoAddress
    MaxHops = 0
    MaxClaims = 0
    MaxStreams = 2
    MaxIPsPerStream = 1
    MaxWindowMs = 1
    RequestTimeout = 1
    MaxInt = 63
    Absent = Absent
    MaxPlaylistWindowSpan = 6
    DefaultMediaWindowSize = 2
    MaxLookaheadCeilingMs = 40
    MsPerSecond = 2
    InitRequests <- EdgeRequests
    Environments <- EdgeEnvironments
    SHUTDOWN_TIMEOUT = 2
    Second = 1
SPECIFICATION ProcessSpec
SYMMETRY Interchangeable
INVARIANTS
    TypeOK
    OneLiveStream
    NoDoubleClose
    TrackerBounded
    InitMeansWhatItSays
PROPERTIES
    SteadyViewerKept
    CutOffLate
