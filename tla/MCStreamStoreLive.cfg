CONSTANTS
    Admins = {a1, a2}
    Requests = {r1}
    IPs = {ip1, ip2}
    Proxies = {p}
    NoAddress = NoAddress
    MaxHops = 2
    MaxClaims = 2
    MaxStreams = 2
    MaxIPsPerStream = 2
    MaxWindowMs = 1
    RequestTimeout = 1
SPECIFICATION FairSpec
PROPERTIES
    PollAnswered
    DeletedPollReleased
    NoRendererLeak
    DeleteReturns
    PhantomsExpire
INVARIANT
    CountedAsSelf
