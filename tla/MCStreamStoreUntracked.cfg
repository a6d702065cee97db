CONSTANTS
    Admins = {a1, a2}
    Requests = {r1}
    IPs = {ip1}
    Proxies = {}
    NoAddress = NoAddress
    MaxHops = 0
    MaxClaims = 0
    MaxStreams = 2
    MaxIPsPerStream = 1
    MaxWindowMs = 1
    RequestTimeout = 1
SPECIFICATION Spec
SYMMETRY Interchangeable
PROPERTY
    FetchStaysCounted
