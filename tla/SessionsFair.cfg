\* One program, a restart of apid, calls that break at any point.
CONSTANTS
    g1 = g1
    x1 = x1
    x2 = x2
    n1 = n1
    n2 = n2
    None = None
    Closed = Closed
    Clients = {g1}
    Tokens = {x1, x2}
    Conns = {n1, n2}
    TTL = 1
    Margin = 0
    DiskMayFail = FALSE
    MaxClock = 2
    MaxCrashes = 1
SPECIFICATION FairSpec
INVARIANTS
    TypeOK
    LoggedOutStaysOut
    SessionsSurvive
PROPERTIES
    OnlyLiveSessionsPass
    EveryCallEnds
