\* A session ends while the window is open and the user does nothing.
CONSTANTS
    g1 = g1
    x1 = x1
    x2 = x2
    n1 = n1
    n2 = n2
    None = None
    Closed = Closed
    Clients = {g1}
    Tokens = {x1, x2}
    Conns = {n1, n2}
    TTL = 1
    Margin = 0
    DiskMayFail = FALSE
    MaxClock = 2
    MaxCrashes = 0
SPECIFICATION FairSpec
PROPERTIES
    RejectionIsNoticed
