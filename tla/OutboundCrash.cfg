\* One daemon that may be killed, as may the clients; answers may be lost.
CONSTANTS
    m1 = m1
    m2 = m2
    r1 = r1
    r2 = r2
    d = d
    f = f
    Msgs = {m1, m2}
    Rcpts = {r1, r2}
    RcptsOf <- OneAndTwo
    Unencodable = {}
    Daemons = {d}
    Flushers = {}
    Delays <- OneRetry
    NoMsg = NoMsg
    NoFile = NoFile
    Serialised = TRUE
    UserDeletes = FALSE
    LossyLink = TRUE
    MaxClock = 4
    MaxCrashes = 2
SPECIFICATION LiveSpec
INVARIANTS
    NoEntryWithoutMessage
PROPERTIES
    QueueDrains
