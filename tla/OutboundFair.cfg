\* One daemon under fairness, writers that do not overlap, no crash, no deletion.
CONSTANTS
    m1 = m1
    m2 = m2
    r1 = r1
    r2 = r2
    d = d
    f = f
    Msgs = {m1, m2}
    Rcpts = {r1, r2}
    RcptsOf <- OneAndTwo
    Unencodable = {}
    Daemons = {d}
    Flushers = {}
    Delays <- TwoRetries
    NoMsg = NoMsg
    NoFile = NoFile
    Serialised = TRUE
    UserDeletes = FALSE
    LossyLink = FALSE
    MaxClock = 4
    MaxCrashes = 0
SPECIFICATION LiveSpec
INVARIANTS
    TypeOK
    NoOrphan
    NoSecondDelivery
    OneVerdict
    FailureIsReported
PROPERTIES
    EveryDueEntryAttempted
    EventuallySettled
    KeepsPromise
