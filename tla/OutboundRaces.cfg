\* A daemon and a flush worker at one message, a crash, deletions, lost answers,
\* a recipient smtplib cannot encode.
CONSTANTS
    m1 = m1
    m2 = m2
    r1 = r1
    r2 = r2
    d = d
    f = f
    Msgs = {m1}
    Rcpts = {r1, r2}
    RcptsOf <- JustOne
    Unencodable = {r2}
    Daemons = {d}
    Flushers = {f}
    Delays <- OneRetry
    NoMsg = NoMsg
    NoFile = NoFile
    Serialised = FALSE
    UserDeletes = TRUE
    LossyLink = TRUE
    MaxClock = 1
    MaxCrashes = 1
SPECIFICATION Spec
INVARIANTS
    NeverLost
    SentOnlyWhenResolved
    GivenUpOnlyWithCause
    NoticeIsAboutFailure
