\* A server with two accounts, a window, and a terminal on one mailbox.
CONSTANTS
    me = me
    other = other
    p1 = p1
    p2 = p2
    old = old
    w1 = w1
    None = None
    Accounts = {me, other}
    Me = me
    Messages = {p1}
    Old = old
    Envelopes <- BothOrMe
    Windows = {w1}
    MaxRcpt = 2
    MaxEvents = 2
    MaxFaults = 1
SPECIFICATION FairSpec
CHECK_DEADLOCK FALSE
INVARIANTS
    TypeOK
    NoMailLost
    NoFalseAlarm
    CancelStopsRest
PROPERTIES
    CatchesUp
