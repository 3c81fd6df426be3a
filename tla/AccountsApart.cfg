\* Two apid threads and a command in its own process, with a kill.
\* The callers stop after MaxCalls calls.
CONSTANTS
    a1 = a1
    a2 = a2
    cli = cli
    apid = apid
    command = command
    u1 = u1
    u2 = u2
    u3 = u3
    c1 = c1
    c2 = c2
    p = p
    q = q
    k = k
    None = None
    Unused = Unused
    NoCall = NoCall
    NoCaller = NoCaller
    NoFile = NoFile
    Empty = Empty
    Garbage = Garbage
    i1 = i1
    i2 = i2
    i3 = i3
    i4 = i4
    i5 = i5
    i6 = i6
    Callers = {a1, a2, cli}
    Processes = {apid, command}
    ProcOf <- CliApart
    OpenReg = {cli}
    Requests <- EveryRequest
    Users = {u1, u2, u3}
    Codes = {c1, c2}
    Passwords = {p, q}
    Keys = {k}
    Start <- OneUser
    MaxFailed = 2
    LockFor = 1
    Inodes = {i1, i2, i3, i4, i5, i6}
    MaxClock = 1
    MaxCalls = 3
    MaxCrashes = 1
SPECIFICATION Spec
INVARIANTS
    NothingInvented
    LockoutEnds
CHECK_DEADLOCK FALSE
