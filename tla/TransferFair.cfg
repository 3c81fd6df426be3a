\* Two accounts, a recipient whose account comes and goes, three faults, four retries.
CONSTANTS
    alice = alice
    bob = bob
    ghost = ghost
    None = None
    Rcpts = {alice, bob, ghost}
    Accounts = {alice, bob}
    Delays = 4
    Configured = TRUE
    BackInTime = TRUE
    MaxFaults = 3
SPECIFICATION FairSpec
CHECK_DEADLOCK FALSE
INVARIANTS
    TypeOK
    VerdictIsTrue
    CopiesHaveCause
PROPERTIES
    Arrives
