\* smtpd without an onion in its configuration may start before Tor.
CONSTANTS
    alice = alice
    bob = bob
    ghost = ghost
    None = None
    Rcpts = {alice}
    Accounts = {alice}
    Delays = 1
    Configured = FALSE
    BackInTime = TRUE
    MaxFaults = 0
SPECIFICATION Spec
CHECK_DEADLOCK FALSE
INVARIANTS
    RefusedOnlyWithCause
