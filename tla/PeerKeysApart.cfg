\* Two message windows, a compose window and the Keys dialog of one program,
\* which rewrite known_keys.json one after another.
CONSTANTS
    alice = alice
    bob = bob
    nick = nick
    k1 = k1
    k2 = k2
    k3 = k3
    w1 = w1
    w2 = w2
    None = None
    Peers = {alice, bob}
    Nicks = {nick}
    PeerKey = {k1, k2, k3}
    Windows = {w1, w2}
    MaxTo = 2
    Serialised = TRUE
    MaxEvents = 5
    MaxFaults = 1
SPECIFICATION Spec
SYMMETRY Alike
CHECK_DEADLOCK FALSE
INVARIANTS
    TypeOK
    PublishedCanBeOpened
    WarnedOfChange
    KnownKeyIsUsed
PROPERTIES
    PinByUserOnly
