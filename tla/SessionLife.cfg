SPECIFICATION Sources
CONSTANTS
    d1 = d1
    d2 = d2
    d3 = d3
    None = None
    Descriptors <- MCDescriptors
    MaxAddresses = 2
    MaxAttempts = 3
    Peers = {p1, p2, p3}
    Profiles = {profile}
    NoProfile = NoProfile
INVARIANTS
    SocketsReturned
    NeverClosesOthers
    NeverAbandoned
    WaitsOnlyForAttempts
    NoLateCalls
    OneOwner
PROPERTIES
    ImplementsAttempt
    AttemptEnds
    LingeringEnds
CHECK_DEADLOCK FALSE
