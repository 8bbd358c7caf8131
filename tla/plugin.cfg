SPECIFICATION FairSpec
CONSTANTS
    c1 = c1
    c2 = c2
    Contexts = {c1, c2}
    NoContext = NoContext
    MaxSessions = 2
    Lines <- AllLines
INVARIANTS
    SessionKept
    OnlyWhileHeld
    TypedRight
    NoGhostText
    OwnRequests
PROPERTIES
    ReleaseStops
    HandshakeEnds
