SPECIFICATION Spec
CONSTANTS
    c1 = c1
    Contexts = {c1}
    NoContext = NoContext
    MaxSessions = 1
    Lines <- Handshakes
INVARIANTS
    NoConnectionWhenIdle
