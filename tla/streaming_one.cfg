SPECIFICATION FairSpec
CONSTANTS
    i1 = i1
    i2 = i2
    Ids = {i1, i2}
    NoId = NoId
    Streaming = TRUE
    MaxQueue = 1
    MaxStarts = 1
    MaxCommands = 2
    MaxChunks = 2
    Results <- ResultLists
INVARIANTS
    LockExclusive
    EveryChunkHeard
PROPERTIES
    EndsAsPromised
    StopEnds
    LimitHolds
    ReleasedWhenGone
