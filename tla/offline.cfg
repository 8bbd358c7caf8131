SPECIFICATION FairSpec
CONSTANTS
    i1 = i1
    i2 = i2
    Ids = {i1, i2}
    NoId = NoId
    Streaming = FALSE
    MaxQueue = 1
    MaxStarts = 2
    MaxCommands = 3
    MaxChunks = 1
INVARIANTS
    RecordingsApart
PROPERTIES
    EndsAsPromised
    StopEnds
    ReleasedWhenGone
