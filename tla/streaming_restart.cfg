SPECIFICATION Spec
CONSTANTS
    i1 = i1
    Ids = {i1}
    NoId = NoId
    Streaming = TRUE
    MaxQueue = 1
    MaxStarts = 2
    MaxCommands = 3
    MaxChunks = 1
    Results <- ShortLists
INVARIANTS
    TypeOK
    RecordingsApart
PROPERTIES
    KeepsPromise
