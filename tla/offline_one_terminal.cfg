SPECIFICATION PoliteSpec
CONSTANTS
    i1 = i1
    i2 = i2
    Ids = {i1, i2}
    NoId = NoId
    Streaming = FALSE
    MaxQueue = 1
    MaxStarts = 1
    MaxCommands = 2
    MaxChunks = 1
PROPERTIES
    OneTerminalEvent
