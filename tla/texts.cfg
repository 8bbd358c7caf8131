SPECIFICATION TextsSpec
CONSTANTS
    Bytes <- MCBytes
    NL = "nl"
    Limit = 2
    MaxBytes = 5
    MaxOpens = 2
    Lookahead = 1
    MinEndpoint = 2
    Capacity = 5
    Block = 2
    MinPcm = 2
    MaxUnits = 7
    MaxChunk = 3
    MaxSpaced = 4
    MaxPunctuated = 3
    MaxRestored = 4
INVARIANTS
    Framing
    Covered
    Settled
    ContentKept
CHECK_DEADLOCK FALSE
