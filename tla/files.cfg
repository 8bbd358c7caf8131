SPECIFICATION FilesSpec
CONSTANTS
    p1 = p1
    p2 = p2
    Pids <- MCPids
    N = 2
    Archived <- MCArchived
    MaxKills = 2
    Unit = Unit
    Manual = Manual
    MaxUnpacks = 3
    MaxFailures = 1
    MaxLogouts = 1
    MaxJobs = 3
    MaxCrashes = 2
    MaxChoices = 1
INVARIANTS
    Trusted
    SetUp
    NothingLost
PROPERTIES
    ReadyInTheEnd
    ChoiceKept
CHECK_DEADLOCK FALSE
