SPECIFICATION FairSpec
CONSTANTS
    s1 = s1
    s2 = s2
    c1 = c1
    Services = {s1, s2}
    Managed = {s1}
    Clients = {c1}
    MaxKills = 1
    MaxOutside = 1
    MaxMishaps = 1
PROPERTIES
    OthersSocketKept
    OwnershipEnds
    TakenOver
    StopEnds
