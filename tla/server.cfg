SPECIFICATION Spec
CONSTANTS
    s1 = s1
    s2 = s2
    c1 = c1
    c2 = c2
    Services = {s1, s2}
    Managed = {s1}
    Clients = {c1, c2}
    MaxKills = 1
    MaxOutside = 0
    MaxMishaps = 1
SYMMETRY ClientSymmetry
INVARIANTS
    TypeOK
    OneOwner
    HandOver
