SPECIFICATION FairSpec
CONSTANTS
    Idents = {s1, s2}
    Platforms = {"linux", "windows"}
    MaxRows = 2
    MaxFaults = 2
    s1 = s1
    s2 = s2
INVARIANTS
    TypeOK
    Registered
    KillsUnlisted
PROPERTIES
    Converges
    OrphansStop
