SPECIFICATION FairSpec
CONSTANTS
    Idents = {s1, s2}
    Platforms = {"linux"}
    MaxRows = 2
    MaxFaults = 2
    s1 = s1
    s2 = s2
PROPERTY MasterIsDown
