SPECIFICATION FairSpec
CONSTANTS
    Scripts = {k1}
    Versions = {v1, v2}
    None = None
    Prompts = {TRUE, FALSE}
    Hangs = {{}, {k1}}
    MaxRuns = 2
    MaxFaults = 3
    k1 = k1
    v1 = v1
    v2 = v2
INVARIANTS
    TypeOK
    OneRun
    ResetExact
PROPERTIES
    Settles
    
