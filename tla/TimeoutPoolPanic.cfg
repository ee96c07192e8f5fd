SPECIFICATION FairSpec
CONSTANTS
    Users = {u1}
    Closers = {c1}
    NoProc = NoProc
    Max = 1
    IdleTimeout = 0
    Minute = 60
    MaxCalls = 1
    MaxClosing = 1
    StartTime = 0
    MaxTime = 0
    u1 = u1
    c1 = c1
INVARIANTS
    NoPanic
