SPECIFICATION FairSpec
CONSTANTS
    Users = {u1}
    Closers = {}
    NoProc = NoProc
    Max = 0
    IdleTimeout = 61
    Minute = 60
    MaxCalls = 2
    MaxClosing = 2
    StartTime = 0
    MaxTime = 130
    u1 = u1
PROPERTIES
    IdleTimeoutFree
