SPECIFICATION FairSpec
CONSTANTS
    Users = {u1, u2}
    Closers = {c1}
    NoProc = NoProc
    Max = 1
    IdleTimeout = 1
    Minute = 4
    MaxCalls = 2
    MaxClosing = 1
    StartTime = 1
    MaxTime = 4
    u1 = u1
    u2 = u2
    c1 = c1
INVARIANTS
    ConnOwnership
    NoPanicWhileOpen
    SettledGauges
    SendNeverBlocks
PROPERTIES
    NoEarlyExpiry
    PoolPromise
    CallsReturn
