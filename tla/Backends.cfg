SPECIFICATION BackendSpec
CONSTANTS
    Kinds = {"odbc", "sql", "redis", "kafka", "cassandra"}
    MaxSets = 3
    MaxCalls = 2
    MaxParams = 2
    MaxCols = 2
    MaxChunks = 2
    MaxRows = 2
    MaxFfi = 2
    Clients = {"sql", "cassandra", "redis", "ssh"}
    MaxResult = 3
    MaxQueries = 3
    Partitions = {p1, p2}
    Counts = {0, 1, 2}
    MaxLog = 3
    MaxReads = 3
    Answers <- MCAnswers
    MaxCommands = 3
    Tables <- MCTables
    Inputs <- MCInputs
    Exact = 8
    MaxDo = 3
    MaxPuts = 2
    Goroutines = {g1, g2, g3}
    MaxData = 3
    MaxUses = 4
    BackupCounts = {0, 1, 3}
    MaxSize = 2
    Lengths = {1, 3}
    MaxWrites = 6
    MaxFaults = 2
    p1 = p1
    p2 = p2
    g1 = g1
    g2 = g2
    g3 = g3
INVARIANTS
    CleanConnection
    FfiClean
    FfiComplete
    RowsOwn
    KafkaNoGap
    ShellAnswers
    LuaOutputOwn
    LuaKeeps
    StatExact
    DataOwned
    KeptLines
    SizeBound
PROPERTIES
    Promise
    ShellReturns
