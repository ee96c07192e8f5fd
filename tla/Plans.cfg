SPECIFICATION PlansSpec
CONSTANTS
    Names = {a, b}
    Scripts <- MCScripts
    Static = Static
    Nil = Nil
    RowCaps = {0, 1}
    IdleSpan = 1
    Times <- MCTimes
    MaxRows = 2
    MaxRuns = 2
    Count = 1
    ColumnNames <- MCColumnNames
    Values = {x}
    NilCell = NilCell
    Error = Error
    RowCap = 1
    RowIdleSeq = 1
    Seqs <- MCSeqs
    MaxRow = 1
    Rows <- MCRows
    a = a
    b = b
    x = x
INVARIANTS
    InitFirst
    SetsFit
    ThisRunsData
    ContextExact
    SizesExact
    IdleBound
    ReadersAgree
    StoreAgrees
PROPERTIES
    RunsEnd
