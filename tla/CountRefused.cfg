SPECIFICATION BufferSpec
CONSTANTS
    Count = 1
    ColumnNames <- MCColumnNames
    Values = {x}
    NilCell = NilCell
    Error = Error
    RowCap = 1
    RowIdleSeq = 1
    Seqs <- MCSeqs
    MaxRow = 1
    Rows <- MCRows
    a = a
    b = b
    x = x
INVARIANTS
    CountRefused
