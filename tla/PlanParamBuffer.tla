-------------------------- MODULE PlanParamBuffer --------------------------
(***************************************************************************)
(* The parameter buffer of cmd/oncecall_sync/plan/new/plan_buffer.go: the  *)
(* results of the read plans, column by column, with the sequence number   *)
(* of the run that wrote them.  Every operation holds the mutex from start *)
(* to end, so each writer is one action and each reader an operator.  Row  *)
(* r of the code is element r + 1 of the sequence row.                     *)
(***************************************************************************)
EXTENDS Integers, Sequences, FiniteSets

CONSTANTS Count,     (* the argument count: there are Count + 1 tables     *)
          ColumnNames,  (* the columns of the plan of each table           *)
          Values,    (* what a cell can hold, nil apart                    *)
          NilCell,   (* the nil of an empty cell                           *)
          Error,     (* what a reader returns with a non-nil error         *)
          RowCap,    (* rowCap: spare cells allocated with a row           *)
          RowIdleSeq,  (* rowIdleSeq: 0 or less switches deletion off      *)
          Seqs,      (* bound: the sequence numbers in use                 *)
          MaxRow,    (* bound: the largest row that writers use            *)
          Rows       (* bound: the rows of a matrix given to SetTable      *)

ASSUME BufferConstants ==
    /\ Count \in Nat
    /\ NilCell \notin Values
    /\ Error \notin Values \cup {NilCell}
    /\ RowCap \in Nat
    /\ RowIdleSeq \in Int
    /\ Seqs \subseteq Nat
    /\ MaxRow \in Nat
    /\ Rows \subseteq Seq(Values \cup {NilCell})
    /\ DOMAIN ColumnNames = 0..Count

VARIABLES table,     (* table[i][c]: the planParamValue of a column        *)
          last,      (* the sequence number of the last write (a history)  *)
          store      (* the columns as ColumnStore keeps them (a history)  *)

bufferVars == <<table, last, store>>

Tables == 0..Count
Columns == INSTANCE ColumnStore
Cells == Values \cup {NilCell}
ValidIndex(i) == i \in Tables

\* calculateRowSize: 1 + the index of the last cell that is not nil, else 0.
IsRowSize(row, n) ==
    /\ \A k \in n+1 .. Len(row) : row[k] = NilCell
    /\ n = 0 \/ row[n] # NilCell
CalculateRowSize(row) == CHOOSE n \in 0..Len(row) : IsRowSize(row, n)

\* make([]any, n) and copy(..., row).
Widen(row, n) == [k \in 1..n |-> IF k <= Len(row) THEN row[k] ELSE NilCell]

\* A row without its layout: the cells that hold a value.
SparseCells(row) == [k \in {r \in 0 .. Len(row) - 1 : row[r + 1] # NilCell} |-> row[k + 1]]

\* The value a writer stores for a whole column.
ColumnFull(data, s) ==   \* mutant: the size of the allocation
    [row |-> Widen(data, Len(data) + RowCap), rowSize |-> Len(data), seq |-> s]
ColumnValue(data, s) ==
    [row |-> Widen(data, Len(data) + RowCap), rowSize |-> CalculateRowSize(data), seq |-> s]

\* Column j of a matrix whose rows may be too short (SetTable).
MatrixColumn(data, j) ==
    [k \in 1..Len(data) |-> IF j <= Len(data[k]) THEN data[k][j] ELSE NilCell]

\* deleteIdleLocked for a write with sequence number s.
IsIdle(v, s) == RowIdleSeq > 0 /\ s > v.seq /\ s - v.seq > RowIdleSeq
KeptHere(i, j, s) ==   \* mutant: only the written table is cleaned
    {c \in DOMAIN table[j] : i # j \/ ~IsIdle(table[j][c], s)}
Kept(i, j, s) == {c \in DOMAIN table[j] : ~IsIdle(table[j][c], s)}

\* A writer deletes the idle columns of every table and then stores new in i.
Store(i, new, s) ==
    /\ table' = [j \in Tables |->
          [c \in Kept(i, j, s) \cup (IF j = i THEN DOMAIN new ELSE {}) |->
              IF j = i /\ c \in DOMAIN new THEN new[c] ELSE table[j][c]]]
    /\ last' = s

BufferInit ==
    /\ table = [i \in Tables |-> [c \in {} |-> NilCell]]
    /\ last = 0
    /\ Columns!StoreInit

-----------------------------------------------------------------------------
(* The writers.                                                            *)

\* The row a Set finds: empty when the column is missing or was just deleted.
OldRow(i, c, s) == IF c \in Kept(i, i, s) THEN table[i][c].row ELSE <<>>

\* The row grows when it has no element r + 1.
GrownEmpty(row, r) == IF Len(row) <= r THEN Widen(<<>>, r + 1 + RowCap) ELSE row   \* mutant: no copy
Grown(row, r) == IF Len(row) <= r THEN Widen(row, r + 1 + RowCap) ELSE row

Set(i, c, r, d, s) ==
    LET row == [Grown(OldRow(i, c, s), r) EXCEPT ![r + 1] = d]
    IN  /\ Store(i, [x \in {c} |-> [row |-> row, rowSize |-> CalculateRowSize(row), seq |-> s]], s)
        /\ Columns!Put(i, c, r, d, s)

SetColsData(i, c, data, s) ==
    /\ Store(i, [x \in {c} |-> ColumnValue(data, s)], s)
    /\ Columns!Replace(i, [x \in {c} |-> SparseCells(data)], s)

\* The last of two columns with the same name wins.
Position(cols, c) == CHOOSE j \in 1..Len(cols) :
    cols[j] = c /\ \A k \in j+1 .. Len(cols) : cols[k] # c

SetTable(i, cols, data, s) ==
    LET cell(c) == MatrixColumn(data, Position(cols, c))
        names == {cols[j] : j \in 1..Len(cols)}
    IN  /\ Store(i, [c \in names |-> ColumnValue(cell(c), s)], s)
        /\ Columns!Replace(i, [c \in names |-> SparseCells(cell(c))], s)

SeqsUpTo(S, n) == UNION {[1..k -> S] : k \in 0..n}

\* A writer with an index or a row that is not valid changes nothing.
BufferNext ==
    \E i \in Tables, s \in Seqs :
        \/ \E c \in ColumnNames[i], r \in 0..MaxRow, d \in Cells : Set(i, c, r, d, s)
        \/ \E c \in ColumnNames[i], data \in SeqsUpTo(Cells, MaxRow + 1) :
              SetColsData(i, c, data, s)
        \/ \E cols \in SeqsUpTo(ColumnNames[i], 2), data \in SeqsUpTo(Rows, MaxRow + 1) :
              SetTable(i, cols, data, s)

BufferSpec == BufferInit /\ [][BufferNext]_bufferVars

-----------------------------------------------------------------------------
(* The readers; s is the sequence number the caller has already seen.      *)

Largest(S) == CHOOSE n \in S : \A m \in S : m <= n
Visible(i, s) == {c \in DOMAIN table[i] : table[i][c].seq > s}
Ends(i, c, r, s) == c \in Visible(i, s) /\ r >= Len(table[i][c].row)

Get(i, c, r, s) ==
    IF ~ValidIndex(i) \/ c \notin DOMAIN table[i] THEN Error
    ELSE IF c \notin Visible(i, s) THEN NilCell
    ELSE IF r \notin 0 .. Len(table[i][c].row) - 1 THEN Error
    ELSE table[i][c].row[r + 1]

\* The values of a column, for an index and a column that exist.
GetColsDataAll(i, c, s) ==   \* mutant: the spare cells too
    IF c \in Visible(i, s) THEN table[i][c].row ELSE <<>>
GetColsData(i, c, s) ==
    IF c \in Visible(i, s) THEN SubSeq(table[i][c].row, 1, table[i][c].rowSize) ELSE <<>>

\* The most columns written with one sequence number, and the longest column.
MaxColSize(i, s) ==
    Largest({0} \cup {Cardinality({c \in Visible(i, s) : table[i][c].seq = n}) : n \in Seqs})
MaxRowSize(i, s) == Largest({0} \cup {table[i][c].rowSize : c \in Visible(i, s)})
MaxSize(s) == [cols |-> Largest({MaxColSize(i, s) : i \in Tables}),
               rows |-> Largest({MaxRowSize(i, s) : i \in Tables})]

-----------------------------------------------------------------------------
(* Properties.                                                             *)

BufferTypeOK ==
    /\ last \in Nat
    /\ DOMAIN table = Tables
    /\ \A i \in Tables : \A c \in DOMAIN table[i] :
          LET v == table[i][c]
          IN  /\ v = [row |-> v.row, rowSize |-> v.rowSize, seq |-> v.seq]
              /\ v.row \in Seq(Cells) /\ v.rowSize \in 0..Len(v.row) /\ v.seq \in Seqs

\* rowSize is kept beside a row that has spare cells: however a column was
\* grown, replaced or cut, it is 1 + the index of its last non-nil cell.
SizesExact ==
    \A i \in Tables : \A c \in DOMAIN table[i] :
        IsRowSize(table[i][c].row, table[i][c].rowSize)

\* After a write, in whatever order the sequence numbers come, no table keeps
\* a column that lags more than rowIdleSeq behind: memory is bounded.
IdleBound ==
    RowIdleSeq > 0 => \A i \in Tables : \A c \in DOMAIN table[i] :
        last - table[i][c].seq <= RowIdleSeq

\* A caller that sizes a matrix by MaxSize and fills it by GetColsData loses
\* nothing and reads no cell twice: the readers agree on every column, no size
\* is larger than needed, and a cell beyond GetColsData is an error where a
\* column the caller has not seen ends, and nil before: in the spare cells of
\* the row, and in the whole of a column the caller has seen (see CountRefused).
ReadersAgree ==
    \A s \in Seqs \cup {0}, i \in Tables :
        /\ \A c \in DOMAIN table[i] :
              LET got == GetColsData(i, c, s)
              IN  /\ Len(got) <= MaxRowSize(i, s) /\ Len(got) <= MaxSize(s).rows
                  /\ \A r \in 0 .. MaxRow + RowCap + 1 :
                        Get(i, c, r, s) = IF r < Len(got) THEN got[r + 1]
                                          ELSE IF Ends(i, c, r, s) THEN Error ELSE NilCell
        /\ MaxRowSize(i, s) > 0 =>
              \E c \in DOMAIN table[i] : Get(i, c, MaxRowSize(i, s) - 1, s) \in Values
        /\ MaxColSize(i, s) <= MaxSize(s).cols
        /\ MaxColSize(i, s) = 0 <=> \A c \in DOMAIN table[i] : table[i][c].seq <= s

\* What two tests require of a Get of table Count with the number of its last
\* write or a later one, an error: plan_buffer_test.go:141-166 since the caller
\* has seen the column, and :251-273 since an index of Count is invalid (which
\* it asks of Set and MaxColSize).
CountRefused ==
    \A c \in DOMAIN table[Count], s \in Seqs :
        table[Count][c].seq <= s => \A r \in 0..MaxRow : Get(Count, c, r, s) = Error

\* Growing, padding and size keeping never show: the columns are those that
\* ColumnStore has after the same writes, cell by cell, and the ones deleted
\* for being idle are the same.
StoreAgrees ==
    store = [i \in Tables |-> [c \in DOMAIN table[i] |->
                [cells |-> SparseCells(table[i][c].row), seq |-> table[i][c].seq]]]
=============================================================================
