----------------------- MODULE PlanParamBufferProofs -----------------------
(* Theorems about PlanParamBuffer, for every value of its constants.       *)
EXTENDS PlanParamBuffer, SequenceTheorems, FiniteSetTheorems, WellFoundedInduction, TLAPS

(* The backward loop of calculateRowSize.                                  *)

\* A nonempty set of naturals has a smallest member: the intervals 1..n of its
\* members are finite sets, which strict inclusion orders well.
LEMMA Smallest ==
    ASSUME NEW T \in SUBSET Nat, T # {}
    PROVE  \E x \in T : \A y \in T : x <= y
<1>. DEFINE I == {1..n : n \in T}
<1>1. I \subseteq FiniteSubsetsOf(Nat) /\ I # {}
  <2>1. \A n \in T : 1..n \in FiniteSubsetsOf(Nat)
    BY FS_Interval DEF FiniteSubsetsOf
  <2>. QED
    BY <2>1
<1>2. PICK U \in I : \A V \in I : ~ (<<V, U>> \in StrictSubsetOrdering(Nat))
  BY <1>1, FS_StrictSubsetOrderingWellFounded, WFMin
<1>3. PICK x \in T : U = 1..x
  OBVIOUS
<1>4. ASSUME NEW y \in T, y < x
      PROVE  FALSE
  <2>1. 1..y \in I /\ 1..y \subseteq 1..x /\ x \in 1..x /\ x \notin 1..y
    BY <1>4
  <2>2. 1..y \in SUBSET Nat /\ 1..x \in SUBSET Nat /\ 1..y # 1..x
    BY <2>1
  <2>. QED
    BY <1>2, <1>3, <2>1, <2>2 DEF StrictSubsetOrdering
<1>. QED
  BY <1>4

\* calculateRowSize is defined on every row, and only one number is right.
LEMMA RowSizeFound ==
    ASSUME NEW row, Len(row) \in Nat
    PROVE  /\ CalculateRowSize(row) \in 0..Len(row)
           /\ IsRowSize(row, CalculateRowSize(row))
           /\ \A n \in 0..Len(row) : IsRowSize(row, n) => n = CalculateRowSize(row)
<1>. DEFINE T == {n \in 0..Len(row) : \A k \in n+1 .. Len(row) : row[k] = NilCell}
<1>1. T \in SUBSET Nat /\ Len(row) \in T
  OBVIOUS
<1>2. PICK n \in T : \A m \in T : n <= m
  BY <1>1, Smallest
<1>3. n = 0 \/ row[n] # NilCell
  <2>. SUFFICES ASSUME n # 0, row[n] = NilCell PROVE FALSE
    OBVIOUS
  <2>1. n - 1 \in 0..Len(row)
    OBVIOUS
  <2>2. \A k \in (n-1)+1 .. Len(row) : row[k] = NilCell
    OBVIOUS
  <2>3. n - 1 \in T
    BY <2>1, <2>2
  <2>4. n <= n - 1
    BY <2>3, <1>2
  <2>. QED
    BY <2>4
<1>4. n \in 0..Len(row) /\ IsRowSize(row, n)
  BY <1>3 DEF IsRowSize
<1>5. ASSUME NEW p \in 0..Len(row), NEW q \in 0..Len(row), IsRowSize(row, p), IsRowSize(row, q)
      PROVE  p = q
  BY <1>5 DEF IsRowSize
<1>. QED
  BY <1>4, <1>5 DEF CalculateRowSize

(* Rows and columns.                                                       *)

\* Growing a row keeps its cells, its size and its layout-free form.
LEMMA WidenKeeps ==
    ASSUME NEW row \in Seq(Cells), NEW n \in Nat, n >= Len(row)
    PROVE  /\ Widen(row, n) \in Seq(Cells)
           /\ Len(Widen(row, n)) = n
           /\ \A m \in 0..Len(row) : IsRowSize(row, m) => IsRowSize(Widen(row, n), m)
           /\ SparseCells(Widen(row, n)) = SparseCells(row)
<1>. DEFINE w == Widen(row, n)
<1>1. Len(row) \in Nat /\ \A k \in 1..Len(row) : row[k] \in Cells
  BY LenProperties, ElementOfSeq
<1>2. NilCell \in Cells
  BY DEF Cells
<1>3. w \in [1..n -> Cells] /\ \A k \in 1..n : w[k] = IF k <= Len(row) THEN row[k] ELSE NilCell
  BY <1>1, <1>2 DEF Widen
<1>4. w \in Seq(Cells) /\ Len(w) = n
  BY <1>3, LenProperties
<1>5. ASSUME NEW m \in 0..Len(row), IsRowSize(row, m)
      PROVE  IsRowSize(w, m)
  BY <1>1, <1>3, <1>4, <1>5 DEF IsRowSize
<1>6. SparseCells(w) = SparseCells(row)
  <2>1. {r \in 0 .. Len(w) - 1 : w[r + 1] # NilCell} = {r \in 0 .. Len(row) - 1 : row[r + 1] # NilCell}
    BY <1>1, <1>3, <1>4
  <2>2. \A k \in {r \in 0 .. Len(row) - 1 : row[r + 1] # NilCell} : w[k + 1] = row[k + 1]
    BY <1>1, <1>3
  <2>. QED
    BY <2>1, <2>2 DEF SparseCells
<1>. QED
  BY <1>4, <1>5, <1>6

\* What every column satisfies, and the columns a writer stores too.
ColumnOK(v) ==
    /\ v = [row |-> v.row, rowSize |-> v.rowSize, seq |-> v.seq]
    /\ v.row \in Seq(Cells) /\ v.rowSize \in 0..Len(v.row) /\ v.seq \in Seqs
    /\ IsRowSize(v.row, v.rowSize)

\* A column made from data has the cells of data.
LEMMA ColumnMade ==
    ASSUME NEW data \in Seq(Cells), NEW s \in Seqs
    PROVE  /\ ColumnOK(ColumnValue(data, s)) /\ ColumnValue(data, s).seq = s
           /\ SparseCells(ColumnValue(data, s).row) = SparseCells(data)
<1>. DEFINE n == Len(data) + RowCap
<1>1. Len(data) \in Nat /\ n \in Nat /\ n >= Len(data)
  BY LenProperties, BufferConstants
<1>2. CalculateRowSize(data) \in 0..Len(data) /\ IsRowSize(data, CalculateRowSize(data))
  BY <1>1, RowSizeFound
<1>3. /\ Widen(data, n) \in Seq(Cells) /\ Len(Widen(data, n)) = n
      /\ IsRowSize(Widen(data, n), CalculateRowSize(data))
      /\ SparseCells(Widen(data, n)) = SparseCells(data)
  BY <1>1, <1>2, WidenKeeps
<1>4. ColumnValue(data, s) = [row |-> Widen(data, n), rowSize |-> CalculateRowSize(data), seq |-> s]
  BY DEF ColumnValue
<1>5. CalculateRowSize(data) \in 0..n
  BY <1>1, <1>2
<1>. HIDE DEF n
<1>. QED
  BY <1>3, <1>4, <1>5 DEF ColumnOK

\* A column of a ragged matrix is a row of cells.
LEMMA MatrixColumnType ==
    ASSUME NEW data \in Seq(Seq(Cells)), NEW j \in Nat \ {0}
    PROVE  MatrixColumn(data, j) \in Seq(Cells)
<1>1. Len(data) \in Nat /\ \A k \in 1..Len(data) : data[k] \in Seq(Cells)
  BY LenProperties, ElementOfSeq
<1>2. \A k \in 1..Len(data) : j <= Len(data[k]) => data[k][j] \in Cells
  <2>1. ASSUME NEW k \in 1..Len(data), j <= Len(data[k])
        PROVE  data[k][j] \in Cells
    <3>1. data[k] \in Seq(Cells) /\ Len(data[k]) \in Nat
      BY <1>1, LenProperties
    <3>. QED
      BY <2>1, <3>1, ElementOfSeq
  <2>. QED
    BY <2>1
<1>3. MatrixColumn(data, j) \in [1..Len(data) -> Cells]
  BY <1>2 DEF MatrixColumn, Cells
<1>. QED
  BY <1>1, <1>3

\* A finite sequence of members of S, as BufferNext enumerates them.
LEMMA SeqsUpToType ==
    ASSUME NEW S, NEW n \in Nat, NEW q \in SeqsUpTo(S, n)
    PROVE  q \in Seq(S)
<1>1. PICK k \in 0..n : q \in [1..k -> S]
  BY DEF SeqsUpTo
<1>. QED
  BY <1>1

\* Writing one cell of a row, seen without the layout.
LEMMA CellWritten ==
    ASSUME NEW row \in Seq(Cells), NEW r \in 0 .. Len(row) - 1, NEW d \in Cells
    PROVE  LET new == [row EXCEPT ![r + 1] = d]
               old == SparseCells(row)
               rows == IF d = NilCell THEN DOMAIN old \ {r} ELSE DOMAIN old \cup {r}
           IN  /\ new \in Seq(Cells) /\ Len(new) = Len(row)
               /\ SparseCells(new) = [k \in rows |-> IF k = r THEN d ELSE old[k]]
<1>. DEFINE new == [row EXCEPT ![r + 1] = d]
            old == SparseCells(row)
            rows == IF d = NilCell THEN DOMAIN old \ {r} ELSE DOMAIN old \cup {r}
<1>1. Len(row) \in Nat /\ r + 1 \in 1..Len(row)
  BY LenProperties
<1>2. /\ new \in Seq(Cells) /\ Len(new) = Len(row)
      /\ \A k \in 1..Len(row) : new[k] = IF k = r + 1 THEN d ELSE row[k]
  BY <1>1, ExceptSeq
<1>3. /\ DOMAIN old = {k \in 0 .. Len(row) - 1 : row[k + 1] # NilCell}
      /\ \A k \in DOMAIN old : old[k] = row[k + 1]
  BY DEF SparseCells
<1>4. /\ SparseCells(new) = [k \in {q \in 0 .. Len(row) - 1 : new[q + 1] # NilCell} |-> new[k + 1]]
  BY <1>2 DEF SparseCells
<1>5. {q \in 0 .. Len(row) - 1 : new[q + 1] # NilCell} = rows
  BY <1>1, <1>2, <1>3
<1>6. \A k \in rows : new[k + 1] = IF k = r THEN d ELSE old[k]
  BY <1>1, <1>2, <1>3
<1>7. SparseCells(new) = [k \in rows |-> IF k = r THEN d ELSE old[k]]
  BY <1>4, <1>5, <1>6
<1>. QED
  BY <1>2, <1>7

(* One write.                                                              *)

\* The columns a writer stores, and those it keeps, are well formed, and no
\* kept column lags too far behind.
LEMMA WriteKeeps ==
    ASSUME BufferTypeOK, SizesExact, NEW i \in Tables, NEW s \in Seqs, NEW new,
           \A c \in DOMAIN new : ColumnOK(new[c]) /\ new[c].seq = s,
           Store(i, new, s)
    PROVE  BufferTypeOK' /\ SizesExact' /\ IdleBound'
<1>. DEFINE Dom(j) == Kept(i, j, s) \cup (IF j = i THEN DOMAIN new ELSE {})
            Val(j, c) == IF j = i /\ c \in DOMAIN new THEN new[c] ELSE table[j][c]
<1>1. /\ table' = [j \in Tables |-> [c \in Dom(j) |-> Val(j, c)]]
      /\ last' = s
  BY DEF Store
<1>2. s \in Nat /\ Seqs \subseteq Nat /\ RowIdleSeq \in Int
  BY BufferConstants
<1>3. ASSUME NEW j \in Tables, NEW c \in Dom(j)
      PROVE  /\ ColumnOK(Val(j, c))
             /\ RowIdleSeq > 0 => s - Val(j, c).seq <= RowIdleSeq
  <2>1. CASE j = i /\ c \in DOMAIN new
    BY <1>2, <2>1
  <2>2. CASE ~(j = i /\ c \in DOMAIN new)
    <3>1. c \in Kept(i, j, s) /\ Val(j, c) = table[j][c]
      BY <2>2, <1>3
    <3>2. c \in DOMAIN table[j] /\ ~IsIdle(table[j][c], s)
      BY <3>1 DEF Kept
    <3>3. ColumnOK(table[j][c])
      BY <3>2 DEF BufferTypeOK, SizesExact, ColumnOK
    <3>4. table[j][c].seq \in Nat
      BY <3>3, <1>2 DEF ColumnOK
    <3>5. RowIdleSeq > 0 => s - table[j][c].seq <= RowIdleSeq
      BY <3>2, <3>4, <1>2 DEF IsIdle
    <3>. QED
      BY <3>1, <3>3, <3>5
  <2>. QED
    BY <2>1, <2>2
<1>4. DOMAIN table' = Tables /\ \A j \in Tables : DOMAIN table'[j] = Dom(j)
  BY <1>1
<1>5. \A j \in Tables : \A c \in DOMAIN table'[j] : table'[j][c] = Val(j, c)
  BY <1>1
<1>. HIDE DEF Dom, Val
<1>6. \A j \in Tables : \A c \in DOMAIN table'[j] :
        /\ ColumnOK(table'[j][c])
        /\ RowIdleSeq > 0 => last' - table'[j][c].seq <= RowIdleSeq
  BY <1>1, <1>3, <1>4, <1>5
<1>7. BufferTypeOK'
  BY <1>1, <1>2, <1>4, <1>6 DEF BufferTypeOK, ColumnOK
<1>8. SizesExact'
  BY <1>6 DEF SizesExact, ColumnOK
<1>9. IdleBound'
  BY <1>6 DEF IdleBound
<1>. QED
  BY <1>7, <1>8, <1>9

\* The same write made in ColumnStore keeps the two in step.
LEMMA WriteAgrees ==
    ASSUME BufferTypeOK, StoreAgrees, NEW i \in Tables, NEW s \in Seqs, NEW new, NEW cells,
           DOMAIN cells = DOMAIN new,
           \A c \in DOMAIN new : new[c].seq = s /\ cells[c] = SparseCells(new[c].row),
           Store(i, new, s), Columns!Replace(i, cells, s)
    PROVE  StoreAgrees'
<1>. DEFINE Dom(j) == Kept(i, j, s) \cup (IF j = i THEN DOMAIN new ELSE {})
            Val(j, c) == IF j = i /\ c \in DOMAIN new THEN new[c] ELSE table[j][c]
            View(v) == [cells |-> SparseCells(v.row), seq |-> v.seq]
<1>1. s \in Nat /\ Seqs \subseteq Nat /\ RowIdleSeq \in Int
  BY BufferConstants
<1>2. \A j \in Tables : /\ DOMAIN store[j] = DOMAIN table[j]
                        /\ \A c \in DOMAIN table[j] : store[j][c] = View(table[j][c])
  BY DEF StoreAgrees
<1>3. ASSUME NEW j \in Tables
      PROVE  Columns!Survivors(j, s) = Kept(i, j, s)
  <2>1. ASSUME NEW c \in DOMAIN table[j]
        PROVE  (RowIdleSeq <= 0 \/ store[j][c].seq >= s - RowIdleSeq) <=> ~IsIdle(table[j][c], s)
    <3>. DEFINE q == SparseCells(table[j][c].row)
    <3>1. store[j][c].seq = table[j][c].seq
      <4>1. store[j][c] = [cells |-> q, seq |-> table[j][c].seq]
        BY <1>2, <2>1
      <4>. HIDE DEF q
      <4>. QED
        BY <4>1
    <3>2. table[j][c].seq \in Seqs
      BY DEF BufferTypeOK
    <3>3. table[j][c].seq \in Nat
      BY <1>1, <3>2
    <3>. QED
      BY <1>1, <3>1, <3>3 DEF IsIdle
  <2>. QED
    BY <1>2, <2>1 DEF Columns!Survivors, Kept
<1>4. store' = [j \in Tables |-> [c \in Dom(j) |->
                  IF j = i /\ c \in DOMAIN new THEN [cells |-> cells[c], seq |-> s]
                                               ELSE store[j][c]]]
  BY <1>3 DEF Columns!Replace
<1>5. table' = [j \in Tables |-> [c \in Dom(j) |-> Val(j, c)]]
  BY DEF Store
<1>6. ASSUME NEW j \in Tables, NEW c \in Dom(j)
      PROVE  View(Val(j, c)) = IF j = i /\ c \in DOMAIN new THEN [cells |-> cells[c], seq |-> s]
                                                              ELSE store[j][c]
  BY <1>2, <1>6 DEF Kept
<1>7. store' = [j \in Tables |-> [c \in Dom(j) |-> View(Val(j, c))]]
  BY <1>4, <1>6
<1>8. \A j \in Tables : /\ DOMAIN table'[j] = Dom(j)
                        /\ \A c \in Dom(j) : table'[j][c] = Val(j, c)
  BY <1>5
<1>. HIDE DEF Dom, Val
<1>9. store' = [j \in Tables |-> [c \in DOMAIN table'[j] |-> View(table'[j][c])]]
  BY <1>7, <1>8
<1>. QED
  BY <1>9 DEF StoreAgrees

\* The last position of a name in the list of columns exists.
LEMMA PositionFound ==
    ASSUME NEW cols, Len(cols) \in Nat, NEW p \in 1..Len(cols)
    PROVE  Position(cols, cols[p]) \in 1..Len(cols)
<1>. DEFINE n == Len(cols)
            T == {m \in 0..n : \E j \in 1..n : cols[j] = cols[p] /\ m = n - j}
<1>1. T \in SUBSET Nat /\ n - p \in T
  OBVIOUS
<1>2. PICK m \in T : \A k \in T : m <= k
  BY <1>1, Smallest
<1>3. PICK j \in 1..n : cols[j] = cols[p] /\ m = n - j
  OBVIOUS
<1>4. ASSUME NEW k \in j+1 .. n, cols[k] = cols[p]
      PROVE  FALSE
  <2>1. k \in 1..n /\ n - k \in 0..n /\ n - k < n - j /\ n \in Nat
    BY <1>4
  <2>2. n - k \in T
    BY <1>4, <2>1
  <2>3. m = n - j /\ m <= n - k
    BY <1>2, <1>3, <2>2
  <2>. QED
    BY <2>1, <2>3
<1>5. \E x \in 1..Len(cols) : /\ cols[x] = cols[p]
                             /\ \A k \in x+1 .. Len(cols) : cols[k] # cols[p]
  BY <1>3, <1>4
<1>. QED
  BY <1>5 DEF Position

(* The invariant: each writer is one write of well formed columns.         *)

IInv == BufferTypeOK /\ SizesExact /\ IdleBound /\ StoreAgrees

\* An empty buffer satisfies the invariant.
LEMMA InitHolds == BufferInit => IInv
<1>. SUFFICES ASSUME BufferInit PROVE IInv
  OBVIOUS
<1>1. table = [i \in Tables |-> [c \in {} |-> NilCell]] /\ last = 0
  BY DEF BufferInit
<1>2. store = [i \in Tables |-> [k \in {} |-> NilCell]]
  BY DEF BufferInit, Columns!StoreInit, Columns!Empty
<1>3. DOMAIN table = Tables /\ \A i \in Tables : DOMAIN table[i] = {}
  BY <1>1
<1>4. BufferTypeOK /\ SizesExact /\ IdleBound
  BY <1>1, <1>3 DEF BufferTypeOK, SizesExact, IdleBound
<1>5. \A i \in Tables : [k \in {} |-> NilCell] = [c \in DOMAIN table[i] |->
            [cells |-> SparseCells(table[i][c].row), seq |-> table[i][c].seq]]
  BY <1>3
<1>6. StoreAgrees
  BY <1>2, <1>5 DEF StoreAgrees
<1>. QED
  BY <1>4, <1>6 DEF IInv

\* Set: the row found is grown, written and measured again.
LEMMA SetKeeps ==
    ASSUME IInv, NEW i \in Tables, NEW c, NEW r \in Nat, NEW d \in Cells, NEW s \in Seqs,
           Set(i, c, r, d, s)
    PROVE  IInv'
<1>. DEFINE old == OldRow(i, c, s)
            grown == Grown(old, r)
            row == [grown EXCEPT ![r + 1] = d]
            new == [x \in {c} |-> [row |-> row, rowSize |-> CalculateRowSize(row), seq |-> s]]
<1>1. old \in Seq(Cells)
  BY DEF IInv, BufferTypeOK, OldRow, Kept
<1>2. Len(old) \in Nat /\ r + 1 + RowCap \in Nat /\ r < r + 1 + RowCap
  BY <1>1, LenProperties, BufferConstants
<1>3. grown \in Seq(Cells) /\ SparseCells(grown) = SparseCells(old) /\ r < Len(grown)
  <2>1. CASE Len(old) <= r
    <3>1. grown = Widen(old, r + 1 + RowCap)
      BY <2>1 DEF Grown
    <3>2. r + 1 + RowCap >= Len(old)
      BY <2>1, <1>2, BufferConstants
    <3>. QED
      BY <1>1, <1>2, <3>1, <3>2, WidenKeeps
  <2>2. CASE ~(Len(old) <= r)
    BY <1>1, <1>2, <2>2 DEF Grown
  <2>. QED
    BY <2>1, <2>2
<1>4. Len(grown) \in Nat /\ r \in 0 .. Len(grown) - 1
  BY <1>3, LenProperties
<1>. HIDE DEF grown, old
<1>. DEFINE sp == SparseCells(old)
            rows == IF d = NilCell THEN DOMAIN sp \ {r} ELSE DOMAIN sp \cup {r}
            put == [k \in rows |-> IF k = r THEN d ELSE sp[k]]
<1>5. row \in Seq(Cells) /\ SparseCells(row) = put
  <2>. DEFINE sg == SparseCells(grown)
              rg == IF d = NilCell THEN DOMAIN sg \ {r} ELSE DOMAIN sg \cup {r}
  <2>1. row \in Seq(Cells) /\ SparseCells(row) = [k \in rg |-> IF k = r THEN d ELSE sg[k]]
    BY <1>3, <1>4, CellWritten, ZenonT(30)
  <2>2. sg = sp
    BY <1>3
  <2>. HIDE DEF sg, sp, row
  <2>. QED
    BY <2>1, <2>2
<1>6. Len(row) \in Nat
  BY <1>5, LenProperties
<1>. HIDE DEF row
<1>7. CalculateRowSize(row) \in 0..Len(row) /\ IsRowSize(row, CalculateRowSize(row))
  BY <1>6, RowSizeFound
<1>8. \A x \in DOMAIN new : ColumnOK(new[x]) /\ new[x].seq = s /\ new[x].row = row
  BY <1>5, <1>7 DEF ColumnOK
<1>9. Store(i, new, s)
  BY DEF Set, row, grown, old
<1>10. BufferTypeOK' /\ SizesExact' /\ IdleBound'
  <2>. HIDE DEF new
  <2>. QED
    BY <1>8, <1>9, WriteKeeps DEF IInv
<1>11. (IF c \in Columns!Survivors(i, s) THEN store[i][c].cells ELSE Columns!Empty) = sp
  <2>1. /\ DOMAIN store[i] = DOMAIN table[i]
        /\ \A x \in DOMAIN table[i] : /\ store[i][x].seq = table[i][x].seq
                                      /\ store[i][x].cells = SparseCells(table[i][x].row)
    BY DEF IInv, StoreAgrees
  <2>2. \A x \in DOMAIN table[i] : table[i][x].seq \in Nat
    BY BufferConstants DEF IInv, BufferTypeOK
  <2>3. s \in Nat /\ RowIdleSeq \in Int
    BY BufferConstants
  <2>4. c \in Columns!Survivors(i, s) <=> c \in Kept(i, i, s)
    BY <2>1, <2>2, <2>3 DEF Columns!Survivors, Kept, IsIdle
  <2>5. CASE c \in Kept(i, i, s)
    BY <2>1, <2>4, <2>5 DEF old, OldRow, Kept
  <2>6. CASE c \notin Kept(i, i, s)
    <3>1. sp = SparseCells(<<>>)
      BY <2>6 DEF old, OldRow
    <3>2. {k \in 0 .. Len(<<>>) - 1 : <<>>[k + 1] # NilCell} = {}
      OBVIOUS
    <3>3. SparseCells(<<>>) = [k \in {} |-> NilCell]
      BY <3>2 DEF SparseCells
    <3>. QED
      BY <2>4, <2>6, <3>1, <3>3 DEF Columns!Empty
  <2>. QED
    BY <2>5, <2>6
<1>12. Columns!Put(i, c, r, d, s)
  BY DEF Set
<1>13. Columns!Replace(i, [x \in {c} |-> put], s)
  BY <1>11, <1>12 DEF Columns!Put
<1>14. StoreAgrees'
  <2>1. \A x \in DOMAIN new : [y \in {c} |-> put][x] = SparseCells(new[x].row)
    BY <1>5, <1>8
  <2>2. DOMAIN [x \in {c} |-> put] = DOMAIN new
    OBVIOUS
  <2>. HIDE DEF new, put
  <2>. QED
    BY <1>8, <1>9, <1>13, <2>1, <2>2, WriteAgrees DEF IInv
<1>. QED
  BY <1>10, <1>14 DEF IInv

\* SetColsData and SetTable: whole columns are made from rows of cells.
LEMMA ColumnsKeep ==
    ASSUME IInv, NEW i \in Tables, NEW s \in Seqs, NEW names, NEW data,
           DOMAIN data = names, \A c \in names : data[c] \in Seq(Cells),
           Store(i, [c \in names |-> ColumnValue(data[c], s)], s),
           Columns!Replace(i, [c \in names |-> SparseCells(data[c])], s)
    PROVE  IInv'
<1>. DEFINE new == [c \in names |-> ColumnValue(data[c], s)]
            cells == [c \in names |-> SparseCells(data[c])]
<1>1. \A c \in DOMAIN new : /\ ColumnOK(new[c]) /\ new[c].seq = s
                            /\ cells[c] = SparseCells(new[c].row)
  BY ColumnMade
<1>2. DOMAIN cells = DOMAIN new
  OBVIOUS
<1>3. Store(i, new, s) /\ Columns!Replace(i, cells, s)
  OBVIOUS
<1>. HIDE DEF new, cells
<1>4. BufferTypeOK' /\ SizesExact' /\ IdleBound'
  BY <1>1, <1>3, WriteKeeps DEF IInv
<1>5. StoreAgrees'
  BY <1>1, <1>2, <1>3, WriteAgrees DEF IInv
<1>. QED
  BY <1>4, <1>5 DEF IInv

\* Every writer keeps the invariant, whatever row, column or matrix it is given.
LEMMA NextHolds == IInv /\ [BufferNext]_bufferVars => IInv'
<1>. SUFFICES ASSUME IInv, [BufferNext]_bufferVars PROVE IInv'
  OBVIOUS
<1>1. CASE UNCHANGED bufferVars
  BY <1>1 DEF bufferVars, IInv, BufferTypeOK, SizesExact, IdleBound, StoreAgrees
<1>2. ASSUME NEW i \in Tables, NEW s \in Seqs, NEW c \in ColumnNames[i], NEW r \in 0..MaxRow,
             NEW d \in Cells, Set(i, c, r, d, s)
      PROVE  IInv'
  <2>1. r \in Nat
    BY BufferConstants
  <2>. QED
    BY <1>2, <2>1, SetKeeps
<1>3. ASSUME NEW i \in Tables, NEW s \in Seqs, NEW c \in ColumnNames[i],
             NEW data \in SeqsUpTo(Cells, MaxRow + 1), SetColsData(i, c, data, s)
      PROVE  IInv'
  <2>. DEFINE all == [x \in {c} |-> data]
  <2>1. data \in Seq(Cells)
    BY SeqsUpToType, BufferConstants
  <2>2. /\ DOMAIN all = {c} /\ \A x \in {c} : all[x] \in Seq(Cells)
        /\ [x \in {c} |-> ColumnValue(all[x], s)] = [x \in {c} |-> ColumnValue(data, s)]
        /\ [x \in {c} |-> SparseCells(all[x])] = [x \in {c} |-> SparseCells(data)]
    BY <2>1
  <2>3. /\ Store(i, [x \in {c} |-> ColumnValue(all[x], s)], s)
        /\ Columns!Replace(i, [x \in {c} |-> SparseCells(all[x])], s)
    BY <1>3, <2>2 DEF SetColsData
  <2>. HIDE DEF all
  <2>. QED
    BY <2>2, <2>3, ColumnsKeep
<1>4. ASSUME NEW i \in Tables, NEW s \in Seqs, NEW cols \in SeqsUpTo(ColumnNames[i], 2),
             NEW data \in SeqsUpTo(Rows, MaxRow + 1), SetTable(i, cols, data, s)
      PROVE  IInv'
  <2>. DEFINE names == {cols[j] : j \in 1..Len(cols)}
              all == [c \in names |-> MatrixColumn(data, Position(cols, c))]
  <2>1. cols \in Seq(ColumnNames[i]) /\ Len(cols) \in Nat
    BY SeqsUpToType, LenProperties
  <2>2. data \in Seq(Rows) /\ Rows \subseteq Seq(Cells)
    BY SeqsUpToType, BufferConstants DEF Cells
  <2>3. data \in Seq(Seq(Cells))
    BY <2>2
  <2>4. \A c \in names : Position(cols, c) \in Nat \ {0}
    BY <2>1, PositionFound
  <2>5. DOMAIN all = names /\ \A c \in names : all[c] \in Seq(Cells)
    BY <2>3, <2>4, MatrixColumnType
  <2>6. /\ Store(i, [c \in names |-> ColumnValue(MatrixColumn(data, Position(cols, c)), s)], s)
        /\ Columns!Replace(i, [c \in names |-> SparseCells(MatrixColumn(data, Position(cols, c)))], s)
    BY <1>4 DEF SetTable
  <2>7. /\ Store(i, [c \in names |-> ColumnValue(all[c], s)], s)
        /\ Columns!Replace(i, [c \in names |-> SparseCells(all[c])], s)
    <3>1. /\ [c \in names |-> ColumnValue(MatrixColumn(data, Position(cols, c)), s)]
                = [c \in names |-> ColumnValue(all[c], s)]
          /\ [c \in names |-> SparseCells(MatrixColumn(data, Position(cols, c)))]
                = [c \in names |-> SparseCells(all[c])]
      OBVIOUS
    <3>. QED
      BY <2>6, <3>1
  <2>. HIDE DEF names, all
  <2>. QED
    BY <2>5, <2>7, ColumnsKeep
<1>. QED
  BY <1>1, <1>2, <1>3, <1>4 DEF BufferNext

\* The invariant holds in every state of every behaviour.
LEMMA InvariantHolds == BufferSpec => []IInv
<1>. QED
  BY InitHolds, NextHolds, PTL DEF BufferSpec

\* Columns keep their shape: the row is a sequence of cells that its size fits.
THEOREM TypeCorrect == BufferSpec => []BufferTypeOK
<1>1. IInv => BufferTypeOK
  BY DEF IInv
<1>. QED
  BY <1>1, InvariantHolds, PTL

\* The size kept beside each row is right after any sequence of writes, for
\* every number of tables, spare cells and values.
THEOREM SizesCorrect == BufferSpec => []SizesExact
<1>1. IInv => SizesExact
  BY DEF IInv
<1>. QED
  BY <1>1, InvariantHolds, PTL

\* No column outlives the idle limit of the last write, in any table.
THEOREM IdleColumnsGo == BufferSpec => []IdleBound
<1>1. IInv => IdleBound
  BY DEF IInv
<1>. QED
  BY <1>1, InvariantHolds, PTL

\* The buffer holds what the abstract column store holds after the same writes.
THEOREM BufferCorrect == BufferSpec => []StoreAgrees
<1>1. IInv => StoreAgrees
  BY DEF IInv
<1>. QED
  BY <1>1, InvariantHolds, PTL
(* The readers.  What they compute are maxima, so the sets of columns must  *)
(* be finite: a second invariant.                                          *)

FiniteColumns == \A i \in Tables : IsFiniteSet(DOMAIN table[i])

\* The values of a function over a finite domain are finite in number.
LEMMA ValuesFinite ==
    ASSUME NEW D, NEW f, f = [x \in D |-> f[x]], IsFiniteSet(D)
    PROVE  IsFiniteSet({f[x] : x \in D})
<1>. DEFINE T == {f[x] : x \in D}
<1>1. f \in Surjection(D, T)
  BY DEF Surjection
<1>. QED
  BY <1>1, FS_Surjection

\* A finite set of naturals that is not empty has a greatest member: no finite
\* set without one can be the smallest of its kind.
LEMMA MaxFound ==
    ASSUME NEW T \in SUBSET Nat, IsFiniteSet(T), T # {}
    PROVE  Largest(T) \in T /\ \A m \in T : m <= Largest(T)
<1>. DEFINE HasMax(U) == \E n \in U : \A m \in U : m <= n
            Bad == {U \in FiniteSubsetsOf(T) : U # {} /\ ~HasMax(U)}
<1>1. HasMax(T)
  <2>. SUFFICES ASSUME ~HasMax(T) PROVE FALSE
    OBVIOUS
  <2>1. Bad \subseteq FiniteSubsetsOf(T) /\ T \in Bad
    BY DEF FiniteSubsetsOf
  <2>2. PICK U \in Bad : \A V \in Bad : ~ (<<V, U>> \in StrictSubsetOrdering(T))
    BY <2>1, FS_StrictSubsetOrderingWellFounded, WFMin
  <2>3. U \in SUBSET T /\ IsFiniteSet(U) /\ U # {} /\ ~HasMax(U)
    BY <2>2 DEF FiniteSubsetsOf
  <2>4. PICK x \in U : TRUE
    BY <2>3
  <2>. DEFINE V == U \ {x}
  <2>5. V \in FiniteSubsetsOf(T)
    <3>1. V \in SUBSET U
      OBVIOUS
    <3>. QED
      BY <2>3, <3>1, FS_Subset DEF FiniteSubsetsOf
  <2>6. <<V, U>> \in StrictSubsetOrdering(T)
    BY <2>3, <2>4 DEF StrictSubsetOrdering
  <2>7. V = {} \/ HasMax(V)
    BY <2>2, <2>5, <2>6
  <2>8. CASE V = {}
    <3>1. U = {x} /\ x \in Nat
      BY <2>3, <2>4, <2>8
    <3>. QED
      BY <2>3, <3>1
  <2>9. CASE HasMax(V)
    <3>1. PICK n \in V : \A m \in V : m <= n
      BY <2>9
    <3>2. x \in Nat /\ n \in Nat /\ n \in U /\ U \subseteq Nat
      BY <2>3, <2>4, <3>1
    <3>3. \A m \in U : m = x \/ m <= n
      BY <3>1
    <3>4. CASE x <= n
      BY <2>3, <3>2, <3>3, <3>4
    <3>5. CASE n <= x
      <4>1. \A m \in U : m <= x
        BY <3>2, <3>3, <3>5
      <4>. QED
        BY <2>3, <2>4, <4>1
    <3>. QED
      BY <3>2, <3>4, <3>5
  <2>. QED
    BY <2>7, <2>8, <2>9
<1>. QED
  BY <1>1 DEF Largest

\* A write adds the columns it was given, finitely many.
LEMMA StoreFinite ==
    ASSUME FiniteColumns, NEW i \in Tables, NEW s, NEW new, IsFiniteSet(DOMAIN new),
           Store(i, new, s)
    PROVE  FiniteColumns'
<1>. SUFFICES ASSUME NEW j \in Tables PROVE IsFiniteSet(DOMAIN table'[j])
  BY DEF FiniteColumns
<1>1. DOMAIN table'[j] \subseteq DOMAIN table[j] \cup DOMAIN new
  BY DEF Store, Kept
<1>2. IsFiniteSet(DOMAIN table[j] \cup DOMAIN new)
  BY FS_Union DEF FiniteColumns
<1>. QED
  BY <1>1, <1>2, FS_Subset

LEMMA FiniteNext == FiniteColumns /\ [BufferNext]_bufferVars => FiniteColumns'
<1>. SUFFICES ASSUME FiniteColumns, [BufferNext]_bufferVars PROVE FiniteColumns'
  OBVIOUS
<1>1. CASE UNCHANGED bufferVars
  BY <1>1 DEF bufferVars, FiniteColumns
<1>2. ASSUME NEW i \in Tables, NEW s \in Seqs, NEW c \in ColumnNames[i], NEW r \in 0..MaxRow,
             NEW d \in Cells, Set(i, c, r, d, s)
      PROVE  FiniteColumns'
  <2>1. PICK v : Store(i, [x \in {c} |-> v], s)
    BY <1>2 DEF Set
  <2>2. DOMAIN [x \in {c} |-> v] = {c} /\ IsFiniteSet({c})
    BY FS_Singleton
  <2>. QED
    BY <2>1, <2>2, StoreFinite
<1>3. ASSUME NEW i \in Tables, NEW s \in Seqs, NEW c \in ColumnNames[i],
             NEW data \in SeqsUpTo(Cells, MaxRow + 1), SetColsData(i, c, data, s)
      PROVE  FiniteColumns'
  <2>1. DOMAIN [x \in {c} |-> ColumnValue(data, s)] = {c} /\ IsFiniteSet({c})
    BY FS_Singleton
  <2>. QED
    BY <1>3, <2>1, StoreFinite DEF SetColsData
<1>4. ASSUME NEW i \in Tables, NEW s \in Seqs, NEW cols \in SeqsUpTo(ColumnNames[i], 2),
             NEW data \in SeqsUpTo(Rows, MaxRow + 1), SetTable(i, cols, data, s)
      PROVE  FiniteColumns'
  <2>. DEFINE names == {cols[j] : j \in 1..Len(cols)}
              new == [c \in names |-> ColumnValue(MatrixColumn(data, Position(cols, c)), s)]
  <2>1. cols \in Seq(ColumnNames[i])
    BY SeqsUpToType
  <2>2. Len(cols) \in Nat /\ cols = [j \in 1..Len(cols) |-> cols[j]]
    BY <2>1, LenProperties
  <2>3. IsFiniteSet(names)
    <3>1. IsFiniteSet(1..Len(cols))
      <4>1. 1 \in Int /\ Len(cols) \in Int
        BY <2>2
      <4>. HIDE DEF names, new
      <4>. QED
        BY ONLY <4>1, FS_Interval
    <3>2. IsFiniteSet({cols[j] : j \in 1..Len(cols)})
      BY ONLY <2>2, <3>1, ValuesFinite
    <3>. QED
      BY <3>2
  <2>4. Store(i, new, s) /\ DOMAIN new = names
    BY <1>4 DEF SetTable
  <2>. HIDE DEF names, new
  <2>. QED
    BY <2>3, <2>4, StoreFinite
<1>. QED
  BY <1>1, <1>2, <1>3, <1>4 DEF BufferNext

\* There are finitely many columns in every state of every behaviour.
LEMMA FiniteHolds == BufferSpec => []FiniteColumns
<1>1. BufferInit => FiniteColumns
  BY FS_EmptySet DEF BufferInit, FiniteColumns
<1>. QED
  BY <1>1, FiniteNext, PTL DEF BufferSpec

\* The longest visible column of a table.
LEMMA MaxRowSizeFound ==
    ASSUME BufferTypeOK, FiniteColumns, NEW i \in Tables, NEW s \in Nat
    PROVE  /\ MaxRowSize(i, s) \in Nat
           /\ \A c \in Visible(i, s) : table[i][c].rowSize <= MaxRowSize(i, s)
           /\ MaxRowSize(i, s) > 0 =>
                \E c \in Visible(i, s) : table[i][c].rowSize = MaxRowSize(i, s)
<1>. DEFINE f == [c \in Visible(i, s) |-> table[i][c].rowSize]
            sizes == {f[c] : c \in Visible(i, s)}
<1>1. IsFiniteSet(Visible(i, s))
  BY FS_Subset DEF FiniteColumns, Visible
<1>2. IsFiniteSet(sizes)
  BY <1>1, ValuesFinite
<1>3. IsFiniteSet({0} \cup sizes)
  BY <1>2, FS_Singleton, FS_Union
<1>4. \A c \in Visible(i, s) : table[i][c].rowSize \in Nat
  BY LenProperties DEF BufferTypeOK, Visible
<1>5. {0} \cup sizes \in SUBSET Nat /\ {0} \cup sizes # {}
  BY <1>4
<1>6. MaxRowSize(i, s) = Largest({0} \cup sizes)
  <2>1. sizes = {table[i][c].rowSize : c \in Visible(i, s)}
    OBVIOUS
  <2>. QED
    BY <2>1 DEF MaxRowSize
<1>7. /\ MaxRowSize(i, s) \in {0} \cup sizes
      /\ \A m \in {0} \cup sizes : m <= MaxRowSize(i, s)
  <2>. HIDE DEF sizes
  <2>. QED
    BY <1>3, <1>5, <1>6, MaxFound
<1>8. \A c \in Visible(i, s) : table[i][c].rowSize \in sizes
  OBVIOUS
<1>9. \A m \in sizes : \E c \in Visible(i, s) : table[i][c].rowSize = m
  OBVIOUS
<1>. HIDE DEF sizes
<1>. QED
  BY <1>5, <1>7, <1>8, <1>9

\* The most columns of a table that have one sequence number.
LEMMA MaxColSizeFound ==
    ASSUME BufferTypeOK, FiniteColumns, NEW i \in Tables, NEW s \in Nat
    PROVE  /\ MaxColSize(i, s) \in Nat
           /\ MaxColSize(i, s) = 0 <=> Visible(i, s) = {}
<1>. DEFINE Of(n) == {c \in Visible(i, s) : table[i][c].seq = n}
            counts == {Cardinality(Of(n)) : n \in Seqs}
<1>1. IsFiniteSet(Visible(i, s)) /\ Cardinality(Visible(i, s)) \in Nat
  BY FS_Subset, FS_CardinalityType DEF FiniteColumns, Visible
<1>2. \A n \in Seqs : /\ IsFiniteSet(Of(n)) /\ Cardinality(Of(n)) \in Nat
                      /\ Cardinality(Of(n)) <= Cardinality(Visible(i, s))
                      /\ Cardinality(Of(n)) = 0 <=> Of(n) = {}
  <2>. TAKE n \in Seqs
  <2>1. Of(n) \in SUBSET Visible(i, s)
    OBVIOUS
  <2>. HIDE DEF Of
  <2>. QED
    BY <1>1, <2>1, FS_Subset, FS_CardinalityType, FS_EmptySet
<1>. HIDE DEF Of
<1>3. /\ {0} \cup counts \in SUBSET Nat /\ {0} \cup counts # {}
      /\ \A m \in {0} \cup counts : m <= Cardinality(Visible(i, s))
  BY <1>1, <1>2
<1>4. IsFiniteSet({0} \cup counts)
  BY <1>1, <1>3, FS_BoundedSetOfNaturals
<1>5. MaxColSize(i, s) = Largest({0} \cup counts)
  BY DEF MaxColSize, Of
<1>6. /\ MaxColSize(i, s) \in {0} \cup counts
      /\ \A m \in {0} \cup counts : m <= MaxColSize(i, s)
  <2>. HIDE DEF counts
  <2>. QED
    BY <1>3, <1>4, <1>5, MaxFound
<1>7. ASSUME Visible(i, s) = {}
      PROVE  MaxColSize(i, s) = 0
  <2>1. \A n \in Seqs : Of(n) = {}
    BY <1>7 DEF Of
  <2>. QED
    BY <1>2, <1>6, <2>1
<1>8. ASSUME NEW c \in Visible(i, s)
      PROVE  MaxColSize(i, s) # 0
  <2>1. table[i][c].seq \in Seqs /\ c \in Of(table[i][c].seq)
    BY <1>8 DEF BufferTypeOK, Visible, Of
  <2>2. Cardinality(Of(table[i][c].seq)) \in Nat /\ Cardinality(Of(table[i][c].seq)) # 0
    BY <1>2, <2>1
  <2>. QED
    BY <1>3, <1>6, <2>1, <2>2
<1>. QED
  BY <1>3, <1>6, <1>7, <1>8

\* A matrix sized by MaxSize is large enough for every table.
LEMMA MaxSizeFound ==
    ASSUME BufferTypeOK, FiniteColumns, NEW s \in Nat, NEW i \in Tables
    PROVE  /\ MaxSize(s).rows \in Nat
           /\ MaxRowSize(i, s) <= MaxSize(s).rows /\ MaxColSize(i, s) <= MaxSize(s).cols
<1>. DEFINE rs == [j \in Tables |-> MaxRowSize(j, s)]
            cs == [j \in Tables |-> MaxColSize(j, s)]
            R == {rs[j] : j \in Tables}
            C == {cs[j] : j \in Tables}
<1>1. IsFiniteSet(Tables)
  BY FS_Interval, BufferConstants DEF Tables
<1>2. IsFiniteSet(R) /\ IsFiniteSet(C)
  BY <1>1, ValuesFinite
<1>3. R \in SUBSET Nat /\ C \in SUBSET Nat
  BY MaxRowSizeFound, MaxColSizeFound
<1>4. MaxRowSize(i, s) \in R /\ MaxColSize(i, s) \in C
  OBVIOUS
<1>5. MaxSize(s).rows = Largest(R) /\ MaxSize(s).cols = Largest(C)
  <2>1. /\ R = {MaxRowSize(j, s) : j \in Tables}
        /\ C = {MaxColSize(j, s) : j \in Tables}
    OBVIOUS
  <2>. QED
    BY <2>1 DEF MaxSize
<1>. HIDE DEF R, C
<1>6. /\ Largest(R) \in R /\ \A m \in R : m <= Largest(R)
      /\ \A m \in C : m <= Largest(C)
  BY <1>2, <1>3, <1>4, MaxFound
<1>. QED
  BY <1>3, <1>4, <1>5, <1>6

\* Get and GetColsData read the same cells of a column.
LEMMA CellsAgree ==
    ASSUME IInv, NEW i \in Tables, NEW c \in DOMAIN table[i], NEW s \in Nat, NEW r \in Nat
    PROVE  Get(i, c, r, s) = IF r < Len(GetColsData(i, c, s)) THEN GetColsData(i, c, s)[r + 1]
                             ELSE IF Ends(i, c, r, s) THEN Error ELSE NilCell
<1>. DEFINE row == table[i][c].row
            n == table[i][c].rowSize
<1>1. row \in Seq(Cells) /\ Len(row) \in Nat /\ n \in 0..Len(row) /\ IsRowSize(row, n)
  BY LenProperties DEF IInv, BufferTypeOK, SizesExact
<1>2. CASE c \notin Visible(i, s)
  BY <1>2 DEF GetColsData, Get, ValidIndex, Ends
<1>3. CASE c \in Visible(i, s)
  <2>1. GetColsData(i, c, s) = SubSeq(row, 1, n)
    BY <1>3 DEF GetColsData
  <2>2. Len(SubSeq(row, 1, n)) = n /\ \A k \in 1..n : SubSeq(row, 1, n)[k] = row[k]
    BY <1>1, SubSeqProperties
  <2>3. Get(i, c, r, s) = IF r \in 0 .. Len(row) - 1 THEN row[r + 1] ELSE Error
    BY <1>3 DEF Get, ValidIndex
  <2>. HIDE DEF row, n
  <2>4. CASE r < n
    BY <1>1, <2>1, <2>2, <2>3, <2>4
  <2>5. CASE ~(r < n)
    <3>1. r \in 0 .. Len(row) - 1 => r + 1 \in n+1 .. Len(row)
      BY <1>1, <2>5
    <3>2. r \in 0 .. Len(row) - 1 => row[r + 1] = NilCell
      BY <1>1, <3>1 DEF IsRowSize
    <3>3. Ends(i, c, r, s) <=> r >= Len(row)
      BY <1>3 DEF Ends, row
    <3>. QED
      BY <1>1, <1>3, <2>1, <2>2, <2>3, <2>5, <3>2, <3>3
  <2>. QED
    BY <2>4, <2>5
<1>. QED
  BY <1>2, <1>3

\* The length of GetColsData is the size kept with the column, which MaxRowSize
\* bounds, and the longest column ends with a value.
LEMMA SizesAgree ==
    ASSUME IInv, FiniteColumns, NEW i \in Tables, NEW s \in Nat
    PROVE  /\ \A c \in DOMAIN table[i] : /\ Len(GetColsData(i, c, s)) \in Nat
                                        /\ Len(GetColsData(i, c, s)) <= MaxRowSize(i, s)
           /\ MaxRowSize(i, s) > 0 =>
                \E c \in DOMAIN table[i] : Get(i, c, MaxRowSize(i, s) - 1, s) \in Values
<1>1. BufferTypeOK
  BY DEF IInv
<1>2. \A c \in DOMAIN table[i] :
        /\ table[i][c].row \in Seq(Cells) /\ Len(table[i][c].row) \in Nat
        /\ table[i][c].rowSize \in 0..Len(table[i][c].row)
        /\ IsRowSize(table[i][c].row, table[i][c].rowSize)
  BY LenProperties DEF IInv, BufferTypeOK, SizesExact
<1>3. ASSUME NEW c \in DOMAIN table[i]
      PROVE  /\ Len(GetColsData(i, c, s)) \in Nat
             /\ Len(GetColsData(i, c, s)) <= MaxRowSize(i, s)
  <2>1. CASE c \in Visible(i, s)
    <3>1. Len(SubSeq(table[i][c].row, 1, table[i][c].rowSize)) = table[i][c].rowSize
      BY <1>2, SubSeqProperties
    <3>. QED
      BY <1>1, <1>2, <2>1, <3>1, MaxRowSizeFound DEF GetColsData
  <2>2. CASE c \notin Visible(i, s)
    BY <1>1, <2>2, MaxRowSizeFound DEF GetColsData
  <2>. QED
    BY <2>1, <2>2
<1>4. ASSUME MaxRowSize(i, s) > 0
      PROVE  \E c \in DOMAIN table[i] : Get(i, c, MaxRowSize(i, s) - 1, s) \in Values
  <2>1. PICK c \in Visible(i, s) : table[i][c].rowSize = MaxRowSize(i, s)
    BY <1>1, <1>4, MaxRowSizeFound
  <2>2. c \in DOMAIN table[i] /\ MaxRowSize(i, s) \in Nat
    BY <1>1, <2>1, MaxRowSizeFound DEF Visible
  <2>. DEFINE n == MaxRowSize(i, s)
              row == table[i][c].row
  <2>3. n \in 1..Len(row) /\ row[n] # NilCell /\ row[n] \in Cells /\ n - 1 + 1 = n
    <3>1. row \in Seq(Cells) /\ Len(row) \in Nat /\ n \in 0..Len(row) /\ IsRowSize(row, n)
      BY <1>2, <2>1, <2>2
    <3>. HIDE DEF row, n
    <3>2. n > 0 /\ n \in Nat
      BY <1>4, <2>2 DEF n
    <3>3. n \in 1..Len(row) /\ n # 0
      BY <3>1, <3>2
    <3>. QED
      BY <3>1, <3>3, ElementOfSeq DEF IsRowSize
  <2>. HIDE DEF n
  <2>4. n - 1 \in 0 .. Len(row) - 1
    BY <1>2, <2>2, <2>3
  <2>5. Get(i, c, n - 1, s) = row[n]
    BY <2>1, <2>2, <2>3, <2>4 DEF Get, ValidIndex
  <2>. QED
    BY <2>2, <2>3, <2>5 DEF Cells, n
<1>. QED
  BY <1>3, <1>4

\* A caller that sizes its matrix by MaxSize and fills it by GetColsData reads
\* each cell once and loses none, for every number of tables, columns and rows;
\* beyond, it gets an error where a column it has not seen ends, and nil before.
THEOREM ReadersCorrect == BufferSpec => []ReadersAgree
<1>1. ASSUME IInv, FiniteColumns, NEW s \in Seqs \cup {0}, NEW i \in Tables
      PROVE  /\ \A c \in DOMAIN table[i] :
                   LET got == GetColsData(i, c, s)
                   IN  /\ Len(got) <= MaxRowSize(i, s) /\ Len(got) <= MaxSize(s).rows
                       /\ \A r \in 0 .. MaxRow + RowCap + 1 :
                             Get(i, c, r, s) = IF r < Len(got) THEN got[r + 1]
                                               ELSE IF Ends(i, c, r, s) THEN Error ELSE NilCell
             /\ MaxRowSize(i, s) > 0 =>
                   \E c \in DOMAIN table[i] : Get(i, c, MaxRowSize(i, s) - 1, s) \in Values
             /\ MaxColSize(i, s) <= MaxSize(s).cols
             /\ MaxColSize(i, s) = 0 <=> \A c \in DOMAIN table[i] : table[i][c].seq <= s
  <2>1. s \in Nat /\ BufferTypeOK
    BY <1>1, BufferConstants DEF IInv
  <2>2. /\ MaxRowSize(i, s) \in Nat
        /\ MaxRowSize(i, s) <= MaxSize(s).rows /\ MaxColSize(i, s) <= MaxSize(s).cols
    BY <1>1, <2>1, MaxRowSizeFound, MaxSizeFound
  <2>3. MaxSize(s).rows \in Nat
    BY <1>1, <2>1, MaxSizeFound
  <2>4. ASSUME NEW c \in DOMAIN table[i]
        PROVE  /\ Len(GetColsData(i, c, s)) <= MaxRowSize(i, s)
               /\ Len(GetColsData(i, c, s)) <= MaxSize(s).rows
    BY <1>1, <2>1, <2>2, <2>3, SizesAgree
  <2>5. ASSUME NEW c \in DOMAIN table[i], NEW r \in 0 .. MaxRow + RowCap + 1
        PROVE  Get(i, c, r, s) =
                   IF r < Len(GetColsData(i, c, s)) THEN GetColsData(i, c, s)[r + 1]
                   ELSE IF Ends(i, c, r, s) THEN Error ELSE NilCell
    <3>1. r \in Nat
      BY BufferConstants
    <3>. QED
      BY <1>1, <2>1, <3>1, CellsAgree
  <2>6. MaxColSize(i, s) = 0 <=> \A c \in DOMAIN table[i] : table[i][c].seq <= s
    <3>1. \A c \in DOMAIN table[i] : table[i][c].seq \in Nat
      BY <2>1, BufferConstants DEF BufferTypeOK
    <3>2. Visible(i, s) = {} <=> \A c \in DOMAIN table[i] : table[i][c].seq <= s
      BY <2>1, <3>1 DEF Visible
    <3>. QED
      BY <1>1, <2>1, <3>2, MaxColSizeFound
  <2>7. MaxRowSize(i, s) > 0 =>
          \E c \in DOMAIN table[i] : Get(i, c, MaxRowSize(i, s) - 1, s) \in Values
    BY <1>1, <2>1, SizesAgree
  <2>. QED
    BY <2>2, <2>4, <2>5, <2>6, <2>7
<1>2. IInv /\ FiniteColumns => ReadersAgree
  BY <1>1 DEF ReadersAgree
<1>. QED
  BY <1>2, InvariantHolds, FiniteHolds, PTL
=============================================================================
