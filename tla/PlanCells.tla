----------------------------- MODULE PlanCells -----------------------------
(***************************************************************************)
(* The columns of cmd/oncecall_sync/plan/plan_buffer.go, the parameter     *)
(* buffer in use: a column is a row of cells, each with the sequence       *)
(* number of the run that wrote it; row r is element r + 1.  A column that *)
(* is not in the map is <<>>, as it is to the code (nil).  cap is rowCap,  *)
(* the cells by which a column grows.                                      *)
(***************************************************************************)
EXTENDS Integers, Sequences

CONSTANTS Nil,       (* the nil of a cell nobody wrote                     *)
          IdleSpan   (* rowIdleSec as set compares it, 60 for 0 or less    *)

ASSUME CellConstants == IdleSpan \in Nat

NoCell == [data |-> Nil, seq |-> 0]

\* make(..., n) and copy(temp, col).
Resize(col, n) == [k \in 1..n |-> IF k <= Len(col) THEN col[k] ELSE NoCell]

\* The column in which set writes row r: one that is too short grows by rowCap,
\* whatever r is, and one whose last cell is idle is cut behind row r.
PreparedShort(col, r, s, cap) ==   \* mutant: rowCap for len + rowCap
    IF Len(col) <= r THEN Resize(col, cap) ELSE col
Prepared(col, r, s, cap) ==
    IF Len(col) <= r THEN Resize(col, Len(col) + cap)
    ELSE IF s - col[Len(col)].seq > IdleSpan THEN Resize(col, r + cap)
    ELSE col

\* set panics with an index out of range when the row still does not exist.
HasRow(col, r, s, cap) == r < Len(Prepared(col, r, s, cap))
PutCell(col, r, d, s, cap) == [Prepared(col, r, s, cap) EXCEPT ![r + 1] = [data |-> d, seq |-> s]]

\* get, for a row that exists: a cell of a later run reads as nil.
SeenOlder(col, r, s) == IF col[r + 1].seq >= s THEN Nil ELSE col[r + 1].data   \* mutant: >= for >
Seen(col, r, s) == IF col[r + 1].seq > s THEN Nil ELSE col[r + 1].data
=============================================================================
