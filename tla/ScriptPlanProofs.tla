-------------------------- MODULE ScriptPlanProofs --------------------------
(* What a run of a script may rely on, for every script, every capacity and  *)
(* idle time of the buffer, every clock and any number of rows and runs.     *)
EXTENDS ScriptPlan, SequenceTheorems, FiniteSetTheorems, WellFoundedInduction, TLAPS

(* The columns of the buffer.                                              *)

Cell == [data : Datum, seq : Nat]

LEMMA ResizeFacts ==
    ASSUME NEW col \in Seq(Cell), NEW n \in Nat
    PROVE  /\ Resize(col, n) \in Seq(Cell) /\ Len(Resize(col, n)) = n
           /\ \A k \in 1..n : Resize(col, n)[k] = IF k <= Len(col) THEN col[k] ELSE NoCell
<1>1. NoCell \in Cell
  BY DEF NoCell, Cell, Datum
<1>2. Len(col) \in Nat /\ \A k \in 1..Len(col) : col[k] \in Cell
  BY LenProperties, ElementOfSeq
<1>3. Resize(col, n) \in [1..n -> Cell]
  BY <1>1, <1>2 DEF Resize
<1>. QED
  BY <1>3, LenProperties, SeqDef DEF Resize

\* set leaves the cells before the row it writes; with a capacity it makes room
\* for a row that follows the last one.
LEMMA PreparedFacts ==
    ASSUME NEW col \in Seq(Cell), NEW r \in Nat, NEW s \in Nat, NEW cap \in Nat
    PROVE  LET new == Prepared(col, r, s, cap)
           IN  /\ new \in Seq(Cell) /\ Len(new) \in Nat
               /\ \A k \in 1..Len(new) : new[k] = IF k <= Len(col) THEN col[k] ELSE NoCell
               /\ \A k \in 1..r : k <= Len(col) => k <= Len(new)
               /\ r <= Len(col) => Len(new) <= Len(col) \/ Len(new) <= r + cap
               /\ r <= Len(col) /\ cap > 0 => r < Len(new)
<1>1. Len(col) \in Nat /\ Len(col) + cap \in Nat /\ r + cap \in Nat
  BY LenProperties
<1>2. CASE Len(col) <= r
  <2>1. Prepared(col, r, s, cap) = Resize(col, Len(col) + cap)
    BY <1>2 DEF Prepared
  <2>2. /\ Resize(col, Len(col) + cap) \in Seq(Cell) /\ Len(Resize(col, Len(col) + cap)) = Len(col) + cap
        /\ \A k \in 1..Len(col) + cap : Resize(col, Len(col) + cap)[k] = IF k <= Len(col) THEN col[k] ELSE NoCell
    BY <1>1, ResizeFacts
  <2>. QED
    BY <1>1, <1>2, <2>1, <2>2, SMTT(30)
<1>3. CASE ~(Len(col) <= r) /\ s - col[Len(col)].seq > IdleSpan
  <2>1. Prepared(col, r, s, cap) = Resize(col, r + cap)
    BY <1>3 DEF Prepared
  <2>2. /\ Resize(col, r + cap) \in Seq(Cell) /\ Len(Resize(col, r + cap)) = r + cap
        /\ \A k \in 1..r + cap : Resize(col, r + cap)[k] = IF k <= Len(col) THEN col[k] ELSE NoCell
    BY <1>1, ResizeFacts
  <2>. QED
    BY <1>1, <1>3, <2>1, <2>2
<1>4. CASE ~(Len(col) <= r) /\ ~(s - col[Len(col)].seq > IdleSpan)
  <2>1. Prepared(col, r, s, cap) = col
    BY <1>4 DEF Prepared
  <2>. QED
    BY <1>1, <1>4, <2>1
<1>. QED
  BY <1>2, <1>3, <1>4

LEMMA PutCellFacts ==
    ASSUME NEW col \in Seq(Cell), NEW r \in Nat, NEW s \in Nat, NEW cap \in Nat, NEW d \in Datum,
           HasRow(col, r, s, cap)
    PROVE  LET new == PutCell(col, r, d, s, cap)
           IN  /\ new \in Seq(Cell) /\ Len(new) \in Nat /\ r < Len(new)
               /\ new[r + 1] = [data |-> d, seq |-> s]
               /\ \A k \in 1..Len(new) : k # r + 1 => new[k] = IF k <= Len(col) THEN col[k] ELSE NoCell
               /\ r <= Len(col) => Len(new) <= Len(col) \/ Len(new) <= r + cap
<1>. DEFINE old == Prepared(col, r, s, cap)
            new == PutCell(col, r, d, s, cap)
            cell == [data |-> d, seq |-> s]
<1>1. /\ old \in Seq(Cell) /\ Len(old) \in Nat
      /\ \A k \in 1..Len(old) : old[k] = IF k <= Len(col) THEN col[k] ELSE NoCell
      /\ r <= Len(col) => Len(old) <= Len(col) \/ Len(old) <= r + cap
  BY PreparedFacts
<1>2. r < Len(old) /\ r + 1 \in 1..Len(old)
  BY <1>1 DEF HasRow
<1>3. new = [old EXCEPT ![r + 1] = cell] /\ cell \in Cell
  BY DEF PutCell, Cell
<1>. HIDE DEF old, new, cell
<1>4. new \in Seq(Cell) /\ Len(new) = Len(old)
  BY <1>1, <1>2, <1>3, ExceptSeq
<1>5. new[r + 1] = cell /\ \A k \in 1..Len(old) : k # r + 1 => new[k] = old[k]
  BY <1>1, <1>2, <1>3, ExceptSeq
<1>. QED
  BY <1>1, <1>2, <1>4, <1>5 DEF new, cell

(* Types.                                                                  *)

LEMMA ScriptFacts ==
    ASSUME script \in Scripts
    PROVE  /\ script.hasInit \in BOOLEAN /\ script.queries \in Nat \ {0}
           /\ Reads \subseteq Nat \ {0}
           /\ \A p \in Reads : script.reads[p].cols \in SUBSET Names
<1>1. script \in Script
  BY ScriptConstants
<1>2. /\ script.hasInit \in BOOLEAN /\ script.queries \in Nat \ {0}
      /\ script.reads \in Seq([bind : Binds, fix : Seq(Source), hasNext : BOOLEAN, cols : SUBSET Names])
  BY <1>1 DEF Script
<1>3. Reads = 1..Len(script.reads) /\ Len(script.reads) \in Nat
  BY <1>2, LenProperties DEF Reads
<1>4. \A p \in Reads : script.reads[p] \in [bind : Binds, fix : Seq(Source), hasNext : BOOLEAN, cols : SUBSET Names]
  BY <1>2, <1>3, ElementOfSeq
<1>. QED
  BY <1>2, <1>3, <1>4

\* The buffer, as TypeOK has it.
Columns(n) ==
    /\ DOMAIN buf = Reads
    /\ \A p \in Reads :
          /\ DOMAIN buf[p] = script.reads[p].cols
          /\ \A c \in script.reads[p].cols :
                /\ buf[p][c] \in Seq(Cell)
                /\ \A r \in 1..Len(buf[p][c]) :
                      buf[p][c][r].data \in {Nil} \cup {Fresh(p, c, r - 1, m) : m \in 1..n}

Control ==
    /\ script \in Scripts /\ rowCap \in RowCaps /\ absent \subseteq Entries /\ ctxDone \in BOOLEAN
    /\ panic \in {"none", "nil Init", "index out of range"}
    /\ run \in 0..MaxRuns /\ seq \in Times \cup {0}
    /\ pc \in {"idle", "init", "apply", "wait", "param", "query", "alloc", "sync", "write"}
    /\ pc # "idle" => run # 0
    /\ isInit \in BOOLEAN /\ asked \subseteq Entries
    /\ left \in Nat /\ (pc = "apply" => item \in Entries /\ left > 0)
    /\ plan \in Nat \ {0} /\ (pc \in {"query", "alloc"} => plan \in Reads)
    /\ rows \in 0..MaxRows /\ next \in BOOLEAN /\ row \in Nat
    /\ got \in [Reads -> 0..MaxRows]
    /\ merged \in [Runs -> BOOLEAN] /\ watch \in [Runs -> SUBSET {"root", "shared", "own"}]

LEMMA TypeParts == TypeOK <=> Control /\ Columns(run)
BY DEF TypeOK, Control, Columns, Cell, Data

LEMMA InitTypes == Init => TypeOK
<1>. SUFFICES ASSUME Init PROVE TypeOK
  OBVIOUS
<1>. USE ScriptConstants
<1>1. absent \subseteq Entries /\ asked \subseteq Entries
  BY DEF Init
<1>2. got \in [Reads -> 0..MaxRows]
  BY DEF Init, NoRows
<1>3. merged \in [Runs -> BOOLEAN] /\ watch \in [Runs -> SUBSET {"root", "shared", "own"}]
  BY DEF Init
<1>4. isInit \in BOOLEAN /\ next \in BOOLEAN /\ ctxDone \in BOOLEAN
  BY DEF Init
<1>5. Control
  BY <1>1, <1>2, <1>3, <1>4 DEF Init, Control
<1>6. <<>> \in Seq(Cell) /\ Len(<<>>) = 0
  BY EmptySeq
<1>7. Columns(run)
  BY <1>6 DEF Init, Columns
<1>. QED
  BY <1>5, <1>7, TypeParts

\* The script never changes.
LEMMA SameScript ==
    ASSUME [Next]_vars
    PROVE  script' = script /\ rowCap' = rowCap /\ Reads' = Reads /\ Entries' = Entries /\ NoRows' = NoRows
<1>1. script' = script /\ rowCap' = rowCap
  BY DEF Next, RunStep, Watch, vars, envVars, StartRun, NilInit, Panic, Trigger, Apply, InitEnd, InitFails,
         Wake, ReadParam, Query, StoreRow, StoreRowPanics, StoreEnd, ReadsEnd, SyncParam, Write, RunFails,
         WatchRoot, WatchContext, Cancel, Drop, Finished
<1>. QED
  BY <1>1 DEF Reads, Entries, NoRows

LEMMA ControlStep ==
    ASSUME Control, [Next]_vars
    PROVE  Control'
<1>. USE ScriptConstants DEF Control, envVars, initVars, readVars, ctxVars, At
<1>0. script' = script /\ rowCap' = rowCap /\ Reads' = Reads /\ Entries' = Entries /\ NoRows' = NoRows
  BY SameScript
<1>1. CASE UNCHANGED vars
  BY <1>0, <1>1, ZenonT(30) DEF vars
<1>2. CASE StartRun
  <2>1. run + 1 \in 0..MaxRuns /\ run + 1 # 0 /\ got' \in [Reads -> 0..MaxRows]
    BY <1>2 DEF StartRun, NoRows
  <2>. QED
    BY <1>0, <1>2, <2>1 DEF StartRun
<1>3. CASE NilInit \/ StoreRowPanics
  BY <1>0, <1>3 DEF NilInit, StoreRowPanics, Panic
<1>4. ASSUME NEW i \in Entries, Trigger(i) PROVE Control'
  BY <1>0, <1>4, ScriptFacts DEF Trigger
<1>5. CASE Apply
  BY <1>0, <1>5 DEF Apply
<1>6. CASE InitEnd \/ InitFails
  BY <1>0, <1>6 DEF InitEnd, InitFails
<1>7. CASE Wake
  <2>1. /\ watch' \in [Runs -> SUBSET {"root", "shared", "own"}]
        /\ run # 0
    BY <1>7 DEF Wake
  <2>2. plan' = 1 /\ seq' \in Times /\ pc' = "param" /\ merged' = merged
        /\ UNCHANGED <<envVars, run, initVars, rows, next, row, got>>
    BY <1>7 DEF Wake
  <2>3. plan' \in Nat \ {0}
    <3>1. plan' = 1
      BY <1>7 DEF Wake
    <3>. HIDE DEF Control
    <3>. QED
      BY <3>1
  <2>4. seq' \in Times \cup {0}
    BY <2>2
  <2>. QED
    BY <1>0, <1>7, <2>1, <2>2, <2>3, <2>4 DEF Wake
<1>8. CASE ReadParam \/ ReadsEnd \/ SyncParam
  BY <1>0, <1>8 DEF ReadParam, ReadsEnd, SyncParam
<1>9. CASE Query
  BY <1>0, <1>9 DEF Query
<1>10. CASE StoreRow
  BY <1>0, <1>10 DEF StoreRow
<1>11. CASE StoreEnd
  BY <1>0, <1>11 DEF StoreEnd
<1>12. CASE Write \/ RunFails
  BY <1>0, <1>12 DEF Write, RunFails, Return
<1>13. ASSUME NEW n \in Runs, Watch(n) PROVE Control'
  BY <1>0, <1>13, ZenonT(30) DEF Watch, WatchRoot, WatchContext
<1>14. CASE Cancel
  BY <1>0, <1>14 DEF Cancel
<1>15. ASSUME NEW i \in Entries, Drop(i) PROVE Control'
  BY <1>0, <1>15 DEF Drop
<1>16. CASE Finished
  BY <1>1, <1>16 DEF Finished
<1>. QED
  BY <1>1, <1>2, <1>3, <1>4, <1>5, <1>6, <1>7, <1>8, <1>9, <1>10, <1>11, <1>12, <1>13, <1>14, <1>15, <1>16
     DEF Next, RunStep

\* Only StoreRow writes to the buffer.
LEMMA OthersRead ==
    ASSUME [Next]_vars
    PROVE  StoreRow \/ buf' = buf
BY DEF Next, RunStep, Watch, vars, envVars, readVars, ctxVars, StartRun, NilInit, Panic, Trigger, Apply, InitEnd,
       InitFails, Wake, ReadParam, Query, StoreRowPanics, StoreEnd, ReadsEnd, SyncParam, Write, RunFails,
       WatchRoot, WatchContext, Cancel, Drop, Finished

(***************************************************************************)
(* Storing a result.  AllocInv: its rows come one after the other, so each *)
(* column has the row before the next one.                                 *)
(***************************************************************************)
AllocInv ==
    /\ pc = "alloc" => row <= rows /\ \A c \in script.reads[plan].cols : row <= Len(buf[plan][c])
    /\ \A p \in Reads : \A c \in script.reads[p].cols : Len(buf[p][c]) <= MaxRows + rowCap
    /\ rowCap > 0 => panic # "index out of range"

\* StoreRow in the terms of PutCellFacts.
LEMMA StoreRowFacts ==
    ASSUME Control, Columns(run), StoreRow
    PROVE  /\ plan \in Reads /\ row \in Nat /\ row < rows /\ run \in Nat \ {0} /\ seq \in Nat
           /\ DOMAIN buf' = Reads /\ \A p \in Reads \ {plan} : buf'[p] = buf[p]
           /\ DOMAIN buf'[plan] = script.reads[plan].cols
           /\ \A c \in script.reads[plan].cols :
                 LET col == buf[plan][c]
                     new == buf'[plan][c]
                 IN  /\ Len(col) \in Nat
                     /\ new \in Seq(Cell) /\ Len(new) \in Nat /\ row < Len(new)
                     /\ new[row + 1] = [data |-> Fresh(plan, c, row, run), seq |-> seq]
                     /\ \A k \in 1..Len(new) : k # row + 1 => new[k] = IF k <= Len(col) THEN col[k] ELSE NoCell
                     /\ row <= Len(col) => Len(new) <= Len(col) \/ Len(new) <= row + rowCap
<1>1. /\ plan \in Reads /\ row \in Nat /\ row < rows /\ rows \in 0..MaxRows /\ rowCap \in Nat
      /\ run \in Nat \ {0} /\ seq \in Nat /\ script \in Scripts
  <2>1. /\ plan \in Reads /\ row \in Nat /\ rows \in 0..MaxRows /\ rowCap \in RowCaps
        /\ run \in 0..MaxRuns /\ run # 0 /\ seq \in Times \cup {0} /\ script \in Scripts
    BY DEF StoreRow, At, Control
  <2>2. row < rows
    BY DEF StoreRow
  <2>3. run \in Nat \ {0} /\ seq \in Nat /\ rowCap \in Nat
    <3>. HIDE DEF Columns, StoreRow, Control
    <3>. QED
      BY <2>1, ScriptConstants
  <2>. QED
    BY <2>1, <2>2, <2>3
<1>2. /\ buf' = [buf EXCEPT ![plan] =
                    [c \in script.reads[plan].cols |->
                        PutCell(buf[plan][c], row, Fresh(plan, c, row, run), seq, rowCap)]]
      /\ \A c \in script.reads[plan].cols : HasRow(buf[plan][c], row, seq, rowCap)
  BY DEF StoreRow, Bind, Fresh
<1>3. DOMAIN buf = Reads /\ \A c \in script.reads[plan].cols : buf[plan][c] \in Seq(Cell)
  BY <1>1 DEF Columns
<1>4. /\ DOMAIN buf' = Reads /\ \A p \in Reads \ {plan} : buf'[p] = buf[p]
      /\ DOMAIN buf'[plan] = script.reads[plan].cols
      /\ \A c \in script.reads[plan].cols :
            buf'[plan][c] = PutCell(buf[plan][c], row, Fresh(plan, c, row, run), seq, rowCap)
  BY <1>1, <1>2, <1>3
<1>5. \A c \in script.reads[plan].cols : Fresh(plan, c, row, run) \in Datum
  BY <1>1, ScriptFacts DEF Fresh, Datum
<1>6. ASSUME NEW c \in script.reads[plan].cols
      PROVE  LET col == buf[plan][c]
                 new == buf'[plan][c]
             IN  /\ Len(col) \in Nat
                 /\ new \in Seq(Cell) /\ Len(new) \in Nat /\ row < Len(new)
                 /\ new[row + 1] = [data |-> Fresh(plan, c, row, run), seq |-> seq]
                 /\ \A k \in 1..Len(new) : k # row + 1 => new[k] = IF k <= Len(col) THEN col[k] ELSE NoCell
                 /\ row <= Len(col) => Len(new) <= Len(col) \/ Len(new) <= row + rowCap
  <2>. DEFINE col == buf[plan][c]
              d == Fresh(plan, c, row, run)
              put == PutCell(col, row, d, seq, rowCap)
  <2>1. col \in Seq(Cell) /\ d \in Datum /\ HasRow(col, row, seq, rowCap) /\ Len(col) \in Nat
    BY <1>2, <1>3, <1>5, LenProperties
  <2>. HIDE DEF col, d
  <2>2. /\ put \in Seq(Cell) /\ Len(put) \in Nat /\ row < Len(put)
        /\ put[row + 1] = [data |-> d, seq |-> seq]
        /\ \A k \in 1..Len(put) : k # row + 1 => put[k] = IF k <= Len(col) THEN col[k] ELSE NoCell
        /\ row <= Len(col) => Len(put) <= Len(col) \/ Len(put) <= row + rowCap
    BY <1>1, <2>1, PutCellFacts
  <2>3. buf'[plan][c] = put
    BY <1>4 DEF col, d
  <2>. HIDE DEF put
  <2>. QED
    BY <2>1, <2>2, <2>3 DEF col, d
<1>. QED
  BY <1>1, <1>4, <1>6

LEMMA RunGrows ==
    ASSUME [Next]_vars
    PROVE  run' = run \/ run' = run + 1
BY DEF Next, RunStep, Watch, vars, StartRun, NilInit, Panic, Trigger, Apply, InitEnd,
       InitFails, Wake, ReadParam, Query, StoreRow, StoreRowPanics, StoreEnd, ReadsEnd, SyncParam, Write, RunFails,
       WatchRoot, WatchContext, Cancel, Drop, Finished

LEMMA ColumnsStep ==
    ASSUME Control, Columns(run), [Next]_vars
    PROVE  Columns(run)'
<1>1. script' = script /\ Reads' = Reads /\ run \in Nat /\ run' \in Nat /\ run <= run'
  <2>1. run \in Nat
    <3>1. run \in 0..MaxRuns
      BY DEF Control
    <3>. QED
      BY <3>1, ScriptConstants
  <2>2. run' \in Nat /\ run <= run'
    BY <2>1, RunGrows
  <2>. QED
    BY <2>1, <2>2, SameScript
<1>2. CASE buf' = buf
  <2>1. \A p, c, r : {Fresh(p, c, r, m) : m \in 1..run} \subseteq {Fresh(p, c, r, m) : m \in 1..run'}
    BY <1>1
  <2>. QED
    BY <1>1, <1>2, <2>1 DEF Columns
<1>3. CASE StoreRow
  <2>1. run' = run
    BY <1>3 DEF StoreRow
  <2>2. ASSUME NEW p \in Reads, NEW c \in script.reads[p].cols
        PROVE  /\ buf'[p][c] \in Seq(Cell)
               /\ \A r \in 1..Len(buf'[p][c]) :
                     buf'[p][c][r].data \in {Nil} \cup {Fresh(p, c, r - 1, m) : m \in 1..run}
    <3>1. CASE p # plan
      BY <1>3, <2>2, <3>1, StoreRowFacts DEF Columns
    <3>2. CASE p = plan
      <4>1. /\ row \in Nat /\ run \in Nat \ {0} /\ Len(buf[p][c]) \in Nat
            /\ buf'[p][c] \in Seq(Cell) /\ Len(buf'[p][c]) \in Nat
            /\ buf'[p][c][row + 1] = [data |-> Fresh(p, c, row, run), seq |-> seq]
            /\ \A k \in 1..Len(buf'[p][c]) : k # row + 1 =>
                  buf'[p][c][k] = IF k <= Len(buf[p][c]) THEN buf[p][c][k] ELSE NoCell
        BY <1>3, <2>2, <3>2, StoreRowFacts
      <4>2. \A r \in 1..Len(buf[p][c]) : buf[p][c][r].data \in {Nil} \cup {Fresh(p, c, r - 1, m) : m \in 1..run}
        BY <2>2 DEF Columns
      <4>3. NoCell.data = Nil
        BY DEF NoCell
      <4>4. ASSUME NEW k \in 1..Len(buf'[p][c])
            PROVE  buf'[p][c][k].data \in {Nil} \cup {Fresh(p, c, k - 1, m) : m \in 1..run}
        <5>1. CASE k = row + 1
          <6>1. k - 1 = row /\ run \in 1..run
            BY <4>1, <5>1
          <6>. QED
            BY <4>1, <5>1, <6>1
        <5>2. CASE k # row + 1 /\ k <= Len(buf[p][c])
          <6>1. buf'[p][c][k] = buf[p][c][k] /\ k \in 1..Len(buf[p][c])
            BY <4>1, <5>2
          <6>. QED
            BY <4>2, <6>1
        <5>3. CASE k # row + 1 /\ ~(k <= Len(buf[p][c]))
          BY <4>1, <4>3, <5>3
        <5>. QED
          BY <5>1, <5>2, <5>3
      <4>. QED
        BY <4>1, <4>4
    <3>. QED
      BY <3>1, <3>2
  <2>3. DOMAIN buf' = Reads /\ \A p \in Reads : DOMAIN buf'[p] = script.reads[p].cols
    BY <1>3, StoreRowFacts DEF Columns
  <2>. QED
    BY <1>1, <2>1, <2>2, <2>3 DEF Columns
<1>. QED
  BY <1>2, <1>3, OthersRead

LEMMA TypeStep == TypeOK /\ [Next]_vars => TypeOK'
<1>1. (TypeOK <=> Control /\ Columns(run))'
  BY TypeParts, PTL
<1>. QED
  BY <1>1, TypeParts, ControlStep, ColumnsStep

\* The variables have their types, and a value stays at its place, for every
\* script, capacity and idle time.
THEOREM TypeCorrect == Spec => []TypeOK
BY InitTypes, TypeStep, PTL DEF Spec

(* Rows that find their cells.                                             *)

LEMMA AllocStep == TypeOK /\ AllocInv /\ [Next]_vars => AllocInv'
<1>. SUFFICES ASSUME Control, Columns(run), AllocInv, [Next]_vars PROVE AllocInv'
  BY TypeParts
<1>0. /\ script' = script /\ Reads' = Reads /\ rowCap' = rowCap
      /\ rowCap \in Nat /\ MaxRows \in Nat
  BY SameScript, ScriptConstants DEF Control
<1>1. CASE StoreRow
  <2>1. /\ plan \in Reads /\ row \in Nat /\ row < rows /\ rows \in 0..MaxRows
        /\ plan' = plan /\ row' = row + 1 /\ rows' = rows /\ pc' = "alloc" /\ panic' = panic /\ pc = "alloc"
    BY <1>1, StoreRowFacts DEF StoreRow, At, envVars, Control
  <2>2. ASSUME NEW c \in script.reads[plan].cols
        PROVE  row + 1 <= Len(buf'[plan][c]) /\ Len(buf'[plan][c]) <= MaxRows + rowCap
    <3>1. /\ Len(buf[plan][c]) \in Nat /\ Len(buf'[plan][c]) \in Nat /\ row < Len(buf'[plan][c])
          /\ row <= Len(buf[plan][c]) =>
                Len(buf'[plan][c]) <= Len(buf[plan][c]) \/ Len(buf'[plan][c]) <= row + rowCap
      BY <1>1, <2>2, StoreRowFacts
    <3>2. row <= Len(buf[plan][c]) /\ Len(buf[plan][c]) <= MaxRows + rowCap
      BY <2>1, <2>2 DEF AllocInv
    <3>. QED
      BY <1>0, <2>1, <3>1, <3>2
  <2>3. \A p \in Reads \ {plan} : buf'[p] = buf[p]
    BY <1>1, StoreRowFacts
  <2>4. \A p \in Reads : \A c \in script.reads[p].cols : Len(buf'[p][c]) <= MaxRows + rowCap
    BY <2>2, <2>3 DEF AllocInv
  <2>5. row' <= rows'
    BY <2>1, <1>0
  <2>. QED
    BY <1>0, <2>1, <2>2, <2>4, <2>5 DEF AllocInv
<1>2. CASE Query
  <2>1. /\ plan' = plan /\ row' = 0 /\ rows' \in Nat /\ panic' = panic /\ buf' = buf /\ plan \in Reads
    BY <1>0, <1>2 DEF Query, At, envVars, Control
  <2>2. \A c \in script.reads[plan].cols : Len(buf[plan][c]) \in Nat
    BY <2>1, LenProperties DEF Columns
  <2>3. row' <= rows' /\ \A c \in script.reads[plan].cols : row' <= Len(buf[plan][c])
    BY <2>1, <2>2
  <2>4. script'.reads[plan'].cols = script.reads[plan].cols
    BY <1>0, <2>1
  <2>. QED
    BY <1>0, <2>1, <2>3, <2>4 DEF AllocInv
<1>3. CASE StoreRowPanics
  <2>1. /\ row < rows /\ pc = "alloc" /\ plan \in Reads /\ row \in Nat /\ seq \in Nat
        /\ UNCHANGED <<pc, buf, plan, row, rows>>
    <3>1. row < rows /\ pc = "alloc" /\ UNCHANGED <<pc, buf, plan, row, rows>>
      BY <1>3 DEF StoreRowPanics, Panic, At, readVars
    <3>2. plan \in Reads /\ row \in Nat /\ seq \in Times \cup {0}
      BY <3>1 DEF Control
    <3>. QED
      BY <3>1, <3>2, ScriptConstants
  <2>2. PICK c \in script.reads[plan].cols : ~HasRow(buf[plan][c], row, seq, rowCap)
    BY <1>3 DEF StoreRowPanics, Bind
  <2>3. buf[plan][c] \in Seq(Cell) /\ row <= Len(buf[plan][c])
    BY <2>1 DEF Columns, AllocInv
  <2>4. ~(rowCap > 0)
    BY <1>0, <2>1, <2>2, <2>3, PreparedFacts DEF HasRow
  <2>. QED
    BY <1>0, <2>1, <2>4 DEF AllocInv
<1>4. CASE ~StoreRow /\ ~Query /\ ~StoreRowPanics
  <2>1. /\ buf' = buf
        /\ pc' = "alloc" => pc = "alloc" /\ plan' = plan /\ row' = row /\ rows' = rows
        /\ panic' \in {panic, "nil Init"}
    BY <1>4 DEF Next, RunStep, Watch, vars, envVars, readVars, ctxVars, StartRun, NilInit, Panic, Trigger, Apply,
       InitEnd, InitFails, Wake, ReadParam, StoreEnd, ReadsEnd, SyncParam, Write, RunFails, Return,
       WatchRoot, WatchContext, Cancel, Drop, Finished
  <2>. QED
    BY <1>0, <2>1 DEF AllocInv
<1>. QED
  BY <1>1, <1>2, <1>3, <1>4

LEMMA InitAlloc == Init => AllocInv
<1>1. Len(<<>>) = 0
  BY EmptySeq
<1>2. Init => rowCap \in Nat /\ MaxRows \in Nat
  BY ScriptConstants DEF Init
<1>. QED
  BY <1>1, <1>2 DEF Init, AllocInv

\* With a capacity, storing the rows of a result in their order never panics,
\* however set grew and cut the columns before.
THEOREM RowsFit == Spec => []SetsFit
<1>1. AllocInv => SetsFit
  BY DEF AllocInv, SetsFit
<1>. QED
  BY <1>1, InitAlloc, AllocStep, TypeCorrect, PTL DEF Spec

(* Initialisation, and the merged context.                                 *)

\* Whoever reads or writes has asked for every entry in this run.
THEOREM AskedFirst == Spec => []InitFirst
<1>1. Init => InitFirst
  BY DEF Init, InitFirst
<1>2. InitFirst /\ [Next]_vars => InitFirst'
  <2>. SUFFICES ASSUME InitFirst, [Next]_vars PROVE InitFirst'
    OBVIOUS
  <2>1. script' = script /\ Entries' = Entries
    BY SameScript
  <2>2. CASE InitEnd
    BY <2>1, <2>2 DEF InitEnd, InitFirst
  <2>3. CASE StartRun
    BY <2>1, <2>3 DEF StartRun, InitFirst
  <2>4. CASE ~InitEnd /\ ~StartRun
    <3>1. LET late == {"wait", "param", "query", "alloc", "sync", "write"}
          IN  pc' \in late => pc \in late /\ asked' = asked
      BY <2>4 DEF Next, RunStep, Watch, vars, envVars, initVars, readVars, ctxVars, At, NilInit, Panic, Trigger, Apply,
         InitFails, Wake, ReadParam, Query, StoreRow, StoreRowPanics, StoreEnd, ReadsEnd, SyncParam, Write, RunFails,
         Return, WatchRoot, WatchContext, Cancel, Drop, Finished
    <3>. QED
      BY <2>1, <3>1 DEF InitFirst
  <2>. QED
    BY <2>2, <2>3, <2>4
<1>. QED
  BY <1>1, <1>2, PTL DEF Spec

\* No goroutine of AnyContext ends the context of a run that still needs it.
THEOREM ContextsExact == Spec => []ContextExact
<1>1. Init => ContextExact
  BY DEF Init, ContextExact
<1>2. TypeOK /\ ContextExact /\ [Next]_vars => ContextExact'
  <2>. SUFFICES ASSUME Control, ContextExact, [Next]_vars, NEW n \in Runs, merged'[n]
                PROVE  ctxDone' \/ Returned(n)'
    BY TypeParts DEF ContextExact
  <2>1. run \in Nat /\ n \in Nat /\ merged \in [Runs -> BOOLEAN]
    <3>1. run \in 0..MaxRuns /\ merged \in [Runs -> BOOLEAN]
      BY DEF Control
    <3>. QED
      BY <3>1, ScriptConstants DEF Runs
  <2>2. ctxDone => ctxDone'
    BY DEF Next, RunStep, Watch, vars, envVars, StartRun, NilInit, Panic, Trigger, Apply, InitEnd, InitFails,
       Wake, ReadParam, Query, StoreRow, StoreRowPanics, StoreEnd, ReadsEnd, SyncParam, Write, RunFails,
       WatchRoot, WatchContext, Cancel, Drop, Finished
  <2>3. Returned(n) => Returned(n)'
    <3>1. CASE StartRun
      BY <2>1, <3>1 DEF StartRun, Returned
    <3>2. CASE ~StartRun
      <4>1. run' = run /\ (pc = "idle" => pc' = "idle")
        BY <3>2 DEF Next, RunStep, Watch, vars, At, NilInit, Panic, Trigger, Apply, InitEnd, InitFails,
           Wake, ReadParam, Query, StoreRow, StoreRowPanics, StoreEnd, ReadsEnd, SyncParam, Write, RunFails, Return,
           WatchRoot, WatchContext, Cancel, Drop, Finished
      <4>. QED
        BY <4>1 DEF Returned
    <3>. QED
      BY <3>1, <3>2
  <2>4. CASE merged[n]
    BY <2>2, <2>3, <2>4 DEF ContextExact
  <2>5. CASE ~merged[n]
    <3>1. merged' # merged
      BY <2>5
    <3>2. CASE Write \/ RunFails
      BY <2>1, <2>5, <3>2 DEF Write, RunFails, Return, Returned
    <3>3. CASE ~Write /\ ~RunFails
      <4>1. PICK r \in Runs : \E w \in {"shared", "own"} : WatchContext(r, w)
        BY <3>1, <3>3 DEF Next, RunStep, Watch, vars, ctxVars, StartRun, NilInit, Panic, Trigger, Apply, InitEnd,
           InitFails, Wake, ReadParam, Query, StoreRow, StoreRowPanics, StoreEnd, ReadsEnd, SyncParam,
           WatchRoot, Cancel, Drop, Finished
      <4>2. n = r /\ ctxDone
        BY <2>1, <2>5, <4>1 DEF WatchContext
      <4>. QED
        BY <2>2, <4>2
    <3>. QED
      BY <3>2, <3>3
  <2>. QED
    BY <2>4, <2>5
<1>. QED
  BY <1>1, <1>2, TypeCorrect, PTL DEF Spec

(***************************************************************************)
(* Where parameters come from.                                             *)
(***************************************************************************)

\* A bounded set of naturals has a greatest member: the intervals above its
\* members are finite sets, which strict inclusion orders well.
LEMMA Greatest ==
    ASSUME NEW S \in SUBSET Nat, S # {}, NEW b \in Nat, \A n \in S : n <= b
    PROVE  MaxOf(S) \in S /\ \A n \in S : n <= MaxOf(S)
<1>. DEFINE I == {n + 1 .. b : n \in S}
<1>1. I \subseteq FiniteSubsetsOf(Nat) /\ I # {}
  <2>1. \A n \in S : n + 1 .. b \in FiniteSubsetsOf(Nat)
    BY FS_Interval DEF FiniteSubsetsOf
  <2>. QED
    BY <2>1
<1>2. PICK U \in I : \A V \in I : ~ (<<V, U>> \in StrictSubsetOrdering(Nat))
  BY <1>1, FS_StrictSubsetOrderingWellFounded, WFMin
<1>3. PICK x \in S : U = x + 1 .. b
  OBVIOUS
<1>4. ASSUME NEW y \in S, x < y
      PROVE  FALSE
  <2>1. y + 1 .. b \in I /\ y + 1 .. b \subseteq x + 1 .. b /\ y \in x + 1 .. b /\ y \notin y + 1 .. b
    BY <1>4
  <2>2. y + 1 .. b \in SUBSET Nat /\ x + 1 .. b \in SUBSET Nat /\ y + 1 .. b # x + 1 .. b
    BY <2>1
  <2>. QED
    BY <1>2, <1>3, <2>1, <2>2 DEF StrictSubsetOrdering
<1>5. \E n \in S : \A m \in S : m <= n
  BY <1>4
<1>. QED
  BY <1>5 DEF MaxOf

\* RowSize has room for every row of every column.
LEMMA RowSizeFacts ==
    ASSUME Control, Columns(run), AllocInv
    PROVE  /\ RowSize \in Nat
           /\ \A p \in Reads : \A c \in script.reads[p].cols : Len(buf[p][c]) <= RowSize
<1>. DEFINE S == {0} \cup UNION {{Len(buf[p][c]) : c \in DOMAIN buf[p]} : p \in Reads}
<1>1. \A p \in Reads : DOMAIN buf[p] = script.reads[p].cols
  BY DEF Columns
<1>2. \A p \in Reads : \A c \in script.reads[p].cols : Len(buf[p][c]) \in Nat /\ Len(buf[p][c]) <= MaxRows + rowCap
  BY LenProperties DEF Columns, AllocInv
<1>3. MaxRows + rowCap \in Nat
  <2>1. rowCap \in RowCaps
    BY DEF Control
  <2>. QED
    BY <2>1, ScriptConstants
<1>4. S \in SUBSET Nat /\ S # {} /\ \A n \in S : n <= MaxRows + rowCap
  BY <1>1, <1>2, <1>3
<1>5. \A p \in Reads : \A c \in script.reads[p].cols : Len(buf[p][c]) \in S
  BY <1>1
<1>6. RowSize = MaxOf(S)
  BY DEF RowSize
<1>. HIDE DEF S
<1>. QED
  BY <1>3, <1>4, <1>5, <1>6, Greatest

(***************************************************************************)
(* The cells this run has written are there, with what it read: of the     *)
(* read plans it has finished, and of the one it is storing.  This is the  *)
(* inductive form of ThisRunsData.                                         *)
(***************************************************************************)
Held(p, c, r) ==
    r < Len(buf[p][c]) /\ buf[p][c][r + 1] = [data |-> Fresh(p, c, r, run), seq |-> seq]

CellInv ==
    /\ pc \in {"param", "query", "alloc", "sync", "write"} =>
          \A p \in Reads : \A c \in script.reads[p].cols : \A r \in 0 .. got[p] - 1 : Held(p, c, r)
    /\ pc = "alloc" => \A c \in script.reads[plan].cols : \A r \in 0 .. row - 1 : Held(plan, c, r)
    /\ pc \in {"param", "query", "alloc"} => \A p \in Reads : p >= plan => got[p] = 0
    /\ pc \in {"init", "apply", "wait"} => \A p \in Reads : got[p] = 0

\* StoreRow adds a row of this run and keeps those before it.
LEMMA StoreRowHolds ==
    ASSUME Control, Columns(run), AllocInv, CellInv, StoreRow, script' = script
    PROVE  CellInv'
<1>1. /\ plan \in Reads /\ row \in Nat /\ row < rows /\ pc = "alloc" /\ pc' = "alloc" /\ row' = row + 1
      /\ UNCHANGED <<plan, run, seq, got, rows>> /\ Reads' = Reads /\ Reads \subseteq Nat
  <2>1. plan \in Reads /\ row \in Nat /\ row < rows
    BY StoreRowFacts
  <2>2. pc = "alloc" /\ pc' = "alloc" /\ row' = row + 1 /\ UNCHANGED <<plan, run, seq, got, rows>>
    BY DEF StoreRow, At
  <2>3. Reads' = Reads
    BY DEF Reads
  <2>4. script \in Scripts
    BY DEF Control
  <2>. QED
    BY <2>1, <2>2, <2>3, <2>4, ScriptFacts
<1>2. ASSUME NEW c \in script.reads[plan].cols, NEW r \in 0..row
      PROVE  Held(plan, c, r)'
  <2>1. /\ Len(buf[plan][c]) \in Nat /\ Len(buf'[plan][c]) \in Nat /\ row < Len(buf'[plan][c])
        /\ buf'[plan][c][row + 1] = [data |-> Fresh(plan, c, row, run), seq |-> seq]
        /\ \A k \in 1..Len(buf'[plan][c]) : k # row + 1 =>
              buf'[plan][c][k] = IF k <= Len(buf[plan][c]) THEN buf[plan][c][k] ELSE NoCell
    BY <1>2, StoreRowFacts
  <2>2. CASE r = row
    BY <1>1, <2>1, <2>2 DEF Held, Fresh
  <2>3. CASE r # row
    <3>1. r \in 0 .. row - 1 /\ r + 1 \in 1..Len(buf'[plan][c]) /\ r + 1 # row + 1
      BY <1>1, <2>1, <2>3
    <3>2. r < Len(buf[plan][c]) /\ buf[plan][c][r + 1] = [data |-> Fresh(plan, c, r, run), seq |-> seq]
      BY <1>1, <3>1 DEF CellInv, Held
    <3>3. r + 1 <= Len(buf[plan][c]) /\ r < Len(buf'[plan][c])
      BY <2>1, <3>1, <3>2
    <3>4. buf'[plan][c][r + 1] = buf[plan][c][r + 1]
      BY <2>1, <3>1, <3>3
    <3>. QED
      BY <1>1, <3>2, <3>3, <3>4 DEF Held, Fresh
  <2>. QED
    BY <2>2, <2>3
<1>3. got[plan] = 0
  BY <1>1 DEF CellInv
<1>4. ASSUME NEW p \in Reads, NEW c \in script.reads[p].cols, NEW r \in 0 .. got[p] - 1
      PROVE  Held(p, c, r)'
  <2>1. p # plan
    BY <1>3
  <2>2. buf'[p] = buf[p]
    BY <2>1, StoreRowFacts
  <2>3. Held(p, c, r)
    BY <1>1 DEF CellInv
  <2>. QED
    BY <1>1, <2>2, <2>3 DEF Held, Fresh
<1>5. \A r \in 0 .. row' - 1 : r \in 0..row
  BY <1>1
<1>. QED
  BY <1>1, <1>2, <1>4, <1>5 DEF CellInv

LEMMA CellStep == TypeOK /\ AllocInv /\ CellInv /\ [Next]_vars => CellInv'
<1>. SUFFICES ASSUME Control, Columns(run), AllocInv, CellInv, [Next]_vars PROVE CellInv'
  BY TypeParts
<1>0. script' = script /\ Reads' = Reads /\ NoRows' = NoRows
  BY SameScript
<1>1. CASE StoreRow
  BY <1>0, <1>1, StoreRowHolds
<1>2. CASE StartRun
  <2>1. pc' \in {"init", "wait"} /\ got' = NoRows
    BY <1>2 DEF StartRun
  <2>. QED
    BY <1>0, <2>1 DEF CellInv, NoRows
<1>3. CASE Wake
  <2>1. pc' = "param" /\ got' = got /\ \A p \in Reads : got[p] = 0
    BY <1>3 DEF Wake, At, CellInv
  <2>. QED
    BY <1>0, <2>1 DEF CellInv
<1>4. CASE Query
  <2>1. /\ pc = "query" /\ pc' = "alloc" /\ row' = 0
        /\ UNCHANGED <<plan, run, seq, got, buf>>
    BY <1>4 DEF Query, At
  <2>. QED
    BY <1>0, <2>1 DEF CellInv, Held, Fresh
<1>5. CASE StoreEnd
  <2>1. /\ pc = "alloc" /\ row = rows /\ pc' \in {"param", "sync"} /\ plan' = plan + 1
        /\ got' = [got EXCEPT ![plan] = rows]
        /\ UNCHANGED <<run, seq, buf>>
    BY <1>5 DEF StoreEnd, At
  <2>2. got \in [Reads -> 0..MaxRows] /\ plan \in Reads /\ script \in Scripts
    BY <2>1 DEF Control
  <2>3. Reads \subseteq Nat \ {0}
    BY <2>2, ScriptFacts
  <2>4. got'[plan] = row /\ \A p \in Reads \ {plan} : got'[p] = got[p]
    BY <2>1, <2>2
  <2>5. \A p \in Reads : p >= plan' => got'[p] = 0
    BY <2>1, <2>2, <2>3, <2>4 DEF CellInv
  <2>6. \A p \in Reads : \A c \in script.reads[p].cols : \A r \in 0 .. got'[p] - 1 : Held(p, c, r)
    <3>1. ASSUME NEW p \in Reads, NEW c \in script.reads[p].cols, NEW r \in 0 .. got'[p] - 1
          PROVE  Held(p, c, r)
      <4>1. CASE p = plan
        BY <2>1, <2>4, <3>1, <4>1 DEF CellInv
      <4>2. CASE p # plan
        BY <2>1, <2>4, <3>1, <4>2 DEF CellInv
      <4>. QED
        BY <4>1, <4>2
    <3>. QED
      BY <3>1
  <2>7. \A p \in Reads : \A c \in script.reads[p].cols : \A r \in 0 .. got'[p] - 1 : Held(p, c, r)'
    BY <2>1, <2>6 DEF Held, Fresh
  <2>. QED
    BY <1>0, <2>1, <2>5, <2>7 DEF CellInv
<1>6. CASE ~StoreRow /\ ~StartRun /\ ~Wake /\ ~Query /\ ~StoreEnd
  <2>1. /\ UNCHANGED <<run, seq, got, buf, plan>>
        /\ pc' = "alloc" => pc = "alloc" /\ row' = row
        /\ pc' \in {"query", "param"} => pc \in {"query", "param"}
        /\ pc' \in {"sync", "write"} => pc \in {"param", "sync", "write"}
        /\ pc' \in {"init", "apply", "wait"} => pc \in {"init", "apply", "wait"}
    BY <1>6 DEF Next, RunStep, Watch, vars, envVars, initVars, readVars, ctxVars, At, NilInit, Panic, Trigger, Apply,
       InitEnd, InitFails, ReadParam, StoreRowPanics, ReadsEnd, SyncParam, Write, RunFails, Return,
       WatchRoot, WatchContext, Cancel, Drop, Finished
  <2>. QED
    BY <1>0, <2>1 DEF CellInv, Held, Fresh
<1>. QED
  BY <1>1, <1>2, <1>3, <1>4, <1>5, <1>6

\* A cell that this run has written is readable, and shows what it read.
LEMMA HeldShows ==
    ASSUME script \in Scripts, NEW s, s.plan \in Reads, s.col \in script.reads[s.plan].cols,
           NEW r \in Nat, Held(s.plan, s.col, r), seq \in Nat
    PROVE  Value(s, r) = Fresh(s.plan, s.col, r, run)
<1>1. s.plan # 0 /\ Column(s) = buf[s.plan][s.col]
  BY ScriptFacts DEF Column
<1>. QED
  BY <1>1 DEF Value, Seen, Held

\* The parameter of a read plan.
LEMMA ReadParamFresh ==
    ASSUME Control, CellInv, ReadParam, Reads' = Reads, script' = script
    PROVE  ThisRunsData'
<1>1. /\ pc = "param" /\ pc' = "query" /\ script \in Scripts
      /\ UNCHANGED <<plan, run, got, buf>>
  BY DEF ReadParam, At, readVars, Control
<1>2. seq \in Nat /\ script \in Script /\ plan \in Reads /\ got \in [Reads -> 0..MaxRows]
  <2>1. seq \in Times \cup {0} /\ got \in [Reads -> 0..MaxRows]
    BY DEF Control
  <2>. QED
    BY <1>1, <2>1, ScriptConstants DEF ReadParam
<1>3. Bind.fix \in Seq(Source) /\ Bind' = Bind
  <2>1. script.reads \in Seq([bind : Binds, fix : Seq(Source), hasNext : BOOLEAN, cols : SUBSET Names])
    BY <1>2 DEF Script
  <2>2. script.reads[plan] \in [bind : Binds, fix : Seq(Source), hasNext : BOOLEAN, cols : SUBSET Names]
    BY <1>2, <2>1, ElementOfSeq, LenProperties DEF Reads
  <2>. QED
    BY <1>1, <2>2 DEF Bind
<1>4. ASSUME Bind.bind = "fix", NEW k \in DOMAIN Bind.fix,
             Bind.fix[k].plan \in Reads, Bind.fix[k].col \in script.reads[Bind.fix[k].plan].cols,
             Bind.fix[k].row < got[Bind.fix[k].plan]
      PROVE  param'[k] = Fresh(Bind.fix[k].plan, Bind.fix[k].col, Bind.fix[k].row, run)
  <2>. DEFINE s == Bind.fix[k]
  <2>1. s \in Source
    BY <1>3, ElementOfSeq, LenProperties
  <2>2. s.row \in Nat
    BY <2>1 DEF Source
  <2>3. param'[k] = Value(s, s.row)
    BY <1>4 DEF ReadParam
  <2>4. got[s.plan] \in 0..MaxRows /\ MaxRows \in Nat
    BY <1>2, <1>4, ScriptConstants
  <2>5. s.row \in 0 .. got[s.plan] - 1
    BY <1>4, <2>2, <2>4
  <2>6. Held(s.plan, s.col, s.row)
    BY <1>1, <1>4, <2>5 DEF CellInv
  <2>. QED
    BY <1>1, <1>2, <1>4, <2>2, <2>3, <2>6, HeldShows
<1>. QED
  BY <1>1, <1>3, <1>4 DEF ThisRunsData, Fresh

\* The matrix of the sync plan.
LEMMA SyncParamFresh ==
    ASSUME Control, Columns(run), AllocInv, CellInv, SyncParam, Reads' = Reads, script' = script
    PROVE  ThisRunsData'
<1>. DEFINE fix == script.sync.fix
<1>1. /\ pc = "sync" /\ pc' = "write" /\ script \in Scripts
      /\ UNCHANGED <<plan, run, got, buf>>
  BY DEF SyncParam, At, readVars, Control
<1>2. seq \in Nat /\ script \in Script /\ got \in [Reads -> 0..MaxRows] /\ MaxRows \in Nat
  <2>1. seq \in Times \cup {0} /\ got \in [Reads -> 0..MaxRows]
    BY DEF Control
  <2>. QED
    BY <1>1, <2>1, ScriptConstants
<1>3. fix \in Seq(Source)
  BY <1>2 DEF Script
<1>4. RowSize \in Nat /\ \A p \in Reads : \A c \in script.reads[p].cols : Len(buf[p][c]) <= RowSize
  BY RowSizeFacts
<1>5. ASSUME script.sync.bind = "fix", NEW k \in DOMAIN fix,
             fix[k].plan \in Reads, fix[k].col \in script.reads[fix[k].plan].cols
      PROVE  /\ got[fix[k].plan] <= Len(param')
             /\ \A r \in fix[k].row .. got[fix[k].plan] - 1 :
                   param'[r + 1][k] = Fresh(fix[k].plan, fix[k].col, r, run)
  <2>. DEFINE s == fix[k]
              M == [r \in 1..RowSize |-> [j \in DOMAIN fix |-> SyncValue(fix[j], r - 1)]]
  <2>1. s \in Source
    BY <1>3, <1>5, ElementOfSeq, LenProperties
  <2>2. s.row \in Nat /\ got[s.plan] \in Nat
    BY <1>2, <1>5, <2>1 DEF Source
  <2>3. param' = M
    BY <1>5 DEF SyncParam
  <2>4. Len(param') = RowSize
    <3>1. Len(M) = RowSize
      BY <1>4
    <3>. QED
      BY <2>3, <3>1
  <2>5. \A r \in 0 .. got[s.plan] - 1 : Held(s.plan, s.col, r)
    BY <1>1, <1>5 DEF CellInv
  <2>6. Len(buf[s.plan][s.col]) \in Nat /\ Len(buf[s.plan][s.col]) <= RowSize
    BY <1>4, <1>5, LenProperties DEF Columns
  <2>. HIDE DEF s
  <2>7. got[s.plan] <= RowSize
    <3>1. CASE got[s.plan] = 0
      BY <1>4, <3>1
    <3>2. CASE got[s.plan] # 0
      <4>1. got[s.plan] - 1 \in 0 .. got[s.plan] - 1
        BY <2>2, <3>2
      <4>2. got[s.plan] - 1 < Len(buf[s.plan][s.col])
        BY <2>5, <4>1 DEF Held
      <4>. QED
        BY <1>4, <2>2, <2>6, <4>2
    <3>. QED
      BY <3>1, <3>2
  <2>8. ASSUME NEW r \in s.row .. got[s.plan] - 1
        PROVE  param'[r + 1][k] = Fresh(s.plan, s.col, r, run)
    <3>1. r \in 0 .. got[s.plan] - 1 /\ r \in Nat /\ r + 1 \in 1..RowSize /\ (r + 1) - 1 = r /\ ~(r < s.row)
      BY <1>4, <2>2, <2>7, <2>8
    <3>2. M[r + 1][k] = SyncValue(fix[k], (r + 1) - 1)
      BY <1>5, <3>1
    <3>3. M[r + 1][k] = Value(s, r)
      BY <3>1, <3>2 DEF SyncValue, s
    <3>4. Held(s.plan, s.col, r)
      BY <2>5, <3>1
    <3>5. s.plan \in Reads /\ s.col \in script.reads[s.plan].cols
      BY <1>5 DEF s
    <3>. QED
      BY <1>1, <1>2, <2>3, <3>1, <3>3, <3>4, <3>5, HeldShows
  <2>. QED
    BY <2>4, <2>7, <2>8 DEF s
<1>. QED
  BY <1>1, <1>5 DEF ThisRunsData, Fresh

LEMMA DataStep == TypeOK /\ AllocInv /\ CellInv /\ ThisRunsData /\ [Next]_vars => ThisRunsData'
<1>. SUFFICES ASSUME Control, Columns(run), AllocInv, CellInv, ThisRunsData, [Next]_vars PROVE ThisRunsData'
  BY TypeParts
<1>1. script' = script /\ Reads' = Reads
  BY SameScript
<1>2. CASE ReadParam
  BY <1>1, <1>2, ReadParamFresh
<1>3. CASE SyncParam
  BY <1>1, <1>3, SyncParamFresh
<1>4. CASE ~ReadParam /\ ~SyncParam
  <2>1. /\ pc' = "query" => pc = "query"
        /\ pc' = "write" => pc = "write"
        /\ pc' \in {"query", "write"} => UNCHANGED <<plan, run, got, param>>
    BY <1>4 DEF Next, RunStep, Watch, vars, envVars, initVars, readVars, ctxVars, At, StartRun, NilInit, Panic, Trigger,
       Apply, InitEnd, InitFails, Wake, Query, StoreRow, StoreRowPanics, StoreEnd, ReadsEnd, Write, RunFails, Return,
       WatchRoot, WatchContext, Cancel, Drop, Finished
  <2>2. CASE pc' = "query"
    <3>1. Bind' = Bind
      BY <1>1, <2>1, <2>2 DEF Bind
    <3>. QED
      BY <1>1, <2>1, <2>2, <3>1 DEF ThisRunsData, Fresh
  <2>3. CASE pc' = "write"
    BY <1>1, <2>1, <2>3 DEF ThisRunsData, Fresh
  <2>4. CASE pc' \notin {"query", "write"}
    BY <2>4 DEF ThisRunsData
  <2>. QED
    BY <2>2, <2>3, <2>4
<1>. QED
  BY <1>2, <1>3, <1>4

\* What a run has read is what its parameters carry, whatever earlier runs left
\* in the columns, and wherever the clock goes.
THEOREM ParametersOfThisRun == Spec => []ThisRunsData
<1>1. Init => CellInv /\ ThisRunsData
  BY DEF Init, CellInv, ThisRunsData
<1>. QED
  BY <1>1, InitAlloc, CellStep, AllocStep, DataStep, TypeCorrect, PTL DEF Spec
=============================================================================
