---------------------------- MODULE BackendProofs ----------------------------
(* Theorems about the connections, pools and machines that plans run on,    *)
(* for every value of the constants of Queries, OdbcFfi, SyncUsePool,       *)
(* KafkaReader, ShellConn and LuaVm.                                        *)
EXTENDS Queries, OdbcFfi, SyncUsePool, KafkaReader, ShellConn, LuaVm, SequenceTheorems, FiniteSetTheorems, TLAPS

LEMMA InUpTo == ASSUME NEW n \in Nat, NEW i \in 1..(n + 1), i # n + 1 PROVE i \in 1..n
OBVIOUS

LEMMA WithinMore == ASSUME NEW n \in Nat, NEW m \in Nat, m >= n, NEW i \in 1..n PROVE i \in 1..m
OBVIOUS

LEMMA OneMoreFits ==
    ASSUME NEW n \in Nat, NEW t \in Nat, n < t, NEW l, l = n + 1 PROVE l <= t
OBVIOUS

LEMMA SeqOfMap ==
    ASSUME NEW S, NEW n \in Nat, NEW f \in [1..n -> S]
    PROVE  f \in Seq(S) /\ Len(f) = n
OBVIOUS

-----------------------------------------------------------------------------
(* Queries.                                                                *)

QueryTypes ==
    /\ client \in {"sql", "cassandra", "redis", "ssh"}
    /\ queryPc \in {"idle", "query", "rows", "gone"}
    /\ queries \in Nat /\ (queryPc \in {"query", "rows"} => queries # 0)
    /\ total \in Seq(Nat) /\ Len(total) = queries
    /\ slices \in Seq(Seq(Nat)) /\ Len(slices) = queries
    /\ memory \in Seq(Nat \X Nat) /\ row \in 0..Len(memory)

\* The rows handed out: where they are, and that the next row goes elsewhere.
RowsKept ==
    /\ \A q \in 1..queries : \A i \in 1..Len(slices[q]) :
          slices[q][i] \in 1..Len(memory) /\ memory[slices[q][i]] = <<q, i>>
    /\ queryPc = "rows" => ByRow
    /\ queryPc = "rows" /\ client = "cassandra" =>
          row # 0 /\ \A q \in 1..queries : \A i \in 1..Len(slices[q]) : slices[q][i] # row

\* How many of them there are.
RowsCounted ==
    /\ queryPc = "query" => slices[queries] = <<>>
    /\ \A q \in 1..queries : Len(slices[q]) <= total[q]
    /\ \A q \in 1..queries : (q < queries \/ queryPc = "idle") /\ q \notin broken => Len(slices[q]) = total[q]

QueryInv == QueryTypes /\ RowsKept /\ RowsCounted

LEMMA QueryInvInit == QueryInit => QueryInv
BY QueriesConstants DEF QueryInit, QueryInv, QueryTypes, RowsKept, RowsCounted

LEMMA QueryStarts == ASSUME QueryInv, NEW n \in Nat, StartQuery(n) PROVE QueryInv'
<1>1. QueryTypes'
  BY DEF QueryInv, QueryTypes, StartQuery
<1>2. /\ slices' = Append(slices, <<>>) /\ total' = Append(total, n)
      /\ memory' = memory /\ broken' = broken /\ queryPc' = "query"
      /\ queries \in Nat /\ queries' = queries + 1
      /\ Len(slices) = queries /\ Len(total) = queries /\ queryPc = "idle"
      /\ slices \in Seq(Seq(Nat)) /\ total \in Seq(Nat)
  BY DEF QueryInv, QueryTypes, StartQuery
<1>3. /\ \A q \in 1..queries : slices'[q] = slices[q] /\ total'[q] = total[q]
      /\ slices'[queries + 1] = <<>> /\ total'[queries + 1] = n
  BY <1>2
<1>4. Len(slices'[queries + 1]) = 0
  BY <1>3
<1>5. \A q \in 1..queries' : q \in 1..queries \/ q = queries + 1
  BY <1>2
<1>6. RowsKept'
  <2>1. ASSUME NEW q \in 1..queries', NEW i \in 1..Len(slices'[q])
        PROVE  slices'[q][i] \in 1..Len(memory') /\ memory'[slices'[q][i]] = <<q, i>>
    <3>1. q \in 1..queries
      BY <1>4, <1>5
    <3>2. slices'[q] = slices[q]
      BY <1>3, <3>1
    <3>. QED
      BY <1>2, <3>1, <3>2 DEF QueryInv, RowsKept
  <2>. QED
    BY <1>2, <2>1 DEF RowsKept
<1>7. RowsCounted'
  <2>1. ASSUME NEW q \in 1..queries' PROVE Len(slices'[q]) <= total'[q]
    BY <1>3, <1>4, <1>5 DEF QueryInv, RowsCounted
  <2>2. ASSUME NEW q \in 1..queries PROVE q \notin broken' => Len(slices'[q]) = total'[q]
    BY <1>2, <1>3 DEF QueryInv, RowsCounted
  <2>. QED
    BY <1>2, <1>3, <2>1, <2>2 DEF RowsCounted
<1>. QED
  BY <1>1, <1>6, <1>7 DEF QueryInv

\* New slices change none of those that were handed out.
LEMMA RowsStay ==
    ASSUME QueryInv, UNCHANGED <<queries, slices>>, Len(memory') >= Len(memory), Len(memory') \in Nat,
           \A s \in 1..Len(memory) : memory'[s] = memory[s]
    PROVE  \A q \in 1..queries' : \A i \in 1..Len(slices'[q]) :
              slices'[q][i] \in 1..Len(memory) /\ slices'[q][i] \in 1..Len(memory') /\ memory'[slices'[q][i]] = <<q, i>>
<1>. SUFFICES ASSUME NEW q \in 1..queries, NEW i \in 1..Len(slices[q])
              PROVE  slices[q][i] \in 1..Len(memory) /\ slices[q][i] \in 1..Len(memory') /\ memory'[slices[q][i]] = <<q, i>>
  OBVIOUS
<1>1. slices[q][i] \in 1..Len(memory) /\ memory[slices[q][i]] = <<q, i>>
  BY DEF QueryInv, RowsKept
<1>2. Len(memory) \in Nat
  BY DEF QueryInv, QueryTypes
<1>. QED
  BY <1>1, <1>2

LEMMA QueryColumns == ASSUME QueryInv, Columns PROVE QueryInv'
<1>0. memory \in Seq(Nat \X Nat) /\ <<0, 0>> \in Nat \X Nat
  BY DEF QueryInv, QueryTypes
<1>1. /\ memory' \in Seq(Nat \X Nat) /\ Len(memory') >= Len(memory)
      /\ \A s \in 1..Len(memory) : memory'[s] = memory[s]
      /\ row' \in 0..Len(memory') /\ (client = "cassandra" => row' = Len(memory) + 1)
  <2>1. CASE client = "cassandra"
    <3>1. memory' = Append(memory, <<0, 0>>) /\ row' = Len(memory')
      BY <2>1 DEF Columns, NewSlice, Blank
    <3>. QED
      BY <1>0, <3>1
  <2>2. CASE client # "cassandra"
    BY <1>0, <2>2 DEF Columns
  <2>. QED
    BY <2>1, <2>2
<1>2. QueryTypes'
  BY <1>1 DEF QueryInv, QueryTypes, Columns
<1>3. UNCHANGED <<client, queries, slices, total, broken>> /\ queryPc' = "rows" /\ ByRow /\ Len(memory') \in Nat /\ Len(memory) \in Nat
  BY <1>0, <1>1 DEF Columns
<1>4. \A q \in 1..queries' : \A i \in 1..Len(slices'[q]) :
         slices'[q][i] \in 1..Len(memory) /\ slices'[q][i] \in 1..Len(memory') /\ memory'[slices'[q][i]] = <<q, i>>
  BY <1>1, <1>3, RowsStay
<1>5. client = "cassandra" => row' # 0 /\ \A q \in 1..queries' : \A i \in 1..Len(slices'[q]) : slices'[q][i] # row'
  <2>. SUFFICES ASSUME client = "cassandra"
                PROVE  row' # 0 /\ \A q \in 1..queries' : \A i \in 1..Len(slices'[q]) : slices'[q][i] # row'
    OBVIOUS
  <2>1. row' = Len(memory) + 1 /\ Len(memory) \in Nat
    BY <1>1, <1>3
  <2>2. row' # 0 /\ \A s \in 1..Len(memory) : s # row'
    BY <2>1
  <2>. QED
    BY <1>4, <2>2
<1>6. RowsKept'
  <2>1. \A q \in 1..queries' : \A i \in 1..Len(slices'[q]) :
           slices'[q][i] \in 1..Len(memory') /\ memory'[slices'[q][i]] = <<q, i>>
    BY <1>4
  <2>2. ByRow' /\ client' = client
    BY <1>3 DEF ByRow
  <2>. QED
    BY <1>5, <2>1, <2>2 DEF RowsKept
<1>7. RowsCounted'
  BY <1>3 DEF QueryInv, RowsCounted, QueryTypes, Columns
<1>. QED
  BY <1>2, <1>6, <1>7 DEF QueryInv

\* A row is scanned into a slice that no row handed out has.
LEMMA QueryScans ==
    ASSUME QueryInv, NEW s, NEW m, ScanInto(s, m), queryPc = "rows",
           Len(slices[queries]) < total[queries],
           m \in Seq(Nat \X Nat), Len(m) >= Len(memory), s \in 1..Len(m),
           \A k \in 1..Len(memory) : m[k] = memory[k],
           \A q \in 1..queries : \A i \in 1..Len(slices[q]) : slices[q][i] # s
    PROVE  /\ memory' \in Seq(Nat \X Nat) /\ Len(memory') = Len(m)
           /\ slices' \in Seq(Seq(Nat)) /\ Len(slices') = queries
           /\ \A q \in 1..queries : \A i \in 1..Len(slices'[q]) :
                 /\ slices'[q][i] = s \/ slices'[q][i] \in 1..Len(memory)
                 /\ slices'[q][i] \in 1..Len(memory') /\ memory'[slices'[q][i]] = <<q, i>>
           /\ RowsCounted'
<1>1. /\ queries \in 1..Len(slices) /\ Len(slices) = queries /\ slices \in Seq(Seq(Nat)) /\ slices[queries] \in Seq(Nat)
      /\ total[queries] \in Nat /\ Len(memory) \in Nat /\ Len(m) \in Nat
  BY SMTT(30) DEF QueryInv, QueryTypes
<1>2. /\ slices' = [slices EXCEPT ![queries] = Append(slices[queries], s)]
      /\ memory' = [m EXCEPT ![s] = <<queries, Len(slices[queries]) + 1>>]
      /\ UNCHANGED <<queryPc, queries, total, broken>>
  BY DEF ScanInto, Scanned
<1>3. Append(slices[queries], s) \in Seq(Nat)
  BY <1>1
<1>4. /\ slices' \in Seq(Seq(Nat)) /\ Len(slices') = queries
      /\ slices'[queries] = Append(slices[queries], s)
      /\ \A q \in 1..queries : q # queries => slices'[q] = slices[q]
  BY <1>1, <1>2, <1>3
<1>5. /\ Len(slices'[queries]) = Len(slices[queries]) + 1
      /\ slices'[queries][Len(slices[queries]) + 1] = s
      /\ \A i \in 1..Len(slices[queries]) : slices'[queries][i] = slices[queries][i]
  BY <1>1, <1>4
<1>6. <<queries, Len(slices[queries]) + 1>> \in Nat \X Nat
  BY <1>1, SMTT(30)
<1>7. /\ memory' \in Seq(Nat \X Nat) /\ Len(memory') = Len(m)
      /\ memory'[s] = <<queries, Len(slices[queries]) + 1>>
      /\ \A k \in 1..Len(m) : k # s => memory'[k] = m[k]
  BY <1>2, <1>6, SMTT(30)
<1>a. ASSUME NEW k \in 1..Len(memory), k # s PROVE k \in 1..Len(memory') /\ memory'[k] = memory[k]
  <2>1. k \in 1..Len(m)
    BY <1>1
  <2>. QED
    BY <1>7, <1>a, <2>1
<1>8. ASSUME NEW q \in 1..queries, NEW i \in 1..Len(slices'[q])
      PROVE  /\ slices'[q][i] = s \/ slices'[q][i] \in 1..Len(memory)
             /\ slices'[q][i] \in 1..Len(memory') /\ memory'[slices'[q][i]] = <<q, i>>
  <2>1. CASE q = queries /\ i = Len(slices[queries]) + 1
    BY <1>5, <1>7, <2>1
  <2>2. CASE q = queries /\ i # Len(slices[queries]) + 1
    <3>1. i \in 1..Len(slices[q]) /\ slices'[q][i] = slices[q][i]
      <4>1. Len(slices[queries]) \in Nat
        BY <1>1
      <4>2. i \in 1..(Len(slices[queries]) + 1)
        BY <1>5, <2>2
      <4>3. i \in 1..Len(slices[queries])
        BY <2>2, <4>1, <4>2, InUpTo
      <4>4. slices'[queries][i] = slices[queries][i]
        BY <1>5, <4>3
      <4>. QED
        BY <2>2, <4>3, <4>4
    <3>2. slices[q][i] \in 1..Len(memory) /\ memory[slices[q][i]] = <<q, i>> /\ slices[q][i] # s
      BY <3>1 DEF QueryInv, RowsKept
    <3>. QED
      BY <1>a, <3>1, <3>2
  <2>3. CASE q # queries
    <3>1. i \in 1..Len(slices[q]) /\ slices'[q][i] = slices[q][i]
      BY <1>4, <2>3
    <3>2. slices[q][i] \in 1..Len(memory) /\ memory[slices[q][i]] = <<q, i>> /\ slices[q][i] # s
      BY <3>1 DEF QueryInv, RowsKept
    <3>. QED
      BY <1>a, <3>1, <3>2
  <2>. QED
    BY <2>1, <2>2, <2>3
<1>9. RowsCounted'
  <2>1. ASSUME NEW q \in 1..queries PROVE Len(slices'[q]) <= total[q]
    <3>1. Len(slices[queries]) \in Nat
      BY <1>1
    <3>2. Len(slices'[queries]) <= total[queries]
      BY <1>1, <1>5, <3>1, OneMoreFits
    <3>3. q # queries => Len(slices'[q]) <= total[q]
      BY <1>4 DEF QueryInv, RowsCounted
    <3>. QED
      BY <3>2, <3>3
  <2>2. ASSUME NEW q \in 1..queries, q < queries, q \notin broken PROVE Len(slices'[q]) = total[q]
    <3>1. q # queries
      BY <2>2
    <3>2. slices'[q] = slices[q]
      BY <1>4, <3>1
    <3>. QED
      BY <2>2, <3>2 DEF QueryInv, RowsCounted
  <2>. QED
    BY <1>2, <2>1, <2>2 DEF RowsCounted
<1>. QED
  BY <1>4, <1>7, <1>8, <1>9

LEMMA QueryScansRow == ASSUME QueryInv, ScanRow \/ IterScan PROVE QueryInv'
<1>1. /\ memory \in Seq(Nat \X Nat) /\ <<0, 0>> \in Nat \X Nat /\ Len(memory) \in Nat
      /\ queryPc = "rows" /\ Len(slices[queries]) < total[queries]
  BY DEF QueryInv, QueryTypes, ScanRow, IterScan, Scanned
<1>. DEFINE more == Append(memory, <<0, 0>>)
<1>2. /\ more \in Seq(Nat \X Nat) /\ Len(more) = Len(memory) + 1
      /\ \A k \in 1..Len(memory) : more[k] = memory[k]
  BY <1>1
<1>3. \A q \in 1..queries : \A i \in 1..Len(slices[q]) : slices[q][i] \in 1..Len(memory)
  BY DEF QueryInv, RowsKept
<1>. HIDE DEF more
<1>4. CASE ScanRow
  <2>1. ScanInto(Len(memory) + 1, more) /\ client = "sql" /\ row' = row
    BY <1>4 DEF ScanRow, Blank, more
  <2>2. Len(memory) + 1 \in 1..Len(more) /\ Len(more) >= Len(memory)
    BY <1>1, <1>2
  <2>3. \A q \in 1..queries : \A i \in 1..Len(slices[q]) : slices[q][i] # Len(memory) + 1
    BY <1>1, <1>3
  <2>4. /\ memory' \in Seq(Nat \X Nat) /\ Len(memory') = Len(more)
        /\ slices' \in Seq(Seq(Nat)) /\ Len(slices') = queries
        /\ \A q \in 1..queries : \A i \in 1..Len(slices'[q]) :
              slices'[q][i] \in 1..Len(memory') /\ memory'[slices'[q][i]] = <<q, i>>
        /\ RowsCounted'
    BY <1>1, <1>2, <2>1, <2>2, <2>3, QueryScans
  <2>5. UNCHANGED <<client, queryPc, queries, total, broken, row>>
    BY <2>1 DEF ScanInto
  <2>6. row' \in 0..Len(memory')
    BY <1>1, <1>2, <2>4, <2>5 DEF QueryInv, QueryTypes
  <2>7. QueryTypes'
    BY <2>4, <2>5, <2>6 DEF QueryInv, QueryTypes
  <2>8. RowsKept'
    BY <2>1, <2>4, <2>5 DEF QueryInv, RowsKept, ByRow
  <2>. QED
    BY <2>4, <2>7, <2>8 DEF QueryInv
<1>5. CASE IterScan
  <2>1. ScanInto(row, more) /\ client = "cassandra" /\ row' = Len(memory')
    BY <1>5 DEF IterScan, Blank, more
  <2>2. /\ row \in 1..Len(memory) /\ row \in 1..Len(more) /\ Len(more) >= Len(memory)
        /\ \A q \in 1..queries : \A i \in 1..Len(slices[q]) : slices[q][i] # row
    <3>1. row \in 0..Len(memory) /\ row # 0
      BY <1>1, <2>1 DEF QueryInv, QueryTypes, RowsKept
    <3>2. row \in 1..Len(memory)
      BY <1>1, <3>1
    <3>3. Len(more) \in Nat /\ Len(more) >= Len(memory)
      BY <1>1, <1>2
    <3>4. row \in 1..Len(more)
      BY <1>1, <3>2, <3>3, WithinMore
    <3>. QED
      BY <1>1, <2>1, <3>2, <3>3, <3>4 DEF QueryInv, RowsKept
  <2>4. /\ memory' \in Seq(Nat \X Nat) /\ Len(memory') = Len(more)
        /\ slices' \in Seq(Seq(Nat)) /\ Len(slices') = queries
        /\ \A q \in 1..queries : \A i \in 1..Len(slices'[q]) :
              /\ slices'[q][i] = row \/ slices'[q][i] \in 1..Len(memory)
              /\ slices'[q][i] \in 1..Len(memory') /\ memory'[slices'[q][i]] = <<q, i>>
        /\ RowsCounted'
    BY <1>1, <1>2, <2>1, <2>2, QueryScans
  <2>5. UNCHANGED <<client, queryPc, queries, total, broken>>
    BY <2>1 DEF ScanInto
  <2>6. row' = Len(memory) + 1 /\ row' \in 0..Len(memory')
    BY <1>1, <1>2, <2>1, <2>4
  <2>7. QueryTypes'
    BY <2>4, <2>5, <2>6 DEF QueryInv, QueryTypes
  <2>8. row' # 0 /\ \A q \in 1..queries : \A i \in 1..Len(slices'[q]) : slices'[q][i] # row'
    <3>1. row' # 0 /\ row' \notin 1..Len(memory) /\ row # row'
      BY <1>1, <2>2, <2>6
    <3>. QED
      BY <2>4, <3>1
  <2>9. RowsKept'
    BY <2>4, <2>5, <2>8 DEF QueryInv, RowsKept, ByRow
  <2>. QED
    BY <2>4, <2>7, <2>9 DEF QueryInv
<1>. QED
  BY <1>4, <1>5

\* The results of redis and ssh, all rows at once.
LEMMA QueryConverts == ASSUME QueryInv, Convert PROVE QueryInv'
<1>. DEFINE n == total[queries]
            new == [i \in 1..n |-> Len(memory) + i]
            data == [i \in 1..n |-> <<queries, i>>]
<1>1. /\ queries \in Nat /\ queries \in 1..queries /\ Len(slices) = queries /\ Len(total) = queries
      /\ slices \in Seq(Seq(Nat)) /\ total \in Seq(Nat) /\ n \in Nat
      /\ memory \in Seq(Nat \X Nat) /\ Len(memory) \in Nat
  BY DEF QueryInv, QueryTypes, Convert
<1>2. /\ slices' = [slices EXCEPT ![queries] = new] /\ memory' = memory \o data
      /\ queryPc = "query" /\ queryPc' = "idle" /\ UNCHANGED <<client, queries, total, row, broken>>
  BY DEF Convert
<1>3. new \in Seq(Nat) /\ Len(new) = n /\ data \in Seq(Nat \X Nat) /\ Len(data) = n
  <2>1. new \in [1..n -> Nat] /\ data \in [1..n -> Nat \X Nat]
    BY <1>1
  <2>. HIDE DEF n, new, data
  <2>. QED
    BY <1>1, <2>1, SeqOfMap
<1>. HIDE DEF n
<1>4. /\ slices' \in Seq(Seq(Nat)) /\ Len(slices') = queries
      /\ slices'[queries] = new /\ \A q \in 1..queries : q # queries => slices'[q] = slices[q]
  <2>. HIDE DEF new
  <2>. QED
    BY <1>1, <1>2, <1>3
<1>5. /\ memory' \in Seq(Nat \X Nat) /\ Len(memory') = Len(memory) + n
      /\ \A k \in 1..Len(memory) : memory'[k] = memory[k]
      /\ \A i \in 1..n : memory'[Len(memory) + i] = data[i]
  <2>. HIDE DEF data
  <2>1. /\ memory \o data \in Seq(Nat \X Nat) /\ Len(memory \o data) = Len(memory) + n
        /\ \A i \in 1..(Len(memory) + n) :
              (memory \o data)[i] = IF i <= Len(memory) THEN memory[i] ELSE data[i - Len(memory)]
    BY <1>1, <1>3, ConcatProperties
  <2>2. \A i \in 1..n : Len(memory) + i \in 1..(Len(memory) + n) /\ ~(Len(memory) + i <= Len(memory)) /\ (Len(memory) + i) - Len(memory) = i
    BY <1>1
  <2>3. \A k \in 1..Len(memory) : k \in 1..(Len(memory) + n) /\ k <= Len(memory)
    BY <1>1
  <2>. QED
    BY <1>2, <2>1, <2>2, <2>3
<1>6. \A i \in 1..n : data[i] = <<queries, i>> /\ new[i] = Len(memory) + i
  OBVIOUS
<1>. HIDE DEF new, data
<1>7. row' \in 0..Len(memory')
  BY <1>1, <1>2, <1>5 DEF QueryInv, QueryTypes
<1>8. QueryTypes'
  BY <1>1, <1>2, <1>4, <1>5, <1>7 DEF QueryInv, QueryTypes
<1>9. ASSUME NEW q \in 1..queries', NEW i \in 1..Len(slices'[q])
      PROVE  slices'[q][i] \in 1..Len(memory') /\ memory'[slices'[q][i]] = <<q, i>>
  <2>1. CASE q = queries
    <3>1. i \in 1..n /\ slices'[q][i] = Len(memory) + i
      BY <1>3, <1>4, <1>6, <2>1
    <3>2. Len(memory) + i \in 1..(Len(memory) + n)
      BY <1>1, <3>1
    <3>. QED
      BY <1>5, <1>6, <2>1, <3>1, <3>2
  <2>2. CASE q # queries
    <3>1. q \in 1..queries /\ slices'[q] = slices[q]
      BY <1>2, <1>4, <2>2
    <3>2. slices[q][i] \in 1..Len(memory) /\ memory[slices[q][i]] = <<q, i>>
      BY <3>1 DEF QueryInv, RowsKept
    <3>3. slices[q][i] \in 1..Len(memory')
      <4>1. Len(memory) + n \in Nat /\ Len(memory) + n >= Len(memory)
        BY <1>1
      <4>. QED
        BY <1>1, <1>5, <3>2, <4>1, WithinMore
    <3>. QED
      BY <1>5, <3>1, <3>2, <3>3
  <2>. QED
    BY <2>1, <2>2
<1>10. RowsKept'
  BY <1>2, <1>9 DEF RowsKept
<1>11. RowsCounted'
  <2>1. ASSUME NEW q \in 1..queries PROVE Len(slices'[q]) <= total'[q]
    BY <1>1, <1>2, <1>3, <1>4 DEF QueryInv, RowsCounted, n
  <2>2. ASSUME NEW q \in 1..queries, q \notin broken PROVE Len(slices'[q]) = total'[q]
    <3>1. CASE q = queries
      BY <1>2, <1>3, <1>4, <3>1 DEF n
    <3>2. CASE q # queries
      BY <1>1, <1>2, <1>4, <2>2, <3>2 DEF QueryInv, RowsCounted
    <3>. QED
      BY <3>1, <3>2
  <2>. QED
    BY <1>2, <2>1, <2>2 DEF RowsCounted
<1>. QED
  BY <1>8, <1>10, <1>11 DEF QueryInv

\* The end of a query, in all other ways.
LEMMA QueryEnds == ASSUME QueryInv, QueryFails \/ IterFails \/ RowsEnd PROVE QueryInv'
<1>1. /\ UNCHANGED <<client, queries, total, slices, row, memory>>
      /\ queryPc \in {"query", "rows"} /\ queryPc' \in {"idle", "gone"}
  BY DEF QueryFails, IterFails, RowsEnd
<1>2. QueryTypes'
  BY <1>1 DEF QueryInv, QueryTypes
<1>3. RowsKept'
  BY <1>1 DEF QueryInv, RowsKept
<1>4. \A q \in 1..queries : q \in broken' \/ (q \notin broken /\ (queryPc' = "idle" /\ q = queries => Len(slices[q]) = total[q]))
  <2>1. CASE QueryFails
    BY <2>1 DEF QueryFails
  <2>2. CASE IterFails
    BY <2>2 DEF IterFails
  <2>3. CASE RowsEnd
    <3>1. queries \in 1..queries /\ Len(slices[queries]) <= total[queries] /\ total[queries] \in Nat /\ Len(slices[queries]) \in Nat
      BY <1>1 DEF QueryInv, QueryTypes, RowsCounted
    <3>. QED
      BY <2>3, <3>1 DEF RowsEnd, Scanned
  <2>. QED
    BY <2>1, <2>2, <2>3
<1>5. RowsCounted'
  <2>1. ASSUME NEW q \in 1..queries, q \notin broken', q < queries \/ queryPc' = "idle"
        PROVE  Len(slices[q]) = total[q]
    <3>1. CASE q = queries
      BY <1>4, <2>1, <3>1 DEF QueryInv, QueryTypes
    <3>2. CASE q # queries
      BY <1>4, <2>1, <3>2 DEF QueryInv, QueryTypes, RowsCounted
    <3>. QED
      BY <3>1, <3>2
  <2>. QED
    BY <1>1, <2>1 DEF QueryInv, RowsCounted
<1>. QED
  BY <1>2, <1>3, <1>5 DEF QueryInv

\* The rows a caller got from a query stay those of that query, and are all it
\* has, whatever is queried after it on the connection.
THEOREM RowsBelong == QuerySpec => []RowsOwn
<1>1. QueryInv /\ [QueryNext]_queryVars => QueryInv'
  <2>. SUFFICES ASSUME QueryInv, [QueryNext]_queryVars PROVE QueryInv'
    OBVIOUS
  <2>1. ASSUME NEW n \in 0..MaxResult, StartQuery(n) PROVE QueryInv'
    BY <2>1, QueryStarts, QueriesConstants
  <2>2. CASE UNCHANGED queryVars
    BY <2>2 DEF queryVars, QueryInv, QueryTypes, RowsKept, RowsCounted, ByRow
  <2>. QED
    BY <2>1, <2>2, QueryColumns, QueryScansRow, QueryConverts, QueryEnds DEF QueryNext
<1>2. QueryInv => RowsOwn
  <2>. SUFFICES ASSUME QueryInv, NEW q \in 1..queries
                PROVE  /\ \A i \in DOMAIN slices[q] : memory[slices[q][i]] = <<q, i>>
                       /\ (q < queries \/ queryPc = "idle") /\ q \notin broken => Len(slices[q]) = total[q]
    BY DEF RowsOwn, Scanned
  <2>1. slices[q] \in Seq(Nat)
    BY DEF QueryInv, QueryTypes
  <2>2. DOMAIN slices[q] = 1..Len(slices[q])
    BY <2>1
  <2>. QED
    BY <2>2 DEF QueryInv, RowsKept, RowsCounted
<1>. QED
  BY <1>1, <1>2, QueryInvInit, PTL DEF QuerySpec

-----------------------------------------------------------------------------
(* OdbcFfi.                                                                *)

InCall == ffiPc \in {"bind", "fetch", "column", "chunk"}
BoundMem == UNION {Buffers(i) : i \in bound}

\* What is allocated, at every place of the code.
Allocated ==
    /\ InCall \/ ffiPc \in {"alloc env", "alloc dbc", "connect", "none", "open", "failed", "closed"}
    /\ InCall => handles = {"env", "dbc", "stmt"} /\ linked /\ cMem = {CString} \cup BoundMem
    /\ ~InCall => cMem = {}
    /\ ffiPc \in {"open", "failed"} => handles = {"env", "dbc"} /\ linked
    /\ ffiPc = "closed" => handles = {} \/ (handles = {"env", "dbc"} /\ linked)
    /\ ffiPc \in {"alloc env", "none"} => handles = {}
    /\ ffiPc = "alloc dbc" => handles = {"env"}
    /\ ffiPc = "connect" => handles = {"env", "dbc"}

\* The parameters are bound one by one, and all of them when a query runs.
BoundInOrder ==
    /\ params \in Nat
    /\ ffiPc = "bind" => \E k \in 0..params : bound = 1..k
    /\ ffiPc \in {"fetch", "column", "chunk"} => bound = 1..params

\* Each row that was fetched is appended or being read.
RowsRead ==
    /\ rows \in Nat /\ fetched \in Nat
    /\ ffiPc \in {"alloc env", "alloc dbc", "connect", "open", "bind", "fetch"} => rows = fetched
    /\ ffiPc \in {"column", "chunk"} => rows + 1 = fetched

FfiInv == Allocated /\ BoundInOrder /\ RowsRead /\ ~short

\* Whoever returns from a call frees what it allocated.
LEMMA FfiReturns ==
    ASSUME FfiInv, InCall, NEW isOk \in BOOLEAN, FfiReturn(isOk), UNCHANGED ffiRead,
           isOk => rows = fetched
    PROVE  FfiInv'
<1>1. cMem' = {} /\ handles' = {"env", "dbc"} /\ linked' /\ ffiPc' = IF isOk THEN "open" ELSE "failed"
  BY DEF FfiInv, Allocated, FfiReturn, BoundMem
<1>2. Allocated'
  BY <1>1 DEF Allocated, InCall
<1>3. BoundInOrder'
  BY <1>1 DEF FfiInv, BoundInOrder, FfiReturn, ffiJob
<1>4. RowsRead'
  BY <1>1 DEF FfiInv, RowsRead, FfiReturn, ffiRead
<1>5. short' = short
  BY DEF FfiReturn, ffiRead
<1>. QED
  BY <1>2, <1>3, <1>4, <1>5 DEF FfiInv

LEMMA FfiOpens ==
    ASSUME FfiInv, AllocEnv \/ AllocDbc \/ Connect \/ OpenFails \/ FfiClose("open") \/ FfiClose("failed")
    PROVE  FfiInv'
<1>1. Allocated'
  BY DEF FfiInv, Allocated, InCall, AllocEnv, AllocDbc, Connect, OpenFails, OpenStep, FfiClose
<1>2. BoundInOrder'
  BY DEF FfiInv, BoundInOrder, AllocEnv, AllocDbc, Connect, OpenFails, OpenStep, FfiClose, ffiJob
<1>3. /\ UNCHANGED <<rows, fetched, short>> /\ ffiPc' \notin {"bind", "fetch", "column", "chunk"}
      /\ ffiPc' \in {"alloc dbc", "connect", "open"} => ffiPc \in {"alloc env", "alloc dbc", "connect"}
  BY DEF AllocEnv, AllocDbc, Connect, OpenFails, OpenStep, FfiClose, ffiRead
<1>4. ffiPc' # "alloc env"
  BY DEF AllocEnv, AllocDbc, Connect, OpenFails, OpenStep, FfiClose
<1>5. RowsRead'
  BY <1>3, <1>4 DEF FfiInv, RowsRead
<1>. QED
  BY <1>1, <1>2, <1>3, <1>5 DEF FfiInv

LEMMA FfiCalls == ASSUME FfiInv, NEW n \in Nat, NEW q, FfiCall(n, q) PROVE FfiInv'
<1>1. bound' = {} /\ cMem' = {CString} /\ handles' = {"env", "dbc", "stmt"} /\ linked' /\ ffiPc' = "bind"
  BY DEF FfiInv, Allocated, InCall, FfiCall
<1>2. Allocated'
  BY <1>1 DEF Allocated, InCall, BoundMem
<1>3. 0 \in 0..n /\ {} = 1..0
  OBVIOUS
<1>4. BoundInOrder'
  BY <1>1, <1>3 DEF BoundInOrder, FfiCall
<1>5. RowsRead' /\ ~short'
  BY DEF RowsRead, FfiCall
<1>. QED
  BY <1>2, <1>4, <1>5 DEF FfiInv

LEMMA FfiBinds == ASSUME FfiInv, Bind PROVE FfiInv'
<1>1. ffiPc = "bind" /\ ffiPc' = "bind" /\ UNCHANGED <<handles, linked, ffiJob, ffiRead>>
  BY DEF Bind
<1>2. PICK k \in 0..params : bound = 1..k
  BY <1>1 DEF FfiInv, BoundInOrder
<1>3. Cardinality(bound) = k
  BY <1>2, FS_Interval DEF FfiInv, BoundInOrder
<1>4. k < params /\ cMem' = cMem \cup Buffers(k + 1) /\ bound' = (1..k) \cup {k + 1}
  BY <1>2, <1>3 DEF Bind
<1>5. k + 1 \in 0..params /\ bound' = 1..(k + 1)
  BY <1>2, <1>4 DEF FfiInv, BoundInOrder
<1>6. BoundMem' = BoundMem \cup Buffers(k + 1)
  BY <1>2, <1>4 DEF BoundMem
<1>7. Allocated'
  BY <1>1, <1>4, <1>6 DEF FfiInv, Allocated, InCall
<1>8. BoundInOrder'
  BY <1>1, <1>5 DEF FfiInv, BoundInOrder, ffiJob
<1>9. RowsRead' /\ short' = short
  BY <1>1 DEF FfiInv, RowsRead, ffiRead
<1>. QED
  BY <1>7, <1>8, <1>9 DEF FfiInv

LEMMA FfiRuns == ASSUME FfiInv, NEW c \in Nat, Run(c) PROVE FfiInv'
<1>1. ffiPc = "bind" /\ Cardinality(bound) = params
  BY DEF Run
<1>2. PICK k \in 0..params : bound = 1..k
  BY <1>1 DEF FfiInv, BoundInOrder
<1>3. bound = 1..params
  <2>1. Cardinality(bound) = k
    BY <1>2, FS_Interval DEF FfiInv, BoundInOrder
  <2>. QED
    BY <1>1, <1>2, <2>1
<1>4. CASE isQuery
  <2>1. ffiPc' = "fetch" /\ UNCHANGED <<handles, linked, cMem, bound, ffiJob, rows, fetched, short>>
    BY <1>4 DEF Run
  <2>2. Allocated'
    BY <1>1, <2>1 DEF FfiInv, Allocated, InCall, BoundMem
  <2>3. BoundInOrder'
    BY <1>3, <2>1 DEF FfiInv, BoundInOrder, ffiJob
  <2>4. RowsRead'
    BY <1>1, <2>1 DEF FfiInv, RowsRead
  <2>. QED
    BY <2>1, <2>2, <2>3, <2>4 DEF FfiInv
<1>5. CASE ~isQuery
  <2>1. FfiReturn(TRUE)
    BY <1>5 DEF Run
  <2>2. UNCHANGED ffiRead
    BY <2>1 DEF FfiReturn
  <2>. QED
    BY <1>1, <2>1, <2>2, FfiReturns DEF InCall, FfiInv, RowsRead
<1>. QED
  BY <1>4, <1>5

LEMMA FfiReads ==
    ASSUME FfiInv, FetchRow \/ ReadFixed \/ BeginText \/ ReadChunk \/ TextEnd \/ RowDone
    PROVE  FfiInv'
<1>1. /\ InCall /\ InCall' /\ ffiPc \in {"fetch", "column", "chunk"} /\ ffiPc' \in {"fetch", "column", "chunk"}
      /\ UNCHANGED <<handles, linked, cMem, bound, ffiJob>>
  BY DEF InCall, FetchRow, ReadFixed, BeginText, ReadChunk, TextEnd, RowDone, ToColumn, InText
<1>2. Allocated'
  BY <1>1 DEF FfiInv, Allocated, InCall, BoundMem
<1>3. RowsRead'
  <2>1. CASE FetchRow
    BY <2>1 DEF FfiInv, RowsRead, FetchRow
  <2>2. CASE ReadFixed \/ BeginText \/ ReadChunk \/ TextEnd
    <3>1. /\ UNCHANGED <<rows, fetched>>
          /\ ffiPc \in {"column", "chunk"} /\ ffiPc' \in {"column", "chunk"}
      BY <2>2 DEF ReadFixed, BeginText, ReadChunk, TextEnd, ToColumn, InText
    <3>. QED
      BY <3>1 DEF FfiInv, RowsRead
  <2>3. CASE RowDone
    BY <2>3 DEF FfiInv, RowsRead, RowDone
  <2>. QED
    BY <2>1, <2>2, <2>3
<1>4. BoundInOrder'
  BY <1>1 DEF FfiInv, BoundInOrder, ffiJob
<1>5. ~short'
  <2>1. ASSUME NEW c, ToColumn(c, 0) PROVE ~short'
    <3>1. ~(0 > 0)
      OBVIOUS
    <3>. QED
      BY <2>1, <3>1, Zenon DEF ToColumn, FfiInv
  <2>2. CASE FetchRow \/ BeginText \/ RowDone
    <3>1. short' = short
      BY <2>2 DEF FetchRow, BeginText, RowDone, InText
    <3>. QED
      BY <3>1 DEF FfiInv
  <2>3. CASE ReadChunk
    <3>1. short' = short \/ ToColumn(col + 1, 0)
      BY <2>3, Zenon DEF ReadChunk, InText
    <3>. QED
      BY <2>1, <3>1 DEF FfiInv
  <2>. QED
    BY <2>1, <2>2, <2>3 DEF ReadFixed, TextEnd
<1>. QED
  BY <1>2, <1>3, <1>4, <1>5 DEF FfiInv

LEMMA FfiInvHolds == FfiSpec => []FfiInv
<1>1. FfiInit => FfiInv
  <2>. SUFFICES ASSUME FfiInit PROVE FfiInv
    OBVIOUS
  <2>1. Allocated /\ BoundInOrder
    BY DEF FfiInit, Allocated, BoundInOrder, InCall
  <2>2. RowsRead
    BY DEF FfiInit, RowsRead
  <2>3. ~short
    BY DEF FfiInit
  <2>. QED
    BY <2>1, <2>2, <2>3 DEF FfiInv
<1>2. FfiInv /\ [FfiNext]_ffiVars => FfiInv'
  <2>. SUFFICES ASSUME FfiInv, [FfiNext]_ffiVars PROVE FfiInv'
    OBVIOUS
  <2>1. ASSUME NEW n \in 0..MaxParams, NEW q \in BOOLEAN, FfiCall(n, q) PROVE FfiInv'
    BY <2>1, FfiCalls, FfiConstants
  <2>2. ASSUME NEW c \in 0..MaxCols, Run(c) PROVE FfiInv'
    BY <2>2, FfiRuns, FfiConstants
  <2>3. CASE FfiFails
    <3>1. InCall /\ FfiReturn(FALSE) /\ UNCHANGED ffiRead
      BY <2>3 DEF FfiFails, InCall, FfiReturn
    <3>. QED
      BY <3>1, FfiReturns
  <2>4. CASE FetchEnd
    <3>1. PICK isOk \in BOOLEAN : FfiReturn(isOk)
      BY <2>4 DEF FetchEnd
    <3>2. InCall /\ UNCHANGED ffiRead /\ rows = fetched
      BY <2>4, <3>1 DEF FetchEnd, InCall, FfiReturn, FfiInv, RowsRead
    <3>. QED
      BY <3>1, <3>2, FfiReturns
  <2>5. CASE UNCHANGED ffiVars
    BY <2>5 DEF ffiVars, ffiJob, ffiRead, FfiInv, Allocated, BoundInOrder, RowsRead, InCall, BoundMem
  <2>. QED
    BY <2>1, <2>2, <2>3, <2>4, <2>5, FfiOpens, FfiBinds, FfiReads DEF FfiNext
<1>. QED
  BY <1>1, <1>2, PTL DEF FfiSpec

\* Whichever call to the driver fails, an execution finds its parameters, and
\* the binding leaves no statement, no memory and no handle behind.
THEOREM NothingLeftBehind == FfiSpec => []FfiClean
<1>1. FfiInv => FfiClean
  <2>. SUFFICES ASSUME FfiInv PROVE FfiClean
    OBVIOUS
  <2>1. CString \in cMem <=> "stmt" \in handles
    BY DEF FfiInv, Allocated, InCall
  <2>2. ffiPc = "fetch" => \A i \in 1..params : Buffers(i) \subseteq cMem
    BY DEF FfiInv, Allocated, BoundInOrder, InCall, BoundMem
  <2>. QED
    BY <2>1, <2>2 DEF FfiClean, FfiInv, Allocated, InCall
<1>. QED
  BY <1>1, FfiInvHolds, PTL

\* A Query without an error returns all rows that were fetched, their texts whole.
THEOREM QueriesComplete == FfiSpec => []FfiComplete
<1>1. FfiInv => FfiComplete
  BY DEF FfiInv, RowsRead, FfiComplete
<1>. QED
  BY <1>1, FfiInvHolds, PTL

-----------------------------------------------------------------------------
(* SyncUsePool: who owns the data.                                         *)

HoldPcs == {"made", "take", "using", "worked", "broke", "put", "drop", "dropped"}
RestPcs == {"idle", "get", "gen", "closed", "store", "stat", "reset"}

\* What one goroutine has at hand.
HoldsRight(g) ==
    /\ usePc[g] \in RestPcs => holds[g] = 0
    /\ usePc[g] \in HoldPcs /\ holds[g] = 0 => shut
    /\ usePc[g] \in {"stat", "reset", "drop", "dropped"} => shut
    /\ usePc[g] = "put" => holds[g] # 0
    /\ holds[g] # 0 => holds[g] \notin kept /\ holds[g] \notin closedData

OwnTypes ==
    /\ madeData \in Nat /\ usePc \in [Goroutines -> HoldPcs \cup RestPcs]
    /\ holds \in [Goroutines -> 0..madeData]
    /\ kept \subseteq 1..madeData /\ closedData \subseteq 0..madeData

OwnInv ==
    /\ OwnTypes
    /\ kept \cap closedData = {} /\ (0 \in closedData => shut)
    /\ \A g \in Goroutines : HoldsRight(g)
    /\ \A g, h \in Goroutines : g # h /\ holds[g] # 0 => holds[h] # holds[g]

LEMMA OwnInit == SyncInit => OwnInv
BY DEF SyncInit, OwnInv, OwnTypes, HoldsRight, HoldPcs, RestPcs, NoData

\* A goroutine moves on with what it has.
LEMMA OwnMoves ==
    ASSUME OwnInv, NEW g \in Goroutines, NEW from, NEW to, Move(g, from, to),
           UNCHANGED <<holds, kept, madeData, closedData>>, shut => shut',
           \/ from \in RestPcs /\ to \in RestPcs
           \/ from \in HoldPcs /\ to \in HoldPcs,
           to \in {"stat", "reset", "drop", "dropped"} => shut',
           to = "put" => holds[g] # 0
    PROVE  OwnInv'
<1>1. /\ usePc \in [Goroutines -> HoldPcs \cup RestPcs]
      /\ usePc' = [usePc EXCEPT ![g] = to] /\ usePc[g] = from
      /\ to \in HoldPcs \cup RestPcs
  BY DEF OwnInv, OwnTypes, Move
<1>2. usePc' \in [Goroutines -> HoldPcs \cup RestPcs] /\ usePc'[g] = to
      /\ \A h \in Goroutines : h # g => usePc'[h] = usePc[h]
  BY <1>1
<1>3. OwnTypes'
  BY <1>2 DEF OwnInv, OwnTypes
<1>4. ASSUME NEW h \in Goroutines PROVE HoldsRight(h)'
  <2>1. CASE h = g
    <3>1. HoldsRight(g)
      BY DEF OwnInv
    <3>. QED
      BY <1>1, <1>2, <2>1, <3>1 DEF HoldsRight, HoldPcs, RestPcs
  <2>2. CASE h # g
    <3>1. HoldsRight(h)
      BY DEF OwnInv
    <3>. QED
      BY <1>2, <2>2, <3>1 DEF HoldsRight
  <2>. QED
    BY <2>1, <2>2
<1>. QED
  BY <1>3, <1>4 DEF OwnInv

LEMMA OwnCounts ==
    ASSUME OwnInv, NEW g \in Goroutines,
           MakeFails(g) \/ CountMade(g) \/ CountTaken(g) \/ UseEnds(g) \/ CountBroken(g)
              \/ CountDropped(g) \/ ResetStat(g)
    PROVE  OwnInv'
<1>1. PICK from, to : /\ Move(g, from, to) /\ UNCHANGED <<holds, kept, madeData, closedData, shut>>
                      /\ \/ from = "gen" /\ to = "idle"
                         \/ from = "made" /\ to = "take"
                         \/ from = "take" /\ to = "using"
                         \/ from = "using" /\ to = "worked"
                         \/ from = "using" /\ to = "broke"
                         \/ from = "closed" /\ to = "idle"
                         \/ from = "drop" /\ to = "dropped"
                         \/ from = "reset" /\ to = "idle"
  BY DEF MakeFails, CountMade, CountTaken, UseEnds, CountBroken, CountDropped, ResetStat, Count
<1>2. from = "drop" => shut
  <2>1. HoldsRight(g)
    BY DEF OwnInv
  <2>. QED
    BY <1>1, <2>1 DEF HoldsRight, Move
<1>3. (from \in RestPcs /\ to \in RestPcs) \/ (from \in HoldPcs /\ to \in HoldPcs)
  BY <1>1 DEF HoldPcs, RestPcs
<1>. QED
  BY <1>1, <1>2, <1>3, OwnMoves

LEMMA OwnWalks ==
    ASSUME OwnInv, NEW g \in Goroutines,
           UseStart(g) \/ CheckShut(g) \/ CloseStart(g) \/ StoreShut(g) \/ Stat(g)
    PROVE  OwnInv'
<1>1. HoldsRight(g)
  BY DEF OwnInv
<1>2. CASE UseStart(g)
  BY <1>2, OwnMoves DEF UseStart, RestPcs
<1>3. CASE CloseStart(g)
  BY <1>3, OwnMoves DEF CloseStart, RestPcs
<1>4. CASE StoreShut(g)
  BY <1>4, OwnMoves DEF StoreShut, RestPcs
<1>5. CASE Stat(g)
  BY <1>1, <1>5, OwnMoves DEF Stat, RestPcs, HoldsRight, Move
<1>6. CASE CheckShut(g)
  <2>1. CASE shut
    BY <1>6, <2>1, OwnMoves DEF CheckShut, HoldPcs
  <2>2. CASE ~shut
    BY <1>1, <1>6, <2>2, OwnMoves DEF CheckShut, HoldPcs, HoldsRight, Move
  <2>. QED
    BY <2>1, <2>2
<1>. QED
  BY <1>2, <1>3, <1>4, <1>5, <1>6

\* A goroutine takes d: from the sync.Pool, made, or none.
LEMMA OwnTakes ==
    ASSUME OwnInv, NEW g \in Goroutines, NEW from, NEW to, NEW d \in Nat, Move(g, from, to), Holds(g, d),
           UNCHANGED <<closedData, shut>>,
           \/ d = 0 /\ to = "gen"
           \/ to \in {"take", "made"} /\ (d = 0 => shut),
           madeData' \in Nat, madeData' >= madeData, kept' \subseteq kept, d <= madeData',
           d # 0 => /\ d \notin kept' /\ d \notin closedData
                    /\ \A h \in Goroutines : holds[h] # d
    PROVE  OwnInv'
<1>1. /\ usePc' = [usePc EXCEPT ![g] = to] /\ holds' = [holds EXCEPT ![g] = d]
      /\ to \in HoldPcs \cup RestPcs
  BY DEF Move, Holds, HoldPcs, RestPcs
<1>2. /\ madeData \in Nat /\ usePc \in [Goroutines -> HoldPcs \cup RestPcs]
      /\ holds \in [Goroutines -> 0..madeData]
      /\ kept \subseteq 1..madeData /\ closedData \subseteq 0..madeData
  BY DEF OwnInv, OwnTypes
<1>3. 0..madeData \subseteq 0..madeData' /\ 1..madeData \subseteq 1..madeData' /\ d \in 0..madeData'
  BY <1>2
<1>4. /\ usePc' \in [Goroutines -> HoldPcs \cup RestPcs] /\ usePc'[g] = to
      /\ holds' \in [Goroutines -> 0..madeData'] /\ holds'[g] = d
      /\ \A h \in Goroutines : h # g => usePc'[h] = usePc[h] /\ holds'[h] = holds[h]
  BY <1>1, <1>2, <1>3
<1>5. OwnTypes'
  BY <1>2, <1>3, <1>4 DEF OwnTypes
<1>6. ASSUME NEW h \in Goroutines PROVE HoldsRight(h)'
  <2>1. CASE h = g
    BY <1>1, <1>4, <2>1 DEF HoldsRight, HoldPcs, RestPcs
  <2>2. CASE h # g
    <3>1. HoldsRight(h)
      BY DEF OwnInv
    <3>. QED
      BY <1>4, <2>2, <3>1 DEF HoldsRight
  <2>. QED
    BY <2>1, <2>2
<1>7. \A h, i \in Goroutines : h # i /\ holds'[h] # 0 => holds'[i] # holds'[h]
  BY <1>4 DEF OwnInv
<1>. QED
  BY <1>5, <1>6, <1>7 DEF OwnInv

LEMMA OwnGets ==
    ASSUME OwnInv, NEW g \in Goroutines, GetKept(g) \/ GetNew(g) \/ MakeData(g)
    PROVE  OwnInv'
<1>1. madeData \in Nat /\ kept \subseteq 1..madeData /\ holds \in [Goroutines -> 0..madeData] /\ closedData \subseteq 0..madeData
  BY DEF OwnInv, OwnTypes
<1>2. CASE GetKept(g)
  <2>1. PICK d \in kept : Holds(g, d) /\ kept' = kept \ {d}
    BY <1>2 DEF GetKept
  <2>2. d \in Nat /\ d # 0 /\ d <= madeData /\ d \notin closedData
    BY <1>1 DEF OwnInv
  <2>3. \A h \in Goroutines : holds[h] # d
    BY <2>2 DEF OwnInv, HoldsRight
  <2>4. Move(g, "get", "take") /\ UNCHANGED <<closedData, shut, madeData>>
    BY <1>2 DEF GetKept
  <2>. QED
    BY <1>1, <2>1, <2>2, <2>3, <2>4, OwnTakes
<1>3. CASE GetNew(g)
  <2>1. Holds(g, 0) /\ UNCHANGED <<closedData, shut, madeData, kept>> /\ 0 <= madeData
        /\ Move(g, "get", IF shut THEN "take" ELSE "gen")
    BY <1>1, <1>3 DEF GetNew, NoData
  <2>2. CASE shut
    <3>1. Move(g, "get", "take")
      BY <2>1, <2>2
    <3>. QED
      BY <1>1, <2>1, <2>2, <3>1, OwnTakes
  <2>3. CASE ~shut
    <3>1. Move(g, "get", "gen")
      BY <2>1, <2>3
    <3>. QED
      BY <1>1, <2>1, <2>3, <3>1, OwnTakes
  <2>. QED
    BY <2>2, <2>3
<1>4. CASE MakeData(g)
  <2>1. Holds(g, madeData + 1) /\ Move(g, "gen", "made") /\ madeData' = madeData + 1 /\ UNCHANGED <<closedData, shut, kept>>
    BY <1>4 DEF MakeData
  <2>2. madeData + 1 \in Nat /\ madeData + 1 # 0 /\ madeData + 1 \notin kept /\ madeData + 1 \notin closedData
    BY <1>1
  <2>3. \A h \in Goroutines : holds[h] # madeData + 1
    BY <1>1
  <2>. QED
    BY <1>1, <2>1, <2>2, <2>3, OwnTakes
<1>. QED
  BY <1>2, <1>3, <1>4

\* A goroutine gives what it has away: it closes it, or puts it back.
LEMMA OwnGives ==
    ASSUME OwnInv, NEW g \in Goroutines, NEW from, NEW to, Move(g, from, to), Holds(g, 0),
           UNCHANGED <<madeData, shut>>, from \in HoldPcs, to \in {"idle", "closed"},
           \/ kept' = kept /\ closedData' = closedData \cup {holds[g]}
           \/ kept' = kept \cup {holds[g]} /\ closedData' = closedData /\ holds[g] # 0
    PROVE  OwnInv'
<1>1. /\ usePc' = [usePc EXCEPT ![g] = to] /\ holds' = [holds EXCEPT ![g] = 0]
      /\ to \in RestPcs /\ usePc[g] = from
  BY DEF Move, Holds, RestPcs
<1>2. /\ madeData \in Nat /\ usePc \in [Goroutines -> HoldPcs \cup RestPcs]
      /\ holds \in [Goroutines -> 0..madeData]
      /\ kept \subseteq 1..madeData /\ closedData \subseteq 0..madeData
  BY DEF OwnInv, OwnTypes
<1>3. holds[g] \in 0..madeData /\ (holds[g] # 0 => holds[g] \in 1..madeData) /\ 0 \in 0..madeData
  BY <1>2
<1>4. /\ usePc' \in [Goroutines -> HoldPcs \cup RestPcs] /\ usePc'[g] = to
      /\ holds' \in [Goroutines -> 0..madeData] /\ holds'[g] = 0
      /\ \A h \in Goroutines : h # g => usePc'[h] = usePc[h] /\ holds'[h] = holds[h]
  BY <1>1, <1>2, <1>3
<1>5. OwnTypes'
  BY <1>2, <1>3, <1>4 DEF OwnTypes
<1>6. HoldsRight(g)
  BY DEF OwnInv
<1>7. kept' \cap closedData' = {} /\ (0 \in closedData' => shut')
  <2>1. kept \cap closedData = {} /\ 0 \notin kept /\ (0 \in closedData => shut)
    BY <1>2 DEF OwnInv
  <2>2. CASE holds[g] = 0
    <3>1. shut' /\ kept' = kept /\ closedData' = closedData \cup {0}
      BY <1>1, <1>6, <2>2 DEF HoldsRight
    <3>. QED
      BY <2>1, <3>1
  <2>3. CASE holds[g] # 0
    <3>1. holds[g] \notin kept /\ holds[g] \notin closedData
      BY <1>6, <2>3 DEF HoldsRight
    <3>2. 0 \in closedData' => 0 \in closedData
      BY <2>3
    <3>3. kept' \cap closedData' = {}
      BY <2>1, <3>1
    <3>. QED
      BY <2>1, <3>2, <3>3
  <2>. QED
    BY <2>2, <2>3
<1>8. ASSUME NEW h \in Goroutines PROVE HoldsRight(h)'
  <2>1. CASE h = g
    BY <1>1, <1>4, <2>1 DEF HoldsRight, HoldPcs, RestPcs
  <2>2. CASE h # g
    <3>1. HoldsRight(h) /\ (holds[h] # 0 => holds[h] # holds[g])
      BY <2>2 DEF OwnInv
    <3>. QED
      BY <1>4, <2>2, <3>1 DEF HoldsRight
  <2>. QED
    BY <2>1, <2>2
<1>9. \A h, i \in Goroutines : h # i /\ holds'[h] # 0 => holds'[i] # holds'[h]
  BY <1>4 DEF OwnInv
<1>. QED
  BY <1>5, <1>7, <1>8, <1>9 DEF OwnInv

LEMMA OwnReturns ==
    ASSUME OwnInv, NEW g \in Goroutines, CloseBroken(g) \/ CloseDropped(g) \/ Put(g)
    PROVE  OwnInv'
<1>1. CASE CloseBroken(g)
  BY <1>1, OwnGives DEF CloseBroken, CloseData, HoldPcs, NoData
<1>2. CASE CloseDropped(g)
  BY <1>2, OwnGives DEF CloseDropped, CloseData, HoldPcs, NoData
<1>3. CASE Put(g)
  <2>1. HoldsRight(g)
    BY DEF OwnInv
  <2>2. holds[g] # 0
    BY <1>3, <2>1 DEF Put, Move, HoldsRight
  <2>. QED
    BY <1>3, <2>2, OwnGives DEF Put, HoldPcs, NoData
<1>. QED
  BY <1>1, <1>2, <1>3

LEMMA OwnInvHolds == SyncSpec => []OwnInv
<1>1. OwnInv /\ [SyncNext]_syncVars => OwnInv'
  <2>. SUFFICES ASSUME OwnInv, [SyncNext]_syncVars PROVE OwnInv'
    OBVIOUS
  <2>1. ASSUME NEW g \in Goroutines, UsePoolStep(g) PROVE OwnInv'
    BY <2>1, OwnCounts, OwnWalks, OwnGets, OwnReturns DEF UsePoolStep
  <2>2. ASSUME NEW d \in kept, Collect(d) PROVE OwnInv'
    BY <2>2 DEF Collect, OwnInv, OwnTypes, HoldsRight
  <2>3. CASE UNCHANGED syncVars
    BY <2>3 DEF syncVars, OwnInv, OwnTypes, HoldsRight
  <2>. QED
    BY <2>1, <2>2, <2>3 DEF SyncNext
<1>. QED
  BY <1>1, OwnInit, PTL DEF SyncSpec

\* A datum has one owner and is open, however many goroutines use and close the
\* pool, and whenever the garbage collector takes some.
THEOREM DataHaveOneOwner == SyncSpec => []DataOwned
<1>1. OwnInv => DataOwned
  <2>. SUFFICES ASSUME OwnInv PROVE DataOwned
    OBVIOUS
  <2>1. kept \cap closedData = {} /\ (NoData \in kept \cup closedData => shut)
    BY DEF OwnInv, OwnTypes, NoData
  <2>2. ASSUME NEW g \in In({"made", "take", "using", "worked", "broke", "put", "drop", "dropped"})
        PROVE  IF holds[g] = NoData THEN shut
               ELSE /\ holds[g] \notin kept \cup closedData
                    /\ \A h \in Goroutines \ {g} : holds[h] # holds[g]
    <3>1. g \in Goroutines /\ usePc[g] \in HoldPcs
      BY DEF In, HoldPcs
    <3>2. HoldsRight(g)
      BY <3>1 DEF OwnInv
    <3>3. CASE holds[g] = 0
      BY <3>1, <3>2, <3>3 DEF HoldsRight, NoData
    <3>4. CASE holds[g] # 0
      BY <3>1, <3>2, <3>4 DEF HoldsRight, NoData, OwnInv
    <3>. QED
      BY <3>3, <3>4
  <2>. QED
    BY <2>1, <2>2 DEF DataOwned
<1>. QED
  BY <1>1, OwnInvHolds, PTL

-----------------------------------------------------------------------------
(* SyncUsePool: the stat.                                                  *)

\* The parts of a stat that StatExact is about.
Sums(s) ==
    /\ s["full"] \in Int /\ s["use"] \in Int /\ s["idle"] \in Int
    /\ s["full"] = s["use"] + s["idle"]

Num(pc) == Cardinality(In({pc}))

Balanced ==
    /\ stat["use"] = Num("using")
    /\ stat["full"] + Num("made") = (madeData - Cardinality(closedData)) + Num("closed")

StatInv ==
    /\ Sums(stat) /\ \A g \in Goroutines : Sums(snapshot[g])
    /\ DOMAIN snapshot = Goroutines
    /\ ~shut => Balanced

LEMMA Added ==
    ASSUME NEW f \in Int, NEW u \in Int, NEW i \in Int, NEW e, addStat(f, u, i, e), Sums(stat), f = u + i
    PROVE  /\ Sums(stat')
           /\ stat'["full"] = stat["full"] + f /\ stat'["use"] = stat["use"] + u
BY DEF addStat, Sums

\* A step of g changes the number of goroutines at two places only.
LEMMA NumMoves ==
    ASSUME OwnTypes, NEW g \in Goroutines, NEW from, NEW to, from # to, Move(g, from, to), NEW pc
    PROVE  /\ Num(pc) \in Nat
           /\ Num(pc)' = IF pc = to THEN Num(pc) + 1 ELSE IF pc = from THEN Num(pc) - 1 ELSE Num(pc)
<1>1. /\ usePc[g] = from /\ usePc'[g] = to
      /\ \A h \in Goroutines : h # g => usePc'[h] = usePc[h]
  BY DEF OwnTypes, Move
<1>2. IsFiniteSet(In({pc}))
  BY SyncConstants, FS_Subset DEF In
<1>3. Num(pc) \in Nat
  BY <1>2, FS_CardinalityType DEF Num
<1>4. CASE pc = to
  <2>1. In({pc})' = In({pc}) \cup {g} /\ g \notin In({pc})
    BY <1>1, <1>4 DEF In
  <2>. QED
    BY <1>2, <1>3, <1>4, <2>1, FS_AddElement DEF Num
<1>5. CASE pc = from
  <2>1. In({pc})' = In({pc}) \ {g} /\ g \in In({pc})
    BY <1>1, <1>5 DEF In
  <2>. QED
    BY <1>2, <1>3, <1>5, <2>1, FS_RemoveElement DEF Num
<1>6. CASE pc # from /\ pc # to
  <2>1. In({pc})' = In({pc})
    BY <1>1, <1>6 DEF In
  <2>. QED
    BY <1>3, <1>6, <2>1 DEF Num
<1>. QED
  BY <1>4, <1>5, <1>6

LEMMA ClosedFinite == OwnTypes => Cardinality(closedData) \in Nat /\ IsFiniteSet(closedData)
<1>. SUFFICES ASSUME OwnTypes PROVE Cardinality(closedData) \in Nat /\ IsFiniteSet(closedData)
  OBVIOUS
<1>1. IsFiniteSet(0..madeData) /\ closedData \in SUBSET (0..madeData)
  BY FS_Interval DEF OwnTypes
<1>2. IsFiniteSet(closedData)
  BY <1>1, FS_Subset
<1>. QED
  BY <1>2, FS_CardinalityType

\* The counting of what happened to one datum.
LEMMA StatCounts ==
    ASSUME OwnInv, StatInv, NEW g \in Goroutines, NEW from, NEW to, from # to,
           NEW f \in Int, NEW u \in Int, NEW i \in Int, NEW e, Count(g, from, to, f, u, i, e), f = u + i,
           ~shut => \/ f = 0 /\ u = 0 /\ from \notin {"made", "closed", "using"} /\ to \notin {"made", "closed", "using"}
                    \/ from = "made" /\ to = "take" /\ f = 1 /\ u = 0
                    \/ from = "take" /\ to = "using" /\ f = 0 /\ u = 1
                    \/ from = "using" /\ to \in {"worked", "broke"} /\ f = 0 /\ u = -1
                    \/ from = "closed" /\ to = "idle" /\ f = -1 /\ u = 0
    PROVE  StatInv'
<1>1. /\ Move(g, from, to) /\ addStat(f, u, i, e)
      /\ UNCHANGED <<snapshot, shut, madeData, closedData>>
  BY DEF Count
<1>2. Sums(stat') /\ stat'["full"] = stat["full"] + f /\ stat'["use"] = stat["use"] + u
  BY <1>1, Added DEF StatInv
<1>3. \A pc : /\ Num(pc) \in Nat
              /\ Num(pc)' = IF pc = to THEN Num(pc) + 1 ELSE IF pc = from THEN Num(pc) - 1 ELSE Num(pc)
  BY <1>1, NumMoves DEF OwnInv
<1>4. stat["full"] \in Int /\ stat["use"] \in Int /\ madeData \in Nat /\ Cardinality(closedData) \in Nat
  BY ClosedFinite DEF StatInv, Sums, OwnInv, OwnTypes
<1>5. ASSUME ~shut PROVE Balanced'
  <2>1. Balanced
    BY <1>5 DEF StatInv
  <2>2. /\ Num("using") \in Nat /\ Num("made") \in Nat /\ Num("closed") \in Nat
        /\ Num("using")' = IF "using" = to THEN Num("using") + 1 ELSE IF "using" = from THEN Num("using") - 1 ELSE Num("using")
        /\ Num("made")' = IF "made" = to THEN Num("made") + 1 ELSE IF "made" = from THEN Num("made") - 1 ELSE Num("made")
        /\ Num("closed")' = IF "closed" = to THEN Num("closed") + 1 ELSE IF "closed" = from THEN Num("closed") - 1 ELSE Num("closed")
    BY <1>3
  <2>3. madeData' = madeData /\ Cardinality(closedData') = Cardinality(closedData)
    BY <1>1
  <2>. QED
    BY <1>2, <1>4, <1>5, <2>1, <2>2, <2>3 DEF Balanced
<1>. QED
  BY <1>1, <1>2, <1>5 DEF StatInv

LEMMA StatAdjusts ==
    ASSUME OwnInv, StatInv, NEW g \in Goroutines,
           MakeFails(g) \/ CountMade(g) \/ CountTaken(g) \/ UseEnds(g) \/ CountBroken(g)
              \/ CountDropped(g) \/ ResetStat(g)
    PROVE  StatInv'
<1>0. HoldsRight(g)
  BY DEF OwnInv
<1>1. CASE MakeFails(g)
  BY <1>1, StatCounts DEF MakeFails
<1>2. CASE CountMade(g)
  BY <1>2, StatCounts DEF CountMade
<1>3. CASE CountTaken(g)
  BY <1>3, StatCounts DEF CountTaken
<1>4. CASE UseEnds(g)
  <2>1. PICK to \in {"worked", "broke"} : Count(g, "using", to, 0, -1, 1, 0)
    BY <1>4 DEF UseEnds
  <2>. QED
    BY <2>1, StatCounts
<1>5. CASE CountBroken(g)
  BY <1>5, StatCounts DEF CountBroken
<1>6. CASE CountDropped(g)
  <2>1. shut
    BY <1>0, <1>6 DEF HoldsRight, CountDropped, Count, Move
  <2>. QED
    BY <1>6, <2>1, StatCounts DEF CountDropped
<1>7. CASE ResetStat(g)
  <2>1. shut
    BY <1>0, <1>7 DEF HoldsRight, ResetStat, Count, Move
  <2>. DEFINE s == snapshot[g]
  <2>2. Sums(s)
    BY DEF StatInv
  <2>3. Count(g, "reset", "idle", -s["full"], -s["use"], -s["idle"], -s["err"])
    BY <1>7 DEF ResetStat
  <2>4. -s["full"] \in Int /\ -s["use"] \in Int /\ -s["idle"] \in Int /\ -s["full"] = (-s["use"]) + (-s["idle"])
    BY <2>2 DEF Sums
  <2>. HIDE DEF s
  <2>. QED
    BY <2>1, <2>3, <2>4, StatCounts
<1>. QED
  BY <1>1, <1>2, <1>3, <1>4, <1>5, <1>6, <1>7

\* The other steps leave the stat alone; they count a datum made or closed, move
\* between places that are not counted, or close the pool.
LEMMA StatStays ==
    ASSUME OwnInv, StatInv, NEW g \in Goroutines, NEW from, NEW to, from # to, Move(g, from, to),
           UNCHANGED stat, \A h \in Goroutines : Sums(snapshot'[h]), DOMAIN snapshot' = Goroutines,
           ~shut' => /\ ~shut /\ from \notin {"using", "made", "closed"}
                     /\ \/ to \notin {"using", "made", "closed"} /\ UNCHANGED <<madeData, closedData>>
                        \/ to = "made" /\ madeData' = madeData + 1 /\ UNCHANGED closedData
                        \/ /\ to = "closed" /\ closedData' = closedData \cup {holds[g]} /\ UNCHANGED madeData
                           /\ holds[g] \notin closedData
    PROVE  StatInv'
<1>1. /\ Num("using") \in Nat /\ Num("made") \in Nat /\ Num("closed") \in Nat
      /\ Num("using")' = IF "using" = to THEN Num("using") + 1 ELSE IF "using" = from THEN Num("using") - 1 ELSE Num("using")
      /\ Num("made")' = IF "made" = to THEN Num("made") + 1 ELSE IF "made" = from THEN Num("made") - 1 ELSE Num("made")
      /\ Num("closed")' = IF "closed" = to THEN Num("closed") + 1 ELSE IF "closed" = from THEN Num("closed") - 1 ELSE Num("closed")
  BY NumMoves DEF OwnInv
<1>2. stat["full"] \in Int /\ stat["use"] \in Int /\ madeData \in Nat
  BY DEF StatInv, Sums, OwnInv, OwnTypes
<1>3. Cardinality(closedData) \in Nat /\ IsFiniteSet(closedData)
  BY ClosedFinite DEF OwnInv
<1>4. ASSUME ~shut' PROVE Balanced'
  <2>1. Balanced
    BY <1>4 DEF StatInv
  <2>2. CASE to \notin {"using", "made", "closed"} /\ UNCHANGED <<madeData, closedData>>
    BY <1>1, <1>2, <1>3, <1>4, <2>1, <2>2 DEF Balanced
  <2>3. CASE to = "made" /\ madeData' = madeData + 1 /\ UNCHANGED closedData
    BY <1>1, <1>2, <1>3, <1>4, <2>1, <2>3 DEF Balanced
  <2>4. CASE to = "closed" /\ closedData' = closedData \cup {holds[g]} /\ UNCHANGED madeData /\ holds[g] \notin closedData
    <3>1. Cardinality(closedData') = Cardinality(closedData) + 1
      BY <1>3, <2>4, FS_AddElement
    <3>. QED
      BY <1>1, <1>2, <1>3, <1>4, <2>1, <2>4, <3>1 DEF Balanced
  <2>. QED
    BY <1>4, <2>2, <2>3, <2>4
<1>. QED
  BY <1>4 DEF StatInv

LEMMA StatSteps ==
    ASSUME OwnInv, StatInv, NEW g \in Goroutines,
           \/ UseStart(g) \/ GetKept(g) \/ GetNew(g) \/ MakeData(g) \/ CloseBroken(g) \/ CheckShut(g)
           \/ Put(g) \/ CloseDropped(g) \/ CloseStart(g) \/ StoreShut(g) \/ Stat(g)
    PROVE  StatInv'
<1>0. HoldsRight(g) /\ (\A h \in Goroutines : Sums(snapshot[h])) /\ DOMAIN snapshot = Goroutines
  BY DEF OwnInv, StatInv
<1>1. CASE UseStart(g)
  BY <1>0, <1>1, StatStays DEF UseStart
<1>2. CASE GetKept(g)
  BY <1>0, <1>2, StatStays DEF GetKept
<1>3. CASE GetNew(g)
  <2>1. UNCHANGED <<kept, stat, snapshot, shut, madeData, closedData, uses>> /\ Move(g, "get", IF shut THEN "take" ELSE "gen")
    BY <1>3 DEF GetNew
  <2>2. CASE shut
    <3>1. Move(g, "get", "take")
      BY <2>1, <2>2
    <3>. QED
      BY <1>0, <2>1, <2>2, <3>1, StatStays
  <2>3. CASE ~shut
    <3>1. Move(g, "get", "gen")
      BY <2>1, <2>3
    <3>. QED
      BY <1>0, <2>1, <2>3, <3>1, StatStays
  <2>. QED
    BY <2>2, <2>3
<1>4. CASE MakeData(g)
  BY <1>0, <1>4, StatStays DEF MakeData
<1>5. CASE CloseBroken(g)
  <2>1. /\ Move(g, "broke", "closed") /\ closedData' = closedData \cup {holds[g]}
        /\ UNCHANGED <<stat, snapshot, shut, madeData>>
    BY <1>5 DEF CloseBroken, CloseData
  <2>2. ~shut => holds[g] \notin closedData
    BY <1>0, <2>1 DEF HoldsRight, HoldPcs, Move
  <2>. QED
    BY <1>0, <2>1, <2>2, StatStays
<1>6. CASE CheckShut(g)
  <2>1. UNCHANGED <<holds, kept, stat, snapshot, shut, madeData, closedData, uses>> /\ Move(g, "worked", IF shut THEN "drop" ELSE "put")
    BY <1>6 DEF CheckShut
  <2>2. CASE shut
    <3>1. Move(g, "worked", "drop")
      BY <2>1, <2>2
    <3>. QED
      BY <1>0, <2>1, <2>2, <3>1, StatStays
  <2>3. CASE ~shut
    <3>1. Move(g, "worked", "put")
      BY <2>1, <2>3
    <3>. QED
      BY <1>0, <2>1, <2>3, <3>1, StatStays
  <2>. QED
    BY <2>2, <2>3
<1>7. CASE Put(g)
  BY <1>0, <1>7, StatStays DEF Put
<1>8. CASE CloseDropped(g)
  <2>1. Move(g, "dropped", "idle") /\ UNCHANGED <<stat, snapshot, shut, madeData>>
    BY <1>8 DEF CloseDropped, CloseData
  <2>2. shut
    BY <1>0, <2>1 DEF HoldsRight, Move
  <2>. QED
    BY <1>0, <2>1, <2>2, StatStays
<1>9. CASE CloseStart(g)
  BY <1>0, <1>9, StatStays DEF CloseStart
<1>10. CASE StoreShut(g)
  BY <1>0, <1>10, StatStays DEF StoreShut
<1>11. CASE Stat(g)
  <2>1. Move(g, "stat", "reset") /\ snapshot' = [snapshot EXCEPT ![g] = stat] /\ UNCHANGED <<stat, shut>>
    BY <1>11 DEF Stat
  <2>2. shut
    BY <1>0, <2>1 DEF HoldsRight, Move
  <2>3. (\A h \in Goroutines : Sums(snapshot'[h])) /\ DOMAIN snapshot' = Goroutines
    BY <1>0, <2>1 DEF StatInv
  <2>. QED
    BY <2>1, <2>2, <2>3, StatStays
<1>. QED
  BY <1>1, <1>2, <1>3, <1>4, <1>5, <1>6, <1>7, <1>8, <1>9, <1>10, <1>11

\* The stat is exact between any two steps until the pool is closed, and its
\* parts add up even after, whatever the goroutines do at the same time.
THEOREM StatIsExact == SyncSpec => []StatExact
<1>1. SyncInit => StatInv
  <2>. SUFFICES ASSUME SyncInit PROVE StatInv
    OBVIOUS
  <2>1. Sums(NoStat)
    BY DEF Sums, NoStat, Stats
  <2>2. In({"using"}) = {} /\ In({"made"}) = {} /\ In({"closed"}) = {}
    BY DEF SyncInit, In
  <2>3. Num("using") = 0 /\ Num("made") = 0 /\ Num("closed") = 0 /\ Cardinality({}) = 0
    BY <2>2, FS_EmptySet DEF Num
  <2>4. Balanced
    BY <2>3 DEF Balanced, SyncInit, NoStat, Stats
  <2>. QED
    BY <2>1, <2>4 DEF StatInv, SyncInit
<1>2. OwnInv /\ StatInv /\ [SyncNext]_syncVars => StatInv'
  <2>. SUFFICES ASSUME OwnInv, StatInv, [SyncNext]_syncVars PROVE StatInv'
    OBVIOUS
  <2>1. ASSUME NEW g \in Goroutines, UsePoolStep(g) PROVE StatInv'
    BY <2>1, StatAdjusts, StatSteps DEF UsePoolStep
  <2>2. ASSUME NEW d \in kept, Collect(d) PROVE StatInv'
    BY <2>2 DEF Collect, StatInv, Sums, Balanced, Num, In
  <2>3. CASE UNCHANGED syncVars
    BY <2>3 DEF syncVars, StatInv, Sums, Balanced, Num, In
  <2>. QED
    BY <2>1, <2>2, <2>3 DEF SyncNext
<1>3. StatInv => StatExact
  BY DEF StatInv, Sums, Balanced, Num, StatExact
<1>. QED
  BY <1>1, <1>2, <1>3, OwnInvHolds, PTL DEF SyncSpec

-----------------------------------------------------------------------------
(* KafkaReader.                                                            *)

KafkaTypes ==
    /\ kafkaPc \in {"idle", "open", "loop", "pass", "gone"}
    /\ topic \subseteq Partitions /\ toVisit \subseteq topic
    /\ log \in [Partitions -> Nat] /\ position \in [Partitions -> Nat] /\ first \in [Partitions -> Nat]
    /\ consumerOffset \in Nat \cup {-1} /\ currentOffset \in Nat /\ reads \in Nat
    /\ got \subseteq topic \X Nat /\ seen \subseteq topic \X Nat

\* Of each partition a call took a run of messages that ends before its position.
GotRuns ==
    \A p \in topic : \E b \in 0..position[p] :
        \A o \in Nat : <<p, o>> \in got <=> b <= o /\ o < position[p]

\* Before the first call on the connection has returned.
InFirst == reads = 0 \/ (reads = 1 /\ kafkaPc # "idle")

CallPhase ==
    /\ kafkaPc = "open" => got = {}
    /\ kafkaPc = "idle" => got \subseteq seen
    /\ kafkaPc # "idle" => reads # 0
    /\ InFirst => seen = {}
    /\ ~InFirst => consumerOffset # -1
    /\ currentOffset = 0 \/ \E q \in topic : <<q, currentOffset>> \in got

\* An offset where a run may begin: its predecessor is in S.
Follow(p, o, S) == o = 0 \/ o = first[p] \/ <<p, o - 1>> \in S

\* Of a topic with the one partition p: whatever was read follows on something,
\* and so does what is read next.
Linked(p) ==
    /\ \A o \in Nat : <<p, o>> \in seen \cup got => Follow(p, o, seen \cup got)
    /\ kafkaPc \in {"loop", "pass"} \/ (kafkaPc = "open" /\ p \notin toVisit) =>
          Follow(p, position[p], seen \cup got)
    /\ kafkaPc \in {"idle", "open"} /\ ~InFirst => Follow(p, consumerOffset, seen)

KafkaInv == KafkaTypes /\ GotRuns /\ CallPhase /\ \A p : topic = {p} => Linked(p)

LEMMA KafkaStarts == KafkaInit => KafkaInv
<1>. SUFFICES ASSUME KafkaInit PROVE KafkaInv
  OBVIOUS
<1>1. KafkaTypes
  BY DEF KafkaInit, KafkaTypes, Newest
<1>2. GotRuns
  <2>1. \A p \in topic : position[p] = 0 /\ 0 \in 0..0 /\ \A o \in Nat : ~(0 <= o /\ o < 0)
    BY DEF KafkaInit
  <2>. QED
    BY <2>1 DEF GotRuns, KafkaInit
<1>3. CallPhase
  BY DEF KafkaInit, CallPhase, InFirst
<1>4. \A p : Linked(p)
  BY DEF KafkaInit, Linked, InFirst
<1>. QED
  BY <1>1, <1>2, <1>3, <1>4 DEF KafkaInv

LEMMA KafkaQueries == ASSUME KafkaInv, NEW n, KafkaQuery(n) PROVE KafkaInv'
<1>1. /\ kafkaPc = "idle" /\ kafkaPc' = "open" /\ reads' = reads + 1 /\ reads \in Nat
      /\ got' = {} /\ toVisit' = topic /\ currentOffset' = 0
      /\ UNCHANGED <<topic, log, consumerOffset, position, seen, first>>
  BY DEF KafkaInv, KafkaTypes, KafkaQuery
<1>2. KafkaTypes'
  BY <1>1 DEF KafkaInv, KafkaTypes
<1>3. GotRuns'
  <2>1. \A p \in topic : /\ position[p] \in 0..position[p]
                         /\ \A o \in Nat : ~(position[p] <= o /\ o < position[p])
    BY DEF KafkaInv, KafkaTypes
  <2>. QED
    BY <1>1, <2>1 DEF GotRuns
<1>4. InFirst' => reads = 0
  BY <1>1 DEF InFirst
<1>5. CallPhase'
  BY <1>1, <1>4 DEF KafkaInv, CallPhase, InFirst
<1>6. ASSUME NEW p, topic = {p} PROVE Linked(p)'
  <2>1. Linked(p) /\ got \subseteq seen
    BY <1>1, <1>6 DEF KafkaInv, CallPhase
  <2>2. seen \cup got = seen /\ seen' \cup got' = seen
    BY <1>1, <2>1
  <2>3. ~InFirst' => ~InFirst
    BY <1>1 DEF InFirst
  <2>4. p \in toVisit'
    BY <1>1, <1>6
  <2>. QED
    BY <1>1, <2>1, <2>2, <2>3, <2>4 DEF Linked, Follow
<1>. QED
  BY <1>1, <1>2, <1>3, <1>5, <1>6 DEF KafkaInv

\* The steps that read nothing and move no offset.
LEMMA KafkaWaits ==
    ASSUME KafkaInv, UNCHANGED <<topic, consumerOffset, position, currentOffset, got, reads, seen, first>>,
           log' \in [Partitions -> Nat], toVisit' \subseteq topic,
           \/ kafkaPc' = kafkaPc /\ (kafkaPc = "open" => toVisit' = toVisit)
           \/ kafkaPc \in {"open", "loop"} /\ kafkaPc' = "gone"
           \/ kafkaPc = "open" /\ toVisit = {} /\ kafkaPc' = "loop"
           \/ kafkaPc = "loop" /\ kafkaPc' = "pass"
           \/ kafkaPc = "pass" /\ kafkaPc' = "loop"
    PROVE  KafkaInv'
<1>1. KafkaTypes'
  BY DEF KafkaInv, KafkaTypes
<1>2. GotRuns'
  BY DEF KafkaInv, GotRuns
<1>3. InFirst' = InFirst
  BY DEF InFirst
<1>4. CallPhase'
  BY DEF KafkaInv, CallPhase, InFirst
<1>5. ASSUME NEW p, topic = {p} PROVE Linked(p)'
  <2>1. Linked(p)
    BY <1>5 DEF KafkaInv
  <2>. QED
    BY <1>5, <2>1 DEF Linked, Follow, InFirst
<1>. QED
  BY <1>1, <1>2, <1>4, <1>5 DEF KafkaInv

LEMMA KafkaConsumes == ASSUME KafkaInv, NEW p \in topic, Consume(p) PROVE KafkaInv'
<1>1. /\ kafkaPc = "open" /\ kafkaPc' = "open" /\ p \in toVisit /\ toVisit' = toVisit \ {p} /\ got = {}
      /\ UNCHANGED <<topic, log, consumerOffset, currentOffset, got, reads, seen>>
  BY DEF KafkaInv, CallPhase, Consume
<1>. DEFINE at == IF consumerOffset = -1 THEN log[p] ELSE consumerOffset
<1>2. position' = [position EXCEPT ![p] = at] /\ first' = IF reads = 1 THEN position' ELSE first
  BY DEF Consume, Newest
<1>3. at \in Nat /\ p \in Partitions /\ position \in [Partitions -> Nat] /\ first \in [Partitions -> Nat]
  BY DEF KafkaInv, KafkaTypes
<1>. HIDE DEF at
<1>4. position' \in [Partitions -> Nat] /\ position'[p] = at
  BY <1>2, <1>3
<1>5. first' \in [Partitions -> Nat]
  BY <1>2, <1>3, <1>4
<1>6. KafkaTypes'
  BY <1>1, <1>4, <1>5 DEF KafkaInv, KafkaTypes
<1>7. GotRuns'
  <2>1. \A q \in topic : /\ position'[q] \in 0..position'[q]
                         /\ \A o \in Nat : ~(position'[q] <= o /\ o < position'[q])
    BY <1>4 DEF KafkaInv, KafkaTypes
  <2>. QED
    BY <1>1, <2>1 DEF GotRuns
<1>8. CallPhase'
  BY <1>1 DEF KafkaInv, CallPhase, InFirst
<1>9. ASSUME NEW q, topic = {q} PROVE Linked(q)'
  <2>1. q = p /\ Linked(p) /\ kafkaPc # "idle"
    BY <1>1, <1>9 DEF KafkaInv
  <2>2. CASE reads = 1
    <3>1. seen = {} /\ InFirst' /\ first'[p] = position'[p]
      BY <1>1, <1>2, <2>2 DEF KafkaInv, CallPhase, InFirst
    <3>. QED
      BY <1>1, <2>1, <3>1 DEF Linked, Follow
  <2>3. CASE reads # 1
    <3>1. ~InFirst /\ ~InFirst' /\ first' = first /\ consumerOffset # -1
      BY <1>1, <1>2, <2>3 DEF KafkaInv, CallPhase, InFirst
    <3>2. position'[p] = consumerOffset
      BY <1>4, <3>1 DEF at
    <3>3. Follow(p, consumerOffset, seen)
      BY <1>1, <2>1, <3>1 DEF Linked
    <3>4. seen' \cup got' = seen /\ seen \cup got = seen
      BY <1>1
    <3>. QED
      BY <1>1, <2>1, <3>1, <3>2, <3>3, <3>4 DEF Linked, Follow
  <2>. QED
    BY <2>2, <2>3
<1>. QED
  BY <1>1, <1>6, <1>7, <1>8, <1>9 DEF KafkaInv

LEMMA MaxOfTwo == ASSUME NEW a \in Nat, NEW b \in Nat PROVE Max({a, b}) \in {a, b}
<1>1. \E x \in {a, b} : \A y \in {a, b} : x >= y
  <2>1. CASE a >= b
    BY <2>1
  <2>2. CASE b >= a
    BY <2>2
  <2>. QED
    BY <2>1, <2>2
<1>. QED
  BY <1>1 DEF Max

LEMMA KafkaReceives == ASSUME KafkaInv, NEW p \in topic, Receive(p) PROVE KafkaInv'
<1>1. /\ kafkaPc = "pass" /\ kafkaPc' = "pass" /\ toVisit' \subseteq toVisit
      /\ position' = [position EXCEPT ![p] = @ + 1]
      /\ got' = got \cup {<<p, position[p]>>}
      /\ UNCHANGED <<topic, log, consumerOffset, reads, seen, first>>
  BY DEF Receive
<1>2. p \in Partitions /\ position \in [Partitions -> Nat] /\ position[p] \in Nat /\ currentOffset \in Nat
  BY DEF KafkaInv, KafkaTypes
<1>3. currentOffset' \in {currentOffset, position[p]}
  BY <1>2, MaxOfTwo DEF Receive
<1>4. /\ position' \in [Partitions -> Nat] /\ position'[p] = position[p] + 1
      /\ \A q \in Partitions : q # p => position'[q] = position[q]
  BY <1>1, <1>2
<1>5. KafkaTypes'
  BY <1>1, <1>2, <1>3, <1>4 DEF KafkaInv, KafkaTypes
<1>6. GotRuns'
  <2>. SUFFICES ASSUME NEW q \in topic
                PROVE  \E b \in 0..position'[q] :
                          \A o \in Nat : <<q, o>> \in got' <=> b <= o /\ o < position'[q]
    BY <1>1 DEF GotRuns
  <2>1. PICK b \in 0..position[q] : \A o \in Nat : <<q, o>> \in got <=> b <= o /\ o < position[q]
    BY DEF KafkaInv, GotRuns
  <2>2. CASE q = p
    <3>1. b \in 0..position'[q] /\ b \in Nat /\ b <= position[p]
      BY <1>2, <1>4, <2>1, <2>2
    <3>2. ASSUME NEW o \in Nat PROVE <<q, o>> \in got' <=> b <= o /\ o < position'[q]
      <4>1. <<q, o>> \in got' <=> <<q, o>> \in got \/ o = position[p]
        BY <1>1, <2>2
      <4>2. <<q, o>> \in got <=> b <= o /\ o < position[p]
        BY <2>1, <2>2
      <4>3. b <= o /\ o < position[p] + 1 <=> (b <= o /\ o < position[p]) \/ o = position[p]
        BY <1>2, <3>1
      <4>. QED
        BY <1>4, <2>2, <4>1, <4>2, <4>3
    <3>. QED
      BY <3>1, <3>2
  <2>3. CASE q # p
    <3>1. position'[q] = position[q]
      BY <1>4, <2>3 DEF KafkaInv, KafkaTypes
    <3>2. \A o : <<q, o>> \in got' <=> <<q, o>> \in got
      BY <1>1, <2>3
    <3>. QED
      BY <2>1, <3>1, <3>2
  <2>. QED
    BY <2>2, <2>3
<1>7. CallPhase'
  <2>1. currentOffset' = 0 \/ \E q \in topic' : <<q, currentOffset'>> \in got'
    BY <1>1, <1>3 DEF KafkaInv, CallPhase
  <2>. QED
    BY <1>1, <2>1 DEF KafkaInv, CallPhase, InFirst
<1>8. ASSUME NEW q, topic = {q} PROVE Linked(q)'
  <2>1. q = p /\ Linked(p)
    BY <1>8 DEF KafkaInv
  <2>. DEFINE S == seen \cup got
  <2>2. seen' \cup got' = S \cup {<<p, position[p]>>}
    BY <1>1
  <2>3. /\ \A o \in Nat : <<p, o>> \in S => Follow(p, o, S)
        /\ Follow(p, position[p], S)
    BY <1>1, <2>1 DEF Linked
  <2>4. first' = first
    BY <1>1
  <2>. HIDE DEF S
  <2>5. ASSUME NEW o \in Nat, <<p, o>> \in seen' \cup got'
        PROVE  o = 0 \/ o = first'[p] \/ <<p, o - 1>> \in seen' \cup got'
    <3>1. <<p, o>> \in S \/ o = position[p]
      BY <2>2, <2>5
    <3>2. o = 0 \/ o = first[p] \/ <<p, o - 1>> \in S
      BY <2>3, <3>1 DEF Follow
    <3>. QED
      BY <2>2, <2>4, <3>2
  <2>6. <<p, position'[p] - 1>> \in seen' \cup got'
    <3>1. position'[p] - 1 = position[p]
      BY <1>2, <1>4
    <3>. QED
      BY <2>2, <3>1
  <2>7. kafkaPc' = "pass"
    BY <1>1
  <2>. QED
    BY <2>1, <2>5, <2>6, <2>7 DEF Linked, Follow
<1>. QED
  BY <1>1, <1>5, <1>6, <1>7, <1>8 DEF KafkaInv

LEMMA KafkaReturns == ASSUME KafkaInv, ReadReturns PROVE KafkaInv'
<1>1. /\ kafkaPc = "loop" /\ kafkaPc' = "idle" /\ consumerOffset' = currentOffset /\ seen' = seen \cup got
      /\ UNCHANGED <<topic, log, position, toVisit, currentOffset, got, reads, first>>
  BY DEF ReadReturns, ReturnsAt, kafkaCall
<1>2. KafkaTypes'
  BY <1>1 DEF KafkaInv, KafkaTypes
<1>3. GotRuns'
  BY <1>1 DEF KafkaInv, GotRuns
<1>4. ~InFirst' /\ currentOffset # -1
  BY <1>1 DEF KafkaInv, KafkaTypes, CallPhase, InFirst
<1>5. CallPhase'
  BY <1>1, <1>4 DEF KafkaInv, CallPhase
<1>6. ASSUME NEW p, topic = {p} PROVE Linked(p)'
  <2>1. Linked(p) /\ seen' \cup got' = seen \cup got /\ currentOffset \in Nat
    BY <1>1, <1>6 DEF KafkaInv, KafkaTypes
  <2>2. Follow(p, currentOffset, seen \cup got)
    <3>1. CASE currentOffset = 0
      BY <3>1 DEF Follow
    <3>2. CASE <<p, currentOffset>> \in got
      BY <2>1, <3>2 DEF Linked
    <3>. QED
      BY <1>6, <3>1, <3>2 DEF KafkaInv, CallPhase
  <2>. QED
    BY <1>1, <2>1, <2>2 DEF Linked, Follow
<1>. QED
  BY <1>1, <1>2, <1>3, <1>5, <1>6 DEF KafkaInv

\* However the calls follow each other and the writes, the reads of one
\* connection leave no message of a topic with one partition out, and those of
\* one call none of any partition.
THEOREM NoMessageSkipped == KafkaSpec => []KafkaNoGap
<1>1. KafkaInv /\ [KafkaNext]_kafkaVars => KafkaInv'
  <2>. SUFFICES ASSUME KafkaInv, [KafkaNext]_kafkaVars PROVE KafkaInv'
    OBVIOUS
  <2>0. log \in [Partitions -> Nat] /\ toVisit \subseteq topic /\ topic \subseteq Partitions
    BY DEF KafkaInv, KafkaTypes
  <2>1. ASSUME NEW n \in Counts, KafkaQuery(n) PROVE KafkaInv'
    BY <2>1, KafkaQueries
  <2>2. ASSUME NEW p \in topic, ReceiveNothing(p) PROVE KafkaInv'
    <3>1. /\ kafkaPc' = kafkaPc /\ kafkaPc = "pass" /\ toVisit' \subseteq topic /\ log' = log
          /\ UNCHANGED <<topic, consumerOffset, position, currentOffset, got, reads, seen, first>>
      BY <2>0, <2>2 DEF ReceiveNothing
    <3>. QED
      BY <2>0, <3>1, KafkaWaits
  <2>3. ASSUME NEW p \in topic, Produce(p) PROVE KafkaInv'
    <3>1. /\ kafkaPc' = kafkaPc /\ toVisit' = toVisit
          /\ UNCHANGED <<topic, consumerOffset, position, currentOffset, got, reads, seen, first>>
      BY <2>3 DEF Produce, kafkaCall
    <3>2. log' \in [Partitions -> Nat]
      BY <2>0, <2>3 DEF Produce
    <3>. QED
      BY <2>0, <3>1, <3>2, KafkaWaits
  <2>4. CASE ReadFails \/ Opened \/ BeginPass \/ EndPass \/ UNCHANGED kafkaVars
    <3>1. /\ UNCHANGED <<topic, consumerOffset, position, currentOffset, got, reads, seen, first, log>>
          /\ toVisit' \subseteq topic
          /\ \/ kafkaPc' = kafkaPc /\ (kafkaPc = "open" => toVisit' = toVisit)
             \/ kafkaPc \in {"open", "loop"} /\ kafkaPc' = "gone"
             \/ kafkaPc = "open" /\ toVisit = {} /\ kafkaPc' = "loop"
             \/ kafkaPc = "loop" /\ kafkaPc' = "pass"
             \/ kafkaPc = "pass" /\ kafkaPc' = "loop"
      BY <2>0, <2>4 DEF ReadFails, Opened, BeginPass, EndPass, kafkaVars, kafkaCall
    <3>. QED
      BY <2>0, <3>1, KafkaWaits
  <2>. QED
    BY <2>1, <2>2, <2>3, <2>4, KafkaConsumes, KafkaReceives, KafkaReturns DEF KafkaNext
<1>2. KafkaInv => KafkaNoGap
  <2>. SUFFICES ASSUME KafkaInv PROVE KafkaNoGap
    OBVIOUS
  <2>1. ASSUME Cardinality(topic) = 1 PROVE Unbroken(seen \cup got, first)
    <3>1. IsFiniteSet(topic)
      BY KafkaConstants, FS_Subset DEF KafkaInv, KafkaTypes
    <3>2. PICK p : topic = {p}
      BY <2>1, <3>1, FS_Singleton
    <3>3. Linked(p) /\ seen \cup got \subseteq {p} \X Nat
      BY <3>2 DEF KafkaInv, KafkaTypes
    <3>4. ASSUME NEW m \in seen \cup got
          PROVE  m[2] \in {0, first[m[1]]} \/ <<m[1], m[2] - 1>> \in seen \cup got
      <4>1. PICK o \in Nat : m = <<p, o>>
        BY <3>3
      <4>. QED
        BY <3>3, <4>1 DEF Linked, Follow
    <3>. QED
      BY <3>4 DEF Unbroken
  <2>2. ASSUME NEW p \in topic, NEW o \in 0..MaxLog, NEW b \in 0..o, <<p, b>> \in got, o < position[p]
        PROVE  <<p, o>> \in got
    <3>1. PICK a \in 0..position[p] : \A n \in Nat : <<p, n>> \in got <=> a <= n /\ n < position[p]
      BY DEF KafkaInv, GotRuns
    <3>2. o \in Nat /\ b \in Nat /\ b <= o /\ a \in Nat
      BY <3>1, KafkaConstants DEF KafkaInv, KafkaTypes
    <3>3. a <= b
      BY <2>2, <3>1, <3>2
    <3>. QED
      BY <2>2, <3>1, <3>2, <3>3
  <2>. QED
    BY <2>1, <2>2 DEF KafkaNoGap
<1>. QED
  BY <1>1, <1>2, KafkaStarts, PTL DEF KafkaSpec

-----------------------------------------------------------------------------
(* LuaVm.                                                                 *)

(* Which put left the rows that are in the field output.                   *)

LuaTypes ==
    /\ luaPc \in {"idle", "script", "raised"}
    /\ luaCall \in 0..MaxDo /\ (luaPc # "idle" => luaCall # 0)
    /\ nputs \in Nat
    /\ DOMAIN done = 1..MaxDo

\* Calls that have not ended are not in the history.
NotEnded ==
    \A c \in 1..MaxDo :
        c > luaCall \/ (c = luaCall /\ luaPc # "idle") => done[c].out = "none"

\* The last put of call d was its n-th, and the calls from d to the one before c
\* failed, the later ones without a put.
LeftBy(d, n, c) ==
    /\ n = done[d].puts
    /\ \A e \in d..(c - 1) : done[e].out = "error" /\ (e > d => done[e].puts = 0)

\* Rows in the field are of the running call, or were left by one that failed,
\* and then no call has put anything since.
LeftOver ==
    output # <<>> =>
        /\ left.do \in 1..luaCall
        /\ luaPc = "idle" => LeftBy(left.do, left.n, luaCall + 1)
        /\ luaPc # "idle" /\ left.do = luaCall => left.n = nputs
        /\ luaPc # "idle" /\ left.do < luaCall => nputs = 0 /\ LeftBy(left.do, left.n, luaCall)

LuaInv == LuaTypes /\ NotEnded /\ LeftOver /\ LuaOutputOwn

LEMMA LuaInvInit == LuaInit => LuaInv
BY LuaConstants DEF LuaInit, LuaInv, LuaTypes, NotEnded, LeftOver, LuaOutputOwn, NotDone

\* A step that neither ends a call nor puts anything leaves the history alone.
LEMMA LuaQuiet ==
    ASSUME LuaInv, luaPc # "idle", luaPc' # "idle", luaPc' \in {"script", "raised"},
           UNCHANGED <<luaCall, output, left, nputs, done>>
    PROVE  LuaInv'
BY DEF LuaInv, LuaTypes, NotEnded, LeftOver, LeftBy, LuaOutputOwn

LEMMA LuaBegins == ASSUME LuaInv, NEW data \in Inputs, Do(data) PROVE LuaInv'
<1>. USE LuaConstants DEF LuaInv, Do
<1>1. LuaTypes'
  BY DEF LuaTypes
<1>2. NotEnded'
  BY DEF LuaTypes, NotEnded
<1>3. LeftOver'
  BY DEF LuaTypes, LeftOver, LeftBy
<1>4. LuaOutputOwn'
  BY DEF LuaOutputOwn
<1>. QED
  BY <1>1, <1>2, <1>3, <1>4

LEMMA LuaPuts == ASSUME LuaInv, NEW tab, PutData(tab) PROVE LuaInv'
<1>. USE DEF LuaInv, PutData, Running
<1>1. LuaTypes'
  BY DEF LuaTypes
<1>2. NotEnded'
  BY DEF LuaTypes, NotEnded
<1>3. left'.do = luaCall /\ left'.n = nputs'
  OBVIOUS
<1>4. luaCall \in 1..MaxDo
  BY LuaConstants DEF LuaTypes
<1>5. LeftOver'
  BY <1>3, <1>4 DEF LuaTypes, LeftOver
<1>6. LuaOutputOwn'
  BY DEF LuaOutputOwn
<1>. QED
  BY <1>1, <1>2, <1>5, <1>6

\* A call that ends, and puts its entry into the history.
LEMMA LuaEnds ==
    ASSUME LuaInv, NEW out, NEW put, luaPc # "idle", Ended(out, put),
           out \in {"rows", "error", "nothing"}
    PROVE  /\ LuaTypes' /\ NotEnded'
           /\ luaCall \in 1..MaxDo /\ luaPc' = "idle" /\ luaCall' = luaCall
           /\ \A c \in 1..MaxDo : c # luaCall => done'[c] = done[c]
           /\ done'[luaCall] = [out |-> out, do |-> put.do, n |-> put.n, puts |-> nputs]
<1>. USE LuaConstants DEF LuaInv, Ended
<1>1. luaCall \in 1..MaxDo
  BY DEF LuaTypes
<1>2. /\ \A c \in 1..MaxDo : c # luaCall => done'[c] = done[c]
      /\ done'[luaCall] = [out |-> out, do |-> put.do, n |-> put.n, puts |-> nputs]
  BY <1>1 DEF LuaTypes
<1>3. LuaTypes'
  BY DEF LuaTypes
<1>4. NotEnded'
  BY <1>1, <1>2 DEF LuaTypes, NotEnded
<1>. QED
  BY <1>1, <1>2, <1>3, <1>4

LEMMA LuaFails == ASSUME LuaInv, ScriptFails PROVE LuaInv'
<1>1. luaPc # "idle" /\ Ended("error", NoPut) /\ output' = output /\ left' = left
  BY DEF ScriptFails
<1>2. /\ LuaTypes' /\ NotEnded'
      /\ luaCall \in 1..MaxDo /\ luaPc' = "idle" /\ luaCall' = luaCall
      /\ \A c \in 1..MaxDo : c # luaCall => done'[c] = done[c]
      /\ done'[luaCall] = [out |-> "error", do |-> NoPut.do, n |-> NoPut.n, puts |-> nputs]
  BY <1>1, LuaEnds
<1>3. luaCall \in Nat /\ MaxDo \in Nat /\ luaCall <= MaxDo
      /\ done'[luaCall].out = "error" /\ done'[luaCall].puts = nputs
  BY <1>2, LuaConstants
<1>4. LeftOver'
  <2>. SUFFICES ASSUME output # <<>>
                PROVE  /\ left.do \in 1..luaCall
                       /\ left.n = done'[left.do].puts
                       /\ \A e \in left.do..luaCall :
                             done'[e].out = "error" /\ (e > left.do => done'[e].puts = 0)
    BY <1>1, <1>2, <1>3 DEF LeftOver, LeftBy
  <2>1. left.do \in 1..luaCall
    BY DEF LuaInv, LeftOver
  <2>2. CASE left.do = luaCall
    BY <1>1, <1>2, <1>3, <2>1, <2>2 DEF LuaInv, LeftOver
  <2>3. CASE left.do < luaCall
    <3>1. nputs = 0 /\ LeftBy(left.do, left.n, luaCall)
      BY <1>1, <2>3 DEF LuaInv, LeftOver
    <3>. QED
      BY <1>2, <1>3, <2>1, <2>3, <3>1 DEF LeftBy
  <2>. QED
    BY <1>3, <2>1, <2>2, <2>3
<1>5. LuaOutputOwn'
  <2>1. ASSUME NEW c \in 1..MaxDo, done'[c].out = "rows"
        PROVE  /\ c < luaCall /\ done[c].out = "rows" /\ done'[c] = done[c]
               /\ \A e \in 1..c : done'[e] = done[e]
    BY <1>1, <1>2, <1>3, <2>1 DEF LuaInv, NotEnded
  <2>. QED
    BY <2>1, LuaConstants DEF LuaInv, LuaOutputOwn
<1>. QED
  BY <1>2, <1>4, <1>5 DEF LuaInv

\* The rows go to the call that put them, or to one that put nothing.
LEMMA LuaReturns == ASSUME LuaInv, ScriptEnd PROVE LuaInv'
<1>1. luaPc # "idle" /\ Ended("rows", left) /\ output # <<>> /\ output' = <<>>
  BY DEF ScriptEnd, Running
<1>2. /\ LuaTypes' /\ NotEnded'
      /\ luaCall \in 1..MaxDo /\ luaPc' = "idle" /\ luaCall' = luaCall
      /\ \A c \in 1..MaxDo : c # luaCall => done'[c] = done[c]
      /\ done'[luaCall] = [out |-> "rows", do |-> left.do, n |-> left.n, puts |-> nputs]
  BY <1>1, LuaEnds
<1>3. luaCall \in Nat /\ MaxDo \in Nat /\ luaCall <= MaxDo
  BY <1>2, LuaConstants
<1>4. LeftOver'
  BY <1>1 DEF LeftOver
<1>5. left.do \in 1..luaCall
  BY <1>1 DEF LuaInv, LeftOver
<1>6. ASSUME NEW c \in 1..MaxDo, done'[c].out = "rows"
      PROVE  LET d == done'[c].do IN
             /\ d \in 1..c /\ done'[c].n = done'[d].puts
             /\ d < c => done'[c].puts = 0
             /\ \A e \in d..(c - 1) : done'[e].out = "error" /\ (e > d => done'[e].puts = 0)
  <2>1. CASE c # luaCall
    <3>1. c < luaCall /\ done[c].out = "rows" /\ \A e \in 1..c : done'[e] = done[e]
      BY <1>1, <1>2, <1>3, <1>6, <2>1 DEF LuaInv, NotEnded
    <3>. QED
      BY <1>3, <3>1 DEF LuaInv, LuaOutputOwn
  <2>2. CASE c = luaCall /\ left.do = luaCall
    BY <1>1, <1>2, <1>3, <1>5, <2>2 DEF LuaInv, LeftOver
  <2>3. CASE c = luaCall /\ left.do < luaCall
    <3>1. nputs = 0 /\ LeftBy(left.do, left.n, luaCall)
      BY <1>1, <2>3 DEF LuaInv, LeftOver
    <3>. QED
      BY <1>2, <1>3, <1>5, <2>3, <3>1 DEF LeftBy
  <2>. QED
    BY <1>3, <1>5, <2>1, <2>2, <2>3
<1>7. LuaOutputOwn'
  BY <1>6 DEF LuaOutputOwn
<1>. QED
  BY <1>2, <1>4, <1>7 DEF LuaInv

LEMMA LuaReturnsNothing == ASSUME LuaInv, ScriptEndsEmpty PROVE LuaInv'
<1>1. luaPc # "idle" /\ Ended("nothing", NoPut) /\ output = <<>> /\ output' = output
  BY DEF ScriptEndsEmpty, Running
<1>2. /\ LuaTypes' /\ NotEnded'
      /\ luaCall \in 1..MaxDo /\ luaCall' = luaCall
      /\ \A c \in 1..MaxDo : c # luaCall => done'[c] = done[c]
      /\ done'[luaCall].out = "nothing"
  <2>1. done'[luaCall] = [out |-> "nothing", do |-> NoPut.do, n |-> NoPut.n, puts |-> nputs]
    BY <1>1, LuaEnds
  <2>. QED
    BY <1>1, <2>1, LuaEnds
<1>3. LeftOver'
  BY <1>1 DEF LeftOver
<1>4. ASSUME NEW c \in 1..MaxDo, done'[c].out = "rows"
      PROVE  /\ c < luaCall /\ done[c].out = "rows" /\ done'[c] = done[c]
             /\ \A e \in 1..c : done'[e] = done[e]
  BY <1>1, <1>2, <1>4, LuaConstants DEF LuaInv, NotEnded
<1>5. LuaOutputOwn'
  BY <1>4, LuaConstants DEF LuaInv, LuaOutputOwn
<1>. QED
  BY <1>2, <1>3, <1>5 DEF LuaInv

\* Whatever scripts do, in whatever order they fail, a Do returns the rows of
\* its own last put, or those that failed calls before it left.
THEOREM RowsOfTheLastPut == LuaSpec => []LuaOutputOwn
<1>1. LuaInv /\ [LuaNext]_luaVars => LuaInv'
  <2>. SUFFICES ASSUME LuaInv, [LuaNext]_luaVars PROVE LuaInv'
    OBVIOUS
  <2>1. ASSUME NEW data \in Inputs, Do(data) PROVE LuaInv'
    BY <2>1, LuaBegins
  <2>2. ASSUME GetData PROVE LuaInv'
    <3>1. /\ luaPc # "idle" /\ luaPc' # "idle" /\ luaPc' \in {"script", "raised"}
          /\ UNCHANGED <<luaCall, output, left, nputs, done>>
      BY <2>2 DEF GetData, Running
    <3>. QED
      BY <3>1, LuaQuiet
  <2>3. ASSUME NEW tab, PutData(tab) PROVE LuaInv'
    BY <2>3, LuaPuts
  <2>4. ASSUME PutNoTable \/ CacheSet \/ CacheGet \/ CacheDel \/ Caught PROVE LuaInv'
    <3>1. /\ luaPc # "idle" /\ luaPc' # "idle" /\ luaPc' \in {"script", "raised"}
          /\ UNCHANGED <<luaCall, output, left, nputs, done>>
      BY <2>4 DEF PutNoTable, CacheSet, CacheGet, CacheDel, Caught, Running
    <3>. QED
      BY <3>1, LuaQuiet
  <2>5. ASSUME ScriptFails PROVE LuaInv'
    BY <2>5, LuaFails
  <2>6. ASSUME ScriptEnd PROVE LuaInv'
    BY <2>6, LuaReturns
  <2>7. ASSUME ScriptEndsEmpty PROVE LuaInv'
    BY <2>7, LuaReturnsNothing
  <2>8. ASSUME UNCHANGED luaVars PROVE LuaInv'
    BY <2>8 DEF luaVars, LuaInv, LuaTypes, NotEnded, LeftOver, LeftBy, LuaOutputOwn
  <2>. QED
    BY <2>1, <2>2, <2>3, <2>4, <2>5, <2>6, <2>7, <2>8 DEF LuaNext
<1>. QED
  BY <1>1, LuaInvInit, PTL DEF LuaSpec, LuaInv

(* What becomes of the values a script puts.                               *)

LEMMA ModOfByte == ASSUME NEW n \in 0..256 PROVE n % 256 \in Int
OBVIOUS

\* What has been converted reads again as what it was.
LEMMA ToGoReads ==
    ASSUME NEW x \in Values, ToGo(x) # Refused
    PROVE  ReadsAgain(x, ToGo(x))
<1>1. x = Val(x.t, x.v) /\ x.v \in Seq(Int)
  BY DEF Values, Val
<1>2. CASE x.t = "table"
  <2>1. /\ \A k \in DOMAIN x.v : x.v[k] \in 0..256
        /\ ToGo(x) = Val("bytes", [k \in DOMAIN x.v |-> x.v[k] % 256])
    BY <1>2 DEF ToGo
  <2>2. DOMAIN x.v = 1..Len(x.v) /\ Len(x.v) \in Nat
    BY <1>1, LenProperties
  <2>3. \A k \in DOMAIN x.v : x.v[k] % 256 = x.v[k] \/ x.v[k] = 256
    BY <2>1
  <2>4. ASSUME NEW k \in 1..Len(x.v) PROVE x.v[k] % 256 \in Int
    <3>1. k \in DOMAIN x.v
      BY <2>2
    <3>2. x.v[k] \in 0..256
      BY <2>1, <3>1, Zenon
    <3>. QED
      BY <3>2, ModOfByte
  <2>5. [k \in DOMAIN x.v |-> x.v[k] % 256] \in [1..Len(x.v) -> Int]
    BY <2>2, <2>4, Zenon
  <2>6. Len([k \in DOMAIN x.v |-> x.v[k] % 256]) = Len(x.v)
    BY <2>2, <2>5, SeqOfMap
  <2>. QED
    BY <1>2, <2>1, <2>2, <2>3, <2>6 DEF ReadsAgain, Val
<1>3. CASE x.t = "number"
  BY <1>1, <1>3 DEF ToGo, ReadsAgain, FromGo, Val
<1>4. CASE x.t = "string" /\ x.v # <<>>
  BY <1>1, <1>4 DEF ToGo, ReadsAgain, FromGo, Val
<1>5. CASE x.t \in {"bool", "nil"} \/ (x.t = "string" /\ x.v = <<>>)
  BY <1>1, <1>5 DEF ToGo, ReadsAgain, FromGo, Val
<1>. QED
  BY <1>2, <1>3, <1>4, <1>5 DEF ToGo

LEMMA ValType == ASSUME NEW t \in Types, NEW v \in Seq(Int) PROVE Val(t, v) \in Values
BY DEF Val, Values

\* What a script is given is a Lua value.
LEMMA FromGoType ==
    ASSUME NEW y \in Values, y.t \in {"int", "int64"} => y.v # <<>>
    PROVE  FromGo(y) \in Values
<1>1. y.v \in Seq(Int) /\ y.t \in Types
  BY DEF Values
<1>2. CASE y.t \in {"int", "int64"}
  <2>1. y.v[1] \in Int
    BY <1>1, <1>2, ElementOfSeq, LenProperties
  <2>2. AsFloat(y.v[1]) \in Int
    BY <2>1, LuaConstants DEF AsFloat
  <2>3. <<AsFloat(y.v[1])>> \in Seq(Int)
    BY <2>2
  <2>4. FromGo(y) = Val("number", <<AsFloat(y.v[1])>>)
    BY <1>2 DEF FromGo
  <2>5. Val("number", <<AsFloat(y.v[1])>>) \in Values
    BY <2>3, ValType DEF Types
  <2>. QED
    BY <2>4, <2>5, Zenon
<1>3. CASE y.t = "float64"
  <2>1. FromGo(y) = Val("number", y.v)
    BY <1>3 DEF FromGo
  <2>2. Val("number", y.v) \in Values
    BY <1>1, ValType DEF Types
  <2>. QED
    BY <2>1, <2>2, Zenon
<1>4. CASE y.t = "bytes"
  <2>1. FromGo(y) = Val("table", y.v)
    BY <1>4 DEF FromGo
  <2>2. Val("table", y.v) \in Values
    BY <1>1, ValType DEF Types
  <2>. QED
    BY <2>1, <2>2, Zenon
<1>5. CASE y.t \in {"nil", "string", "bool"}
  <2>1. FromGo(y) = y
    BY <1>5 DEF FromGo
  <2>. QED
    BY <2>1
<1>6. CASE y.t \notin {"int", "int64", "float64", "bytes", "nil", "string", "bool"}
  <2>1. FromGo(y) = Val("refused", <<>>)
    BY <1>6 DEF FromGo, Refused
  <2>2. Val("refused", <<>>) \in Values
    BY EmptySeq, ValType DEF Types
  <2>. QED
    BY <2>1, <2>2, Zenon
<1>. QED
  BY <1>2, <1>3, <1>4, <1>5, <1>6

\* A row before the first bad one keeps its values up to a border, and a row
\* after a bad one is empty.
LEMMA ConvertedKeeps ==
    ASSUME NEW tab \in Seq(Seq(Values)), NEW cut \in CutRows(tab), NEW k \in DOMAIN cut
    PROVE  /\ (\A b \in BadRows(cut) : k < b) =>
                 /\ Len(Converted(cut)[k]) \in Borders(tab[k])
                 /\ \A j \in DOMAIN Converted(cut)[k] : ReadsAgain(tab[k][j], Converted(cut)[k][j])
           /\ (\E b \in BadRows(cut) : b < k) => Converted(cut)[k] = <<>>
<1>1. DOMAIN cut = DOMAIN tab
  BY DEF CutRows
<1>2. PICK n \in Borders(tab[k]) : cut[k] = SubSeq(tab[k], 1, n)
  BY <1>1 DEF CutRows
<1>3. tab[k] \in Seq(Values) /\ DOMAIN tab \subseteq Nat
  BY <1>1, ElementOfSeq, LenProperties
<1>4. n \in 0..Len(tab[k]) /\ Len(tab[k]) \in Nat
  BY <1>2, <1>3, LenProperties DEF Borders
<1>5. /\ cut[k] \in Seq(Values) /\ Len(cut[k]) = n
      /\ \A j \in 1..n : cut[k][j] = tab[k][j] /\ tab[k][j] \in Values
  BY <1>2, <1>3, <1>4, SubSeqProperties, ElementOfSeq
<1>6. DOMAIN cut[k] = 1..n
  BY <1>4, <1>5, LenProperties
<1>7. k \in Nat
  BY <1>1, <1>3
<1>8. ASSUME \A b \in BadRows(cut) : k < b
      PROVE  /\ Len(Converted(cut)[k]) = n
             /\ \A j \in DOMAIN Converted(cut)[k] : ReadsAgain(tab[k][j], Converted(cut)[k][j])
  <2>1. k \notin BadRows(cut)
    BY <1>7, <1>8
  <2>2. cut[k] # NotATable /\ \A j \in 1..n : ToGo(cut[k][j]) # Refused
    BY <1>6, <2>1 DEF BadRows, IsGood, Good
  <2>3. ~ \E b \in BadRows(cut) : b < k
    <3>1. BadRows(cut) \subseteq Nat
      BY <1>1, <1>3 DEF BadRows
    <3>. QED
      BY <1>7, <1>8, <3>1
  <2>4. \A j \in 1..n : Good(SubSeq(cut[k], 1, j), ToGo)
    <3>. SUFFICES ASSUME NEW j \in 1..n PROVE Good(SubSeq(cut[k], 1, j), ToGo)
      OBVIOUS
    <3>1. /\ DOMAIN SubSeq(cut[k], 1, j) = 1..j
          /\ \A h \in 1..j : SubSeq(cut[k], 1, j)[h] = cut[k][h]
      BY <1>4, <1>5, SubSeqProperties, LenProperties
    <3>2. \A h \in 1..j : h \in 1..n
      BY <1>4
    <3>. QED
      BY <2>2, <3>1, <3>2 DEF Good
  <2>5. Converted(cut)[k] = [j \in 1..n |-> ToGo(cut[k][j])]
    BY <1>6, <2>2, <2>3, <2>4 DEF Converted, Cell
  <2>6. Len(Converted(cut)[k]) = n /\ DOMAIN Converted(cut)[k] = 1..n
    BY <1>4, <2>5
  <2>7. \A j \in 1..n : ReadsAgain(tab[k][j], ToGo(cut[k][j]))
    BY <1>5, <2>2, ToGoReads
  <2>. QED
    BY <2>5, <2>6, <2>7
<1>9. ASSUME NEW b \in BadRows(cut), b < k
      PROVE  Converted(cut)[k] = <<>>
  BY <1>9 DEF Converted
<1>. QED
  BY <1>2, <1>8, <1>9

\* What is held and cached are rows of Lua values.
LuaRows ==
    /\ input \in Inputs \cup {<<>>}
    /\ held \in Seq(Seq(Values)) /\ cache \in Seq(Seq(Values))

\* Whatever scripts convert to and fro, cache, catch and put, what one puts the
\* next reads again, for any tables and inputs.
THEOREM ValuesAreKept == LuaSpec => []LuaKeeps
<1>1. LuaInit => LuaRows /\ LuaKeeps
  BY DEF LuaInit, LuaRows, LuaKeeps
<1>2. LuaRows /\ LuaKeeps /\ [LuaNext]_luaVars => LuaRows' /\ LuaKeeps'
  <2>. SUFFICES ASSUME LuaRows, LuaKeeps, [LuaNext]_luaVars PROVE LuaRows' /\ LuaKeeps'
    OBVIOUS
  <2>1. ASSUME UNCHANGED <<output, left>> PROVE LuaKeeps'
    BY <2>1 DEF LuaKeeps
  <2>2. ASSUME output' = <<>> PROVE LuaKeeps'
    BY <2>2 DEF LuaKeeps
  <2>3. CASE GetData
    <3>1. input \in Seq(Seq(Values)) /\ input \in Inputs
      BY <2>3, LuaConstants DEF LuaRows, GetData
    <3>2. held' \in Seq(Seq(Values))
      <4>1. ASSUME held' = [r \in DOMAIN input |-> Mapped(input[r], FromGo)]
            PROVE  held' \in Seq(Seq(Values))
        <5>1. \A r \in DOMAIN input : input[r] \in Seq(Values)
          BY <3>1, ElementOfSeq, LenProperties
        <5>2. ASSUME NEW r \in DOMAIN input
              PROVE  Mapped(input[r], FromGo) \in Seq(Values)
          <6>1. DOMAIN input[r] = 1..Len(input[r]) /\ Len(input[r]) \in Nat
            BY <5>1, LenProperties
          <6>2. \A j \in DOMAIN input[r] : input[r][j] \in Values
            BY <5>1, <6>1, ElementOfSeq
          <6>3. \A j \in DOMAIN input[r] : FromGo(input[r][j]) \in Values
            BY <3>1, <6>2, FromGoType, LuaConstants
          <6>. QED
            BY <6>1, <6>3 DEF Mapped
        <5>3. DOMAIN input = 1..Len(input) /\ Len(input) \in Nat
          BY <3>1, LenProperties
        <5>. QED
          BY <4>1, <5>2, <5>3
      <4>. QED
        BY <2>3, <4>1 DEF GetData, LuaRows
    <3>. QED
      BY <2>1, <2>3, <3>2 DEF GetData, LuaRows
  <2>4. ASSUME NEW tab \in Tables \cup {held}, PutData(tab) PROVE LuaRows' /\ LuaKeeps'
    <3>1. tab \in Seq(Seq(Values))
      BY LuaConstants DEF LuaRows
    <3>2. PICK cut \in CutRows(tab) :
            /\ output' = Converted(cut)
            /\ left' = [do |-> luaCall, n |-> nputs + 1, tab |-> tab, bad |-> BadRows(cut)]
      BY <2>4 DEF PutData
    <3>3. left'.tab = tab /\ left'.bad = BadRows(cut) /\ DOMAIN output' = DOMAIN cut
      BY <3>2 DEF Converted
    <3>4. LuaKeeps'
      BY <3>1, <3>2, <3>3, ConvertedKeeps DEF LuaKeeps
    <3>. QED
      BY <2>4, <3>4 DEF PutData, LuaRows
  <2>5. CASE \E data \in Inputs : Do(data)
    BY <2>1, <2>5 DEF Do, LuaRows
  <2>6. CASE PutNoTable \/ CacheSet \/ CacheGet \/ CacheDel \/ Caught
    <3>1. UNCHANGED <<luaCall, input, output, left>> /\ (nputs' = nputs)
      BY <2>6 DEF PutNoTable, CacheSet, CacheGet, CacheDel, Caught
    <3>2. held' \in {held, cache} /\ cache' \in {held, cache, <<>>}
      BY <2>6 DEF PutNoTable, CacheSet, CacheGet, CacheDel, Caught
    <3>3. <<>> \in Seq(Seq(Values))
      OBVIOUS
    <3>4. held' \in Seq(Seq(Values)) /\ cache' \in Seq(Seq(Values))
      BY <3>2, <3>3 DEF LuaRows
    <3>. QED
      BY <2>1, <3>1, <3>4 DEF LuaRows
  <2>7. CASE ScriptFails
    BY <2>1, <2>7 DEF ScriptFails, Ended, LuaRows
  <2>8. CASE ScriptEnd \/ ScriptEndsEmpty
    BY <2>2, <2>8 DEF ScriptEnd, ScriptEndsEmpty, Ended, LuaRows
  <2>9. CASE UNCHANGED luaVars
    BY <2>1, <2>9 DEF luaVars, LuaRows
  <2>. QED
    BY <2>3, <2>4, <2>5, <2>6, <2>7, <2>8, <2>9 DEF LuaNext
<1>. QED
  BY <1>1, <1>2, PTL DEF LuaSpec
-----------------------------------------------------------------------------
(* ShellConn: no line is lost, whatever was executed before.               *)

Pieces == [cmd : Nat, line : Nat]

\* A piece the process writes for a command it was given.
Known(x) ==
    /\ x \in Pieces /\ x.cmd \in 1..Len(answer)
    /\ x.line \in 1..(Len(answer[x.cmd]) + 1)

ShellTypes ==
    /\ shPc \in {"idle", "reading", "panic", "gone"} /\ alive \in BOOLEAN
    /\ asked \in Seq({"query", "execute"}) /\ answer \in Seq(Answers)
    /\ replies \in Seq(Seq(Pieces)) /\ lines \in Seq(Pieces)
    /\ stdin \in Seq(Pieces) /\ stdout \in Seq(Pieces) /\ buf \in Seq(Pieces)
    /\ Len(answer) = Len(asked) /\ Len(replies) = Len(asked)
    /\ shPc # "reading" => buf = <<>> /\ lines = <<>>
    /\ shPc = "reading" => asked # <<>> /\ replies[Len(asked)] = <<>>

AllKnown ==
    /\ \A k \in DOMAIN buf : Known(buf[k])
    /\ \A k \in DOMAIN stdout : Known(stdout[k])
    /\ \A k \in DOMAIN lines : Known(lines[k])
    /\ \A c \in DOMAIN replies : \A k \in DOMAIN replies[c] : Known(replies[c][k])

\* The process answers the commands in their order: the first one may be half
\* answered, and the last one is the last that was asked.
StdinOrder ==
    stdin # <<>> =>
        /\ Known(stdin[1]) /\ stdin[1].cmd + Len(stdin) = Len(asked) + 1
        /\ \A k \in 2..Len(stdin) : stdin[k] = Piece(stdin[1].cmd + k - 1, 1)

\* What a call will come across: what is in its buffer and in the pipe, and the
\* piece the process writes next.
NextOut == IF stdin # <<>> THEN stdin[1] ELSE Piece(Len(asked) + 1, 1)
Ahead == Append(buf \o stdout, NextOut)

Succ(x) == IF IsEnd(x) THEN Piece(x.cmd + 1, 1) ELSE Piece(x.cmd, x.line + 1)

InSteps(q) == \A k \in 1..(Len(q) - 1) : q[k + 1] = Succ(q[k])

\* After a line comes the next one, with markers between.
LinesFollow(q) ==
    \A m \in 1..Len(q) : \A n \in 1..(m - 1) :
        ~IsEnd(q[n]) /\ (\A k \in (n + 1)..(m - 1) : IsEnd(q[k])) => Follows(q[m], q[n])
Continues(q, x) ==
    \A m \in 1..Len(q) : (\A k \in 1..(m - 1) : IsEnd(q[k])) => Follows(q[m], x)

Connected == shPc = "reading" \/ (shPc = "idle" /\ alive)

\* The last line that was read goes on with what is ahead.
AheadFollows ==
    Connected =>
        /\ InSteps(Ahead) /\ LinesFollow(Ahead)
        /\ \A c \in DOMAIN replies :
              Heard(c) # <<>> /\ (\A d \in (c + 1)..Len(replies) : Heard(d) = <<>>)
                  => Continues(Ahead, LastOf(Heard(c)))

\* With queries only, what is ahead belongs to the running one, or to the next.
OwnAhead ==
    (\A d \in 1..Len(asked) : asked[d] = "query") =>
        /\ shPc = "idle" /\ alive => Ahead[1] = Piece(Len(asked) + 1, 1)
        /\ shPc = "reading" =>
              /\ \A i \in 1..Len(lines) : lines[i] = Piece(Len(asked), i)
              /\ Ahead[1] = Piece(Len(asked), Len(lines) + 1)

\* The parts of ShellAnswers.
HeardInOrder ==
    /\ \A c \in DOMAIN replies : \A i \in 2..Len(Heard(c)) : Follows(Heard(c)[i], Heard(c)[i - 1])
    /\ \A c, d \in DOMAIN replies :
          c < d /\ Heard(c) # <<>> /\ Heard(d) # <<>> /\ (\A e \in (c + 1)..(d - 1) : Heard(e) = <<>>)
              => Follows(Heard(d)[1], LastOf(Heard(c)))
AnswersWhole ==
    alive => \A c \in DOMAIN replies : replies[c] # <<>> =>
        /\ LastOf(replies[c]).line = Len(answer[LastOf(replies[c]).cmd])
        /\ (\A d \in 1..c : asked[d] = "query") =>
              replies[c] = [i \in DOMAIN answer[c] |-> Piece(c, i)]

ShellInv ==
    ShellTypes /\ AllKnown /\ StdinOrder /\ AheadFollows /\ OwnAhead /\ HeardInOrder /\ AnswersWhole

LEMMA ShellInvInit == ShellInit => ShellInv
<1>. SUFFICES ASSUME ShellInit PROVE ShellInv
  OBVIOUS
<1>1. <<>> \in Seq(Pieces) /\ <<>> \in Seq(Answers) /\ <<>> \in Seq(Seq(Pieces))
      /\ <<>> \in Seq({"query", "execute"}) /\ Len(<<>>) = 0
  OBVIOUS
<1>2. ShellTypes
  BY <1>1 DEF ShellInit, ShellTypes
<1>3. AllKnown /\ StdinOrder
  BY DEF ShellInit, AllKnown, StdinOrder
<1>4. Ahead = <<Piece(1, 1)>>
  BY DEF ShellInit, Ahead, NextOut
<1>5. AheadFollows /\ OwnAhead
  BY <1>4 DEF ShellInit, AheadFollows, OwnAhead, InSteps, LinesFollow
<1>6. HeardInOrder /\ AnswersWhole
  BY DEF ShellInit, HeardInOrder, AnswersWhole
<1>. QED
  BY <1>2, <1>3, <1>5, <1>6 DEF ShellInv

\* The marker of an answer goes on with the next answer, and a line with the next
\* piece of its own.
LEMMA EndGoesOn ==
    ASSUME ShellTypes, NEW x, NEW y, Known(x), Known(y), IsEnd(y), Follows(y, x)
    PROVE  Follows(Succ(y), x)
<1>1. /\ Succ(y) = Piece(y.cmd + 1, 1) /\ y.line = Len(answer[y.cmd]) + 1
      /\ x.cmd \in Nat /\ y.cmd \in Nat /\ x.line \in Nat /\ y.line \in Nat
  BY DEF Succ, IsEnd, Known, Pieces
<1>2. answer[y.cmd] \in Seq(Nat \ {0}) /\ Len(answer[y.cmd]) \in Nat
  BY ShellConstants DEF Known, ShellTypes
<1>3. CASE y.cmd = x.cmd /\ y.line = x.line + 1
  BY <1>1, <1>2, <1>3 DEF Follows, Piece
<1>4. CASE /\ y.cmd > x.cmd /\ y.line = 1 /\ x.line = Len(answer[x.cmd])
           /\ \A c \in (x.cmd + 1)..(y.cmd - 1) : answer[c] = <<>>
  <2>1. answer[y.cmd] = <<>>
    BY <1>1, <1>2, <1>4
  <2>2. \A c \in (x.cmd + 1)..y.cmd : answer[c] = <<>>
    BY <1>1, <1>4, <2>1
  <2>. QED
    BY <1>1, <1>4, <2>2 DEF Follows, Piece
<1>. QED
  BY <1>3, <1>4 DEF Follows

LEMMA LineGoesOn ==
    ASSUME ShellTypes, NEW x, Known(x), ~IsEnd(x)
    PROVE  Follows(Succ(x), x)
BY DEF Succ, Follows, Piece, Known, Pieces

\* One piece more is written.
LEMMA WrittenFollows ==
    ASSUME ShellTypes, NEW q \in Seq(Pieces), q # <<>>, \A k \in 1..Len(q) : Known(q[k]),
           InSteps(q), LinesFollow(q), NEW r, r = Append(q, Succ(q[Len(q)]))
    PROVE  /\ InSteps(r) /\ LinesFollow(r)
           /\ \A x : Known(x) /\ Continues(q, x) => Continues(r, x)
<1>1. /\ Len(q) \in Nat \ {0} /\ Len(r) = Len(q) + 1
      /\ \A k \in 1..Len(q) : r[k] = q[k]
      /\ r[Len(q) + 1] = Succ(q[Len(q)])
  BY DEF Succ, Pieces, Piece
<1>2. InSteps(r)
  <2>. SUFFICES ASSUME NEW k \in 1..Len(q) PROVE r[k + 1] = Succ(r[k])
    BY <1>1 DEF InSteps
  <2>1. CASE k = Len(q)
    BY <1>1, <2>1
  <2>2. CASE k \in 1..(Len(q) - 1)
    <3>1. k + 1 \in 1..Len(q) /\ k \in 1..Len(q)
      BY <1>1, <2>2
    <3>. QED
      BY <1>1, <2>2, <3>1 DEF InSteps
  <2>. QED
    BY <1>1, <2>1, <2>2
<1>3. LinesFollow(r)
  <2>. SUFFICES ASSUME NEW m \in 1..Len(r), NEW n \in 1..(m - 1), ~IsEnd(r[n]),
                       \A k \in (n + 1)..(m - 1) : IsEnd(r[k])
                PROVE  Follows(r[m], r[n])
    BY DEF LinesFollow
  <2>1. /\ n \in 1..Len(q) /\ r[n] = q[n]
        /\ \A k \in (n + 1)..(m - 1) : k \in 1..Len(q) /\ r[k] = q[k]
    BY <1>1
  <2>2. \A k \in (n + 1)..(m - 1) : IsEnd(q[k])
    BY <2>1
  <2>3. CASE m \in 1..Len(q)
    BY <1>1, <2>1, <2>2, <2>3 DEF LinesFollow
  <2>4. CASE m = Len(q) + 1 /\ n = Len(q)
    BY <1>1, <2>1, <2>4, LineGoesOn
  <2>5. CASE m = Len(q) + 1 /\ n # Len(q)
    <3>1. n \in 1..(Len(q) - 1) /\ Len(q) \in 1..Len(q) /\ Len(q) \in (n + 1)..(m - 1)
      BY <1>1, <2>1, <2>5
    <3>2. \A k \in (n + 1)..(Len(q) - 1) : IsEnd(q[k])
      BY <1>1, <2>2, <2>5
    <3>3. Follows(q[Len(q)], q[n])
      BY <2>1, <3>1, <3>2 DEF LinesFollow
    <3>4. IsEnd(q[Len(q)]) /\ Known(q[Len(q)]) /\ Known(q[n])
      BY <2>1, <2>2, <3>1
    <3>. QED
      BY <1>1, <2>1, <2>5, <3>3, <3>4, EndGoesOn
  <2>. QED
    BY <1>1, <2>1, <2>3, <2>4, <2>5
<1>4. ASSUME NEW x, Known(x), Continues(q, x) PROVE Continues(r, x)
  <2>. SUFFICES ASSUME NEW m \in 1..Len(r), \A k \in 1..(m - 1) : IsEnd(r[k])
                PROVE  Follows(r[m], x)
    BY DEF Continues
  <2>1. \A k \in 1..(m - 1) : k \in 1..Len(q) /\ r[k] = q[k] /\ IsEnd(q[k])
    BY <1>1
  <2>2. CASE m \in 1..Len(q)
    BY <1>1, <1>4, <2>1, <2>2 DEF Continues
  <2>3. CASE m = Len(q) + 1
    <3>1. Len(q) \in 1..(m - 1) /\ Len(q) \in 1..Len(q) /\ \A k \in 1..(Len(q) - 1) : k \in 1..(m - 1)
      BY <1>1, <2>3
    <3>2. Follows(q[Len(q)], x) /\ IsEnd(q[Len(q)]) /\ Known(q[Len(q)])
      BY <1>4, <2>1, <3>1 DEF Continues
    <3>. QED
      BY <1>1, <1>4, <2>3, <3>2, EndGoesOn
  <2>. QED
    BY <1>1, <2>2, <2>3
<1>. QED
  BY <1>2, <1>3, <1>4

\* A line and the markers before it are taken away.
LEMMA TakenFollows ==
    ASSUME NEW q, NEW r, NEW n \in Nat, Len(q) \in Nat, Len(r) \in Nat, Len(q) = Len(r) + n,
           \A k \in 1..Len(r) : r[k] = q[k + n]
    PROVE  /\ InSteps(q) => InSteps(r)
           /\ LinesFollow(q) => LinesFollow(r)
           /\ LinesFollow(q) /\ n # 0 /\ ~IsEnd(q[n]) => Continues(r, q[n])
           /\ \A x : Continues(q, x) /\ (\A k \in 1..n : IsEnd(q[k])) => Continues(r, x)
<1>1. ASSUME InSteps(q) PROVE InSteps(r)
  <2>. SUFFICES ASSUME NEW k \in 1..(Len(r) - 1) PROVE r[k + 1] = Succ(r[k])
    BY DEF InSteps
  <2>1. k \in 1..Len(r) /\ k + 1 \in 1..Len(r) /\ k + n \in 1..(Len(q) - 1) /\ (k + n) + 1 = (k + 1) + n
    OBVIOUS
  <2>2. q[(k + n) + 1] = Succ(q[k + n])
    BY <1>1, <2>1 DEF InSteps
  <2>. QED
    BY <2>1, <2>2
<1>2. ASSUME LinesFollow(q) PROVE LinesFollow(r)
  <2>. SUFFICES ASSUME NEW m \in 1..Len(r), NEW l \in 1..(m - 1), ~IsEnd(r[l]),
                       \A k \in (l + 1)..(m - 1) : IsEnd(r[k])
                PROVE  Follows(r[m], r[l])
    BY DEF LinesFollow
  <2>1. /\ m + n \in 1..Len(q) /\ l + n \in 1..((m + n) - 1) /\ l \in 1..Len(r)
        /\ r[m] = q[m + n] /\ r[l] = q[l + n]
    OBVIOUS
  <2>2. ASSUME NEW k \in ((l + n) + 1)..((m + n) - 1) PROVE IsEnd(q[k])
    <3>1. k - n \in (l + 1)..(m - 1) /\ k - n \in 1..Len(r) /\ (k - n) + n = k
      OBVIOUS
    <3>2. r[k - n] = q[(k - n) + n]
      BY <3>1
    <3>. QED
      BY <3>1, <3>2
  <2>. QED
    BY <1>2, <2>1, <2>2 DEF LinesFollow
<1>3. ASSUME LinesFollow(q), n # 0, ~IsEnd(q[n]) PROVE Continues(r, q[n])
  <2>. SUFFICES ASSUME NEW m \in 1..Len(r), \A k \in 1..(m - 1) : IsEnd(r[k])
                PROVE  Follows(r[m], q[n])
    BY DEF Continues
  <2>1. m + n \in 1..Len(q) /\ n \in 1..((m + n) - 1) /\ r[m] = q[m + n]
    BY <1>3
  <2>2. ASSUME NEW k \in (n + 1)..((m + n) - 1) PROVE IsEnd(q[k])
    <3>1. k - n \in 1..(m - 1) /\ k - n \in 1..Len(r) /\ (k - n) + n = k
      OBVIOUS
    <3>2. r[k - n] = q[(k - n) + n]
      BY <3>1
    <3>. QED
      BY <3>1, <3>2
  <2>. QED
    BY <1>3, <2>1, <2>2 DEF LinesFollow
<1>4. ASSUME NEW x, Continues(q, x), \A k \in 1..n : IsEnd(q[k]) PROVE Continues(r, x)
  <2>. SUFFICES ASSUME NEW m \in 1..Len(r), \A k \in 1..(m - 1) : IsEnd(r[k])
                PROVE  Follows(r[m], x)
    BY DEF Continues
  <2>1. m + n \in 1..Len(q) /\ r[m] = q[m + n]
    OBVIOUS
  <2>2. ASSUME NEW k \in 1..((m + n) - 1) PROVE IsEnd(q[k])
    <3>1. CASE k \in 1..n
      BY <1>4, <3>1
    <3>2. CASE k \in (n + 1)..((m + n) - 1)
      <4>1. k - n \in 1..(m - 1) /\ k - n \in 1..Len(r) /\ (k - n) + n = k
        BY <3>2
      <4>2. r[k - n] = q[(k - n) + n]
        BY <4>1
      <4>. QED
        BY <4>1, <4>2
    <3>. QED
      BY <3>1, <3>2
  <2>. QED
    BY <1>4, <2>1, <2>2 DEF Continues
<1>. QED
  BY <1>1, <1>2, <1>3, <1>4

LEMMA AheadPieces ==
    ASSUME ShellTypes, AllKnown, StdinOrder
    PROVE  /\ buf \o stdout \in Seq(Pieces) /\ Len(buf \o stdout) = Len(buf) + Len(stdout)
           /\ Len(buf) \in Nat /\ Len(stdout) \in Nat /\ Len(asked) \in Nat /\ NextOut \in Pieces
           /\ Ahead \in Seq(Pieces) /\ Len(Ahead) = Len(buf) + Len(stdout) + 1
           /\ Ahead[Len(Ahead)] = NextOut /\ NextOut.cmd \in 1..(Len(asked) + 1)
           /\ \A k \in 1..(Len(Ahead) - 1) : Known(Ahead[k])
           /\ \A k \in 1..Len(buf) : Ahead[k] = buf[k]
<1>1. /\ buf \o stdout \in Seq(Pieces) /\ Len(buf \o stdout) = Len(buf) + Len(stdout)
      /\ Len(buf) \in Nat /\ Len(stdout) \in Nat /\ Len(asked) \in Nat
  BY ConcatProperties, LenProperties DEF ShellTypes
<1>2. NextOut \in Pieces /\ NextOut.cmd \in 1..(Len(asked) + 1)
  <2>1. CASE stdin = <<>>
    BY <1>1, <2>1 DEF NextOut, Pieces, Piece
  <2>2. CASE stdin # <<>>
    BY <1>1, <2>2 DEF NextOut, StdinOrder, Known, ShellTypes
  <2>. QED
    BY <2>1, <2>2
<1>3. /\ Ahead \in Seq(Pieces) /\ Len(Ahead) = Len(buf) + Len(stdout) + 1
      /\ Ahead[Len(Ahead)] = NextOut
      /\ \A k \in 1..(Len(Ahead) - 1) : Ahead[k] = (buf \o stdout)[k]
  BY <1>1, <1>2, AppendProperties DEF Ahead
<1>4. /\ \A k \in 1..Len(buf) : (buf \o stdout)[k] = buf[k]
      /\ \A k \in (Len(buf) + 1)..(Len(buf) + Len(stdout)) :
            (buf \o stdout)[k] = stdout[k - Len(buf)]
  BY ConcatProperties, <1>1 DEF ShellTypes
<1>5. ASSUME NEW k \in 1..(Len(Ahead) - 1) PROVE Known(Ahead[k])
  <2>1. CASE k \in 1..Len(buf)
    <3>1. k \in DOMAIN buf
      BY <1>1, <2>1, LenProperties DEF ShellTypes
    <3>. QED
      BY <1>3, <1>4, <2>1, <3>1 DEF AllKnown
  <2>2. CASE k \in (Len(buf) + 1)..(Len(buf) + Len(stdout))
    <3>1. k - Len(buf) \in 1..Len(stdout)
      BY <1>1, <2>2
    <3>2. k - Len(buf) \in DOMAIN stdout
      BY <3>1, LenProperties DEF ShellTypes
    <3>. QED
      BY <1>3, <1>4, <2>2, <3>2 DEF AllKnown
  <2>. QED
    BY <1>1, <1>3, <2>1, <2>2
<1>. QED
  BY <1>1, <1>2, <1>3, <1>4, <1>5, SMTT(30)

\* What a call has read changes with the last call only.
LEMMA HeardStays ==
    ASSUME ShellTypes, UNCHANGED <<asked, answer>>, Len(replies') = Len(replies), DOMAIN replies' = DOMAIN replies,
           HeardInOrder, asked # <<>>,
           \A c \in 1..(Len(asked) - 1) : Heard(c)' = Heard(c),
           \A i \in 2..Len(Heard(Len(asked))') : Follows(Heard(Len(asked))'[i], Heard(Len(asked))'[i - 1]),
           Heard(Len(asked))' # <<>> =>
              \A c \in 1..(Len(asked) - 1) :
                 Heard(c) # <<>> /\ (\A e \in (c + 1)..(Len(asked) - 1) : Heard(e) = <<>>)
                     => Follows(Heard(Len(asked))'[1], LastOf(Heard(c)))
    PROVE  HeardInOrder'
<1>. DEFINE N == Len(asked)
<1>1. N \in Nat \ {0} /\ DOMAIN replies = 1..N /\ DOMAIN replies' = 1..N
  BY LenProperties, EmptySeq DEF ShellTypes
<1>2. \A y, x : Follows(y, x)' <=> Follows(y, x)
  BY DEF Follows
<1>3. ASSUME NEW c \in 1..N, NEW i \in 2..Len(Heard(c)')
      PROVE  Follows(Heard(c)'[i], Heard(c)'[i - 1])
  <2>1. CASE c \in 1..(N - 1)
    BY <1>1, <1>3, <2>1 DEF HeardInOrder
  <2>2. CASE c = N
    BY <1>3, <2>2
  <2>. QED
    BY <1>1, <2>1, <2>2
<1>4. ASSUME NEW c \in 1..N, NEW d \in 1..N, c < d, Heard(c)' # <<>>, Heard(d)' # <<>>,
             \A e \in (c + 1)..(d - 1) : Heard(e)' = <<>>
      PROVE  Follows(Heard(d)'[1], LastOf(Heard(c)'))
  <2>1. c \in 1..(N - 1) /\ \A e \in (c + 1)..(d - 1) : e \in 1..(N - 1)
    BY <1>1, <1>4
  <2>2. Heard(c) # <<>> /\ Heard(c)' = Heard(c) /\ \A e \in (c + 1)..(d - 1) : Heard(e) = <<>>
    BY <1>4, <2>1
  <2>3. CASE d \in 1..(N - 1)
    BY <1>1, <1>4, <2>1, <2>2, <2>3 DEF HeardInOrder
  <2>4. CASE d = N
    BY <1>4, <2>1, <2>2, <2>4
  <2>. QED
    BY <1>1, <2>3, <2>4
<1>5. (\A q : LastOf(q)' = LastOf(q))
  BY DEF LastOf
<1>. QED
  BY <1>1, <1>2, <1>3, <1>4 DEF HeardInOrder, LastOf

\* What is ahead moves on, while the answers stay.
LEMMA AheadStays ==
    ASSUME UNCHANGED answer
    PROVE  /\ InSteps(Ahead') => InSteps(Ahead)'
           /\ LinesFollow(Ahead') => LinesFollow(Ahead)'
           /\ \A x : Continues(Ahead', x) => Continues(Ahead, x)'
<1>1. InSteps(Ahead') => InSteps(Ahead)'
  BY DEF InSteps, Succ, IsEnd
<1>2. LinesFollow(Ahead') => LinesFollow(Ahead)'
  BY DEF LinesFollow, IsEnd, Follows
<1>3. \A x : Continues(Ahead', x) => Continues(Ahead, x)'
  BY DEF Continues, IsEnd, Follows
<1>. QED
  BY <1>1, <1>2, <1>3

\* What was heard last is a piece of the process.
LEMMA LastKnown ==
    ASSUME ShellTypes, AllKnown, NEW c \in DOMAIN replies, Heard(c) # <<>>
    PROVE  Known(LastOf(Heard(c)))
<1>1. replies[c] \in Seq(Pieces) /\ lines \in Seq(Pieces)
  BY LenProperties, ElementOfSeq DEF ShellTypes
<1>2. CASE Heard(c) = lines
  <2>1. Len(lines) \in DOMAIN lines
    BY <1>1, <1>2, EmptySeq, LenProperties
  <2>. QED
    BY <1>2, <2>1 DEF AllKnown, LastOf
<1>3. CASE Heard(c) = replies[c]
  <2>1. Len(replies[c]) \in DOMAIN replies[c]
    BY <1>1, <1>3, EmptySeq, LenProperties
  <2>. QED
    BY <1>3, <2>1 DEF AllKnown, LastOf
<1>. QED
  BY <1>2, <1>3 DEF Heard

LEMMA ShellExits == ASSUME ShellInv, ProcessExits \/ ShellClose \/ UNCHANGED shellVars PROVE ShellInv'
<1>1. /\ UNCHANGED <<asked, answer, stdin, stdout, buf, lines, replies>>
      /\ alive' \in {alive, FALSE}
      /\ shPc' \in {shPc, "gone"} /\ (shPc' = "reading" <=> shPc = "reading")
      /\ (shPc' = "idle" => shPc = "idle")
  BY DEF ProcessExits, ShellClose, shellVars
<1>2. ShellTypes'
  BY <1>1 DEF ShellInv, ShellTypes
<1>3. AllKnown' /\ StdinOrder'
  BY <1>1 DEF ShellInv, AllKnown, StdinOrder, Known
<1>4. Ahead' = Ahead
  BY <1>1 DEF Ahead, NextOut
<1>5. \A c : Heard(c)' = Heard(c)
  BY <1>1 DEF Heard
<1>6. AheadFollows'
  <2>1. Connected' => Connected
    BY <1>1 DEF Connected
  <2>2. ASSUME Connected' PROVE InSteps(Ahead)' /\ LinesFollow(Ahead)'
    BY <1>1, <1>4, <2>1, <2>2, AheadStays DEF ShellInv, AheadFollows
  <2>3. ASSUME Connected', NEW c \in DOMAIN replies, Heard(c)' # <<>>,
               \A d \in (c + 1)..Len(replies) : Heard(d)' = <<>>
        PROVE  Continues(Ahead, LastOf(Heard(c)))'
    <3>1. Continues(Ahead, LastOf(Heard(c)))
      BY <1>5, <2>1, <2>3 DEF ShellInv, AheadFollows
    <3>2. LastOf(Heard(c))' = LastOf(Heard(c))
      BY <1>5 DEF LastOf
    <3>. QED
      BY <1>1, <1>4, <3>1, <3>2 DEF Continues, IsEnd, Follows
  <2>. QED
    BY <1>1, <2>2, <2>3 DEF AheadFollows
<1>7. OwnAhead'
  BY <1>1, <1>4 DEF ShellInv, OwnAhead
<1>8. HeardInOrder'
  BY <1>1, <1>5 DEF ShellInv, HeardInOrder, Follows, LastOf
<1>9. AnswersWhole'
  BY <1>1 DEF ShellInv, AnswersWhole, LastOf
<1>. QED
  BY <1>2, <1>3, <1>6, <1>7, <1>8, <1>9 DEF ShellInv

LEMMA RestLength ==
    ASSUME NEW l \in Nat, NEW n \in 0..l
    PROVE  l - (n + 1) + 1 = l - n /\ (IF n + 1 <= l THEN l - (n + 1) + 1 ELSE 0) = l - n
OBVIOUS

LEMMA RestOf ==
    ASSUME NEW S, NEW q \in Seq(S), NEW n \in 0..Len(q), NEW r, r = SubSeq(q, n + 1, Len(q))
    PROVE  r \in Seq(S) /\ Len(r) = Len(q) - n /\ \A k \in 1..(Len(q) - n) : r[k] = q[k + n]
<1>1. Len(q) \in Nat
  BY LenProperties
<1>2. n + 1 \in Int /\ Len(q) \in Int /\ \A i \in (n + 1)..Len(q) : q[i] \in S
  BY <1>1, ElementOfSeq
<1>3. /\ r \in Seq(S) /\ Len(r) = IF n + 1 <= Len(q) THEN Len(q) - (n + 1) + 1 ELSE 0
      /\ \A k \in 1..(Len(q) - (n + 1) + 1) : r[k] = q[(n + 1) + k - 1]
  BY <1>2, SubSeqProperties
<1>4. /\ Len(q) - (n + 1) + 1 = Len(q) - n
      /\ (IF n + 1 <= Len(q) THEN Len(q) - (n + 1) + 1 ELSE 0) = Len(q) - n
  BY <1>1, RestLength
<1>5. \A k \in 1..(Len(q) - n) : (n + 1) + k - 1 = k + n
  BY <1>1
<1>6. Len(r) = Len(q) - n
  BY <1>3, <1>4, Zenon
<1>. QED
  BY <1>3, <1>4, <1>5, <1>6

\* A sequence in two parts.
Parts(o, s, t) ==
    /\ Len(s) + Len(t) = Len(o)
    /\ \A k \in 1..Len(s) : s[k] = o[k]
    /\ \A k \in 1..Len(t) : t[k] = o[k + Len(s)]

LEMMA PartsMove ==
    ASSUME NEW S, NEW b \in Seq(S), NEW o \in Seq(S), NEW s \in Seq(S), NEW t \in Seq(S),
           Parts(o, s, t)
    PROVE  (b \o s) \o t = b \o o
<1>. DEFINE c == b \o s
            u == c \o t
            v == b \o o
<1>1. Len(b) \in Nat /\ Len(o) \in Nat /\ Len(s) \in Nat /\ Len(t) \in Nat
  BY LenProperties
<1>2. Len(o) = Len(s) + Len(t)
  BY DEF Parts
<1>3. c \in Seq(S) /\ Len(c) = Len(b) + Len(s)
  BY ConcatProperties
<1>4. \A k \in 1..(Len(b) + Len(s)) : c[k] = IF k <= Len(b) THEN b[k] ELSE s[k - Len(b)]
  BY ConcatProperties
<1>5. v \in Seq(S) /\ Len(v) = Len(b) + Len(o)
  BY ConcatProperties
<1>6. \A k \in 1..(Len(b) + Len(o)) : v[k] = IF k <= Len(b) THEN b[k] ELSE o[k - Len(b)]
  BY ConcatProperties
<1>. HIDE DEF c, v
<1>7. u \in Seq(S) /\ Len(u) = Len(c) + Len(t)
  BY <1>3, ConcatProperties
<1>8. \A k \in 1..(Len(c) + Len(t)) : u[k] = IF k <= Len(c) THEN c[k] ELSE t[k - Len(c)]
  BY <1>3, ConcatProperties
<1>. HIDE DEF u
<1>9. Len(c) + Len(t) = Len(b) + Len(o)
  BY <1>1, <1>2, <1>3
<1>10. ASSUME NEW k \in 1..(Len(b) + Len(o)) PROVE u[k] = v[k]
  <2>1. u[k] = IF k <= Len(c) THEN c[k] ELSE t[k - Len(c)]
    BY <1>8, <1>9
  <2>2. v[k] = IF k <= Len(b) THEN b[k] ELSE o[k - Len(b)]
    BY <1>6
  <2>3. CASE k <= Len(b)
    <3>1. k <= Len(c) /\ k \in 1..(Len(b) + Len(s))
      BY <1>1, <1>3, <2>3
    <3>. QED
      BY <1>4, <2>1, <2>2, <2>3, <3>1
  <2>4. CASE k > Len(b) /\ k <= Len(c)
    <3>1. k - Len(b) \in 1..Len(s) /\ k \in 1..(Len(b) + Len(s)) /\ ~(k <= Len(b))
      BY <1>1, <1>3, <2>4
    <3>2. u[k] = s[k - Len(b)]
      BY <1>4, <2>1, <2>4, <3>1
    <3>. QED
      BY <2>2, <3>1, <3>2 DEF Parts
  <2>5. CASE k > Len(c)
    <3>1. /\ k - Len(c) \in 1..Len(t) /\ (k - Len(c)) + Len(s) = k - Len(b)
          /\ ~(k <= Len(c)) /\ ~(k <= Len(b))
      BY <1>1, <1>2, <1>3, <2>5
    <3>. QED
      BY <2>1, <2>2, <3>1 DEF Parts
  <2>6. k <= Len(b) \/ (k > Len(b) /\ k <= Len(c)) \/ k > Len(c)
    BY <1>1, <1>3
  <2>. QED
    BY <2>3, <2>4, <2>5, <2>6, Zenon
<1>11. u = v
  BY <1>5, <1>7, <1>9, <1>10, SeqEqual
<1>. QED
  BY <1>11, Zenon DEF u, v, c

\* A piece that is read was in the pipe.
LEMMA JoinOf ==
    ASSUME NEW S, NEW b \in Seq(S), NEW s \in Seq(S), NEW k \in DOMAIN (b \o s)
    PROVE  \/ k \in DOMAIN b /\ (b \o s)[k] = b[k]
           \/ k - Len(b) \in DOMAIN s /\ (b \o s)[k] = s[k - Len(b)]
<1>1. /\ Len(b) \in Nat /\ Len(s) \in Nat /\ DOMAIN b = 1..Len(b) /\ DOMAIN s = 1..Len(s)
  BY LenProperties
<1>2. /\ b \o s \in Seq(S) /\ Len(b \o s) = Len(b) + Len(s)
      /\ \A i \in 1..(Len(b) + Len(s)) : (b \o s)[i] = IF i <= Len(b) THEN b[i] ELSE s[i - Len(b)]
  BY ConcatProperties
<1>3. k \in 1..(Len(b) + Len(s))
  BY <1>2, LenProperties
<1>. QED
  BY <1>1, <1>2, <1>3

LEMMA ShellReads == ASSUME ShellInv, ScanReads PROVE ShellInv'
<1>1. /\ UNCHANGED <<shPc, asked, answer, stdin, alive, lines, replies>> /\ shPc = "reading"
  BY DEF ScanReads
<1>2. PICK n \in 1..Len(stdout) :
        buf' = buf \o SubSeq(stdout, 1, n) /\ stdout' = SubSeq(stdout, n + 1, Len(stdout))
  BY DEF ScanReads
<1>3. buf \in Seq(Pieces) /\ stdout \in Seq(Pieces)
  BY DEF ShellInv, ShellTypes
<1>. DEFINE s == SubSeq(stdout, 1, n)
<1>4. /\ s \in Seq(Pieces) /\ Len(s) = n /\ \A k \in 1..n : s[k] = stdout[k]
      /\ stdout' \in Seq(Pieces) /\ Len(stdout') = Len(stdout) - n
      /\ \A k \in 1..(Len(stdout) - n) : stdout'[k] = stdout[k + n]
      /\ Len(stdout) \in Nat /\ DOMAIN stdout = 1..Len(stdout)
      /\ DOMAIN s = 1..n /\ DOMAIN stdout' = 1..(Len(stdout) - n)
  <2>1. Len(stdout) \in Nat /\ n \in 0..Len(stdout) /\ DOMAIN stdout = 1..Len(stdout)
    BY <1>3, LenProperties
  <2>2. s \in Seq(Pieces) /\ Len(s) = n /\ \A k \in 1..n : s[k] = stdout[k]
    BY <1>3, <2>1, SubSeqProperties
  <2>3. /\ stdout' \in Seq(Pieces) /\ Len(stdout') = Len(stdout) - n
        /\ \A k \in 1..(Len(stdout) - n) : stdout'[k] = stdout[k + n]
    <3>1. stdout' = SubSeq(stdout, n + 1, Len(stdout))
      BY <1>2
    <3>2. stdout \in Seq(Pieces) /\ n \in 0..Len(stdout)
      BY <1>3, <2>1
    <3>. HIDE DEF s
    <3>. QED
      BY <3>1, <3>2, RestOf
  <2>4. DOMAIN s = 1..n
    <3>1. s \in Seq(Pieces) /\ Len(s) = n
      BY <2>2
    <3>. HIDE DEF s
    <3>. QED
      BY <3>1, LenProperties
  <2>5. DOMAIN stdout' = 1..(Len(stdout) - n)
    BY <2>3, LenProperties
  <2>. QED
    BY <2>1, <2>2, <2>3, <2>4, <2>5, Zenon
<1>4a. buf' = buf \o s
  BY <1>2
<1>. HIDE DEF s
<1>4b. buf' \in Seq(Pieces) /\ buf' \o stdout' = buf \o stdout
  <2>1. buf \o s \in Seq(Pieces)
    BY <1>3, <1>4, ConcatProperties
  <2>2. Parts(stdout, s, stdout')
    BY <1>4 DEF Parts
  <2>3. (buf \o s) \o stdout' = buf \o stdout
    <3>1. s \in Seq(Pieces) /\ stdout' \in Seq(Pieces)
      BY <1>4
    <3>. QED
      BY <1>3, <2>2, <3>1, PartsMove, SMTT(30)
  <2>. QED
    BY <1>4a, <2>1, <2>3
<1>5. ShellTypes'
  BY <1>1, <1>4, <1>4b DEF ShellInv, ShellTypes
<1>6. \A x : Known(x)' <=> Known(x)
  BY <1>1 DEF Known
<1>7. AllKnown'
  <2>1. ASSUME NEW k \in DOMAIN buf' PROVE Known(buf'[k])
    <3>1. \/ k \in DOMAIN buf /\ buf'[k] = buf[k]
          \/ k - Len(buf) \in DOMAIN s /\ buf'[k] = s[k - Len(buf)]
      BY <1>3, <1>4, <1>4a, JoinOf
    <3>2. \A i \in DOMAIN s : i \in DOMAIN stdout /\ s[i] = stdout[i]
      BY <1>4
    <3>. QED
      BY <3>1, <3>2 DEF ShellInv, AllKnown
  <2>2. ASSUME NEW k \in DOMAIN stdout' PROVE Known(stdout'[k])
    <3>1. k + n \in DOMAIN stdout /\ stdout'[k] = stdout[k + n]
      BY <1>4
    <3>. QED
      BY <3>1 DEF ShellInv, AllKnown
  <2>. QED
    BY <1>1, <2>1, <2>2 DEF ShellInv, AllKnown, Known
<1>8. StdinOrder'
  BY <1>1 DEF ShellInv, StdinOrder, Known
<1>9. Ahead' = Ahead
  BY <1>1, <1>4b DEF Ahead, NextOut
<1>10. \A c : Heard(c)' = Heard(c)
  BY <1>1 DEF Heard
<1>11. AheadFollows'
  <2>1. InSteps(Ahead)' /\ LinesFollow(Ahead)'
    BY <1>1, <1>9, AheadStays DEF ShellInv, AheadFollows, Connected
  <2>2. ASSUME NEW c \in DOMAIN replies, Heard(c)' # <<>>,
               \A d \in (c + 1)..Len(replies) : Heard(d)' = <<>>
        PROVE  Continues(Ahead, LastOf(Heard(c)))'
    <3>1. Continues(Ahead, LastOf(Heard(c)))
      BY <1>1, <1>10, <2>2 DEF ShellInv, AheadFollows, Connected
    <3>2. LastOf(Heard(c))' = LastOf(Heard(c))
      BY <1>10 DEF LastOf
    <3>. QED
      BY <1>1, <1>9, <3>1, <3>2 DEF Continues, IsEnd, Follows
  <2>. QED
    BY <1>1, <2>1, <2>2 DEF AheadFollows
<1>12. OwnAhead'
  BY <1>1, <1>9 DEF ShellInv, OwnAhead
<1>13. HeardInOrder'
  BY <1>1, <1>10 DEF ShellInv, HeardInOrder, Follows, LastOf
<1>14. AnswersWhole'
  BY <1>1 DEF ShellInv, AnswersWhole, LastOf
<1>. QED
  BY <1>5, <1>7, <1>8, <1>11, <1>12, <1>13, <1>14 DEF ShellInv

LEMMA ShellWrites == ASSUME ShellInv, ProcessWrites PROVE ShellInv'
<1>1. /\ UNCHANGED <<shPc, asked, answer, alive, buf, lines, replies>>
      /\ stdin # <<>> /\ stdout' = Append(stdout, Head(stdin))
      /\ stdin' = IF IsEnd(Head(stdin)) THEN Tail(stdin) ELSE [stdin EXCEPT ![1].line = @ + 1]
  BY DEF ProcessWrites
<1>2. /\ buf \in Seq(Pieces) /\ stdout \in Seq(Pieces) /\ stdin \in Seq(Pieces)
      /\ Len(asked) \in Nat /\ Len(answer) = Len(asked) /\ Len(stdin) \in Nat \ {0}
      /\ \A c \in 1..Len(asked) : Len(answer[c]) \in Nat
  <2>1. /\ buf \in Seq(Pieces) /\ stdout \in Seq(Pieces) /\ stdin \in Seq(Pieces)
        /\ Len(asked) \in Nat /\ Len(answer) = Len(asked) /\ Len(stdin) \in Nat \ {0}
    BY <1>1, LenProperties, EmptySeq DEF ShellInv, ShellTypes
  <2>2. ASSUME NEW c \in 1..Len(asked) PROVE Len(answer[c]) \in Nat
    <3>1. answer[c] \in Answers
      BY <2>1, ElementOfSeq DEF ShellInv, ShellTypes
    <3>. QED
      BY <3>1, ShellConstants, LenProperties
  <2>. QED
    BY <2>1, <2>2
<1>3. /\ Head(stdin) = stdin[1] /\ NextOut = stdin[1] /\ Known(stdin[1])
      /\ stdin[1].cmd + Len(stdin) = Len(asked) + 1
      /\ \A k \in 2..Len(stdin) : stdin[k] = Piece(stdin[1].cmd + k - 1, 1)
  BY <1>1 DEF ShellInv, StdinOrder, NextOut
<1>4. /\ stdin[1] \in Pieces /\ stdin[1].cmd \in 1..Len(asked)
      /\ stdin[1].line \in 1..(Len(answer[stdin[1].cmd]) + 1)
  BY <1>2, <1>3 DEF Known
<1>5. /\ stdin' \in Seq(Pieces) /\ StdinOrder' /\ NextOut' = Succ(stdin[1])
  <2>1. CASE IsEnd(stdin[1])
    <3>1. /\ stdin' \in Seq(Pieces) /\ Len(stdin') = Len(stdin) - 1
          /\ \A k \in 1..(Len(stdin) - 1) : stdin'[k] = stdin[k + 1]
      BY <1>1, <1>2, <1>3, <2>1, HeadTailProperties
    <3>2. ASSUME stdin' # <<>>
          PROVE  /\ Len(stdin) >= 2 /\ stdin'[1] = Piece(stdin[1].cmd + 1, 1)
                 /\ stdin[1].cmd + 1 \in 1..Len(asked)
      <4>1. Len(stdin') \in Nat \ {0}
        BY <3>1, <3>2, EmptySeq
      <4>2. Len(stdin) >= 2 /\ 1 \in 1..(Len(stdin) - 1) /\ 2 \in 2..Len(stdin)
        BY <1>2, <3>1, <4>1
      <4>3. stdin'[1] = stdin[2] /\ stdin[2] = Piece(stdin[1].cmd + 2 - 1, 1)
        BY <1>3, <3>1, <4>2
      <4>4. stdin[1].cmd + 2 - 1 = stdin[1].cmd + 1
        BY <1>4
      <4>. QED
        BY <1>2, <1>3, <1>4, <4>2, <4>3, <4>4, SMTT(30)
    <3>3. ASSUME stdin' # <<>>, NEW k \in 2..Len(stdin')
          PROVE  stdin'[k] = Piece(stdin'[1].cmd + k - 1, 1)
      <4>1. k \in 1..(Len(stdin) - 1) /\ k + 1 \in 2..Len(stdin)
        BY <1>2, <3>1, <3>3
      <4>2. stdin'[k] = Piece(stdin[1].cmd + (k + 1) - 1, 1)
        BY <1>3, <3>1, <4>1
      <4>3. stdin'[1].cmd = stdin[1].cmd + 1
        BY <3>2, <3>3 DEF Piece
      <4>4. stdin[1].cmd + (k + 1) - 1 = stdin'[1].cmd + k - 1
        BY <1>4, <4>3
      <4>. QED
        BY <4>2, <4>4
    <3>4. StdinOrder'
      <4>. SUFFICES ASSUME stdin' # <<>>
                    PROVE  Known(stdin[1])' /\ stdin'[1].cmd + Len(stdin') = Len(asked') + 1
        BY <3>3 DEF StdinOrder
      <4>1. Known(stdin[1])'
        <5>1. answer' = answer /\ stdin'[1].cmd = stdin[1].cmd + 1 /\ stdin'[1].line = 1
          BY <1>1, <3>2 DEF Piece
        <5>2. stdin'[1] \in Pieces /\ stdin'[1].cmd \in 1..Len(answer)
          BY <1>2, <3>2, <5>1, SMTT(30) DEF Pieces, Piece
        <5>3. Len(answer[stdin'[1].cmd]) \in Nat
          BY <1>2, <5>2
        <5>. QED
          BY <5>1, <5>2, <5>3 DEF Known
      <4>2. stdin'[1].cmd = stdin[1].cmd + 1 /\ Len(asked') = Len(asked)
        BY <1>1, <3>2 DEF Piece
      <4>3. stdin'[1].cmd + Len(stdin') = Len(asked') + 1
        BY <1>2, <1>3, <1>4, <3>1, <4>2
      <4>. QED
        BY <4>1, <4>3
    <3>5. NextOut' = Piece(stdin[1].cmd + 1, 1)
      <4>1. CASE stdin' # <<>>
        BY <3>2, <4>1 DEF NextOut
      <4>2. CASE stdin' = <<>>
        <5>1. Len(stdin) = 1
          BY <1>2, <3>1, <4>2
        <5>2. stdin[1].cmd = Len(asked)
          BY <1>2, <1>3, <1>4, <5>1
        <5>. QED
          BY <1>1, <4>2, <5>2 DEF NextOut
      <4>. QED
        BY <4>1, <4>2
    <3>. QED
      BY <2>1, <3>1, <3>4, <3>5 DEF Succ
  <2>2. CASE ~IsEnd(stdin[1])
    <3>1. /\ 1 \in DOMAIN stdin /\ DOMAIN stdin = 1..Len(stdin)
          /\ stdin' = [stdin EXCEPT ![1].line = @ + 1]
      BY <1>1, <1>2, <1>3, <2>2, LenProperties
    <3>2. /\ Len(stdin') = Len(stdin) /\ DOMAIN stdin' = DOMAIN stdin
          /\ \A k \in 2..Len(stdin) : stdin'[k] = stdin[k]
          /\ stdin'[1] = [stdin[1] EXCEPT !.line = @ + 1]
      BY <1>2, <3>1
    <3>3. stdin'[1] = Piece(stdin[1].cmd, stdin[1].line + 1) /\ stdin'[1] \in Pieces
      BY <1>4, <3>2 DEF Pieces, Piece
    <3>4. stdin' \in Seq(Pieces)
      BY <1>2, <3>1, <3>2, <3>3
    <3>5. stdin' # <<>>
      BY <1>2, <3>2
    <3>6. Len(answer[stdin[1].cmd]) \in Nat /\ stdin[1].line # Len(answer[stdin[1].cmd]) + 1
      BY <1>2, <1>4, <2>2 DEF IsEnd
    <3>7. Known(stdin[1])'
      <4>1. stdin'[1].cmd = stdin[1].cmd /\ stdin'[1].line = stdin[1].line + 1
        BY <3>3 DEF Piece
      <4>2. stdin'[1].line \in 1..(Len(answer[stdin[1].cmd]) + 1)
        BY <1>4, <3>6, <4>1
      <4>. QED
        BY <1>1, <1>2, <1>4, <3>3, <4>1, <4>2 DEF Known
    <3>8. StdinOrder'
      BY <1>1, <1>3, <3>2, <3>3, <3>7 DEF StdinOrder, Piece
    <3>. QED
      BY <2>2, <3>3, <3>4, <3>5, <3>8 DEF NextOut, Succ
  <2>. QED
    BY <2>1, <2>2
<1>6. /\ stdout' \in Seq(Pieces) /\ Len(stdout') = Len(stdout) + 1 /\ Len(stdout) \in Nat
      /\ \A k \in 1..Len(stdout) : stdout'[k] = stdout[k]
      /\ stdout'[Len(stdout) + 1] = stdin[1]
  BY <1>1, <1>2, <1>3, <1>4, AppendProperties, LenProperties
<1>7. ShellTypes'
  BY <1>1, <1>5, <1>6 DEF ShellInv, ShellTypes
<1>8. AllKnown'
  <2>1. ASSUME NEW k \in DOMAIN stdout' PROVE Known(stdout'[k])
    <3>1. k \in 1..(Len(stdout) + 1) /\ DOMAIN stdout = 1..Len(stdout)
      BY <1>2, <1>6, LenProperties
    <3>2. CASE k \in 1..Len(stdout)
      BY <1>6, <3>1, <3>2 DEF ShellInv, AllKnown
    <3>3. CASE k = Len(stdout) + 1
      BY <1>3, <1>6, <3>3
    <3>. QED
      BY <1>6, <3>1, <3>2, <3>3
  <2>. QED
    BY <1>1, <2>1 DEF ShellInv, AllKnown, Known
<1>9. \A c : Heard(c)' = Heard(c)
  BY <1>1 DEF Heard
<1>10. Ahead' = Append(Ahead, Succ(Ahead[Len(Ahead)])) /\ Ahead # <<>> /\ Ahead[1] = Ahead'[1]
       /\ Ahead \in Seq(Pieces) /\ \A k \in 1..Len(Ahead) : Known(Ahead[k])
  <2>1. /\ buf \o stdout \in Seq(Pieces) /\ Ahead \in Seq(Pieces)
        /\ Len(Ahead) \in Nat \ {0}
        /\ Ahead[Len(Ahead)] = stdin[1] /\ \A k \in 1..Len(Ahead) : Known(Ahead[k])
    BY <1>3, AheadPieces DEF ShellInv
  <2>2. buf \o Append(stdout, stdin[1]) = Append(buf \o stdout, stdin[1])
    BY <1>2, <1>4, SMTT(30)
  <2>3. Ahead' = Append(Append(buf \o stdout, stdin[1]), Succ(stdin[1]))
    BY <1>1, <1>3, <1>5, <2>2 DEF Ahead
  <2>4. Ahead = Append(buf \o stdout, stdin[1])
    BY <1>3 DEF Ahead
  <2>5. Ahead' = Append(Ahead, Succ(stdin[1]))
    BY <2>3, <2>4
  <2>6. Append(Ahead, Succ(stdin[1]))[1] = Ahead[1]
    BY <2>1, AppendProperties, <1>4 DEF Succ, Pieces, Piece
  <2>. QED
    BY <2>1, <2>5, <2>6
<1>11. AheadFollows'
  <2>. SUFFICES ASSUME Connected PROVE AheadFollows'
    BY <1>1 DEF AheadFollows, Connected
  <2>1. /\ InSteps(Ahead') /\ LinesFollow(Ahead')
        /\ \A x : Known(x) /\ Continues(Ahead, x) => Continues(Ahead', x)
    BY <1>10, WrittenFollows DEF ShellInv, AheadFollows
  <2>2. InSteps(Ahead)' /\ LinesFollow(Ahead)'
    BY <1>1, <2>1, AheadStays
  <2>3. ASSUME NEW c \in DOMAIN replies, Heard(c)' # <<>>,
               \A d \in (c + 1)..Len(replies) : Heard(d)' = <<>>
        PROVE  Continues(Ahead, LastOf(Heard(c)))'
    <3>1. Continues(Ahead, LastOf(Heard(c)))
      BY <1>9, <2>3 DEF ShellInv, AheadFollows
    <3>2. LastOf(Heard(c))' = LastOf(Heard(c))
      BY <1>9 DEF LastOf
    <3>3. Known(LastOf(Heard(c)))
      BY <1>9, <2>3, LastKnown DEF ShellInv
    <3>. QED
      BY <1>1, <2>1, <3>1, <3>2, <3>3, ZenonT(30) DEF Continues, IsEnd, Follows
  <2>. QED
    BY <1>1, <2>2, <2>3 DEF AheadFollows
<1>12. OwnAhead'
  BY <1>1, <1>10 DEF ShellInv, OwnAhead
<1>13. HeardInOrder'
  BY <1>1, <1>9, SMTT(30) DEF ShellInv, HeardInOrder, Follows, LastOf
<1>14. AnswersWhole'
  BY <1>1 DEF ShellInv, AnswersWhole, LastOf
<1>. QED
  BY <1>5, <1>7, <1>8, <1>11, <1>12, <1>13, <1>14 DEF ShellInv

LEMMA ThreeParts ==
    ASSUME NEW S, NEW b \in Seq(S), NEW o \in Seq(S), NEW x \in S,
           NEW q, q = Append(b \o o, x)
    PROVE  /\ q \in Seq(S) /\ Len(q) = Len(b) + Len(o) + 1
           /\ \A k \in 1..Len(b) : q[k] = b[k]
           /\ \A k \in 1..Len(o) : q[k + Len(b)] = o[k]
           /\ q[Len(b) + Len(o) + 1] = x
<1>. DEFINE c == b \o o
<1>1. Len(b) \in Nat /\ Len(o) \in Nat
  BY LenProperties
<1>2. c \in Seq(S) /\ Len(c) = Len(b) + Len(o)
  BY ConcatProperties
<1>3. \A k \in 1..(Len(b) + Len(o)) : c[k] = IF k <= Len(b) THEN b[k] ELSE o[k - Len(b)]
  BY ConcatProperties
<1>4. q = Append(c, x)
  OBVIOUS
<1>. HIDE DEF c
<1>5. /\ q \in Seq(S) /\ Len(q) = Len(b) + Len(o) + 1
      /\ \A k \in 1..(Len(b) + Len(o)) : q[k] = c[k]
      /\ q[Len(b) + Len(o) + 1] = x
  BY <1>2, <1>4, AppendProperties
<1>6. ASSUME NEW k \in 1..Len(b) PROVE q[k] = b[k]
  <2>1. k \in 1..(Len(b) + Len(o)) /\ k <= Len(b)
    BY <1>1
  <2>. QED
    BY <1>3, <1>5, <2>1
<1>7. ASSUME NEW k \in 1..Len(o) PROVE q[k + Len(b)] = o[k]
  <2>1. /\ k + Len(b) \in 1..(Len(b) + Len(o)) /\ ~(k + Len(b) <= Len(b))
        /\ (k + Len(b)) - Len(b) = k
    BY <1>1
  <2>. QED
    BY <1>3, <1>5, <2>1
<1>. QED
  BY <1>5, <1>6, <1>7

\* r is what remains of q without its first n elements.
Remains(r, q, n) == Len(r) = Len(q) - n /\ \A k \in 1..(Len(q) - n) : r[k] = q[k + n]

\* The scanner takes pieces from its buffer.
LEMMA AheadTaken ==
    ASSUME ShellTypes, AllKnown, StdinOrder, UNCHANGED <<asked, answer, stdin, stdout>>,
           NEW n \in 0..Len(buf), buf' \in Seq(Pieces), Remains(buf', buf, n)
    PROVE  /\ \A k \in DOMAIN buf' : Known(buf'[k])
           /\ Len(Ahead) = Len(Ahead') + n /\ Len(Ahead) \in Nat /\ Len(Ahead') \in Nat
           /\ \A k \in 1..Len(Ahead') : Ahead'[k] = Ahead[k + n]
<1>1. /\ buf \in Seq(Pieces) /\ stdout \in Seq(Pieces) /\ Len(buf) \in Nat /\ Len(stdout) \in Nat
      /\ DOMAIN buf = 1..Len(buf)
  BY LenProperties DEF ShellTypes
<1>2. NextOut \in Pieces
  BY AheadPieces
<1>3. /\ buf' \in Seq(Pieces) /\ Len(buf') = Len(buf) - n
      /\ \A k \in 1..(Len(buf) - n) : buf'[k] = buf[k + n]
  BY DEF Remains
<1>4. Ahead = Append(buf \o stdout, NextOut) /\ Ahead' = Append(buf' \o stdout, NextOut)
  BY DEF Ahead, NextOut
<1>5. /\ Len(Ahead) = Len(buf) + Len(stdout) + 1
      /\ \A k \in 1..Len(buf) : Ahead[k] = buf[k]
      /\ \A k \in 1..Len(stdout) : Ahead[k + Len(buf)] = stdout[k]
      /\ Ahead[Len(buf) + Len(stdout) + 1] = NextOut
  BY <1>1, <1>2, <1>4, ThreeParts
<1>6. /\ Len(Ahead') = Len(buf') + Len(stdout) + 1
      /\ \A k \in 1..Len(buf') : Ahead'[k] = buf'[k]
      /\ \A k \in 1..Len(stdout) : Ahead'[k + Len(buf')] = stdout[k]
      /\ Ahead'[Len(buf') + Len(stdout) + 1] = NextOut
  BY <1>1, <1>2, <1>4, ThreeParts
<1>7. Len(Ahead) = Len(Ahead') + n /\ Len(Ahead) \in Nat /\ Len(Ahead') \in Nat /\ Len(buf') \in Nat
  BY <1>1, <1>3, <1>5, <1>6
<1>8. ASSUME NEW k \in 1..Len(Ahead') PROVE Ahead'[k] = Ahead[k + n]
  <2>1. CASE k \in 1..Len(buf')
    <3>1. k + n \in 1..Len(buf) /\ k \in 1..(Len(buf) - n)
      BY <1>1, <1>3, <2>1
    <3>2. Ahead'[k] = buf'[k] /\ buf'[k] = buf[k + n] /\ Ahead[k + n] = buf[k + n]
      BY <1>3, <1>5, <1>6, <2>1, <3>1
    <3>. QED
      BY <3>2
  <2>2. CASE k \in (Len(buf') + 1)..(Len(buf') + Len(stdout))
    <3>. DEFINE i == k - Len(buf')
    <3>1. i \in 1..Len(stdout) /\ i + Len(buf') = k /\ i + Len(buf) = k + n
      BY <1>1, <1>3, <1>7, <2>2
    <3>2. Ahead'[i + Len(buf')] = stdout[i] /\ Ahead[i + Len(buf)] = stdout[i]
      BY <1>5, <1>6, <3>1
    <3>. QED
      BY <3>1, <3>2
  <2>3. CASE k = Len(buf') + Len(stdout) + 1
    <3>1. k + n = Len(buf) + Len(stdout) + 1
      BY <1>1, <1>3, <1>7, <2>3
    <3>. QED
      BY <1>5, <1>6, <2>3, <3>1
  <2>4. k \in 1..(Len(buf') + Len(stdout) + 1)
    BY <1>6
  <2>5. \/ k \in 1..Len(buf') \/ k \in (Len(buf') + 1)..(Len(buf') + Len(stdout))
        \/ k = Len(buf') + Len(stdout) + 1
    BY <1>1, <1>7, <2>4
  <2>. QED
    BY <2>1, <2>2, <2>3, <2>5
<1>9. ASSUME NEW k \in DOMAIN buf' PROVE Known(buf'[k])
  <2>1. k \in 1..(Len(buf) - n)
    BY <1>3, LenProperties
  <2>2. k + n \in DOMAIN buf /\ buf'[k] = buf[k + n]
    BY <1>1, <1>3, <2>1
  <2>. QED
    BY <2>2 DEF AllKnown
<1>. QED
  BY <1>3, <1>7, <1>8, <1>9

LEMMA ShellScans == ASSUME ShellInv, ScanLine PROVE ShellInv'
<1>. DEFINE N == Len(asked)
<1>1. UNCHANGED <<shPc, asked, answer, stdin, stdout, alive, replies>> /\ shPc = "reading"
  BY DEF ScanLine
<1>2. PICK n \in DOMAIN buf :
        /\ ~IsEnd(buf[n]) /\ \A m \in 1..(n - 1) : IsEnd(buf[m])
        /\ lines' = Append(lines, buf[n]) /\ buf' = SubSeq(buf, n + 1, Len(buf))
  BY DEF ScanLine
<1>3. /\ buf \in Seq(Pieces) /\ lines \in Seq(Pieces) /\ Len(lines) \in Nat /\ Len(buf) \in Nat
      /\ n \in 1..Len(buf) /\ n \in 0..Len(buf) /\ n \in Nat \ {0}
      /\ N \in Nat \ {0} /\ DOMAIN replies = 1..N /\ Len(replies) = N /\ Len(answer) = N
      /\ replies[N] = <<>>
  BY <1>1, LenProperties, EmptySeq, SMTT(30) DEF ShellInv, ShellTypes
<1>3a. N \in Nat \ {0}
  BY <1>3
<1>. HIDE DEF N
<1>4. Known(buf[n]) /\ buf[n] \in Pieces
  BY <1>3, <1>2 DEF ShellInv, AllKnown, Known
<1>5. buf' \in Seq(Pieces) /\ Remains(buf', buf, n)
  <2>1. buf' = SubSeq(buf, n + 1, Len(buf))
    BY <1>2
  <2>. QED
    BY <1>3, <2>1, RestOf DEF Remains
<1>6. /\ lines' \in Seq(Pieces) /\ Len(lines') = Len(lines) + 1 /\ lines' # <<>>
      /\ \A i \in 1..Len(lines) : lines'[i] = lines[i]
      /\ lines'[Len(lines) + 1] = buf[n]
  <2>1. lines' = Append(lines, buf[n])
    BY <1>2
  <2>2. /\ lines' \in Seq(Pieces) /\ Len(lines') = Len(lines) + 1
        /\ \A i \in 1..Len(lines) : lines'[i] = lines[i]
        /\ lines'[Len(lines) + 1] = buf[n]
    BY <1>3, <1>4, <2>1, AppendProperties
  <2>3. Len(lines') # 0
    BY <1>3, <2>2
  <2>. QED
    BY <2>2, <2>3, EmptySeq
<1>7. /\ \A k \in DOMAIN buf' : Known(buf'[k])
      /\ Len(Ahead) = Len(Ahead') + n /\ Len(Ahead) \in Nat /\ Len(Ahead') \in Nat
      /\ \A k \in 1..Len(Ahead') : Ahead'[k] = Ahead[k + n]
  BY <1>1, <1>3, <1>5, AheadTaken DEF ShellInv
<1>8. /\ \A k \in 1..Len(buf) : Ahead[k] = buf[k]
      /\ Len(Ahead) = Len(buf) + Len(stdout) + 1 /\ Len(stdout) \in Nat
      /\ \A k \in 1..(Len(Ahead) - 1) : Known(Ahead[k])
  BY AheadPieces DEF ShellInv
<1>9. Ahead[n] = buf[n] /\ \A k \in 1..(n - 1) : IsEnd(Ahead[k])
  <2>1. \A k \in 1..(n - 1) : k \in 1..Len(buf)
    BY <1>3
  <2>. QED
    BY <1>2, <1>3, <1>8, <2>1
<1>10. ShellTypes'
  BY <1>1, <1>5, <1>6 DEF ShellInv, ShellTypes
<1>11. AllKnown'
  <2>1. ASSUME NEW k \in DOMAIN lines' PROVE Known(lines'[k])
    <3>1. k \in 1..(Len(lines) + 1) /\ DOMAIN lines = 1..Len(lines)
      BY <1>3, <1>6, LenProperties
    <3>2. CASE k \in 1..Len(lines)
      BY <1>6, <3>1, <3>2 DEF ShellInv, AllKnown
    <3>3. CASE k = Len(lines) + 1
      BY <1>4, <1>6, <3>3
    <3>. QED
      BY <1>3, <3>1, <3>2, <3>3
  <2>. QED
    BY <1>1, <1>7, <2>1 DEF ShellInv, AllKnown, Known
<1>12. StdinOrder'
  BY <1>1 DEF ShellInv, StdinOrder, Known
<1>13. /\ Heard(N) = lines /\ Heard(N)' = lines'
       /\ \A c \in 1..(N - 1) : Heard(c)' = Heard(c)
  <2>1. \A c \in 1..(N - 1) : c # N
    BY <1>3a
  <2>. QED
    BY <1>1, <2>1 DEF Heard, N
<1>13a. \A c : c = N => Heard(c)' = lines'
  BY <1>1 DEF Heard, N
<1>14. ASSUME NEW c \in 1..N, Heard(c) # <<>>, \A d \in (c + 1)..N : Heard(d) = <<>>
       PROVE  Follows(buf[n], LastOf(Heard(c)))
  <2>1. Continues(Ahead, LastOf(Heard(c)))
    BY <1>1, <1>3, <1>14 DEF ShellInv, AheadFollows, Connected, N
  <2>2. n \in 1..Len(Ahead)
    BY <1>3, <1>8
  <2>. QED
    BY <1>9, <2>1, <2>2 DEF Continues
<1>15. HeardInOrder'
  <2>1. ASSUME NEW i \in 2..Len(lines') PROVE Follows(lines'[i], lines'[i - 1])
    <3>1. CASE i \in 2..Len(lines)
      <4>1. i \in 1..Len(lines) /\ i - 1 \in 1..Len(lines) /\ N \in DOMAIN replies
        BY <1>3, <3>1
      <4>2. Follows(lines[i], lines[i - 1])
        BY <1>13, <3>1, <4>1 DEF ShellInv, HeardInOrder, N
      <4>. QED
        BY <1>6, <4>1, <4>2
    <3>2. CASE i = Len(lines) + 1
      <4>1. Len(lines) \in 1..Len(lines) /\ i - 1 = Len(lines) /\ lines # <<>>
        BY <1>3, <1>6, <3>2
      <4>2. N \in 1..N /\ \A d \in (N + 1)..N : Heard(d) = <<>>
        BY <1>3
      <4>3. Follows(buf[n], LastOf(lines))
        BY <1>13, <1>14, <4>1, <4>2
      <4>. QED
        BY <1>6, <3>2, <4>1, <4>3 DEF LastOf
    <3>. QED
      BY <1>3, <1>6, <3>1, <3>2
  <2>2. ASSUME NEW c \in 1..(N - 1), Heard(c) # <<>>, \A e \in (c + 1)..(N - 1) : Heard(e) = <<>>
        PROVE  Follows(lines'[1], LastOf(Heard(c)))
    <3>1. c \in 1..N /\ N \in 1..N /\ c < N
      BY <1>3
    <3>2. CASE lines = <<>>
      <4>1. \A d \in (c + 1)..N : d \in (c + 1)..(N - 1) \/ d = N
        BY <1>3a
      <4>2. \A d \in (c + 1)..N : Heard(d) = <<>>
        BY <1>13, <2>2, <3>2, <4>1
      <4>3. lines'[1] = buf[n]
        BY <1>6, <3>2, EmptySeq
      <4>. QED
        BY <1>14, <2>2, <3>1, <4>2, <4>3
    <3>3. CASE lines # <<>>
      <4>1. 1 \in 1..Len(lines)
        BY <1>3, <3>3, EmptySeq
      <4>2. Follows(lines[1], LastOf(Heard(c)))
        BY <1>3, <1>13, <2>2, <3>1, <3>3 DEF ShellInv, HeardInOrder, N
      <4>. QED
        BY <1>6, <4>1, <4>2
    <3>. QED
      BY <3>2, <3>3
  <2>3. asked # <<>>
    BY <1>3a DEF N
  <2>. QED
    BY <1>1, <1>13, <2>1, <2>2, <2>3, HeardStays DEF ShellInv, N
<1>16. AheadFollows'
  <2>1. InSteps(Ahead) /\ LinesFollow(Ahead)
    BY <1>1 DEF ShellInv, AheadFollows, Connected, N
  <2>2. InSteps(Ahead') /\ LinesFollow(Ahead') /\ Continues(Ahead', Ahead[n])
    BY <1>2, <1>3, <1>7, <1>9, <2>1, TakenFollows
  <2>3. InSteps(Ahead)' /\ LinesFollow(Ahead)'
    BY <1>1, <2>2, AheadStays
  <2>4. ASSUME NEW c \in DOMAIN replies, Heard(c)' # <<>>,
               \A d \in (c + 1)..N : Heard(d)' = <<>>
        PROVE  Continues(Ahead, LastOf(Heard(c)))'
    <3>1. c = N
      <4>1. c \in 1..N
        BY <1>3
      <4>2. \A d : d = N => d \in (c + 1)..N \/ c = N
        BY <1>3a, <4>1
      <4>. QED
        BY <1>6, <1>13a, <2>4, <4>2
    <3>2. LastOf(Heard(c))' = Ahead[n]
      <4>1. Heard(c)' = lines'
        BY <1>13a, <3>1
      <4>2. lines'[Len(lines')] = Ahead[n]
        BY <1>6, <1>9
      <4>. QED
        BY <4>1, <4>2 DEF LastOf
    <3>. QED
      BY <1>1, <2>2, <3>2 DEF Continues, IsEnd, Follows
  <2>. QED
    BY <1>1, <1>3, <2>3, <2>4 DEF AheadFollows, N
<1>17. OwnAhead'
  <2>. SUFFICES ASSUME \A d \in 1..N : asked[d] = "query"
                PROVE  /\ \A i \in 1..Len(lines') : lines'[i] = Piece(N, i)
                       /\ Ahead'[1] = Piece(N, Len(lines') + 1)
    BY <1>1 DEF OwnAhead, N
  <2>1. /\ \A i \in 1..Len(lines) : lines[i] = Piece(N, i)
        /\ Ahead[1] = Piece(N, Len(lines) + 1)
    BY <1>1 DEF ShellInv, OwnAhead, N
  <2>2. /\ 1 \in 1..(Len(Ahead) - 1) /\ Ahead[2] = Succ(Ahead[1])
    <3>1. 1 \in 1..(Len(Ahead) - 1)
      BY <1>3, <1>8
    <3>2. InSteps(Ahead)
      BY <1>1 DEF ShellInv, AheadFollows, Connected, N
    <3>3. Ahead[1 + 1] = Succ(Ahead[1])
      BY <3>1, <3>2 DEF InSteps
    <3>. QED
      BY <3>1, <3>3
  <2>3. n = 1
    <3>1. SUFFICES ASSUME n # 1 PROVE FALSE
      OBVIOUS
    <3>2. IsEnd(Ahead[1]) /\ 2 \in 1..(Len(Ahead) - 1)
      BY <1>3, <1>8, <1>9, <3>1
    <3>3. Ahead[2].cmd = N + 1
      BY <2>1, <2>2, <3>2 DEF Succ, Piece
    <3>4. Ahead[2].cmd \in 1..N
      BY <1>3, <1>8, <3>2 DEF Known
    <3>. QED
      BY <1>3, <3>3, <3>4
  <2>4. buf[n] = Piece(N, Len(lines) + 1) /\ ~IsEnd(Ahead[1])
    BY <1>2, <1>9, <2>1, <2>3
  <2>5. Ahead[2] = Piece(N, Len(lines) + 1 + 1)
    BY <2>1, <2>2, <2>4 DEF Succ, Piece
  <2>6. Ahead'[1] = Ahead[2]
    <3>1. 1 \in 1..Len(Ahead') /\ 1 + n = 2
      BY <1>3, <1>7, <1>8, <2>3
    <3>. QED
      BY <1>7, <3>1
  <2>7. ASSUME NEW i \in 1..Len(lines') PROVE lines'[i] = Piece(N, i)
    BY <1>3, <1>6, <2>1, <2>4
  <2>. QED
    BY <1>6, <2>5, <2>6, <2>7
<1>18. AnswersWhole'
  BY <1>1 DEF ShellInv, AnswersWhole, LastOf
<1>. QED
  BY <1>10, <1>11, <1>12, <1>15, <1>16, <1>17, <1>18 DEF ShellInv

\* A call ends with the lines ls, whatever it makes of them.
LEMMA ShellParses ==
    ASSUME ShellInv, shPc = "reading", NEW ls \in Seq(Pieces), Parse(ls),
           \A k \in DOMAIN ls : Known(ls[k]),
           \A i \in 2..Len(ls) : Follows(ls[i], ls[i - 1]),
           ls # <<>> =>
              \A c \in 1..(Len(asked) - 1) :
                 Heard(c) # <<>> /\ (\A e \in (c + 1)..(Len(asked) - 1) : Heard(e) = <<>>)
                     => Follows(ls[1], LastOf(Heard(c)))
    PROVE  /\ ShellTypes' /\ AllKnown' /\ StdinOrder' /\ HeardInOrder'
           /\ UNCHANGED <<asked, answer, stdin, stdout, alive>>
           /\ shPc' # "reading" /\ buf' = <<>> /\ Len(replies') = Len(replies)
           /\ DOMAIN replies' = DOMAIN replies
           /\ \A c \in 1..(Len(asked) - 1) : replies'[c] = replies[c] /\ Heard(c) = replies[c]
           /\ shPc' = "idle" => ls # <<>> /\ replies'[Len(asked)] = ls
           /\ shPc' # "idle" => replies' = replies
<1>. DEFINE N == Len(asked)
<1>1. /\ UNCHANGED <<asked, answer, stdin, stdout, alive>> /\ buf' = <<>> /\ lines' = <<>>
      /\ shPc' \in {"panic", "gone", "idle"} /\ (shPc' = "idle" => ls # <<>>)
      /\ replies' = IF shPc' = "idle" THEN [replies EXCEPT ![N] = ls] ELSE replies
  BY DEF Parse
<1>2. /\ N \in Nat \ {0} /\ replies \in Seq(Seq(Pieces)) /\ DOMAIN replies = 1..N /\ Len(replies) = N
      /\ replies[N] = <<>>
  BY LenProperties, EmptySeq DEF ShellInv, ShellTypes
<1>2a. /\ N \in Nat /\ \A c \in 1..(N - 1) : c \in 1..N /\ c # N
       /\ \A c \in 1..N : c \in 1..(N - 1) \/ c = N
  <2>1. N \in Nat \ {0}
    BY <1>2
  <2>. HIDE DEF N
  <2>. QED
    BY <2>1
<1>3. /\ replies' \in Seq(Seq(Pieces)) /\ Len(replies') = N /\ DOMAIN replies' = 1..N
      /\ \A c \in 1..(N - 1) : replies'[c] = replies[c]
      /\ (shPc' = "idle" => replies'[N] = ls) /\ (shPc' # "idle" => replies' = replies)
  <2>1. CASE shPc' = "idle"
    <3>1. replies' = [replies EXCEPT ![N] = ls] /\ N \in DOMAIN replies
      BY <1>1, <1>2, <2>1
    <3>2. replies' \in [1..N -> Seq(Pieces)]
      BY <1>2, <3>1, ElementOfSeq
    <3>. QED
      BY <1>2, <1>2a, <2>1, <3>1, <3>2, SeqOfMap, ZenonT(30)
  <2>2. CASE shPc' # "idle"
    BY <1>1, <1>2, <2>2
  <2>. QED
    BY <2>1, <2>2
<1>4. ShellTypes'
  BY <1>1, <1>2, <1>3, EmptySeq DEF ShellInv, ShellTypes
<1>5. AllKnown'
  <2>1. ASSUME NEW c \in 1..N, NEW k \in DOMAIN replies'[c] PROVE Known(replies'[c][k])
    <3>1. CASE c \in 1..(N - 1) \/ shPc' # "idle"
      BY <1>2, <1>3, <2>1, <3>1 DEF ShellInv, AllKnown
    <3>2. CASE c = N /\ shPc' = "idle"
      BY <1>3, <2>1, <3>2
    <3>. QED
      BY <1>2a, <3>1, <3>2
  <2>2. \A x : Known(x) => Known(x)'
    BY <1>1 DEF Known
  <2>3. \A c \in 1..N : \A k \in DOMAIN replies'[c] : Known(replies[c][k])'
    BY <2>1, <2>2
  <2>4. DOMAIN buf' = {} /\ DOMAIN lines' = {}
    BY <1>1
  <2>5. \A k \in DOMAIN stdout' : Known(stdout[k])'
    BY <1>1, <2>2 DEF ShellInv, AllKnown
  <2>. QED
    BY <1>3, <2>3, <2>4, <2>5 DEF AllKnown
<1>6. StdinOrder'
  BY <1>1 DEF ShellInv, StdinOrder, Known
<1>7. /\ \A c \in 1..(N - 1) : Heard(c)' = Heard(c) /\ Heard(c) = replies[c]
      /\ Heard(N)' = replies'[N] /\ replies'[N] \in {ls, <<>>}
  <2>1. \A c \in 1..(N - 1) : c # N
    BY <1>2a
  <2>2. shPc' # "reading"
    BY <1>1
  <2>3. replies'[N] \in {ls, <<>>}
    BY <1>2, <1>3
  <2>4. \A c : Heard(c)' = replies'[c]
    BY <2>2 DEF Heard
  <2>5. Heard(N)' = replies'[N]
    BY <1>1, <2>4, Zenon
  <2>6. \A c \in 1..(N - 1) : Heard(c) = replies[c]
    BY <2>1 DEF Heard
  <2>. QED
    BY <1>3, <2>3, <2>4, <2>5, <2>6
<1>8. HeardInOrder'
  <2>1. ASSUME NEW i \in 2..Len(Heard(N)') PROVE Follows(Heard(N)'[i], Heard(N)'[i - 1])
    <3>1. CASE Heard(N)' = ls
      BY <2>1, <3>1
    <3>2. CASE Heard(N)' = <<>>
      <4>1. i \in 2..0
        BY <2>1, <3>2, EmptySeq
      <4>. QED
        BY <4>1
    <3>. QED
      BY <1>7, <3>1, <3>2
  <2>2. ASSUME Heard(N)' # <<>>, NEW c \in 1..(N - 1), Heard(c) # <<>>,
               \A e \in (c + 1)..(N - 1) : Heard(e) = <<>>
        PROVE  Follows(Heard(N)'[1], LastOf(Heard(c)))
    <3>1. Heard(N)' = ls
      BY <1>7, <2>2
    <3>. QED
      BY <2>2, <3>1
  <2>3. asked # <<>>
    BY <1>2
  <2>4. UNCHANGED <<asked, answer>> /\ Len(replies') = Len(replies) /\ DOMAIN replies' = DOMAIN replies
    BY <1>1, <1>2, <1>3
  <2>5. ShellTypes /\ HeardInOrder
    BY DEF ShellInv
  <2>6. \A c \in 1..(N - 1) : Heard(c)' = Heard(c)
    BY <1>7
  <2>. QED
    BY <2>1, <2>2, <2>3, <2>4, <2>5, <2>6, HeardStays
<1>. QED
  BY <1>1, <1>2, <1>3, <1>4, <1>5, <1>6, <1>7, <1>8

\* What the running call has read so far, and that what it reads next goes on.
LEMMA ReadingFacts ==
    ASSUME ShellInv, shPc = "reading"
    PROVE  /\ Len(asked) \in Nat \ {0} /\ DOMAIN replies = 1..Len(asked) /\ Len(replies) = Len(asked)
           /\ Len(answer) = Len(asked)
           /\ lines \in Seq(Pieces) /\ Len(lines) \in Nat /\ \A k \in DOMAIN lines : Known(lines[k])
           /\ Heard(Len(asked)) = lines
           /\ \A i \in 2..Len(lines) : Follows(lines[i], lines[i - 1])
           /\ lines # <<>> =>
                 \A c \in 1..(Len(asked) - 1) :
                    Heard(c) # <<>> /\ (\A e \in (c + 1)..(Len(asked) - 1) : Heard(e) = <<>>)
                        => Follows(lines[1], LastOf(Heard(c)))
           /\ \A c \in 1..Len(asked) :
                 Heard(c) # <<>> /\ (\A e \in (c + 1)..Len(asked) : Heard(e) = <<>>)
                     => Continues(Ahead, LastOf(Heard(c)))
<1>. DEFINE N == Len(asked)
<1>1. /\ N \in Nat \ {0} /\ DOMAIN replies = 1..N /\ Len(replies) = N /\ Len(answer) = N
      /\ lines \in Seq(Pieces) /\ Len(lines) \in Nat
  BY LenProperties, EmptySeq DEF ShellInv, ShellTypes
<1>2. /\ N \in 1..N /\ \A c \in 1..(N - 1) : c \in 1..N /\ c < N
  <2>1. N \in Nat \ {0}
    BY <1>1
  <2>. HIDE DEF N
  <2>. QED
    BY <2>1
<1>3. Heard(N) = lines
  BY DEF Heard
<1>4. \A i \in 2..Len(lines) : Follows(lines[i], lines[i - 1])
  BY <1>1, <1>2, <1>3 DEF ShellInv, HeardInOrder
<1>5. ASSUME lines # <<>>, NEW c \in 1..(N - 1), Heard(c) # <<>>,
             \A e \in (c + 1)..(N - 1) : Heard(e) = <<>>
      PROVE  Follows(lines[1], LastOf(Heard(c)))
  BY <1>1, <1>2, <1>3, <1>5 DEF ShellInv, HeardInOrder
<1>6. ASSUME NEW c \in 1..N, Heard(c) # <<>>, \A e \in (c + 1)..N : Heard(e) = <<>>
      PROVE  Continues(Ahead, LastOf(Heard(c)))
  BY <1>1, <1>6 DEF ShellInv, AheadFollows, Connected
<1>7. \A k \in DOMAIN lines : Known(lines[k])
  BY DEF ShellInv, AllKnown
<1>. QED
  BY <1>1, <1>3, <1>4, <1>5, <1>6, <1>7

LEMMA ShellEndsAtEof == ASSUME ShellInv, ParseAtEof PROVE ShellInv'
<1>. DEFINE N == Len(asked)
            ls == lines \o Rest
<1>1. shPc = "reading" /\ Parse(ls) /\ ~alive
  BY DEF ParseAtEof, AtEof
<1>2. /\ buf \in Seq(Pieces) /\ Len(buf) \in Nat /\ alive \in BOOLEAN
      /\ (buf # <<>> => Len(buf) \in Nat \ {0} /\ 1 \in DOMAIN buf /\ Head(buf) = buf[1])
  BY LenProperties, EmptySeq DEF ShellInv, ShellTypes
<1>3. N \in Nat \ {0} /\ lines \in Seq(Pieces) /\ Len(lines) \in Nat
  BY <1>1, ReadingFacts
<1>4. \/ buf = <<>> /\ ls = lines
      \/ /\ buf # <<>> /\ Known(buf[1]) /\ buf[1] \in Pieces /\ ls = Append(lines, buf[1])
         /\ Ahead[1] = buf[1] /\ 1 \in 1..Len(Ahead)
  <2>1. CASE buf = <<>>
    <3>1. Rest = <<>>
      BY <2>1 DEF Rest
    <3>. QED
      BY <1>3, <2>1, <3>1, ConcatEmptySeq
  <2>2. CASE buf # <<>>
    <3>1. Known(buf[1]) /\ buf[1] \in Pieces
      BY <1>2, <2>2 DEF ShellInv, AllKnown, Known
    <3>2. Rest = <<buf[1]>>
      BY <1>2, <2>2 DEF Rest
    <3>3. lines \o <<buf[1]>> = Append(lines, buf[1])
      BY <1>3, <3>1, AppendIsConcat
    <3>4. Ahead[1] = buf[1] /\ 1 \in 1..Len(Ahead)
      <4>1. /\ Len(Ahead) = Len(buf) + Len(stdout) + 1 /\ Len(stdout) \in Nat
            /\ \A k \in 1..Len(buf) : Ahead[k] = buf[k]
        BY AheadPieces DEF ShellInv
      <4>. QED
        BY <1>2, <2>2, <4>1
    <3>. QED
      BY <2>2, <3>1, <3>2, <3>3, <3>4
  <2>. QED
    BY <2>1, <2>2
<1>. HIDE DEF ls
<1>5. /\ ls \in Seq(Pieces) /\ \A k \in DOMAIN ls : Known(ls[k])
      /\ \A i \in 2..Len(ls) : Follows(ls[i], ls[i - 1])
      /\ ls # <<>> =>
            \A c \in 1..(N - 1) :
               Heard(c) # <<>> /\ (\A e \in (c + 1)..(N - 1) : Heard(e) = <<>>)
                   => Follows(ls[1], LastOf(Heard(c)))
  <2>1. CASE buf = <<>> /\ ls = lines
    BY <1>1, <2>1, ReadingFacts
  <2>2. CASE /\ buf # <<>> /\ Known(buf[1]) /\ buf[1] \in Pieces /\ ls = Append(lines, buf[1])
             /\ Ahead[1] = buf[1] /\ 1 \in 1..Len(Ahead)
    <3>1. /\ ls \in Seq(Pieces) /\ Len(ls) = Len(lines) + 1 /\ ls[Len(lines) + 1] = buf[1]
          /\ \A i \in 1..Len(lines) : ls[i] = lines[i]
          /\ DOMAIN ls = 1..(Len(lines) + 1) /\ DOMAIN lines = 1..Len(lines)
      BY <1>3, <2>2, AppendProperties, LenProperties
    <3>2. ASSUME NEW x, Continues(Ahead, x) PROVE Follows(buf[1], x)
      BY <2>2, <3>2 DEF Continues
    <3>3. ASSUME NEW k \in DOMAIN ls PROVE Known(ls[k])
      <4>1. CASE k \in 1..Len(lines)
        BY <1>1, <3>1, <4>1, ReadingFacts
      <4>2. CASE k = Len(lines) + 1
        BY <2>2, <3>1, <4>2
      <4>. QED
        BY <1>3, <3>1, <4>1, <4>2
    <3>4. ASSUME NEW i \in 2..Len(ls) PROVE Follows(ls[i], ls[i - 1])
      <4>1. CASE i \in 2..Len(lines)
        <5>1. i \in 1..Len(lines) /\ i - 1 \in 1..Len(lines)
          BY <1>3, <4>1
        <5>2. Follows(lines[i], lines[i - 1])
          BY <1>1, <4>1, ReadingFacts
        <5>. QED
          BY <3>1, <5>1, <5>2
      <4>2. CASE i = Len(lines) + 1
        <5>1. /\ Len(lines) \in 1..Len(lines) /\ i - 1 = Len(lines) /\ lines # <<>>
              /\ N \in 1..N /\ \A e \in (N + 1)..N : Heard(e) = <<>>
          BY <1>3, <3>1, <4>2
        <5>2. Continues(Ahead, LastOf(lines))
          BY <1>1, <5>1, ReadingFacts
        <5>. QED
          BY <3>1, <3>2, <4>2, <5>1, <5>2 DEF LastOf
      <4>. QED
        BY <1>3, <3>1, <4>1, <4>2
    <3>5. ASSUME NEW c \in 1..(N - 1), Heard(c) # <<>>, \A e \in (c + 1)..(N - 1) : Heard(e) = <<>>
          PROVE  Follows(ls[1], LastOf(Heard(c)))
      <4>1. CASE lines = <<>>
        <5>1. c \in 1..N /\ \A e \in (c + 1)..N : e \in (c + 1)..(N - 1) \/ e = N
          BY <1>3
        <5>2. Heard(N) = <<>>
          BY <1>1, <4>1, ReadingFacts
        <5>3. Continues(Ahead, LastOf(Heard(c)))
          BY <1>1, <3>5, <5>1, <5>2, ReadingFacts
        <5>4. ls[1] = buf[1]
          BY <3>1, <4>1, EmptySeq
        <5>. QED
          BY <3>2, <5>3, <5>4
      <4>2. CASE lines # <<>>
        <5>1. 1 \in 1..Len(lines)
          BY <1>3, <4>2, EmptySeq
        <5>2. Follows(lines[1], LastOf(Heard(c)))
          BY <1>1, <3>5, <4>2, ReadingFacts
        <5>. QED
          BY <3>1, <5>1, <5>2
      <4>. QED
        BY <4>1, <4>2
    <3>. QED
      BY <3>1, <3>3, <3>4, <3>5
  <2>. QED
    BY <1>4, <2>1, <2>2
<1>6. /\ ShellTypes' /\ AllKnown' /\ StdinOrder' /\ HeardInOrder' /\ alive' = alive /\ shPc' # "reading"
  BY <1>1, <1>5, ShellParses
<1>7. AheadFollows' /\ OwnAhead' /\ AnswersWhole'
  BY <1>1, <1>6 DEF AheadFollows, Connected, OwnAhead, AnswersWhole
<1>. QED
  BY <1>6, <1>7 DEF ShellInv

LEMMA ShellEndsAtEnd == ASSUME ShellInv, ParseAtEnd PROVE ShellInv'
<1>. DEFINE N == Len(asked)
<1>1. shPc = "reading" /\ Parse(lines) /\ Len(buf) = 1 /\ IsEnd(buf[1])
  BY DEF ParseAtEnd, AtEnd
<1>2. /\ N \in Nat \ {0} /\ lines \in Seq(Pieces) /\ Len(lines) \in Nat /\ DOMAIN replies = 1..N
      /\ Len(replies) = N /\ Len(answer) = N
  BY <1>1, ReadingFacts
<1>3. N \in Nat \ {0}
  BY <1>2
<1>4. /\ ShellTypes' /\ AllKnown' /\ StdinOrder' /\ HeardInOrder'
      /\ UNCHANGED <<asked, answer, stdin, stdout, alive>>
      /\ shPc' # "reading" /\ buf' = <<>> /\ Len(replies') = Len(replies)
      /\ DOMAIN replies' = DOMAIN replies
      /\ \A c \in 1..(N - 1) : replies'[c] = replies[c] /\ Heard(c) = replies[c]
      /\ shPc' = "idle" => lines # <<>> /\ replies'[N] = lines
      /\ shPc' # "idle" => replies' = replies
  BY <1>1, ReadingFacts, ShellParses
<1>5. /\ Len(Ahead) = Len(Ahead') + 1 /\ Len(Ahead) \in Nat /\ Len(Ahead') \in Nat
      /\ \A k \in 1..Len(Ahead') : Ahead'[k] = Ahead[k + 1]
  <2>1. /\ 1 \in 0..Len(buf) /\ buf' \in Seq(Pieces) /\ Remains(buf', buf, 1)
    BY <1>1, <1>4, EmptySeq DEF Remains
  <2>. QED
    BY <1>4, <2>1, AheadTaken DEF ShellInv
<1>6. /\ Ahead[1] = buf[1] /\ Known(Ahead[1]) /\ IsEnd(Ahead[1]) /\ 1 \in 1..Len(Ahead)
      /\ 1 \in 1..(Len(Ahead) - 1)
  <2>1. /\ Len(Ahead) = Len(buf) + Len(stdout) + 1 /\ Len(stdout) \in Nat
        /\ \A k \in 1..Len(buf) : Ahead[k] = buf[k]
        /\ \A k \in 1..(Len(Ahead) - 1) : Known(Ahead[k])
    BY AheadPieces DEF ShellInv
  <2>2. 1 \in 1..Len(buf) /\ 1 \in 1..Len(Ahead) /\ 1 \in 1..(Len(Ahead) - 1)
    BY <1>1, <2>1
  <2>. QED
    BY <1>1, <2>1, <2>2
<1>7. InSteps(Ahead) /\ LinesFollow(Ahead)
  BY <1>1 DEF ShellInv, AheadFollows, Connected
<1>8. Ahead'[1] = Succ(Ahead[1])
  <2>1. 1 \in 1..Len(Ahead')
    BY <1>5, <1>6
  <2>2. Ahead'[1] = Ahead[1 + 1] /\ Ahead[1 + 1] = Succ(Ahead[1])
    BY <1>5, <1>6, <1>7, <2>1 DEF InSteps
  <2>. QED
    BY <2>2
<1>9. ASSUME lines # <<>> PROVE Continues(Ahead, LastOf(lines))
  <2>1. N \in 1..N /\ \A e \in (N + 1)..N : Heard(e) = <<>>
    BY <1>3
  <2>. QED
    BY <1>1, <1>9, <2>1, ReadingFacts
<1>10. AheadFollows'
  <2>. SUFFICES ASSUME Connected' PROVE AheadFollows'
    BY DEF AheadFollows
  <2>1. shPc' = "idle" /\ lines # <<>> /\ replies'[N] = lines
    BY <1>4 DEF Connected
  <2>2. /\ InSteps(Ahead') /\ LinesFollow(Ahead') /\ Continues(Ahead', LastOf(lines))
    <3>1. \A k \in 1..1 : IsEnd(Ahead[k])
      BY <1>6
    <3>2. 1 \in Nat
      OBVIOUS
    <3>. QED
      BY <1>5, <1>7, <1>9, <2>1, <3>1, <3>2, TakenFollows
  <2>3. InSteps(Ahead)' /\ LinesFollow(Ahead)'
    BY <1>4, <2>2, AheadStays
  <2>4. ASSUME NEW c \in 1..N, Heard(c)' # <<>>, \A d \in (c + 1)..N : Heard(d)' = <<>>
        PROVE  Continues(Ahead, LastOf(Heard(c)))'
    <3>1. \A d : d = N => Heard(d)' = lines
      BY <1>4, <2>1 DEF Heard
    <3>2. \A d : d = N => d \in (c + 1)..N \/ c = N
      BY <1>3
    <3>3. c = N
      BY <2>1, <2>4, <3>1, <3>2
    <3>4. LastOf(Heard(c))' = LastOf(lines)
      BY <3>1, <3>3 DEF LastOf
    <3>. QED
      BY <1>4, <2>2, <3>4 DEF Continues, IsEnd, Follows
  <2>. QED
    BY <1>2, <1>4, <2>3, <2>4 DEF AheadFollows
<1>11. ASSUME \A d \in 1..N : asked[d] = "query"
       PROVE  /\ \A i \in 1..Len(lines) : lines[i] = Piece(N, i)
              /\ Ahead[1] = Piece(N, Len(lines) + 1)
  BY <1>1, <1>11 DEF ShellInv, OwnAhead
<1>12. OwnAhead'
  <2>. SUFFICES ASSUME \A d \in 1..N : asked[d] = "query" PROVE Ahead'[1] = Piece(N + 1, 1)
    BY <1>4 DEF OwnAhead
  <2>. QED
    BY <1>6, <1>8, <1>11 DEF Succ, Piece
<1>13. AnswersWhole'
  <2>. SUFFICES ASSUME alive, NEW c \in 1..N, replies'[c] # <<>>
                PROVE  /\ LastOf(replies'[c]).line = Len(answer[LastOf(replies'[c]).cmd])
                       /\ (\A d \in 1..c : asked[d] = "query") =>
                             replies'[c] = [i \in DOMAIN answer[c] |-> Piece(c, i)]
    BY <1>2, <1>4 DEF AnswersWhole, LastOf
  <2>1. CASE replies'[c] = replies[c]
    BY <1>2, <2>1 DEF ShellInv, AnswersWhole
  <2>2. CASE c = N /\ shPc' = "idle"
    <3>1. replies'[c] = lines /\ lines # <<>>
      BY <1>4, <2>2
    <3>2. Follows(Ahead[1], LastOf(lines))
      <4>1. Continues(Ahead, LastOf(lines))
        BY <1>9, <3>1
      <4>2. \A k \in 1..(1 - 1) : IsEnd(Ahead[k])
        OBVIOUS
      <4>. QED
        BY <1>6, <4>1, <4>2 DEF Continues
    <3>3. LastOf(lines).line = Len(answer[LastOf(lines).cmd])
      <4>1. Known(LastOf(lines))
        <5>1. N \in DOMAIN replies /\ Heard(N) = lines
          BY <1>1, <1>2, <1>3, ReadingFacts
        <5>. QED
          BY <3>1, <5>1, LastKnown DEF ShellInv
      <4>2. LastOf(lines).line \in Nat /\ LastOf(lines).cmd \in 1..N
        BY <1>2, <4>1 DEF Known, Pieces
      <4>3. Len(answer[LastOf(lines).cmd]) \in Nat
        <5>1. answer[LastOf(lines).cmd] \in Answers
          BY <1>2, <4>2, ElementOfSeq DEF ShellInv, ShellTypes
        <5>. QED
          BY <5>1, ShellConstants, LenProperties
      <4>4. Ahead[1].line = Len(answer[Ahead[1].cmd]) + 1
        BY <1>6 DEF IsEnd
      <4>. QED
        BY <3>2, <4>2, <4>3, <4>4 DEF Follows
    <3>4. ASSUME \A d \in 1..c : asked[d] = "query"
          PROVE  lines = [i \in DOMAIN answer[c] |-> Piece(c, i)]
      <4>1. /\ \A i \in 1..Len(lines) : lines[i] = Piece(N, i)
            /\ Ahead[1] = Piece(N, Len(lines) + 1)
        BY <1>11, <2>2, <3>4
      <4>2. answer[c] \in Seq(Nat \ {0})
        <5>1. answer[c] \in Answers
          BY <1>2, ElementOfSeq DEF ShellInv, ShellTypes
        <5>. QED
          BY <5>1, ShellConstants
      <4>3. Len(answer[c]) \in Nat /\ DOMAIN answer[c] = 1..Len(answer[c])
        BY <4>2, LenProperties
      <4>4. Len(lines) + 1 = Len(answer[c]) + 1
        BY <1>6, <2>2, <4>1 DEF IsEnd, Piece
      <4>5. Len(lines) = Len(answer[c])
        BY <1>2, <4>3, <4>4
      <4>6. DOMAIN lines = DOMAIN answer[c]
        BY <1>2, <4>3, <4>5, LenProperties
      <4>7. lines = [i \in DOMAIN lines |-> lines[i]]
        BY <1>2
      <4>. QED
        BY <2>2, <4>1, <4>3, <4>5, <4>6, <4>7
    <3>. QED
      BY <3>1, <3>3, <3>4
  <2>3. replies'[c] = replies[c] \/ (c = N /\ shPc' = "idle")
    <3>1. c \in 1..(N - 1) \/ c = N
      BY <1>3
    <3>. QED
      BY <1>4, <3>1
  <2>. QED
    BY <2>1, <2>2, <2>3
<1>. QED
  BY <1>4, <1>10, <1>12, <1>13 DEF ShellInv

\* A command changes none of what is ahead: it is only new that it is answered.
LEMMA ShellAsks ==
    ASSUME ShellInv, NEW ask \in {"execute", "query"}, NEW a \in Answers, NEW to \in {"idle", "reading"},
           to = "idle" <=> ask = "execute", Command(ask, a, to)
    PROVE  ShellInv'
<1>. DEFINE N == Len(asked)
<1>1. /\ shPc = "idle" /\ asked' = Append(asked, ask) /\ answer' = Append(answer, a)
      /\ stdin' = Append(stdin, Piece(Len(asked'), 1)) /\ replies' = Append(replies, <<>>)
      /\ lines' = <<>> /\ buf' = <<>> /\ shPc' = (IF alive THEN to ELSE "gone")
      /\ UNCHANGED <<stdout, alive>>
  BY DEF Command
<1>2. /\ asked \in Seq({"query", "execute"}) /\ answer \in Seq(Answers) /\ replies \in Seq(Seq(Pieces))
      /\ stdin \in Seq(Pieces) /\ buf = <<>> /\ lines = <<>>
      /\ N \in Nat /\ Len(answer) = N /\ Len(replies) = N /\ Len(stdin) \in Nat
      /\ DOMAIN replies = 1..N
  BY <1>1, LenProperties DEF ShellInv, ShellTypes
<1>3. /\ N \in Nat /\ N + 1 \in 1..(N + 1) /\ N + 1 \notin 1..N
      /\ \A c \in 1..(N + 1) : c \in 1..N \/ c = N + 1
      /\ \A c \in 1..N : c \in 1..(N + 1)
  <2>1. N \in Nat
    BY <1>2
  <2>. HIDE DEF N
  <2>. QED
    BY <2>1
<1>4. /\ Len(asked') = N + 1 /\ asked' \in Seq({"query", "execute"})
      /\ \A c \in 1..N : asked'[c] = asked[c]
      /\ asked'[N + 1] = ask
  BY <1>1, <1>2, AppendProperties
<1>5. /\ Len(answer') = N + 1 /\ answer' \in Seq(Answers) /\ answer'[N + 1] = a
      /\ \A c \in 1..N : answer'[c] = answer[c]
  BY <1>1, <1>2, AppendProperties
<1>6. /\ Len(replies') = N + 1 /\ replies' \in Seq(Seq(Pieces)) /\ replies'[N + 1] = <<>>
      /\ \A c \in 1..N : replies'[c] = replies[c]
      /\ DOMAIN replies' = 1..(N + 1)
  BY <1>1, <1>2, AppendProperties, EmptySeq, LenProperties
<1>7. Piece(N + 1, 1) \in Pieces
  BY <1>3 DEF Piece, Pieces
<1>8. /\ stdin' \in Seq(Pieces) /\ Len(stdin') = Len(stdin) + 1 /\ stdin' # <<>>
      /\ stdin'[Len(stdin) + 1] = Piece(N + 1, 1)
      /\ \A k \in 1..Len(stdin) : stdin'[k] = stdin[k]
  <2>1. stdin' = Append(stdin, Piece(N + 1, 1))
    BY <1>1, <1>4
  <2>2. /\ stdin' \in Seq(Pieces) /\ Len(stdin') = Len(stdin) + 1
        /\ stdin'[Len(stdin) + 1] = Piece(N + 1, 1)
        /\ \A k \in 1..Len(stdin) : stdin'[k] = stdin[k]
    BY <1>2, <1>7, <2>1, AppendProperties
  <2>3. Len(stdin') # 0
    BY <1>2, <2>2
  <2>. QED
    BY <2>2, <2>3, EmptySeq
<1>9. ASSUME NEW x, Known(x)
      PROVE  /\ Known(x)' /\ (IsEnd(x)' <=> IsEnd(x)) /\ Succ(x)' = Succ(x)
             /\ x.cmd \in 1..N /\ answer'[x.cmd] = answer[x.cmd]
  <2>1. /\ x \in Pieces /\ x.cmd \in 1..N /\ x.line \in 1..(Len(answer[x.cmd]) + 1)
    BY <1>2, <1>9 DEF Known
  <2>2. answer'[x.cmd] = answer[x.cmd] /\ x.cmd \in 1..(N + 1)
    BY <1>3, <1>5, <2>1
  <2>. QED
    BY <1>5, <2>1, <2>2 DEF Known, IsEnd, Succ
<1>10. ASSUME NEW x, Known(x), NEW y, y.cmd \in 1..(N + 1), Follows(y, x)
       PROVE  Follows(y, x)'
  <2>1. x.cmd \in 1..N /\ answer'[x.cmd] = answer[x.cmd]
    BY <1>9, <1>10
  <2>2. \A c \in (x.cmd + 1)..(y.cmd - 1) : c \in 1..N
    BY <1>3, <1>10, <2>1
  <2>3. \A c \in (x.cmd + 1)..(y.cmd - 1) : answer'[c] = answer[c]
    BY <1>5, <2>2
  <2>. QED
    BY <1>10, <2>1, <2>3 DEF Follows
<1>11. ShellTypes'
  <2>1. asked' # <<>>
    BY <1>2, <1>4
  <2>. QED
    BY <1>1, <1>4, <1>5, <1>6, <1>8, <2>1, EmptySeq DEF ShellInv, ShellTypes
<1>12. AllKnown'
  <2>1. ASSUME NEW c \in 1..(N + 1), NEW k \in DOMAIN replies'[c] PROVE Known(replies[c][k])'
    <3>1. CASE c \in 1..N
      <4>1. replies'[c] = replies[c] /\ Known(replies[c][k])
        BY <1>2, <1>6, <2>1, <3>1 DEF ShellInv, AllKnown
      <4>2. \A x : Known(x) => Known(x)'
        BY <1>9
      <4>3. Known(replies'[c][k])
        BY <4>1
      <4>. QED
        BY <4>1, <4>2
    <3>2. CASE c = N + 1
      BY <1>6, <2>1, <3>2
    <3>. QED
      BY <1>3, <3>1, <3>2
  <2>2. \A x : Known(x) => Known(x)'
    BY <1>9
  <2>3. DOMAIN buf' = {} /\ DOMAIN lines' = {}
    BY <1>1
  <2>4. \A k \in DOMAIN stdout' : Known(stdout[k])'
    BY <1>1, <2>2 DEF ShellInv, AllKnown
  <2>. QED
    BY <1>6, <2>1, <2>3, <2>4 DEF AllKnown
<1>13. StdinOrder' /\ NextOut' = NextOut
  <2>1. CASE stdin = <<>>
    <3>1. stdin'[1] = Piece(N + 1, 1) /\ Len(stdin') = 1
      BY <1>8, <2>1, EmptySeq
    <3>2. NextOut' = NextOut
      BY <1>8, <2>1, <3>1 DEF NextOut
    <3>3. Known(stdin[1])'
      <4>1. answer'[N + 1] = a /\ Len(a) \in Nat
        BY <1>5, ShellConstants, LenProperties
      <4>. QED
        BY <1>3, <1>5, <1>7, <3>1, <4>1 DEF Known, Piece
    <3>4. stdin'[1].cmd + Len(stdin') = Len(asked') + 1
      BY <1>4, <3>1 DEF Piece
    <3>5. \A k \in 2..Len(stdin') : FALSE
      BY <3>1
    <3>. QED
      BY <3>2, <3>3, <3>4, <3>5 DEF StdinOrder
  <2>2. CASE stdin # <<>>
    <3>1. /\ Len(stdin) \in Nat \ {0} /\ 1 \in 1..Len(stdin)
      BY <1>2, <2>2, EmptySeq
    <3>2. /\ Known(stdin[1]) /\ stdin[1].cmd + Len(stdin) = N + 1
          /\ \A k \in 2..Len(stdin) : stdin[k] = Piece(stdin[1].cmd + k - 1, 1)
      BY <2>2 DEF ShellInv, StdinOrder
    <3>3. stdin'[1] = stdin[1] /\ stdin[1].cmd \in Nat
      BY <1>3, <1>8, <1>9, <3>1, <3>2
    <3>4. NextOut' = NextOut
      BY <1>8, <2>2, <3>3 DEF NextOut
    <3>5. Known(stdin[1])'
      <4>1. \A x : Known(x) => Known(x)'
        BY <1>9
      <4>. QED
        BY <3>2, <3>3, <4>1
    <3>6. stdin'[1].cmd + Len(stdin') = Len(asked') + 1
      BY <1>4, <1>8, <3>1, <3>2, <3>3
    <3>7. ASSUME NEW k \in 2..Len(stdin') PROVE stdin'[k] = Piece(stdin'[1].cmd + k - 1, 1)
      <4>1. CASE k \in 2..Len(stdin)
        <5>1. k \in 1..Len(stdin)
          BY <3>1, <4>1
        <5>. QED
          BY <1>8, <3>2, <3>3, <4>1, <5>1
      <4>2. CASE k = Len(stdin) + 1
        <5>1. stdin[1].cmd + k - 1 = N + 1
          BY <3>1, <3>2, <3>3, <4>2
        <5>. QED
          BY <1>8, <3>3, <4>2, <5>1
      <4>. QED
        BY <1>2, <1>8, <4>1, <4>2
    <3>. QED
      BY <3>4, <3>5, <3>6, <3>7 DEF StdinOrder
  <2>. QED
    BY <2>1, <2>2
<1>14. Ahead' = Ahead
  BY <1>1, <1>2, <1>13 DEF Ahead
<1>15. /\ \A c \in 1..N : Heard(c) = replies[c] /\ Heard(c)' = replies[c]
       /\ \A c : c = N + 1 => Heard(c)' = <<>>
  <2>1. \A c : Heard(c) = replies[c]
    BY <1>1 DEF Heard
  <2>2. \A c \in 1..(N + 1) : Heard(c)' = IF shPc' = "reading" /\ c = N + 1 THEN <<>> ELSE replies'[c]
    BY <1>1, <1>4 DEF Heard
  <2>3. \A c \in 1..N : c # N + 1
    BY <1>3
  <2>. QED
    BY <1>3, <1>6, <2>1, <2>2, <2>3
<1>16. \A c \in 1..N : \A i \in 1..Len(replies[c]) : Known(replies[c][i])
  <2>. SUFFICES ASSUME NEW c \in 1..N, NEW i \in 1..Len(replies[c]) PROVE Known(replies[c][i])
    OBVIOUS
  <2>1. replies[c] \in Seq(Pieces)
    BY <1>2, ElementOfSeq
  <2>2. i \in DOMAIN replies[c]
    BY <2>1, LenProperties
  <2>. QED
    BY <1>2, <2>2 DEF ShellInv, AllKnown
<1>17. ASSUME NEW c \in 1..N, replies[c] # <<>>
       PROVE  Known(LastOf(replies[c])) /\ Known(replies[c][1])
  <2>1. replies[c] \in Seq(Pieces)
    BY <1>2, ElementOfSeq
  <2>2. 1 \in 1..Len(replies[c]) /\ Len(replies[c]) \in 1..Len(replies[c])
    BY <1>17, <2>1, EmptySeq
  <2>. QED
    BY <1>16, <2>2 DEF LastOf
<1>. HIDE DEF N
<1>18. HeardInOrder'
  <2>1. ASSUME NEW c \in 1..(N + 1), NEW i \in 2..Len(Heard(c)')
        PROVE  Follows(Heard(c)[i], Heard(c)[i - 1])'
    <3>1. CASE c \in 1..N
      <4>1. Heard(c)' = replies[c] /\ replies[c] \in Seq(Pieces) /\ Len(replies[c]) \in Nat
        BY <1>2, <1>15, <3>1, ElementOfSeq, LenProperties
      <4>2. i \in 2..Len(replies[c]) /\ i \in 1..Len(replies[c]) /\ i - 1 \in 1..Len(replies[c])
        BY <2>1, <4>1
      <4>3. Follows(replies[c][i], replies[c][i - 1])
        BY <1>2, <1>15, <3>1, <4>2 DEF ShellInv, HeardInOrder
      <4>4. Known(replies[c][i]) /\ Known(replies[c][i - 1])
        BY <1>16, <3>1, <4>2
      <4>5. \A x, y : Known(x) /\ Known(y) /\ Follows(y, x) => Follows(y, x)'
        BY <1>3, <1>9, <1>10
      <4>. QED
        BY <4>1, <4>3, <4>4, <4>5
    <3>2. CASE c = N + 1
      <4>1. Len(Heard(c)') = 0
        BY <1>15, <3>2, EmptySeq
      <4>. QED
        BY <2>1, <4>1
    <3>. QED
      BY <1>3, <3>1, <3>2
  <2>2. ASSUME NEW c \in 1..(N + 1), NEW d \in 1..(N + 1), c < d, Heard(c)' # <<>>, Heard(d)' # <<>>,
               \A e \in (c + 1)..(d - 1) : Heard(e)' = <<>>
        PROVE  Follows(Heard(d)[1], LastOf(Heard(c)))'
    <3>1. c \in 1..N /\ d \in 1..N
      BY <1>3, <1>15, <2>2
    <3>2. \A e \in (c + 1)..(d - 1) : e \in 1..N
      BY <1>3, <3>1
    <3>3. /\ Heard(c)' = replies[c] /\ Heard(d)' = replies[d]
          /\ \A e \in (c + 1)..(d - 1) : Heard(e) = <<>>
          /\ Heard(c) = replies[c] /\ Heard(d) = replies[d]
      BY <1>15, <2>2, <3>1, <3>2
    <3>4. Follows(replies[d][1], LastOf(replies[c]))
      BY <1>2, <2>2, <3>1, <3>3 DEF ShellInv, HeardInOrder
    <3>5. Known(replies[d][1]) /\ Known(LastOf(replies[c]))
      BY <1>17, <2>2, <3>1, <3>3
    <3>6. \A x, y : Known(x) /\ Known(y) /\ Follows(y, x) => Follows(y, x)'
      BY <1>3, <1>9, <1>10
    <3>7. LastOf(Heard(c))' = LastOf(replies[c])
      BY <3>3 DEF LastOf
    <3>. QED
      BY <3>3, <3>4, <3>5, <3>6, <3>7
  <2>. QED
    BY <1>6, <2>1, <2>2 DEF HeardInOrder
<1>19. AheadFollows'
  <2>. SUFFICES ASSUME Connected' PROVE AheadFollows'
    BY DEF AheadFollows
  <2>1. /\ InSteps(Ahead) /\ LinesFollow(Ahead)
        /\ \A c \in DOMAIN replies :
              Heard(c) # <<>> /\ (\A d \in (c + 1)..Len(replies) : Heard(d) = <<>>)
                  => Continues(Ahead, LastOf(Heard(c)))
    BY <1>1 DEF ShellInv, AheadFollows, Connected
  <2>2. /\ \A k \in 1..(Len(Ahead) - 1) : Known(Ahead[k])
        /\ Ahead[Len(Ahead)].cmd \in 1..(N + 1) /\ Len(Ahead) \in Nat
    BY AheadPieces, LenProperties DEF ShellInv, N
  <2>3. \A k \in 1..Len(Ahead) : Ahead[k].cmd \in 1..(N + 1)
    <3>1. \A k \in 1..Len(Ahead) : k \in 1..(Len(Ahead) - 1) \/ k = Len(Ahead)
      BY <2>2
    <3>. QED
      BY <1>3, <1>9, <2>2, <3>1
  <2>4. InSteps(Ahead)'
    <3>1. \A k \in 1..(Len(Ahead) - 1) : Succ(Ahead[k])' = Succ(Ahead[k])
      <4>1. \A x : Known(x) => Succ(x)' = Succ(x)
        BY <1>9
      <4>. QED
        BY <1>14, <2>2, <4>1
    <3>. QED
      BY <1>14, <2>1, <3>1 DEF InSteps
  <2>5. ASSUME NEW m \in 1..Len(Ahead), NEW x, Known(x), Follows(Ahead[m], x)
        PROVE  Follows(Ahead[m], x)'
    <3>1. \A y : y.cmd \in 1..(N + 1) /\ Follows(y, x) => Follows(y, x)'
      BY <1>10, <2>5
    <3>. QED
      BY <1>14, <2>3, <2>5, <3>1
  <2>6. \A k \in 1..(Len(Ahead) - 1) : IsEnd(Ahead[k])' <=> IsEnd(Ahead[k])
    <3>1. \A x : Known(x) => (IsEnd(x)' <=> IsEnd(x))
      BY <1>9
    <3>. QED
      BY <1>14, <2>2, <3>1
  <2>7. LinesFollow(Ahead)'
    <3>. SUFFICES ASSUME NEW m \in 1..Len(Ahead), NEW n \in 1..(m - 1), ~(IsEnd(Ahead[n])'),
                         \A k \in (n + 1)..(m - 1) : IsEnd(Ahead[k])'
                  PROVE  Follows(Ahead[m], Ahead[n])'
      BY <1>14 DEF LinesFollow
    <3>1. n \in 1..(Len(Ahead) - 1) /\ \A k \in (n + 1)..(m - 1) : k \in 1..(Len(Ahead) - 1)
      BY <2>2
    <3>2. ~IsEnd(Ahead[n]) /\ \A k \in (n + 1)..(m - 1) : IsEnd(Ahead[k])
      BY <2>6, <3>1
    <3>3. Follows(Ahead[m], Ahead[n])
      BY <2>1, <3>2 DEF LinesFollow
    <3>4. \A x : Known(x) /\ Follows(Ahead[m], x) => Follows(Ahead[m], x)'
      BY <2>5
    <3>. QED
      BY <1>14, <2>2, <3>1, <3>3, <3>4
  <2>8. ASSUME NEW c \in 1..(N + 1), Heard(c)' # <<>>, \A d \in (c + 1)..(N + 1) : Heard(d)' = <<>>
        PROVE  Continues(Ahead, LastOf(Heard(c)))'
    <3>1. c \in 1..N
      BY <1>3, <1>15, <2>8
    <3>2. \A d \in (c + 1)..N : d \in 1..N /\ d \in (c + 1)..(N + 1)
      BY <1>3, <3>1
    <3>3. /\ Heard(c)' = replies[c] /\ Heard(c) = replies[c]
          /\ \A d \in (c + 1)..N : Heard(d) = <<>>
      BY <1>15, <2>8, <3>1, <3>2
    <3>4. Continues(Ahead, LastOf(replies[c])) /\ Known(LastOf(replies[c]))
      BY <1>2, <1>17, <2>1, <2>8, <3>1, <3>3 DEF N
    <3>5. LastOf(Heard(c))' = LastOf(replies[c])
      BY <3>3 DEF LastOf
    <3>6. ASSUME NEW m \in 1..Len(Ahead), \A k \in 1..(m - 1) : IsEnd(Ahead[k])'
          PROVE  Follows(Ahead[m], LastOf(Heard(c)))'
      <4>1. \A k \in 1..(m - 1) : k \in 1..(Len(Ahead) - 1)
        BY <2>2
      <4>2. \A k \in 1..(m - 1) : IsEnd(Ahead[k])
        BY <2>6, <3>6, <4>1
      <4>3. Follows(Ahead[m], LastOf(replies[c]))
        BY <3>4, <4>2 DEF Continues
      <4>4. \A x : Known(x) /\ Follows(Ahead[m], x) => Follows(Ahead[m], x)'
        BY <2>5
      <4>. QED
        BY <3>4, <3>5, <4>3, <4>4
    <3>. QED
      BY <1>14, <3>6 DEF Continues
  <2>. QED
    BY <1>6, <2>4, <2>7, <2>8 DEF AheadFollows
<1>20. OwnAhead'
  <2>. SUFFICES ASSUME \A d \in 1..(N + 1) : asked'[d] = "query"
                PROVE  /\ ~(shPc' = "idle" /\ alive')
                       /\ shPc' = "reading" => Ahead'[1] = Piece(N + 1, 0 + 1)
    BY <1>1, <1>4, EmptySeq DEF OwnAhead
  <2>1. ask = "query" /\ \A d \in 1..N : asked[d] = "query"
    BY <1>3, <1>4
  <2>2. to = "reading"
    BY <2>1
  <2>3. shPc' = "reading" => alive
    BY <1>1
  <2>4. alive => Ahead[1] = Piece(N + 1, 1)
    BY <1>1, <2>1 DEF ShellInv, OwnAhead, N
  <2>. QED
    BY <1>1, <1>14, <2>2, <2>3, <2>4
<1>21. AnswersWhole'
  <2>. SUFFICES ASSUME alive, NEW c \in 1..(N + 1), replies'[c] # <<>>
                PROVE  /\ LastOf(replies'[c]).line = Len(answer'[LastOf(replies'[c]).cmd])
                       /\ (\A d \in 1..c : asked'[d] = "query") =>
                             replies'[c] = [i \in DOMAIN answer'[c] |-> Piece(c, i)]
    BY <1>1, <1>6 DEF AnswersWhole, LastOf
  <2>1. c \in 1..N /\ \A d \in 1..c : d \in 1..N
    <3>1. c \in 1..N
      BY <1>3, <1>6
    <3>. QED
      BY <1>3, <3>1
  <2>2. replies'[c] = replies[c] /\ answer'[c] = answer[c] /\ \A d \in 1..c : asked'[d] = asked[d]
    BY <1>4, <1>5, <1>6, <2>1
  <2>3. Known(LastOf(replies[c]))
    BY <1>17, <2>1, <2>2
  <2>4. answer'[LastOf(replies[c]).cmd] = answer[LastOf(replies[c]).cmd]
    BY <1>9, <2>3
  <2>. QED
    BY <1>2, <2>1, <2>2, <2>4, ZenonT(30) DEF ShellInv, AnswersWhole
<1>. QED
  BY <1>11, <1>12, <1>13, <1>18, <1>19, <1>20, <1>21 DEF ShellInv

\* Whatever commands are executed before a query and whatever their answers are,
\* no line of the process is lost or read twice, and a query without them gets its
\* own answer, however the scanner reads ahead and when the process exits.
THEOREM ShellKeepsLines == ShellSpec => []ShellAnswers
<1>1. ShellInv /\ [ShellNext]_shellVars => ShellInv'
  <2>. SUFFICES ASSUME ShellInv, [ShellNext]_shellVars PROVE ShellInv'
    OBVIOUS
  <2>1. ASSUME NEW a \in Answers, ShellExecute(a) PROVE ShellInv'
    BY <2>1, ShellAsks DEF ShellExecute
  <2>2. ASSUME NEW a \in Answers, ShellQuery(a) PROVE ShellInv'
    BY <2>2, ShellAsks DEF ShellQuery
  <2>. QED
    BY <2>1, <2>2, ShellWrites, ShellExits, ShellScans, ShellReads, ShellEndsAtEnd, ShellEndsAtEof
       DEF ShellNext
<1>2. ShellInv => ShellAnswers
  BY DEF ShellInv, HeardInOrder, AnswersWhole, ShellAnswers
<1>. QED
  BY <1>1, <1>2, ShellInvInit, PTL DEF ShellSpec
=============================================================================
