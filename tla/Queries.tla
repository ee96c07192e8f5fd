------------------------------- MODULE Queries -------------------------------
(***************************************************************************)
(* RunQuery of stdSqlConn, cassandraConn, redisConn and sshConn: the       *)
(* queries that one connection serves after each other, and the rows it    *)
(* hands out, which stay with the callers.  A row is a slice, and memory   *)
(* says what is in it: the query and the number of the row that was        *)
(* scanned into it last.  A query that fails loses the connection (see     *)
(* TimeoutPool).  The queries of odbc are in OdbcFfi, those of kafka and   *)
(* of the shell in KafkaReader and ShellConn.                              *)
(***************************************************************************)
EXTENDS Integers, Sequences

CONSTANTS Clients,      (* the kinds of connection looked at               *)
          MaxResult,    (* bound: the rows of a result                     *)
          MaxQueries    (* bound: the queries                              *)

ASSUME QueriesConstants ==
    /\ Clients \subseteq {"sql", "cassandra", "redis", "ssh"}
    /\ MaxResult \in Nat /\ MaxQueries \in Nat

VARIABLES
    client,          (* the type of the connection                         *)
    queryPc,         (* "idle", "query", "rows", or "gone"                 *)
    queries,         (* the number of queries                              *)
    total,           (* of each query: the rows of its result              *)
    slices,          (* of each query: the slices it appended or returned  *)
    row,             (* the slice for the next row, 0 for none             *)
    memory,          (* of each slice: what it holds                       *)
    broken           (* history: the queries whose error nobody looked at  *)

queryVars == <<client, queryPc, queries, total, slices, row, memory, broken>>

Blank == <<0, 0>>
Scanned(q) == Len(slices[q])
\* The clients whose rows are scanned one by one.
ByRow == client \in {"sql", "cassandra"}

QueryInit ==
    /\ client \in Clients /\ queryPc = "idle" /\ queries = 0
    /\ total = <<>> /\ slices = <<>> /\ row = 0 /\ memory = <<>> /\ broken = {}

StartQuery(n) ==
    /\ queryPc = "idle" /\ queries < MaxQueries
    /\ queryPc' = "query" /\ queries' = queries + 1
    /\ total' = Append(total, n) /\ slices' = Append(slices, <<>>)
    /\ UNCHANGED <<client, row, memory, broken>>

\* A transaction (sql, redis), an error of the database, a column type or value
\* that is not supported, a row that cannot be scanned.
QueryFails ==
    /\ queryPc \in {"query", "rows"} /\ queryPc' = "gone"
    /\ UNCHANGED <<client, queries, total, slices, row, memory, broken>>

\* makeRowBuffer of cassandra, before the rows and after each; rowD of sql is
\* made as a row is scanned.
NewSlice == memory' = Append(memory, Blank) /\ row' = Len(memory')

Columns ==
    /\ queryPc = "query" /\ ByRow /\ queryPc' = "rows"
    /\ IF client = "cassandra" THEN NewSlice ELSE row' = 0 /\ UNCHANGED memory
    /\ UNCHANGED <<client, queries, total, slices, broken>>

\* The iterator of cassandra takes an error of the query with it, to a Close
\* that is never called: the result is empty.
IterFails ==
    /\ queryPc = "query" /\ client = "cassandra" /\ queryPc' = "idle"
    /\ broken' = broken \cup {queries}
    /\ UNCHANGED <<client, queries, total, slices, row, memory>>

ScanInto(s, m) ==
    /\ slices' = [slices EXCEPT ![queries] = Append(@, s)]
    /\ memory' = [m EXCEPT ![s] = <<queries, Scanned(queries) + 1>>]
    /\ UNCHANGED <<client, queryPc, queries, total, broken>>

ScanRow ==
    /\ queryPc = "rows" /\ client = "sql" /\ Scanned(queries) < total[queries]
    /\ ScanInto(Len(memory) + 1, Append(memory, Blank)) /\ UNCHANGED row

IterScanAlias ==   \* mutant: the buffer is not made anew
    /\ queryPc = "rows" /\ client = "cassandra" /\ Scanned(queries) < total[queries]
    /\ ScanInto(row, memory) /\ UNCHANGED row
IterScan ==
    /\ queryPc = "rows" /\ client = "cassandra" /\ Scanned(queries) < total[queries]
    /\ ScanInto(row, Append(memory, Blank)) /\ row' = Len(memory')

\* Next or Scan says that there is no row; whether for an error, nobody asks.
RowsEnd ==
    /\ queryPc = "rows" /\ queryPc' = "idle"
    /\ broken' = IF Scanned(queries) < total[queries] THEN broken \cup {queries} ELSE broken
    /\ UNCHANGED <<client, queries, total, slices, row, memory>>

\* The reply of redis, one row whose elements are counted here, and the output of
\* ssh, at least one line, are converted in one go.  A session of ssh runs one
\* command only: the next one fails.
Convert ==
    /\ queryPc = "query" /\ ~ByRow /\ queryPc' = "idle"
    /\ client = "ssh" => queries = 1 /\ total[queries] > 0
    /\ LET n == total[queries] IN
       /\ slices' = [slices EXCEPT ![queries] = [i \in 1..n |-> Len(memory) + i]]
       /\ memory' = memory \o [i \in 1..n |-> <<queries, i>>]
    /\ UNCHANGED <<client, queries, total, row, broken>>

QueryNext ==
    \/ \E n \in 0..MaxResult : StartQuery(n)
    \/ QueryFails \/ Columns \/ IterFails \/ ScanRow \/ IterScan \/ RowsEnd \/ Convert

QuerySpec == QueryInit /\ [][QueryNext]_queryVars

-----------------------------------------------------------------------------
(* Properties.                                                             *)

\* The rows a caller got are those of its query, in their order, and later rows
\* and later queries do not change them; none is missing where RunQuery
\* returned, unless an error that std_sql or cassandra does not look at ended
\* the result.
RowsOwn ==
    \A q \in 1..queries :
        /\ \A i \in DOMAIN slices[q] : memory[slices[q][i]] = <<q, i>>
        /\ (q < queries \/ queryPc = "idle") /\ q \notin broken => Scanned(q) = total[q]
=============================================================================
