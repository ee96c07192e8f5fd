------------------------------- MODULE OdbcFfi -------------------------------
(***************************************************************************)
(* The ODBC binding of connpool/internal/ffi/odbc.go under odbcConn: the   *)
(* handles and the C memory that opening a connection, its calls and its   *)
(* Close allocate and free, whichever call to the driver fails, and the    *)
(* rows that a Query reads, column by column, a text in chunks.  A call    *)
(* that fails closes the connection (see TimeoutPool).  Memory that is     *)
(* freed in the step that allocates it is left out.                        *)
(***************************************************************************)
EXTENDS Integers, FiniteSets

CONSTANTS MaxParams,   (* bound: the parameters of a call                  *)
          MaxCols,     (* bound: the columns of a result                   *)
          MaxChunks,   (* bound: the chunks of a text                      *)
          MaxRows,     (* bound: the rows of a result                      *)
          MaxFfi       (* bound: the calls on one connection               *)

ASSUME FfiConstants ==
    /\ MaxParams \in Nat /\ MaxCols \in Nat
    /\ MaxChunks \in Nat /\ MaxRows \in Nat /\ MaxFfi \in Nat

VARIABLES
    ffiPc,             (* where OpenODBC, the call, or Close stands        *)
    handles, linked,   (* what SQLAllocHandle gave; the session            *)
    cMem,              (* the memory allocated in C                        *)
    bound,             (* the parameters in the slice of that name         *)
    params, isQuery,   (* the call: its parameters, Query or Execute       *)
    cols, col,         (* the columns of the result, and the one read      *)
    chunks,            (* the chunks of the text that the driver still has *)
    rows,              (* the number of rows appended                      *)
    fetched, short,    (* history: rows fetched; whether a text was cut    *)
    ffiCalls, ffiOk    (* history: the calls, and whether the last was ok  *)

ffiJob == <<params, isQuery>>
ffiRead == <<cols, col, chunks, rows, fetched, short>>
ffiVars == <<ffiPc, handles, linked, cMem, bound, ffiJob, ffiRead, ffiCalls, ffiOk>>

CString == <<"query", 0>>
Buffers(i) == {<<"ptr", i>>, <<"ind", i>>}

FfiInit ==
    /\ ffiPc = "alloc env" /\ handles = {} /\ linked = FALSE
    /\ cMem = {} /\ bound = {}
    /\ params = 0 /\ isQuery = FALSE
    /\ cols = 0 /\ col = 0 /\ chunks = 0
    /\ rows = 0 /\ fetched = 0 /\ short = FALSE
    /\ ffiCalls = 0 /\ ffiOk = TRUE

-----------------------------------------------------------------------------
(* OpenODBC and Close.                                                     *)

OpenStep(from, to, h) ==
    /\ ffiPc = from /\ ffiPc' = to /\ handles' = h
    /\ UNCHANGED <<cMem, bound, ffiJob, ffiRead, ffiCalls, ffiOk>>

AllocEnv == OpenStep("alloc env", "alloc dbc", {"env"}) /\ UNCHANGED linked
AllocDbc == OpenStep("alloc dbc", "connect", {"env", "dbc"}) /\ UNCHANGED linked
Connect == OpenStep("connect", "open", handles) /\ linked' = TRUE

\* Each error frees what was allocated before it; "alloc dbc" also stands for
\* SQLSetEnvAttr before it.
OpenFails ==
    /\ \/ OpenStep("alloc env", "none", {})
       \/ OpenStep("alloc dbc", "none", handles \ {"env"})
       \/ OpenStep("connect", "none", handles \ {"dbc", "env"})
    /\ UNCHANGED linked

\* Close goes on after an error of SQLDisconnect, of a transaction that is still
\* open for one; the handles of a session cannot be freed then, and are lost.
FfiClose(from) ==
    /\ ffiPc = from /\ ffiPc' = "closed"
    /\ \/ linked' = FALSE /\ handles' = {}
       \/ UNCHANGED <<linked, handles>>
    /\ UNCHANGED <<cMem, bound, ffiJob, ffiRead, ffiCalls, ffiOk>>

-----------------------------------------------------------------------------
(* Execute and Query.                                                      *)

\* newStatement, and the C string of the query.
FfiCall(n, q) ==
    /\ ffiPc = "open" /\ ffiCalls < MaxFfi
    /\ ffiPc' = "bind" /\ handles' = handles \cup {"stmt"}
    /\ cMem' = cMem \cup {CString} /\ bound' = {}
    /\ params' = n /\ isQuery' = q /\ ffiCalls' = ffiCalls + 1 /\ ffiOk' = FALSE
    /\ rows' = 0 /\ fetched' = 0 /\ short' = FALSE
    /\ UNCHANGED <<linked, cols, col, chunks>>

\* The deferred calls: the parameters bound so far, the query, the statement.
FfiReturnEarly(isOk) ==   \* mutant: the parameters are freed only after an execution
    /\ ffiPc' = IF isOk THEN "open" ELSE "failed"
    /\ ffiOk' = isOk
    /\ handles' = handles \ {"stmt"}
    /\ cMem' = cMem \ ({CString} \cup IF ffiPc = "bind" THEN {} ELSE UNION {Buffers(i) : i \in bound})
    /\ UNCHANGED <<linked, bound, ffiJob, ffiRead, ffiCalls>>
FfiReturn(isOk) ==
    /\ ffiPc' = IF isOk THEN "open" ELSE "failed"
    /\ ffiOk' = isOk
    /\ handles' = handles \ {"stmt"}
    /\ cMem' = cMem \ ({CString} \cup UNION {Buffers(i) : i \in bound})
    /\ UNCHANGED <<linked, bound, ffiJob, ffiRead, ffiCalls>>

\* bind, which frees its memory itself if it fails: it is not in the slice then.
Bind ==
    /\ ffiPc = "bind" /\ Cardinality(bound) < params
    /\ LET i == Cardinality(bound) + 1 IN
       cMem' = cMem \cup Buffers(i) /\ bound' = bound \cup {i}
    /\ UNCHANGED <<ffiPc, handles, linked, ffiJob, ffiRead, ffiCalls, ffiOk>>

\* SQLExecDirect, or SQLExecute once all are bound.  A statement that changes
\* no row is answered by SQL_NO_DATA, an error here.
Run(c) ==
    /\ ffiPc = "bind" /\ Cardinality(bound) = params
    /\ IF isQuery
       THEN /\ ffiPc' = "fetch" /\ cols' = c
            /\ UNCHANGED <<handles, linked, cMem, bound, ffiJob, col, chunks, rows, fetched, short, ffiCalls, ffiOk>>
       ELSE c = 0 /\ FfiReturn(TRUE)

\* Any call to the driver fails, or an allocation.
FfiFails == ffiPc \in {"bind", "fetch", "column", "chunk"} /\ FfiReturn(FALSE)

FetchRow ==
    /\ ffiPc = "fetch" /\ fetched < MaxRows
    /\ ffiPc' = "column" /\ col' = 1 /\ fetched' = fetched + 1
    /\ UNCHANGED <<handles, linked, cMem, bound, ffiJob, cols, chunks, rows, short, ffiCalls, ffiOk>>

\* SQL_NO_DATA.  odbcConn looks at its context again, which may be done.
FetchEnd == ffiPc = "fetch" /\ \E isOk \in BOOLEAN : FfiReturn(isOk)

ToColumn(c, left) ==
    /\ ffiPc' = "column" /\ col' = c /\ chunks' = 0
    /\ short' = (short \/ left > 0)
    /\ UNCHANGED <<handles, linked, cMem, bound, ffiJob, cols, rows, fetched, ffiCalls, ffiOk>>

\* A number, or NULL.
ReadFixed == ffiPc = "column" /\ col <= cols /\ ToColumn(col + 1, 0)

InText(n) ==
    /\ ffiPc' = "chunk" /\ chunks' = n
    /\ UNCHANGED <<handles, linked, cMem, bound, ffiJob, cols, col, rows, fetched, short, ffiCalls, ffiOk>>

\* Anything else is a text; the driver has it in chunks.
BeginText == ffiPc = "column" /\ col <= cols /\ \E n \in 1..MaxChunks : InText(n)

\* One call of SQLGetData.  SQL_SUCCESS ends the text; SQL_SUCCESS_WITH_INFO
\* says that there is more, or something else about the last chunk.
ReadChunkOnce ==   \* mutant: both end it
    ffiPc = "chunk" /\ chunks > 0 /\ ToColumn(col + 1, chunks - 1)
ReadChunk ==
    /\ ffiPc = "chunk" /\ chunks > 0
    /\ InText(chunks - 1) \/ (chunks = 1 /\ ToColumn(col + 1, 0))

\* SQL_NO_DATA after the last chunk.
TextEnd == ffiPc = "chunk" /\ chunks = 0 /\ ToColumn(col + 1, 0)

RowDone ==
    /\ ffiPc = "column" /\ col > cols
    /\ ffiPc' = "fetch" /\ rows' = rows + 1
    /\ UNCHANGED <<handles, linked, cMem, bound, ffiJob, cols, col, chunks, fetched, short, ffiCalls, ffiOk>>

FfiNext ==
    \/ AllocEnv \/ AllocDbc \/ Connect \/ OpenFails
    \/ \E n \in 0..MaxParams, q \in BOOLEAN : FfiCall(n, q)
    \/ Bind \/ \E c \in 0..MaxCols : Run(c)
    \/ FfiFails \/ FetchRow \/ FetchEnd \/ ReadFixed \/ BeginText \/ ReadChunk \/ TextEnd \/ RowDone
    \/ FfiClose("open") \/ FfiClose("failed")

FfiSpec == FfiInit /\ [][FfiNext]_ffiVars

-----------------------------------------------------------------------------
(* Properties.                                                             *)

\* Whatever call to the driver fails, and however far the parameters were bound:
\* an execution finds the memory of all its parameters, and after a call, a
\* failed open, and a Close that disconnects, nothing is left behind: no
\* statement, no memory, no handle.
FfiClean ==
    /\ CString \in cMem <=> "stmt" \in handles
    /\ ffiPc = "fetch" => \A i \in 1..params : Buffers(i) \subseteq cMem
    /\ ffiPc \in {"none", "open", "failed", "closed"} => cMem = {} /\ "stmt" \notin handles
    /\ ffiPc = "none" => handles = {}
    /\ ffiPc = "closed" /\ ~linked => handles = {}
    /\ ffiPc \in {"open", "failed"} => handles = {"env", "dbc"} /\ linked

\* A Query that returns no error returns every row that was fetched, with all
\* the chunks of its texts.
FfiComplete == ffiPc = "open" /\ ffiOk => rows = fetched /\ ~short
=============================================================================
