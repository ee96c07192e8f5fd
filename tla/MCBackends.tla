------------------------------ MODULE MCBackends ------------------------------
(***************************************************************************)
(* What a plan runs its statements on, for model checking: a connection of *)
(* connpool/internal/connection, in the part of Executes, Queries,         *)
(* OdbcFfi, KafkaReader or ShellConn, or the Lua machine of LuaVm; the     *)
(* generic pool of SyncUsePool; and the log file of RotateWriter.  They    *)
(* share nothing, and a behaviour is one of them, as NewConnPool of        *)
(* factory.go and GetVm of state.go make one; all others stay as they are. *)
(***************************************************************************)
EXTENDS Executes, OdbcFfi, Queries, KafkaReader, ShellConn, MCLuaVm, SyncUsePool,
        RotateWriter

VARIABLE backend
backendVars == <<backend, vars, ffiVars, queryVars, kafkaVars, shellVars, luaVars, syncVars,
                 logVars>>

Backends == {"execute", "odbc", "query", "kafka", "shell", "lua", "pool", "log"}

BackendInit ==
    /\ backend \in Backends
    /\ Init /\ FfiInit /\ QueryInit /\ KafkaInit /\ ShellInit /\ LuaInit /\ SyncInit
    /\ LogInit
    /\ backend # "execute" => kind = CHOOSE x \in Kinds : TRUE
    /\ backend # "query" => client = CHOOSE x \in Clients : TRUE
    /\ backend # "kafka" => topic = Partitions
    /\ backend # "log" => maxBackups = 0

\* Nothing runs; or the shell waits for an answer that has no line.
AtRest ==
    /\ ffiPc \in {"alloc env", "none", "open", "closed"}
    /\ queryPc \in {"idle", "gone"} /\ kafkaPc \in {"idle", "gone"} /\ luaPc = "idle"
    /\ \A g \in Goroutines : usePc[g] = "idle"
    /\ shPc # "reading" \/ \E c \in DOMAIN answer : answer[c] = <<>>

BackendNext ==
    \/ /\ backend = "execute" /\ Next
       /\ UNCHANGED <<backend, ffiVars, queryVars, kafkaVars, shellVars, luaVars, syncVars, logVars>>
    \/ /\ backend = "odbc" /\ FfiNext
       /\ UNCHANGED <<backend, vars, queryVars, kafkaVars, shellVars, luaVars, syncVars, logVars>>
    \/ /\ backend = "query" /\ QueryNext
       /\ UNCHANGED <<backend, vars, ffiVars, kafkaVars, shellVars, luaVars, syncVars, logVars>>
    \/ /\ backend = "kafka" /\ KafkaNext
       /\ UNCHANGED <<backend, vars, ffiVars, queryVars, shellVars, luaVars, syncVars, logVars>>
    \/ /\ backend = "shell" /\ ShellNext
       /\ UNCHANGED <<backend, vars, ffiVars, queryVars, kafkaVars, luaVars, syncVars, logVars>>
    \/ /\ backend = "lua" /\ LuaNext
       /\ UNCHANGED <<backend, vars, ffiVars, queryVars, kafkaVars, shellVars, syncVars, logVars>>
    \/ /\ backend = "pool" /\ SyncNext
       /\ UNCHANGED <<backend, vars, ffiVars, queryVars, kafkaVars, shellVars, luaVars, logVars>>
    \/ /\ backend = "log" /\ LogNext
       /\ UNCHANGED <<backend, vars, ffiVars, queryVars, kafkaVars, shellVars, luaVars, syncVars>>
    \/ backend \notin {"execute", "log"} /\ AtRest /\ UNCHANGED backendVars

BackendSpec == BackendInit /\ [][BackendNext]_backendVars /\ ShellFair

\* The answers: one line, a wider header, a wider row, and no line at all.
MCAnswers == {<<1>>, <<2, 1>>, <<1, 2>>, <<>>}
=============================================================================
