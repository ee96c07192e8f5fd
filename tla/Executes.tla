------------------------------ MODULE Executes ------------------------------
(***************************************************************************)
(* RunExecute of the connections of connpool/internal/connection: the      *)
(* calls that one connection of a pool serves after each other, each call  *)
(* to the database, which may fail, and the session it leaves behind.  A   *)
(* connection whose call failed is closed and replaced by the pool (see    *)
(* TimeoutPool), and a database forgets the open transaction of a session  *)
(* that is closed; one whose call succeeded serves the next call as it is. *)
(* The statements of a call are its parameter sets, 1, 2, ...; of kafka    *)
(* those that are not nil.                                                 *)
(***************************************************************************)
EXTENDS Integers

CONSTANTS Kinds,     (* the kinds of connection looked at                  *)
          MaxSets,   (* bound: the parameter sets of a call                *)
          MaxCalls   (* bound: the calls                                   *)

ASSUME ExecutesConstants ==
    /\ Kinds \subseteq {"odbc", "sql", "redis", "kafka", "cassandra"}
    /\ MaxSets \in Nat \ {0} /\ MaxCalls \in Nat

VARIABLES
    kind,                (* the type of the connection                     *)
    call, job, outcome,  (* the number of the call; of each call: Args, result *)
    pc, k, failed,       (* where it stands, the next set, execErr # nil   *)
    ctxDone,             (* its context                                    *)
    auto, open, dirty,   (* the session: autocommit, the statements of its *)
                         (* open transaction, whether redis refused one    *)
    applied,             (* of each call: its durable statements           *)
    loose                (* the calls that a fault keeps from the promise (history) *)

callVars == <<kind, call, job>>
session == <<auto, open, dirty>>
vars == <<callVars, outcome, pc, k, failed, ctxDone, session, applied, loose>>

Calls == 1..MaxCalls
NilArgs == -1            \* Args.Args = nil, and not just empty
Jobs == [tran : BOOLEAN, args : NilArgs..MaxSets]
Number(j) == IF j.args = NilArgs THEN 0 ELSE j.args

\* The calls that open a transaction.  std_sql does so for the calls that do not
\* ask for one, and for no other.
Transactional(j) == CASE kind = "sql" -> ~j.tran
                      [] kind = "redis" -> j.tran /\ Number(j) > 0
                      [] kind \in {"odbc", "kafka"} -> j.tran
                      [] kind = "cassandra" -> FALSE

\* The statements the code sends: a query without sets is sent once, except by
\* std_sql for an empty list and by kafka, whose messages are the sets; outside
\* a batch, cassandra sends the first set only.
Steps(j) == CASE kind = "sql" -> IF j.args = NilArgs THEN 1 ELSE j.args
              [] kind = "kafka" \/ (kind = "cassandra" /\ j.tran) -> Number(j)
              [] kind = "cassandra" /\ ~j.tran -> 1
              [] kind \in {"odbc", "redis"} -> IF Number(j) = 0 THEN 1 ELSE Number(j)

Job == job[call]
At(l) == pc = l
Own(S) == {<<call, s>> : s \in S}

Init ==
    /\ kind \in Kinds
    /\ call = 0 /\ job = [c \in Calls |-> [tran |-> FALSE, args |-> NilArgs]]
    /\ outcome = [c \in Calls |-> "none"]
    /\ pc = "idle" /\ k = 1 /\ failed = FALSE /\ ctxDone = FALSE
    /\ auto = TRUE /\ open = {} /\ dirty = FALSE
    /\ applied = [c \in Calls |-> {}] /\ loose = {}

\* A statement that the session makes durable at once, or within its transaction.
Effect(S) ==
    IF auto THEN applied' = [applied EXCEPT ![call] = @ \cup S] /\ UNCHANGED open
            ELSE open' = open \cup Own(S) /\ UNCHANGED applied

\* Statements of the open transaction become durable, whoever asked for them.
Commit(S) == applied' = [c \in Calls |-> applied[c] \cup {s \in 1..MaxSets : <<c, s>> \in S}]

\* RunExecute returns nil, and the connection goes back to the pool.
Succeed == pc' = "idle" /\ outcome' = [outcome EXCEPT ![call] = "ok"]

\* RunExecute returns an error, and the pool closes the connection: the next
\* call has a new session.
Fail ==
    /\ pc' = "idle" /\ outcome' = [outcome EXCEPT ![call] = "failed"]
    /\ auto' = TRUE /\ open' = {} /\ dirty' = FALSE

-----------------------------------------------------------------------------
(* The call, and the statements.                                           *)

Call(j) ==
    /\ At("idle") /\ call < MaxCalls
    /\ call' = call + 1
    /\ job' = [job EXCEPT ![call + 1] = j]
    /\ outcome' = [outcome EXCEPT ![call + 1] = "run"]
    /\ pc' = "begin" /\ k' = 1 /\ failed' = FALSE /\ ctxDone' = FALSE
    /\ UNCHANGED <<kind, session, applied, loose>>

\* An empty query or a context that is done (odbc), a message that is neither
\* string nor bytes (kafka), or a transaction that does not begin.
Refuse ==
    /\ At("begin") /\ (Transactional(Job) \/ kind \in {"odbc", "kafka"})
    /\ Fail
    /\ UNCHANGED <<callVars, k, failed, ctxDone, applied, loose>>

Begin ==
    /\ At("begin") /\ kind # "cassandra"
    /\ kind = "odbc" => ~ctxDone
    /\ auto' = (auto /\ ~Transactional(Job))
    /\ pc' = "exec"
    /\ UNCHANGED <<callVars, outcome, k, failed, ctxDone, open, dirty, applied, loose>>

OneByOne == At("exec") /\ kind \in {"odbc", "sql", "redis"}

Exec ==
    /\ OneByOne /\ k <= Steps(Job)
    /\ kind = "odbc" => ~ctxDone
    /\ Effect({k}) /\ k' = k + 1
    /\ UNCHANGED <<callVars, outcome, pc, failed, ctxDone, auto, dirty, loose>>

\* The set that fails may have had its effect; odbc does not even try when the
\* context is done.  A command that redis refuses makes it refuse the EXEC.
ExecFails ==
    /\ OneByOne /\ k <= Steps(Job)
    /\ \E S \in {{}, {k}} : (S # {} /\ kind = "odbc" => ~ctxDone) /\ Effect(S)
    /\ dirty' \in IF kind = "redis" THEN BOOLEAN ELSE {dirty}
    /\ failed' = TRUE /\ pc' = "end"
    /\ UNCHANGED <<callVars, outcome, k, ctxDone, auto, loose>>

ExecEnd ==
    /\ OneByOne /\ k > Steps(Job)
    /\ pc' = "end"
    /\ UNCHANGED <<callVars, outcome, k, failed, ctxDone, session, applied, loose>>

\* SendMessages of kafka sends them all, and may fail for some.
SendMessages ==
    /\ At("exec") /\ kind = "kafka"
    /\ \E S \in SUBSET (1..Steps(Job)) :
          Effect(S) /\ failed' \in BOOLEAN /\ (failed' \/ S = 1..Steps(Job))
    /\ pc' = "end"
    /\ UNCHANGED <<callVars, outcome, k, ctxDone, auto, dirty, loose>>

\* Outside a transaction that is all; an error of std_sql outside its
\* transaction returns from within the loop.
EndPlain ==
    /\ At("end") /\ ~Transactional(Job)
    /\ IF failed THEN Fail ELSE Succeed /\ UNCHANGED session
    /\ UNCHANGED <<callVars, k, failed, ctxDone, applied, loose>>

\* cassandra sends one batch, or one query.
ExecContext ==
    /\ At("begin") /\ kind = "cassandra"
    /\ \E S \in {{}, 1..Steps(Job)} :
          /\ Effect(S)
          /\ \/ S = 1..Steps(Job) /\ Succeed /\ UNCHANGED <<auto, dirty>>
                /\ loose' = IF Steps(Job) < Number(Job) THEN loose \cup {call} ELSE loose
             \/ Fail /\ UNCHANGED loose
    /\ UNCHANGED <<callVars, k, failed, ctxDone>>

-----------------------------------------------------------------------------
(* The end of a transaction.                                               *)

Ends(t) == At("end") /\ kind = t /\ Transactional(Job)

\* EndTransaction(true); an error says nothing about what became of it.
OdbcCommitForgets ==   \* mutant: a commit that fails counts as done
    /\ Ends("odbc") /\ ~failed
    /\ open' = {} /\ (Commit(open) \/ UNCHANGED applied)
    /\ pc' = "restore" /\ UNCHANGED failed
    /\ UNCHANGED <<callVars, outcome, k, ctxDone, auto, dirty, loose>>
OdbcCommit ==
    /\ Ends("odbc") /\ ~failed
    /\ \/ Commit(open) /\ open' = {} /\ failed' \in BOOLEAN
       \/ UNCHANGED applied /\ open' \in {{}, open} /\ failed' = TRUE
    /\ pc' = "restore"
    /\ UNCHANGED <<callVars, outcome, k, ctxDone, auto, dirty, loose>>

\* EndTransaction(false).
OdbcRollback ==
    /\ Ends("odbc") /\ failed
    /\ open' = {} /\ pc' = "restore"
    /\ UNCHANGED <<callVars, outcome, k, failed, ctxDone, auto, dirty, applied, loose>>
OdbcRollbackFails ==
    /\ Ends("odbc") /\ failed
    /\ pc' = "restore" /\ loose' = loose \cup {call}
    /\ UNCHANGED <<callVars, outcome, k, failed, ctxDone, session, applied>>

\* SetAutocommit(true): ODBC commits the transaction that is still open.
RestoreIgnored ==   \* mutant: the error of SetAutocommit is ignored
    /\ At("restore")
    /\ \/ auto' = TRUE /\ Commit(open) /\ open' = {} /\ UNCHANGED dirty
       \/ UNCHANGED <<session, applied>>
    /\ pc' = "idle" /\ outcome' = [outcome EXCEPT ![call] = IF failed THEN "failed" ELSE "ok"]
    /\ UNCHANGED <<callVars, k, failed, ctxDone, loose>>
Restore ==
    /\ At("restore")
    /\ Commit(open)
    /\ IF failed THEN Fail ELSE Succeed /\ auto' = TRUE /\ open' = {} /\ UNCHANGED dirty
    /\ UNCHANGED <<callVars, k, failed, ctxDone, loose>>
RestoreFails ==
    /\ At("restore") /\ Fail
    /\ UNCHANGED <<callVars, k, failed, ctxDone, applied, loose>>

\* The deferred Commit of std_sql, whose error is ignored: the call succeeds
\* even if the context, or the database, ended the transaction before.
SqlCommit ==
    /\ Ends("sql") /\ ~failed
    /\ \/ ~ctxDone /\ Commit(open) /\ UNCHANGED loose
       \/ loose' = loose \cup {call} /\ UNCHANGED applied
    /\ Succeed /\ auto' = TRUE /\ open' = {}
    /\ UNCHANGED <<callVars, k, failed, ctxDone, dirty>>

SqlRollback ==
    /\ Ends("sql") /\ failed /\ Fail
    /\ UNCHANGED <<callVars, k, failed, ctxDone, applied, loose>>

\* EXEC, sent whether the commands were accepted or not.  It runs those that
\* were, unless one was refused; those that fail then are not looked at.
WholeOr(S, ok) == loose' = IF S = Own(1..Number(Job)) \/ (S = {} /\ ok) THEN loose ELSE loose \cup {call}
RedisExec ==
    /\ Ends("redis") /\ ~dirty
    /\ \E S \in SUBSET open : Commit(S) /\ WholeOr(S, failed)
    /\ IF failed THEN Fail ELSE Succeed /\ auto' = TRUE /\ open' = {} /\ UNCHANGED dirty
    /\ UNCHANGED <<callVars, k, failed, ctxDone>>

\* It is refused, or its reply is lost.
RedisExecFails ==
    /\ Ends("redis")
    /\ \E S \in SUBSET open : (dirty => S = {}) /\ Commit(S) /\ WholeOr(S, TRUE)
    /\ Fail
    /\ UNCHANGED <<callVars, k, failed, ctxDone>>

\* CommitTxn, and AbortTxn after any error.
CommitTxn ==
    /\ Ends("kafka") /\ ~failed
    /\ Commit(open) /\ Succeed
    /\ auto' = TRUE /\ open' = {}
    /\ UNCHANGED <<callVars, k, failed, ctxDone, dirty, loose>>
AbortTxn ==
    /\ Ends("kafka")
    /\ UNCHANGED applied \/ (~failed /\ Commit(open))
    /\ Fail
    /\ UNCHANGED <<callVars, k, failed, ctxDone, loose>>

-----------------------------------------------------------------------------
Cancel ==
    /\ ~At("idle") /\ ~ctxDone /\ ctxDone' = TRUE
    /\ UNCHANGED <<callVars, outcome, pc, k, failed, session, applied, loose>>

Finished == At("idle") /\ call = MaxCalls /\ UNCHANGED vars

Next ==
    \/ \E j \in Jobs : Call(j)
    \/ Refuse \/ Begin \/ Exec \/ ExecFails \/ ExecEnd \/ SendMessages \/ EndPlain \/ ExecContext
    \/ OdbcCommit \/ OdbcRollback \/ OdbcRollbackFails \/ Restore \/ RestoreFails
    \/ SqlCommit \/ SqlRollback \/ RedisExec \/ RedisExecFails \/ CommitTxn \/ AbortTxn
    \/ Cancel \/ Finished

Spec == Init /\ [][Next]_vars

-----------------------------------------------------------------------------
(* Properties.                                                             *)

\* The variables have their types; what is durable, or waits to be, was asked
\* for by a call.
TypeOK ==
    /\ kind \in Kinds /\ call \in 0..MaxCalls
    /\ job \in [Calls -> Jobs]
    /\ outcome \in [Calls -> {"none", "run", "ok", "failed"}]
    /\ pc \in {"idle", "begin", "exec", "end", "restore"}
    /\ k \in Nat \ {0} /\ failed \in BOOLEAN /\ ctxDone \in BOOLEAN
    /\ auto \in BOOLEAN /\ dirty \in BOOLEAN
    /\ open \subseteq Calls \X (1..MaxSets)
    /\ applied \in [Calls -> SUBSET (1..MaxSets)]
    /\ \A c \in Calls : applied[c] \subseteq IF c > call THEN {} ELSE 1..Steps(job[c])
    /\ loose \subseteq 1..call
    /\ \A c \in Calls : c > call <=> outcome[c] = "none"
    /\ pc # "idle" => outcome[call] = "run"

\* A connection that the pool keeps has no transaction of an earlier call open,
\* commits again by itself, and an open transaction holds statements of the
\* running call alone: whatever failed and wherever the context ended.
CleanConnection ==
    /\ pc = "idle" => auto /\ open = {} /\ ~dirty
    /\ \A t \in open : t[1] = call

\* RunExecute keeps the promise of ExecPromise: no statement takes effect after
\* its call, a call that asks for a transaction is all or nothing, and nil means
\* done.  Two exceptions are named.  A call of std_sql that asks for a
\* transaction gets none ("split", see TransactionAsked).  And a call is loose
\* after a rollback that failed, a commit of std_sql that failed, an EXEC that
\* ran a part, and several sets for one query of cassandra.
Mode(c) == IF c \in loose THEN "loose"
           ELSE IF outcome[c] = "none" \/ ~job[c].tran THEN "each"
           ELSE IF kind = "sql" THEN "split" ELSE "atomic"
Size(c) == IF outcome[c] = "none" THEN 0
           ELSE IF Number(job[c]) = 0 THEN Steps(job[c]) ELSE Number(job[c])
Promised == INSTANCE ExecPromise WITH phase <- outcome, effect <- applied, MaxSize <- MaxSets,
                mode <- [c \in Calls |-> Mode(c)], size <- [c \in Calls |-> Size(c)]
Promise == Promised!Spec

\* What odbc_conn.go:43 ("ODBC begin transaction failed", under IsTransaction)
\* and the name of the option say: a call that asks for a transaction and fails
\* has applied all its sets or none.
TransactionAsked ==
    \A c \in Calls : job[c].tran /\ outcome[c] = "failed" => applied[c] \in {{}, 1..Steps(job[c])}
=============================================================================
