--------------------------- MODULE ExecutesProofs ---------------------------
(* What a connection guarantees for any number of calls and parameter sets, *)
(* whichever of its steps fail.                                             *)
EXTENDS Executes, TLAPS

(* The statements of a call.                                               *)

\* What a call sends is within its bounds, and never more than was asked for.
LEMMA JobFacts ==
    ASSUME kind \in Kinds, NEW j \in Jobs
    PROVE  /\ Transactional(j) \in BOOLEAN
           /\ Number(j) \in 0..MaxSets /\ Steps(j) \in 0..MaxSets
           /\ Number(j) # 0 => Steps(j) <= Number(j)
           /\ Number(j) # 0 /\ kind # "cassandra" => Steps(j) = Number(j)
           /\ kind = "redis" /\ Transactional(j) => Number(j) > 0
           /\ kind = "cassandra" => ~Transactional(j)
           /\ kind = "cassandra" /\ j.tran => Steps(j) = Number(j)
<1>. USE ExecutesConstants DEF Jobs, Number, NilArgs, Transactional, Steps
<1>1. CASE kind = "odbc"
  BY <1>1
<1>2. CASE kind = "sql"
  BY <1>2
<1>3. CASE kind = "redis"
  BY <1>3
<1>4. CASE kind = "kafka"
  BY <1>4
<1>5. CASE kind = "cassandra"
  BY <1>5
<1>. QED
  BY <1>1, <1>2, <1>3, <1>4, <1>5

(***************************************************************************)
(* Where a call stands says what its session is.  This is the inductive    *)
(* form of CleanConnection.                                                *)
(***************************************************************************)
FlowInv ==
    /\ pc = "idle" => auto /\ open = {} /\ ~dirty
    /\ pc # "idle" => call \in Calls /\ open \subseteq Own(1..Steps(Job))
    /\ pc = "begin" => auto /\ ~dirty /\ ~failed /\ k = 1 /\ applied[call] = {}
    /\ pc \in {"exec", "end"} => kind # "cassandra" /\ (auto <=> ~Transactional(Job))
    /\ pc = "exec" => ~failed
    /\ pc = "restore" => kind = "odbc" /\ Transactional(Job)
    /\ auto => open = {}
    /\ dirty => pc = "end" /\ kind = "redis" /\ failed

ExecInv == TypeOK /\ FlowInv

\* A call in progress, as the lemmas about its steps assume it.
LEMMA InCall ==
    ASSUME ExecInv, pc # "idle"
    PROVE  /\ call \in Calls /\ Job \in Jobs /\ outcome[call] = "run"
           /\ Transactional(Job) \in BOOLEAN /\ Steps(Job) \in 0..MaxSets
           /\ applied[call] \subseteq 1..Steps(Job) /\ 1..Steps(Job) \subseteq 1..MaxSets
<1>1. call \in Calls /\ Job \in Jobs /\ outcome[call] = "run" /\ kind \in Kinds
  BY DEF ExecInv, TypeOK, FlowInv, Job
<1>2. Transactional(Job) \in BOOLEAN /\ Steps(Job) \in 0..MaxSets
  BY <1>1, JobFacts
<1>3. applied[call] \subseteq 1..Steps(Job)
  BY <1>1, ExecutesConstants DEF ExecInv, TypeOK, Job, Calls
<1>. QED
  BY <1>1, <1>2, <1>3, ExecutesConstants

\* What Commit makes durable is of the running call.
LEMMA CommitOnly ==
    ASSUME ExecInv, pc # "idle", NEW S \in SUBSET Own(1..Steps(Job)), Commit(S)
    PROVE  \E T \in SUBSET (1..Steps(Job)) :
              /\ applied' = [applied EXCEPT ![call] = @ \cup T]
              /\ S = Own(T)
<1>. DEFINE T == {s \in 1..MaxSets : <<call, s>> \in S}
<1>1. /\ call \in Calls /\ 1..Steps(Job) \subseteq 1..MaxSets
      /\ applied \in [Calls -> SUBSET (1..MaxSets)]
  BY InCall DEF ExecInv, TypeOK
<1>2. T \subseteq 1..Steps(Job) /\ S = Own(T)
  BY <1>1 DEF Own
<1>3. ASSUME NEW c \in Calls, c # call PROVE {s \in 1..MaxSets : <<c, s>> \in S} = {}
  BY <1>3 DEF Own
<1>4. applied' = [c \in Calls |-> applied[c] \cup {s \in 1..MaxSets : <<c, s>> \in S}]
  BY DEF Commit
<1>5. applied' = [applied EXCEPT ![call] = @ \cup T]
  BY <1>1, <1>3, <1>4
<1>. QED
  BY <1>2, <1>5

\* A statement goes to the table or to the transaction, according to autocommit.
LEMMA EffectOnly ==
    ASSUME ExecInv, pc # "idle", NEW S \in SUBSET (1..Steps(Job)), Effect(S)
    PROVE  /\ applied' = [applied EXCEPT ![call] = @ \cup (IF auto THEN S ELSE {})]
           /\ auto => open' = open /\ open' = {}
           /\ ~auto => open' = open \cup Own(S)
           /\ open' \subseteq Own(1..Steps(Job))
<1>1. applied \in [Calls -> SUBSET (1..MaxSets)] /\ open \subseteq Own(1..Steps(Job)) /\ (auto => open = {})
  BY DEF ExecInv, TypeOK, FlowInv
<1>2. CASE auto
  BY <1>1, <1>2 DEF Effect
<1>3. CASE ~auto
  <2>1. open' = open \cup Own(S) /\ applied' = applied
    BY <1>3 DEF Effect
  <2>. QED
    BY <1>1, <1>3, <2>1 DEF Own
<1>. QED
  BY <1>2, <1>3

LEMMA InitInv == Init => ExecInv
<1>. SUFFICES ASSUME Init PROVE ExecInv
  OBVIOUS
<1>1. job \in [Calls -> Jobs]
  BY ExecutesConstants DEF Init, Jobs, NilArgs
<1>2. /\ applied \in [Calls -> SUBSET (1..MaxSets)] /\ \A c \in Calls : applied[c] = {}
      /\ outcome \in [Calls -> {"none", "run", "ok", "failed"}]
      /\ \A c \in Calls : c > call <=> outcome[c] = "none"
  BY ExecutesConstants DEF Init, Calls
<1>3. /\ auto /\ ~dirty /\ auto \in BOOLEAN /\ dirty \in BOOLEAN
      /\ failed \in BOOLEAN /\ ctxDone \in BOOLEAN
  BY DEF Init
<1>4. pc = "idle" /\ open = {} /\ loose = {} /\ k = 1 /\ kind \in Kinds /\ call \in 0..MaxCalls
  BY ExecutesConstants DEF Init
<1>5. TypeOK
  BY <1>1, <1>2, <1>3, <1>4 DEF TypeOK
<1>. QED
  BY <1>3, <1>4, <1>5 DEF ExecInv, FlowInv

\* An action within a call moves on or ends the call, makes only statements of
\* this call durable, and leaves the rest of its variables with their types.
Moves ==
    \/ \E o \in {"ok", "failed"} : pc' = "idle" /\ outcome' = [outcome EXCEPT ![call] = o]
    \/ pc' \in {"exec", "end", "restore"} /\ outcome' = outcome
    \/ pc' = pc /\ outcome' = outcome
Applies ==
    \E T \in SUBSET (1..Steps(Job)) : applied' = [applied EXCEPT ![call] = @ \cup T]
Scalars ==
    /\ k' \in Nat \ {0} /\ failed' \in BOOLEAN /\ ctxDone' \in BOOLEAN
    /\ auto' \in BOOLEAN /\ dirty' \in BOOLEAN
    /\ loose' \in {loose, loose \cup {call}}

LEMMA TypeKept ==
    ASSUME ExecInv, pc # "idle", UNCHANGED callVars, Moves, Applies, Scalars,
           open' \subseteq Own(1..Steps(Job))
    PROVE  TypeOK'
<1>. USE DEF callVars
<1>1. PICK T \in SUBSET (1..Steps(Job)) : applied' = [applied EXCEPT ![call] = @ \cup T]
  BY DEF Applies
<1>2. /\ call \in Calls /\ applied[call] \subseteq 1..Steps(job[call]) /\ outcome[call] = "run"
      /\ 1..Steps(Job) \subseteq 1..MaxSets
  BY InCall DEF Job
<1>3. kind' = kind /\ job' = job /\ call' = call
  OBVIOUS
<1>4. \A c \in Calls : Steps(job[c])' = Steps(job[c])
  BY <1>3 DEF Steps, Number
<1>5. /\ applied' \in [Calls -> SUBSET (1..MaxSets)]
      /\ \A c \in Calls : applied'[c] \subseteq IF c > call THEN {} ELSE 1..Steps(job[c])
  <2>1. applied \in [Calls -> SUBSET (1..MaxSets)]
    BY DEF ExecInv, TypeOK
  <2>2. \A c \in Calls : applied[c] \subseteq IF c > call THEN {} ELSE 1..Steps(job[c])
    BY DEF ExecInv, TypeOK
  <2>3. T \subseteq 1..Steps(job[call]) /\ ~(call > call)
    BY <1>2, ExecutesConstants DEF Job, Calls
  <2>. QED
    BY <1>1, <1>2, <2>1, <2>2, <2>3
<1>6. open' \subseteq Calls \X (1..MaxSets) /\ loose' \subseteq 1..call
  BY <1>2 DEF Scalars, Own, ExecInv, TypeOK, Calls
<1>7. /\ outcome' \in [Calls -> {"none", "run", "ok", "failed"}]
      /\ \A c \in Calls : c > call <=> outcome'[c] = "none"
      /\ pc' # "idle" => outcome'[call] = "run"
      /\ pc' \in {"idle", "begin", "exec", "end", "restore"}
  BY <1>2, ExecutesConstants DEF Moves, ExecInv, TypeOK, Calls
<1>8. (\A c \in Calls : applied[c] \subseteq IF c > call THEN {} ELSE 1..Steps(job[c]))'
  BY <1>3, <1>4, <1>5
<1>. QED
  BY <1>3, <1>5, <1>6, <1>7, <1>8 DEF Scalars, ExecInv, TypeOK

LEMMA NothingApplied ==
    ASSUME ExecInv, pc # "idle", applied' = applied
    PROVE  Applies
<1>1. applied' = [applied EXCEPT ![call] = @ \cup {}]
  BY DEF ExecInv, TypeOK
<1>. QED
  BY <1>1 DEF Applies

LEMMA EffectApplies ==
    ASSUME ExecInv, pc # "idle", \E S \in SUBSET (1..Steps(Job)) : Effect(S)
    PROVE  Applies /\ open' \subseteq Own(1..Steps(Job)) /\ (auto => open' = {})
<1>1. PICK S \in SUBSET (1..Steps(Job)) : Effect(S)
  OBVIOUS
<1>. QED
  BY <1>1, EffectOnly DEF Applies

LEMMA CommitApplies ==
    ASSUME ExecInv, pc # "idle", NEW S \in SUBSET Own(1..Steps(Job)), Commit(S)
    PROVE  Applies
BY CommitOnly DEF Applies

\* What a call asked for does not change while it runs.
LEMMA SameJob ==
    ASSUME UNCHANGED callVars
    PROVE  /\ Job' = Job /\ Steps(Job)' = Steps(Job) /\ Number(Job)' = Number(Job)
           /\ Transactional(Job)' = Transactional(Job)
           /\ \A S : Own(S)' = Own(S)
<1>1. kind' = kind /\ call' = call /\ job' = job /\ Job' = Job
  BY DEF callVars, Job
<1>. QED
  BY <1>1 DEF Steps, Number, Transactional, Own

\* What the steps of a call share.
LEMMA Running ==
    ASSUME ExecInv, pc # "idle"
    PROVE  /\ call \in Calls /\ Steps(Job) \in 0..MaxSets /\ Transactional(Job) \in BOOLEAN
           /\ open \subseteq Own(1..Steps(Job)) /\ pc \in {"begin", "exec", "end", "restore"}
           /\ k \in Nat \ {0} /\ failed \in BOOLEAN /\ ctxDone \in BOOLEAN
           /\ auto \in BOOLEAN /\ dirty \in BOOLEAN
           /\ pc # "restore" => (auto => open = {})
BY InCall DEF ExecInv, FlowInv, TypeOK

(* The steps of a call, one after the other.                               *)

\* The statements: the session keeps what they do.
LEMMA StatementsKept ==
    ASSUME ExecInv, Exec \/ ExecFails \/ ExecEnd \/ SendMessages
    PROVE  ExecInv'
<1>. USE DEF callVars, session, At, OneByOne
<1>0. pc = "exec" /\ UNCHANGED callVars /\ (auto <=> ~Transactional(Job)) /\ ~dirty /\ ~failed /\ kind # "cassandra"
  BY DEF Exec, ExecFails, ExecEnd, SendMessages, ExecInv, FlowInv
<1>1. /\ call \in Calls /\ Steps(Job) \in 0..MaxSets
      /\ open \subseteq Own(1..Steps(Job)) /\ (auto => open = {})
      /\ k \in Nat \ {0} /\ failed \in BOOLEAN /\ ctxDone \in BOOLEAN
      /\ auto \in BOOLEAN /\ dirty \in BOOLEAN
  BY <1>0, Running
<1>2. /\ Steps(Job)' = Steps(Job) /\ Transactional(Job)' = Transactional(Job)
      /\ \A S : Own(S)' = Own(S)
  BY <1>0, SameJob
<1>3. Applies /\ open' \subseteq Own(1..Steps(Job)) /\ (auto => open' = {})
  <2>1. CASE Exec
    <3>1. {k} \in SUBSET (1..Steps(Job)) /\ Effect({k})
      BY <1>1, <2>1 DEF Exec
    <3>. QED
      BY <1>0, <3>1, EffectApplies
  <2>2. CASE ExecFails
    <3>1. PICK S \in {{}, {k}} : Effect(S)
      BY <2>2 DEF ExecFails
    <3>2. S \in SUBSET (1..Steps(Job))
      BY <1>1, <2>2 DEF ExecFails
    <3>. QED
      BY <1>0, <3>1, <3>2, EffectApplies
  <2>3. CASE ExecEnd
    BY <1>0, <1>1, <2>3, NothingApplied DEF ExecEnd
  <2>4. CASE SendMessages
    BY <1>0, <1>1, <2>4, EffectApplies DEF SendMessages
  <2>. QED
    BY <2>1, <2>2, <2>3, <2>4
<1>4. Moves /\ Scalars
  <2>1. Moves
    BY <1>0 DEF Exec, ExecFails, ExecEnd, SendMessages, Moves
  <2>2. CASE Exec \/ ExecEnd
    BY <1>1, <2>1, <2>2 DEF Exec, ExecEnd, Scalars
  <2>3. CASE ExecFails
    BY <1>1, <2>1, <2>3 DEF ExecFails, Scalars
  <2>4. CASE SendMessages
    BY <1>1, <2>1, <2>4 DEF SendMessages, Scalars
  <2>. QED
    BY <2>1, <2>2, <2>3, <2>4
<1>5. TypeOK'
  BY <1>0, <1>3, <1>4, TypeKept
<1>6. /\ pc' \in {"exec", "end"} /\ (pc' = "exec" => failed' = failed)
      /\ auto' = auto
      /\ dirty' => pc' = "end" /\ kind = "redis" /\ failed'
  BY <1>0 DEF Exec, ExecFails, ExecEnd, SendMessages
<1>7. FlowInv'
  BY <1>0, <1>1, <1>2, <1>3, <1>6 DEF FlowInv
<1>. QED
  BY <1>5, <1>7 DEF ExecInv

\* A call that ends leaves the connection as it found it, or closes it.
LEMMA EndKept ==
    ASSUME ExecInv, pc # "idle", UNCHANGED callVars, Applies,
           Succeed \/ Fail, auto' = TRUE, open' = {}, dirty' = FALSE,
           UNCHANGED <<k, failed, ctxDone>>, loose' \in {loose, loose \cup {call}}
    PROVE  ExecInv'
<1>1. Moves /\ Scalars /\ pc' = "idle"
  BY Running DEF Moves, Scalars, Succeed, Fail
<1>2. TypeOK'
  BY <1>1, TypeKept
<1>3. FlowInv'
  BY <1>1 DEF FlowInv
<1>. QED
  BY <1>2, <1>3 DEF ExecInv

LEMMA EndsKept ==
    ASSUME ExecInv,
           \/ Refuse \/ EndPlain \/ ExecContext \/ Restore \/ RestoreFails \/ SqlCommit \/ SqlRollback
           \/ RedisExec \/ RedisExecFails \/ CommitTxn \/ AbortTxn
    PROVE  ExecInv'
<1>. USE DEF At, Ends, callVars, session
<1>0. pc # "idle" /\ UNCHANGED callVars
  BY DEF Refuse, EndPlain, ExecContext, Restore, RestoreFails, SqlCommit, SqlRollback,
         RedisExec, RedisExecFails, CommitTxn, AbortTxn
<1>1. open \subseteq Own(1..Steps(Job)) /\ FlowInv
  BY <1>0, Running DEF ExecInv
<1>2. Applies
  <2>1. CASE Refuse \/ EndPlain \/ RestoreFails \/ SqlRollback
    BY <1>0, <2>1, NothingApplied DEF Refuse, EndPlain, RestoreFails, SqlRollback
  <2>2. CASE ExecContext
    BY <1>0, <2>2, EffectOnly DEF ExecContext, Applies
  <2>3. CASE Restore \/ SqlCommit \/ CommitTxn \/ AbortTxn
    BY <1>0, <1>1, <2>3, NothingApplied, CommitApplies DEF Restore, SqlCommit, CommitTxn, AbortTxn
  <2>4. CASE RedisExec \/ RedisExecFails
    BY <1>0, <1>1, <2>4, CommitApplies DEF RedisExec, RedisExecFails
  <2>. QED
    BY <2>1, <2>2, <2>3, <2>4
<1>3. (Succeed \/ Fail) /\ UNCHANGED <<k, failed, ctxDone>> /\ loose' \in {loose, loose \cup {call}}
  BY DEF Refuse, EndPlain, ExecContext, Restore, RestoreFails, SqlCommit, SqlRollback,
         RedisExec, RedisExecFails, WholeOr, CommitTxn, AbortTxn
<1>4. auto' = TRUE /\ open' = {} /\ dirty' = FALSE
  <2>1. CASE Fail
    BY <2>1 DEF Fail
  <2>2. CASE ~Fail
    <3>1. dirty => pc = "end" /\ kind = "redis" /\ failed
      BY <1>1 DEF FlowInv
    <3>2. dirty \in BOOLEAN /\ auto \in BOOLEAN
      BY <1>0, Running
    <3>3. CASE EndPlain \/ ExecContext
      BY <1>1, <2>2, <3>1, <3>2, <3>3 DEF EndPlain, ExecContext, FlowInv, Effect
    <3>4. CASE Restore \/ SqlCommit \/ RedisExec \/ CommitTxn
      BY <1>1, <2>2, <3>1, <3>2, <3>4 DEF Restore, SqlCommit, RedisExec, CommitTxn, FlowInv
    <3>. QED
      BY <2>2, <3>3, <3>4 DEF Refuse, RestoreFails, SqlRollback, RedisExecFails, AbortTxn
  <2>. QED
    BY <2>1, <2>2
<1>. QED
  BY <1>0, <1>2, <1>3, <1>4, EndKept

\* The steps before and between.
LEMMA RestKept ==
    ASSUME ExecInv,
           \/ Begin \/ OdbcCommit \/ OdbcRollback \/ OdbcRollbackFails \/ Cancel
    PROVE  ExecInv'
<1>. USE DEF At, Ends, callVars, session
<1>0. pc # "idle" /\ UNCHANGED callVars /\ FlowInv
  BY DEF Begin, OdbcCommit, OdbcRollback, OdbcRollbackFails, Cancel, ExecInv
<1>1. /\ call \in Calls /\ Steps(Job) \in 0..MaxSets /\ Transactional(Job) \in BOOLEAN
      /\ open \subseteq Own(1..Steps(Job))
      /\ k \in Nat \ {0} /\ failed \in BOOLEAN /\ ctxDone \in BOOLEAN
      /\ auto \in BOOLEAN /\ dirty \in BOOLEAN
  BY <1>0, Running
<1>2. /\ Steps(Job)' = Steps(Job) /\ Transactional(Job)' = Transactional(Job)
      /\ \A S : Own(S)' = Own(S)
  BY <1>0, SameJob
<1>3. Applies /\ open' \subseteq Own(1..Steps(Job))
  <2>1. CASE OdbcCommit
    BY <1>0, <1>1, <2>1, CommitApplies, NothingApplied DEF OdbcCommit
  <2>2. CASE ~OdbcCommit
    <3>1. applied' = applied /\ open' \in {open, {}}
      BY <2>2 DEF Begin, OdbcRollback, OdbcRollbackFails, Cancel
    <3>. QED
      BY <1>0, <1>1, <3>1, NothingApplied
  <2>. QED
    BY <2>1, <2>2
<1>4. Moves
  BY DEF Begin, OdbcCommit, OdbcRollback, OdbcRollbackFails, Cancel, Moves
<1>5. Scalars /\ FlowInv'
  <2>1. CASE Begin
    <3>1. auto' <=> ~Transactional(Job)
      BY <1>0, <1>1, <2>1 DEF Begin, FlowInv
    <3>. QED
      BY <1>0, <1>1, <1>2, <2>1, <3>1 DEF Begin, FlowInv, Scalars
  <2>2. CASE OdbcCommit
    BY <1>0, <1>1, <1>2, <1>3, <2>2 DEF OdbcCommit, FlowInv, Scalars
  <2>3. CASE OdbcRollback \/ OdbcRollbackFails
    BY <1>0, <1>1, <1>2, <1>3, <2>3 DEF OdbcRollback, OdbcRollbackFails, FlowInv, Scalars
  <2>4. CASE Cancel
    BY <1>0, <1>1, <1>2, <1>3, <2>4 DEF Cancel, FlowInv, Scalars
  <2>. QED
    BY <2>1, <2>2, <2>3, <2>4
<1>6. TypeOK'
  BY <1>0, <1>3, <1>4, <1>5, TypeKept
<1>. QED
  BY <1>5, <1>6 DEF ExecInv

\* A new call finds the session that the call before left.
LEMMA CallKept ==
    ASSUME ExecInv, NEW j \in Jobs, Call(j)
    PROVE  ExecInv'
<1>. USE DEF At, session
<1>1. /\ call + 1 \in Calls /\ call' = call + 1 /\ call \in Nat
      /\ job' = [job EXCEPT ![call + 1] = j] /\ job' \in [Calls -> Jobs]
      /\ outcome' = [outcome EXCEPT ![call + 1] = "run"]
      /\ kind' = kind /\ applied' = applied
  BY ExecutesConstants DEF Call, ExecInv, TypeOK, Calls
<1>2. \A c \in Calls : c # call + 1 => Steps(job[c])' = Steps(job[c])
  BY <1>1 DEF Steps, Number, ExecInv, TypeOK
<1>3. applied[call + 1] = {}
  BY <1>1 DEF ExecInv, TypeOK
<1>4. (\A c \in Calls : applied[c] \subseteq IF c > call THEN {} ELSE 1..Steps(job[c]))'
  <2>1. \A c \in Calls : applied[c] \subseteq IF c > call THEN {} ELSE 1..Steps(job[c])
    BY DEF ExecInv, TypeOK
  <2>2. \A c \in Calls : c \in Int
    BY ExecutesConstants DEF Calls
  <2>3. ASSUME NEW c \in Calls
        PROVE  applied[c] \subseteq IF c > call + 1 THEN {} ELSE 1..(Steps(job[c])')
    BY <1>1, <1>2, <1>3, <2>1, <2>2
  <2>. QED
    BY <1>1, <2>3
<1>5. /\ outcome' \in [Calls -> {"none", "run", "ok", "failed"}] /\ outcome'[call + 1] = "run"
      /\ \A c \in Calls : c > call + 1 <=> outcome'[c] = "none"
  BY <1>1, ExecutesConstants DEF ExecInv, TypeOK, Calls
<1>6. /\ pc' = "begin" /\ k' = 1 /\ failed' = FALSE /\ ctxDone' = FALSE
      /\ auto' = TRUE /\ open' = {} /\ dirty' = FALSE /\ loose' = loose
  BY DEF Call, ExecInv, TypeOK, FlowInv
<1>7. TypeOK'
  <2>1. loose' \subseteq 1..(call + 1) /\ call + 1 \in 0..MaxCalls
    BY <1>1, <1>6, ExecutesConstants DEF ExecInv, TypeOK, Calls
  <2>2. failed' \in BOOLEAN /\ ctxDone' \in BOOLEAN /\ auto' \in BOOLEAN /\ dirty' \in BOOLEAN
    BY <1>6
  <2>. QED
    BY <1>1, <1>4, <1>5, <1>6, <2>1, <2>2 DEF ExecInv, TypeOK
<1>8. FlowInv'
  <2>1. applied'[call'] = {} /\ call' \in Calls
    BY <1>1, <1>3
  <2>2. auto' /\ ~dirty' /\ ~failed'
    BY <1>6
  <2>. QED
    BY <1>6, <2>1, <2>2 DEF FlowInv
<1>. QED
  BY <1>7, <1>8 DEF ExecInv

LEMMA StutterKept ==
    ASSUME ExecInv, UNCHANGED vars PROVE ExecInv'
<1>1. /\ UNCHANGED callVars /\ UNCHANGED session
      /\ UNCHANGED <<outcome, pc, k, failed, ctxDone, applied, loose>>
  BY DEF vars
<1>2. UNCHANGED <<kind, call, job, auto, open, dirty>>
  BY <1>1 DEF callVars, session
<1>3. /\ Steps(Job)' = Steps(Job) /\ Transactional(Job)' = Transactional(Job)
      /\ \A S : Own(S)' = Own(S)
  BY <1>1, SameJob
<1>4. \A c \in Calls : Steps(job[c])' = Steps(job[c])
  BY <1>2 DEF Steps, Number
<1>5. TypeOK'
  BY <1>1, <1>2, <1>4 DEF ExecInv, TypeOK
<1>6. FlowInv'
  BY <1>1, <1>2, <1>3 DEF ExecInv, FlowInv
<1>. QED
  BY <1>5, <1>6 DEF ExecInv

\* The inductive invariant.
THEOREM InvCorrect == Spec => []ExecInv
<1>1. ExecInv /\ [Next]_vars => ExecInv'
  <2>1. CASE Finished
    BY <2>1, StutterKept DEF Finished
  <2>. QED
    BY <2>1, StutterKept, CallKept, StatementsKept, EndsKept, RestKept DEF Next
<1>. QED
  BY InitInv, <1>1, PTL DEF Spec

\* The variables keep their types, for any number of calls and parameter sets.
THEOREM TypeCorrect == Spec => []TypeOK
<1>1. ExecInv => TypeOK
  BY DEF ExecInv
<1>. QED
  BY InvCorrect, <1>1, PTL

\* No failure, and no end of the context, leaves a transaction open on a
\* connection that the pool keeps.
THEOREM ConnectionsClean == Spec => []CleanConnection
<1>1. ExecInv => CleanConnection
  BY DEF ExecInv, FlowInv, CleanConnection, Own
<1>. QED
  BY InvCorrect, <1>1, PTL

(***************************************************************************)
(* What was sent so far, and where it is: durable at once under            *)
(* autocommit, in the open transaction without.  Until its end nothing of  *)
(* a transaction is durable; a commit of ODBC that failed may have worked. *)
(***************************************************************************)
Sent(S) == IF auto THEN applied[call] = S ELSE open = Own(S)

DataInv ==
    /\ pc \in {"exec", "end"} /\ ~auto => applied[call] = {}
    /\ pc = "exec" => k <= Steps(Job) + 1 /\ Sent(1..(k - 1))
    /\ pc = "exec" /\ kind = "kafka" => k = 1
    /\ pc = "end" /\ ~failed => Sent(1..Steps(Job))
    /\ pc = "restore" =>
          /\ applied[call] \in {{}, 1..Steps(Job)}
          /\ ~failed => open = {} /\ applied[call] = 1..Steps(Job)
          /\ call \notin loose => open \in {{}, Own(1..Steps(Job))}

LEMMA InitData == Init => DataInv
BY DEF Init, DataInv

LEMMA OwnOnce ==
    ASSUME NEW S, NEW T, Own(S) = Own(T)
    PROVE  S = T
<1>1. \A n : n \in S <=> <<call, n>> \in Own(S)
  BY DEF Own
<1>2. \A n : n \in T <=> <<call, n>> \in Own(T)
  BY DEF Own
<1>. QED
  BY <1>1, <1>2

\* Commit of all or nothing, in the terms of CommitOnly.
LEMMA CommitAll ==
    ASSUME ExecInv, pc # "idle", Commit(Own(1..Steps(Job)))
    PROVE  applied' = [applied EXCEPT ![call] = @ \cup 1..Steps(Job)]
<1>1. PICK T \in SUBSET (1..Steps(Job)) :
          applied' = [applied EXCEPT ![call] = @ \cup T] /\ Own(1..Steps(Job)) = Own(T)
  BY CommitOnly
<1>2. T = 1..Steps(Job)
  BY <1>1, OwnOnce
<1>. QED
  BY <1>1, <1>2

LEMMA StatementsData ==
    ASSUME ExecInv, DataInv, Exec \/ ExecFails \/ ExecEnd \/ SendMessages
    PROVE  DataInv'
<1>. USE DEF callVars, session, At, OneByOne
<1>0. /\ pc = "exec" /\ UNCHANGED callVars /\ call' = call /\ kind' = kind /\ auto' = auto
      /\ pc' \in {"exec", "end"}
  BY DEF Exec, ExecFails, ExecEnd, SendMessages
<1>1. /\ call \in Calls /\ Steps(Job) \in 0..MaxSets /\ k \in Nat \ {0} /\ auto \in BOOLEAN
      /\ applied \in [Calls -> SUBSET (1..MaxSets)]
  BY <1>0, Running DEF ExecInv, TypeOK
<1>2. Steps(Job)' = Steps(Job) /\ \A S : Own(S)' = Own(S)
  BY <1>0, SameJob
<1>3. /\ ~auto => applied[call] = {}
      /\ k <= Steps(Job) + 1 /\ Sent(1..(k - 1)) /\ (kind = "kafka" => k = 1)
  BY <1>0 DEF DataInv
<1>4. CASE Exec
  <2>1. Effect({k}) /\ k \in 1..Steps(Job) /\ k' = k + 1 /\ kind # "kafka" /\ pc' = pc
    BY <1>1, <1>4 DEF Exec
  <2>2. /\ applied' = [applied EXCEPT ![call] = @ \cup (IF auto THEN {k} ELSE {})]
        /\ ~auto => open' = open \cup Own({k})
    BY <1>0, <2>1, EffectOnly
  <2>3. 1..(k - 1) \cup {k} = 1..(k' - 1) /\ k' <= Steps(Job) + 1
    BY <1>1, <2>1
  <2>4. Own(1..(k - 1)) \cup Own({k}) = Own(1..(k' - 1))
    BY <2>3 DEF Own
  <2>5. Sent(1..(k - 1))'
    BY <1>0, <1>1, <1>2, <1>3, <2>2, <2>3, <2>4 DEF Sent
  <2>6. ~auto => applied'[call] = {}
    BY <1>1, <1>3, <2>2
  <2>. QED
    BY <1>0, <1>2, <2>1, <2>3, <2>5, <2>6 DEF DataInv
<1>5. CASE ExecFails
  <2>1. PICK S \in {{}, {k}} : Effect(S)
    BY <1>5 DEF ExecFails
  <2>2. failed' = TRUE /\ pc' = "end"
    BY <1>5 DEF ExecFails
  <2>3. ~auto => applied' = applied
    BY <2>1 DEF Effect
  <2>. QED
    BY <1>0, <1>3, <2>2, <2>3 DEF DataInv
<1>6. CASE ExecEnd
  <2>1. k - 1 = Steps(Job) /\ applied' = applied /\ open' = open /\ pc' = "end"
    BY <1>1, <1>3, <1>6 DEF ExecEnd
  <2>. QED
    BY <1>0, <1>2, <1>3, <2>1 DEF DataInv, Sent
<1>7. CASE SendMessages
  <2>1. PICK S \in SUBSET (1..Steps(Job)) : Effect(S) /\ (failed' \/ S = 1..Steps(Job))
    BY <1>7 DEF SendMessages
  <2>2. /\ applied' = [applied EXCEPT ![call] = @ \cup (IF auto THEN S ELSE {})]
        /\ ~auto => open' = open \cup Own(S)
    BY <1>0, <2>1, EffectOnly
  <2>3. 1..(k - 1) = {} /\ pc' = "end"
    BY <1>1, <1>3, <1>7 DEF SendMessages
  <2>4. Own({}) = {}
    BY DEF Own
  <2>5. ~failed' => Sent(1..Steps(Job))'
    BY <1>0, <1>1, <1>2, <1>3, <2>1, <2>2, <2>3, <2>4 DEF Sent
  <2>6. ~auto => applied'[call] = {}
    BY <1>1, <1>3, <2>2
  <2>. QED
    BY <1>0, <1>2, <2>3, <2>5, <2>6 DEF DataInv
<1>. QED
  BY <1>4, <1>5, <1>6, <1>7

LEMMA RestData ==
    ASSUME ExecInv, DataInv,
           \/ Begin \/ OdbcCommit \/ OdbcRollback \/ OdbcRollbackFails \/ Cancel
    PROVE  DataInv'
<1>. USE DEF At, Ends, callVars, session
<1>0. pc # "idle" /\ UNCHANGED callVars /\ call' = call /\ kind' = kind /\ FlowInv
  BY DEF Begin, OdbcCommit, OdbcRollback, OdbcRollbackFails, Cancel, ExecInv
<1>1. /\ call \in Calls /\ Steps(Job) \in 0..MaxSets
      /\ applied \in [Calls -> SUBSET (1..MaxSets)]
  BY <1>0, Running DEF ExecInv, TypeOK
<1>2. Steps(Job)' = Steps(Job) /\ \A S : Own(S)' = Own(S)
  BY <1>0, SameJob
<1>3. CASE Begin
  <2>1. /\ pc' = "exec" /\ k' = 1 /\ 1..(k' - 1) = {} /\ k' <= Steps(Job) + 1
        /\ applied'[call] = {} /\ open' = {}
    BY <1>0, <1>1, <1>3 DEF Begin, FlowInv
  <2>2. Own({}) = {}
    BY DEF Own
  <2>3. Sent(1..(k - 1))'
    BY <1>0, <1>2, <2>1, <2>2 DEF Sent
  <2>. QED
    BY <1>0, <1>2, <2>1, <2>3 DEF DataInv
<1>4. CASE OdbcCommit
  <2>1. applied[call] = {} /\ open = Own(1..Steps(Job)) /\ pc' = "restore" /\ loose' = loose
    BY <1>0, <1>4 DEF OdbcCommit, FlowInv, DataInv, Sent
  <2>2. CASE Commit(open) /\ open' = {}
    BY <1>0, <1>1, <1>2, <2>1, <2>2, CommitAll DEF DataInv
  <2>3. CASE UNCHANGED applied /\ open' \in {{}, open} /\ failed' = TRUE
    BY <1>0, <1>2, <2>1, <2>3 DEF DataInv
  <2>. QED
    BY <1>4, <2>2, <2>3 DEF OdbcCommit
<1>5. CASE OdbcRollback \/ OdbcRollbackFails
  <2>1. applied[call] = {} /\ failed' = failed /\ failed /\ pc' = "restore" /\ applied' = applied
    BY <1>0, <1>5 DEF OdbcRollback, OdbcRollbackFails, FlowInv, DataInv
  <2>2. open' = {} \/ call \in loose'
    BY <1>5 DEF OdbcRollback, OdbcRollbackFails
  <2>. QED
    BY <1>0, <1>2, <2>1, <2>2 DEF DataInv
<1>6. CASE Cancel
  BY <1>0, <1>2, <1>6 DEF Cancel, DataInv, Sent
<1>. QED
  BY <1>3, <1>4, <1>5, <1>6

LEMMA StepData == ExecInv /\ DataInv /\ [Next]_vars => DataInv'
<1>. SUFFICES ASSUME ExecInv, DataInv, [Next]_vars PROVE DataInv'
  OBVIOUS
<1>1. CASE UNCHANGED vars
  <2>1. /\ UNCHANGED callVars /\ UNCHANGED <<call, kind, auto, open, pc, k, failed, applied, loose>>
    BY <1>1 DEF vars, callVars, session
  <2>2. Steps(Job)' = Steps(Job) /\ \A S : Own(S)' = Own(S)
    BY <2>1, SameJob
  <2>. QED
    BY <2>1, <2>2 DEF DataInv, Sent
<1>2. ASSUME NEW j \in Jobs, Call(j) PROVE DataInv'
  BY <1>2 DEF Call, DataInv
<1>3. CASE \/ Refuse \/ EndPlain \/ ExecContext \/ Restore \/ RestoreFails \/ SqlCommit \/ SqlRollback
           \/ RedisExec \/ RedisExecFails \/ CommitTxn \/ AbortTxn
  <2>1. pc' = "idle"
    BY <1>3 DEF Refuse, EndPlain, ExecContext, Restore, RestoreFails, SqlCommit, SqlRollback,
         RedisExec, RedisExecFails, CommitTxn, AbortTxn, Succeed, Fail
  <2>. QED
    BY <2>1 DEF DataInv
<1>4. CASE Finished
  BY <1>1, <1>4 DEF Finished
<1>. QED
  BY <1>1, <1>2, <1>3, <1>4, StatementsData, RestData DEF Next

(***************************************************************************)
(* The refinement of ExecPromise: every step of a connection is a step of  *)
(* the call that runs, or the beginning of one.                            *)
(***************************************************************************)

\* How much the caller asked for, and how much is sent.
LEMMA SizeFacts ==
    ASSUME ExecInv, pc # "idle"
    PROVE  /\ Size(call) \in 0..MaxSets /\ Steps(Job) <= Size(call)
           /\ kind # "cassandra" \/ Job.tran \/ Steps(Job) >= Number(Job) => Size(call) = Steps(Job)
<1>1. kind \in Kinds /\ Job \in Jobs /\ outcome[call] = "run"
  BY InCall DEF ExecInv, TypeOK
<1>. QED
  BY <1>1, JobFacts DEF Size, Job

\* Nothing of an atomic call is durable, or all of it is.
LEMMA AtomicNow ==
    ASSUME ExecInv, DataInv, pc # "idle", Mode(call) = "atomic"
    PROVE  /\ applied[call] \in {{}, 1..Size(call)}
           /\ pc # "begin" => Size(call) = Steps(Job) /\ (Size(call) = 1 \/ Transactional(Job))
<1>1. pc \in {"begin", "exec", "end", "restore"} /\ FlowInv
  BY Running DEF ExecInv
<1>2. kind # "sql" /\ Job.tran
  BY DEF Mode, Job
<1>3. kind # "cassandra" => Size(call) = Steps(Job)
  BY SizeFacts
<1>4. pc # "begin" => kind # "cassandra"
  BY <1>1 DEF FlowInv
<1>5. Transactional(Job) \/ kind = "cassandra" \/ (kind = "redis" /\ Number(Job) = 0)
  <2>1. kind \in {"odbc", "sql", "redis", "kafka", "cassandra"}
    BY ExecutesConstants DEF ExecInv, TypeOK
  <2>2. Number(Job) \in Nat
    <3>1. kind \in Kinds /\ Job \in Jobs
      BY InCall DEF ExecInv, TypeOK
    <3>. QED
      BY <3>1, JobFacts
  <2>3. CASE kind \in {"odbc", "kafka", "cassandra"}
    BY <1>2, <2>3 DEF Transactional
  <2>4. CASE kind = "redis"
    BY <1>2, <2>2, <2>4 DEF Transactional
  <2>. QED
    BY <1>2, <2>1, <2>3, <2>4
<1>6. kind = "redis" /\ Number(Job) = 0 => Steps(Job) = 1
  BY DEF Steps
<1>7. applied[call] \subseteq 1..Steps(Job)
  BY InCall
<1>8. Size(call) = 1 /\ kind # "cassandra" => applied[call] \in {{}, 1..Size(call)}
  BY <1>3, <1>7
<1>. QED
  BY <1>1, <1>3, <1>4, <1>5, <1>6, <1>8 DEF FlowInv, DataInv

\* Only the running call changes, and it may only become loose.
LEMMA ModeKept ==
    ASSUME ExecInv, pc # "idle", UNCHANGED callVars,
           NEW p \in {"run", "ok", "failed"}, outcome' = [outcome EXCEPT ![call] = p],
           loose' \in {loose, loose \cup {call}}
    PROVE  /\ \A c \in Calls : Size(c)' = Size(c)
           /\ \A c \in Calls \ {call} : Mode(c)' = Mode(c)
           /\ Mode(call)' \in {Mode(call), "loose"}
           /\ Mode(call)' = "loose" <=> call \in loose'
<1>1. call \in Calls /\ outcome[call] = "run" /\ outcome \in [Calls -> {"none", "run", "ok", "failed"}]
  BY InCall DEF ExecInv, TypeOK
<1>2. kind' = kind /\ call' = call /\ job' = job
  BY DEF callVars
<1>3. \A c \in Calls : outcome'[c] = "none" <=> outcome[c] = "none"
  BY <1>1
<1>4. \A c \in Calls \ {call} : c \in loose' <=> c \in loose
  OBVIOUS
<1>5. \A c \in Calls : /\ Steps(job[c])' = Steps(job[c]) /\ Number(job[c])' = Number(job[c])
                       /\ Transactional(job[c])' = Transactional(job[c])
  BY <1>2 DEF Steps, Number, Transactional
<1>6. \A c \in Calls : Size(c)' = Size(c)
  BY <1>3, <1>5 DEF Size
<1>7. \A c \in Calls \ {call} : Mode(c)' = Mode(c)
  BY <1>2, <1>3, <1>4, <1>5 DEF Mode
<1>8. Mode(call)' \in {Mode(call), "loose"} /\ (Mode(call)' = "loose" <=> call \in loose')
  BY <1>1, <1>2, <1>3, <1>5 DEF Mode
<1>. QED
  BY <1>6, <1>7, <1>8

\* A step of the running call is a Step of the promise, if it keeps an atomic
\* call whole, and only succeeds when everything is done.
LEMMA StepMaps ==
    ASSUME ExecInv, pc # "idle", UNCHANGED callVars,
           NEW p \in {"run", "ok", "failed"}, outcome' = [outcome EXCEPT ![call] = p],
           NEW T \in SUBSET (1..Steps(Job)), applied' = [applied EXCEPT ![call] = @ \cup T],
           loose' \in {loose, loose \cup {call}},
           Mode(call)' = "atomic" => applied[call] \cup T \in {{}, 1..Size(call)},
           p = "ok" /\ call \notin loose' => applied[call] \cup T = 1..Size(call)
    PROVE  Promised!Next
<1>. DEFINE m == Mode(call)'
            new == applied[call] \cup T
            modes == [c \in Calls |-> Mode(c)]
            sizes == [c \in Calls |-> Size(c)]
<1>1. /\ call \in Calls /\ outcome[call] = "run"
      /\ applied[call] \subseteq 1..Steps(Job)
      /\ Steps(Job) \in 0..MaxSets
  BY InCall
<1>2. /\ \A c \in Calls : Size(c)' = Size(c)
      /\ \A c \in Calls \ {call} : Mode(c)' = Mode(c)
      /\ m \in {Mode(call), "loose"}
      /\ m = "loose" <=> call \in loose'
  BY ModeKept
<1>3. modes' = [modes EXCEPT ![call] = m] /\ sizes' = sizes
  <2>1. call' = call
    BY DEF callVars
  <2>. QED
    BY <1>1, <1>2, <2>1
<1>4. modes[call] = Mode(call) /\ sizes[call] = Size(call)
  BY <1>1
<1>5. Size(call) \in 0..MaxSets /\ Steps(Job) <= Size(call)
  BY SizeFacts
<1>6. new \subseteq 1..Size(call) /\ applied[call] \subseteq new
  <2>1. 1..Steps(Job) \subseteq 1..Size(call)
    BY <1>1, <1>5
  <2>. QED
    BY <1>1, <2>1
<1>7. applied' = [applied EXCEPT ![call] = new]
  OBVIOUS
<1>8. Promised!Step(call, p, m, new)
  BY <1>1, <1>2, <1>3, <1>4, <1>6, <1>7 DEF Promised!Step
<1>9. new \in SUBSET (1..sizes[call])
  BY <1>4, <1>6
<1>10. m \in {modes[call], "loose"}
  BY <1>2, <1>4
<1>. HIDE DEF m, new
<1>. QED
  BY <1>1, <1>8, <1>9, <1>10 DEF Promised!Next

LEMMA CallMaps ==
    ASSUME ExecInv, NEW j \in Jobs, Call(j)
    PROVE  Promised!Next
<1>0. PICK c1 \in Calls : c1 = call + 1
  BY ExecutesConstants DEF Call, ExecInv, TypeOK, Calls
<1>. DEFINE modes == [c \in Calls |-> Mode(c)]
            sizes == [c \in Calls |-> Size(c)]
<1>1. /\ c1 \in Calls /\ kind' = kind /\ applied' = applied /\ loose' = loose
      /\ job' = [job EXCEPT ![c1] = j] /\ job \in [Calls -> Jobs]
      /\ outcome' = [outcome EXCEPT ![c1] = "run"] /\ outcome[c1] = "none"
      /\ outcome \in [Calls -> {"none", "run", "ok", "failed"}]
      /\ c1 \notin loose /\ kind \in Kinds
  BY <1>0, ExecutesConstants DEF Call, session, ExecInv, TypeOK, Calls
<1>2. \A c \in Calls \ {c1} : Mode(c)' = Mode(c) /\ Size(c)' = Size(c)
  <2>1. \A c \in Calls \ {c1} : job'[c] = job[c] /\ outcome'[c] = outcome[c]
    BY <1>1
  <2>2. \A c \in Calls \ {c1} : /\ Steps(job[c])' = Steps(job[c]) /\ Number(job[c])' = Number(job[c])
                               /\ Transactional(job[c])' = Transactional(job[c])
    BY <1>1, <2>1 DEF Steps, Number, Transactional
  <2>. QED
    BY <1>1, <2>1, <2>2 DEF Mode, Size
<1>3. Mode(c1)' \in {"atomic", "split", "each"}
  BY <1>1 DEF Mode
<1>4. Size(c1)' \in 0..MaxSets
  <2>1. job'[c1] = j /\ outcome'[c1] = "run"
    BY <1>1
  <2>2. Number(j) \in 0..MaxSets /\ Steps(j) \in 0..MaxSets
    BY <1>1, JobFacts
  <2>3. Steps(job[c1])' = Steps(j) /\ Number(job[c1])' = Number(j)
    BY <1>1, <2>1 DEF Steps, Number
  <2>. QED
    BY <2>1, <2>2, <2>3 DEF Size
<1>5. /\ modes' = [modes EXCEPT ![c1] = Mode(c1)'] /\ sizes' = [sizes EXCEPT ![c1] = Size(c1)']
  BY <1>1, <1>2
<1>6. Promised!Begin(c1, Mode(c1)', Size(c1)')
  BY <1>1, <1>5 DEF Promised!Begin
<1>. QED
  BY <1>1, <1>3, <1>4, <1>6 DEF Promised!Next

\* Nothing becomes durable, and the call goes on or fails.
LEMMA QuietMaps ==
    ASSUME ExecInv, DataInv, pc # "idle", UNCHANGED callVars, applied' = applied,
           outcome' = outcome \/ outcome' = [outcome EXCEPT ![call] = "failed"],
           loose' \in {loose, loose \cup {call}}
    PROVE  Promised!Next
<1>0. PICK T \in SUBSET (1..Steps(Job)) : T = {}
  OBVIOUS
<1>1. /\ applied' = [applied EXCEPT ![call] = @ \cup T]
      /\ outcome = [outcome EXCEPT ![call] = "run"]
  BY <1>0, InCall DEF ExecInv, TypeOK
<1>2. PICK p \in {"run", "failed"} : outcome' = [outcome EXCEPT ![call] = p]
  BY <1>1
<1>3. Mode(call)' = "atomic" => applied[call] \cup T \in {{}, 1..Size(call)}
  BY <1>0, <1>2, ModeKept, AtomicNow
<1>. QED
  BY <1>1, <1>2, <1>3, StepMaps

LEMMA StatementMaps ==
    ASSUME ExecInv, DataInv, Exec \/ ExecFails \/ SendMessages
    PROVE  Promised!Next
<1>. USE DEF At, OneByOne, callVars
<1>1. /\ pc = "exec" /\ UNCHANGED callVars /\ loose' = loose /\ outcome' = outcome
      /\ (auto <=> ~Transactional(Job)) /\ call \in Calls
  BY Running DEF Exec, ExecFails, SendMessages, ExecInv, FlowInv
<1>2. PICK S \in SUBSET (1..Steps(Job)) : Effect(S)
  <2>1. Exec => Effect({k}) /\ {k} \in SUBSET (1..Steps(Job))
    BY <1>1, Running DEF Exec
  <2>2. ExecFails => \E S \in {{}, {k}} : Effect(S)
    BY DEF ExecFails
  <2>3. ExecFails => {k} \in SUBSET (1..Steps(Job))
    BY <1>1, Running DEF ExecFails
  <2>. QED
    BY <2>1, <2>2, <2>3 DEF SendMessages
<1>3. CASE ~auto
  BY <1>1, <1>2, <1>3, QuietMaps DEF Effect
<1>4. CASE auto
  <2>1. applied' = [applied EXCEPT ![call] = @ \cup S]
    BY <1>2, <1>4 DEF Effect
  <2>2. outcome' = [outcome EXCEPT ![call] = "run"]
    BY <1>1, InCall DEF ExecInv, TypeOK
  <2>3. Mode(call)' = "atomic" => applied[call] \cup S \in {{}, 1..Size(call)}
    <3>. SUFFICES ASSUME Mode(call)' = "atomic" PROVE applied[call] \cup S \in {{}, 1..Size(call)}
      OBVIOUS
    <3>1. Mode(call) = "atomic"
      BY <1>1, <2>2, ModeKept
    <3>2. Size(call) = 1 /\ Steps(Job) = 1
      BY <1>1, <1>4, <3>1, AtomicNow
    <3>3. applied[call] \cup S \subseteq 1..1
      BY <1>1, <3>2, InCall
    <3>. QED
      BY <3>2, <3>3
  <2>. QED
    BY <1>1, <1>2, <2>1, <2>2, <2>3, StepMaps
<1>. QED
  BY <1>3, <1>4

\* The end of a call that was not in a transaction.
LEMMA PlainMaps ==
    ASSUME ExecInv, DataInv, EndPlain \/ ExecContext
    PROVE  Promised!Next
<1>. USE DEF At, callVars, session
<1>1. pc # "idle" /\ UNCHANGED callVars
  BY DEF EndPlain, ExecContext
<1>2. /\ call \in Calls /\ Steps(Job) \in 0..MaxSets /\ applied \in [Calls -> SUBSET (1..MaxSets)]
      /\ applied[call] \subseteq 1..Steps(Job)
  BY <1>1, InCall DEF ExecInv, TypeOK
<1>3. CASE EndPlain
  <2>1. applied' = applied /\ loose' = loose /\ pc = "end" /\ ~Transactional(Job)
    BY <1>3 DEF EndPlain
  <2>2. CASE failed
    BY <1>1, <1>3, <2>1, <2>2, QuietMaps DEF EndPlain, Fail
  <2>3. CASE ~failed
    <3>1. outcome' = [outcome EXCEPT ![call] = "ok"]
      BY <1>3, <2>3 DEF EndPlain, Succeed
    <3>2. applied[call] = 1..Steps(Job) /\ Size(call) = Steps(Job)
      BY <1>1, <2>1, <2>3, SizeFacts DEF DataInv, Sent, ExecInv, FlowInv
    <3>3. applied' = [applied EXCEPT ![call] = @ \cup {}]
      BY <1>2, <2>1
    <3>. QED
      BY <1>1, <2>1, <3>1, <3>2, <3>3, StepMaps
  <2>. QED
    BY <2>2, <2>3
<1>4. CASE ExecContext
  <2>1. /\ kind = "cassandra" /\ pc = "begin" /\ auto /\ applied[call] = {}
    BY <1>4 DEF ExecContext, ExecInv, FlowInv
  <2>2. PICK S \in {{}, 1..Steps(Job)} :
            /\ Effect(S)
            /\ \/ /\ S = 1..Steps(Job) /\ Succeed
                  /\ loose' = IF Steps(Job) < Number(Job) THEN loose \cup {call} ELSE loose
               \/ Fail /\ UNCHANGED loose
    BY <1>4 DEF ExecContext
  <2>3. applied' = [applied EXCEPT ![call] = @ \cup S] /\ S \in SUBSET (1..Steps(Job))
    BY <2>1, <2>2 DEF Effect
  <2>4. PICK p \in {"ok", "failed"} :
            /\ outcome' = [outcome EXCEPT ![call] = p]
            /\ p = "ok" => /\ S = 1..Steps(Job)
                           /\ Steps(Job) < Number(Job) => call \in loose'
    BY <2>2 DEF Succeed, Fail
  <2>5. loose' \in {loose, loose \cup {call}}
    BY <2>2
  <2>6. Mode(call)' = "atomic" => S \in {{}, 1..Size(call)}
    <3>1. Mode(call)' = "atomic" => Mode(call) = "atomic"
      BY <1>1, <2>4, <2>5, ModeKept
    <3>2. Mode(call) = "atomic" => Transactional(Job) \/ Job.tran
      BY DEF Mode, Job
    <3>3. kind \in Kinds /\ Job \in Jobs
      BY <1>1, InCall DEF ExecInv, TypeOK
    <3>4. ~Transactional(Job)
      BY <2>1, <3>3, JobFacts
    <3>. QED
      BY <1>1, <3>1, <3>2, <3>4, SizeFacts
  <2>7. p = "ok" /\ call \notin loose' => S = 1..Size(call)
    <3>1. Number(Job) \in 0..MaxSets
      BY <1>1, InCall, JobFacts DEF ExecInv, TypeOK
    <3>. QED
      BY <1>1, <1>2, <2>4, <3>1, SizeFacts
  <2>. QED
    BY <1>1, <2>1, <2>3, <2>4, <2>5, <2>6, <2>7, StepMaps
<1>. QED
  BY <1>3, <1>4

\* The end of a transaction, all of which is committed, or nothing.
LEMMA CommitMaps ==
    ASSUME ExecInv, DataInv, OdbcCommit \/ SqlCommit \/ CommitTxn \/ AbortTxn
    PROVE  Promised!Next
<1>. USE DEF At, Ends, callVars, session
<1>1. /\ pc = "end" /\ UNCHANGED callVars /\ kind \notin {"redis", "cassandra"}
      /\ loose' \in {loose, loose \cup {call}} /\ ~auto
  BY DEF OdbcCommit, SqlCommit, CommitTxn, AbortTxn, ExecInv, FlowInv
<1>2. /\ call \in Calls /\ applied[call] = {} /\ Size(call) = Steps(Job)
      /\ ~failed => open = Own(1..Steps(Job))
  BY <1>1, InCall, SizeFacts DEF DataInv, Sent
<1>3. PICK p \in {"run", "ok", "failed"} :
          /\ outcome' = [outcome EXCEPT ![call] = p]
          /\ p = "ok" => SqlCommit \/ CommitTxn
  <2>1. OdbcCommit => outcome' = [outcome EXCEPT ![call] = "run"]
    BY <1>1, InCall DEF OdbcCommit, ExecInv, TypeOK
  <2>. QED
    BY <2>1 DEF SqlCommit, CommitTxn, AbortTxn, Succeed, Fail
<1>4. CASE ~failed /\ Commit(open)
  <2>1. applied' = [applied EXCEPT ![call] = @ \cup 1..Steps(Job)]
    BY <1>1, <1>2, <1>4, CommitAll
  <2>. QED
    BY <1>1, <1>2, <1>3, <2>1, StepMaps
<1>5. CASE ~(~failed /\ Commit(open))
  <2>1. applied' = applied /\ (p = "ok" => call \in loose')
    BY <1>3, <1>5 DEF OdbcCommit, SqlCommit, CommitTxn, AbortTxn
  <2>2. PICK T \in SUBSET (1..Steps(Job)) : T = {}
    OBVIOUS
  <2>3. applied' = [applied EXCEPT ![call] = @ \cup T]
    BY <1>2, <2>1, <2>2 DEF ExecInv, TypeOK
  <2>. QED
    BY <1>1, <1>2, <1>3, <2>1, <2>2, <2>3, StepMaps
<1>. QED
  BY <1>4, <1>5

LEMMA RestoreMaps ==
    ASSUME ExecInv, DataInv, Restore
    PROVE  Promised!Next
<1>. USE DEF At, callVars, session
<1>1. pc = "restore" /\ UNCHANGED callVars /\ loose' = loose /\ FlowInv
  BY DEF Restore, ExecInv
<1>2. PICK T \in SUBSET (1..Steps(Job)) :
          applied' = [applied EXCEPT ![call] = @ \cup T] /\ open = Own(T)
  BY <1>1, Running, CommitOnly DEF Restore
<1>3. Size(call) = Steps(Job)
  BY <1>1, SizeFacts DEF FlowInv
<1>4. PICK p \in {"ok", "failed"} :
          outcome' = [outcome EXCEPT ![call] = p] /\ (p = "ok" => ~failed)
  BY DEF Restore, Succeed, Fail
<1>5. /\ applied[call] \in {{}, 1..Steps(Job)}
      /\ ~failed => applied[call] = 1..Steps(Job)
      /\ call \notin loose => T \in {{}, 1..Steps(Job)}
  <2>1. Own({}) = {}
    BY DEF Own
  <2>. QED
    BY <1>1, <1>2, <2>1, OwnOnce DEF DataInv
<1>6. Mode(call)' = "atomic" => call \notin loose
  BY <1>1, <1>4, ModeKept
<1>. QED
  BY <1>1, <1>2, <1>3, <1>4, <1>5, <1>6, StepMaps

\* EXEC runs what it was given, all of it unless the call is loose.
LEMMA RedisMaps ==
    ASSUME ExecInv, DataInv, RedisExec \/ RedisExecFails
    PROVE  Promised!Next
<1>. USE DEF At, Ends, callVars, session
<1>1. /\ pc = "end" /\ UNCHANGED callVars /\ kind = "redis" /\ Transactional(Job)
      /\ loose' \in {loose, loose \cup {call}}
  BY DEF RedisExec, RedisExecFails, WholeOr
<1>2. /\ open \subseteq Own(1..Steps(Job)) /\ applied[call] = {}
      /\ Size(call) = Steps(Job) /\ Steps(Job) = Number(Job)
  <2>1. kind \in Kinds /\ Job \in Jobs /\ ~auto
    BY <1>1, InCall DEF ExecInv, TypeOK, FlowInv
  <2>. QED
    BY <1>1, <2>1, Running, SizeFacts, JobFacts DEF DataInv
<1>3. PICK S \in SUBSET Own(1..Steps(Job)) :
          /\ Commit(S)
          /\ call \notin loose' => S = Own(1..Number(Job)) \/ (S = {} /\ (failed \/ RedisExecFails))
  <2>1. CASE RedisExec
    <3>1. PICK S \in SUBSET open :
              /\ Commit(S)
              /\ WholeOr(S, failed)
      BY <2>1 DEF RedisExec
    <3>. QED
      BY <1>2, <3>1 DEF WholeOr
  <2>2. CASE RedisExecFails
    <3>1. PICK S \in SUBSET open : Commit(S) /\ WholeOr(S, TRUE)
      BY <2>2 DEF RedisExecFails
    <3>. QED
      BY <1>2, <2>2, <3>1 DEF WholeOr
  <2>. QED
    BY <2>1, <2>2
<1>4. PICK p \in {"ok", "failed"} :
          outcome' = [outcome EXCEPT ![call] = p] /\ (p = "ok" => ~failed /\ ~RedisExecFails)
  <2>1. CASE RedisExecFails
    BY <2>1 DEF RedisExecFails, Fail
  <2>2. CASE RedisExec /\ ~RedisExecFails
    BY <2>2 DEF RedisExec, Succeed, Fail
  <2>. QED
    BY <2>1, <2>2
<1>5. PICK T \in SUBSET (1..Steps(Job)) :
          applied' = [applied EXCEPT ![call] = @ \cup T] /\ S = Own(T)
  BY <1>1, <1>3, CommitOnly
<1>6. p = "ok" /\ call \notin loose' => T = 1..Size(call)
  BY <1>2, <1>3, <1>4, <1>5, OwnOnce
<1>7. Mode(call)' = "atomic" => applied[call] \cup T \in {{}, 1..Size(call)}
  <2>1. Mode(call)' = "atomic" => call \notin loose'
    BY <1>1, <1>4, ModeKept
  <2>2. S = {} => T = {}
    <3>1. Own({}) = {}
      BY DEF Own
    <3>. QED
      BY <1>5, <3>1, OwnOnce
  <2>3. S = Own(1..Number(Job)) => T = 1..Size(call)
    BY <1>2, <1>5, OwnOnce
  <2>. QED
    BY <1>2, <1>3, <2>1, <2>2, <2>3
<1>. QED
  BY <1>1, <1>2, <1>4, <1>5, <1>6, <1>7, StepMaps

LEMMA PromiseInit == Init => Promised!Init
<1>. SUFFICES ASSUME Init PROVE Promised!Init
  OBVIOUS
<1>1. \A c \in Calls : Mode(c) = "each" /\ Size(c) = 0
  BY DEF Init, Mode, Size
<1>. QED
  BY <1>1 DEF Init, Promised!Init

LEMMA PromiseStep == ExecInv /\ DataInv /\ [Next]_vars => [Promised!Next]_Promised!vars
<1>. SUFFICES ASSUME ExecInv, DataInv, [Next]_vars
              PROVE  Promised!Next \/ UNCHANGED Promised!vars
  OBVIOUS
<1>1. CASE UNCHANGED vars
  <2>1. UNCHANGED <<kind, call, job, outcome, applied, loose>>
    BY <1>1 DEF vars, callVars
  <2>2. \A c \in Calls : Mode(c)' = Mode(c) /\ Size(c)' = Size(c)
    BY <2>1 DEF Mode, Size, Steps, Number, Transactional
  <2>. QED
    BY <2>1, <2>2 DEF Promised!vars
<1>2. CASE \/ Refuse \/ Begin \/ ExecEnd \/ OdbcRollback \/ OdbcRollbackFails
           \/ RestoreFails \/ SqlRollback \/ Cancel
  <2>1. /\ pc # "idle" /\ UNCHANGED callVars /\ applied' = applied
        /\ outcome' = outcome \/ outcome' = [outcome EXCEPT ![call] = "failed"]
        /\ loose' \in {loose, loose \cup {call}}
    BY <1>2 DEF Refuse, Begin, ExecEnd, OdbcRollback, OdbcRollbackFails, RestoreFails, SqlRollback,
                Cancel, At, Ends, OneByOne, Fail, callVars
  <2>. QED
    BY <2>1, QuietMaps
<1>3. CASE Finished
  BY <1>1, <1>3 DEF Finished
<1>. QED
  BY <1>1, <1>2, <1>3, CallMaps, StatementMaps, PlainMaps, CommitMaps, RestoreMaps, RedisMaps DEF Next

\* RunExecute implements its promise, for every kind, any number of calls and
\* of parameter sets, wherever a step fails or the context ends.
THEOREM PromiseKept == Spec => Promise
<1>1. ExecInv /\ DataInv /\ [Next]_vars => DataInv'
  BY StepData
<1>2. Spec => []DataInv
  BY InitData, InvCorrect, <1>1, PTL DEF Spec
<1>3. Promise <=> Promised!Init /\ [][Promised!Next]_Promised!vars
  BY DEF Promise, Promised!Spec
<1>. QED
  BY InvCorrect, PromiseInit, PromiseStep, <1>2, <1>3, PTL DEF Spec
=============================================================================
