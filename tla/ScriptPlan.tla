----------------------------- MODULE ScriptPlan -----------------------------
(***************************************************************************)
(* The runs of one script, cmd/oncecall_sync/plan/script_plan.go: the      *)
(* initialisation of the databases, the read plans with their parameters,  *)
(* the buffer they fill, and the write.  The runs follow each other (see   *)
(* OneRun of module Syncd); the databases, the end of the context and the  *)
(* goroutines of utils.AnyContext interleave with their steps.  The value  *)
(* a run reads names the plan, the column, the row and the run, so that it *)
(* shows where a parameter comes from.  Results are rectangular.           *)
(***************************************************************************)
EXTENDS PlanCells, FiniteSets

CONSTANTS Names,     (* the columns, and the other databases of an init    *)
          Scripts,   (* the scripts looked at                              *)
          Static,    (* a value given in the script                        *)
          RowCaps,   (* the configured capacities looked at                *)
          Times,     (* the clock (time.Now().UnixMicro()) when a run reads *)
          MaxRows,   (* bound: the rows of a result                        *)
          MaxRuns    (* bound: the runs                                    *)

\* plan 0 is a static value; row is the row of a read plan's parameter, and the
\* StartSyncOffset of the sync plan's.  A bind that is "wrong" has no kind, or a
\* key that is not a number from 1.
Source == [plan : Nat, col : Names, row : Nat]
Binds == {"none", "fix", "vm", "prev", "wrong"}
Script == [hasInit : BOOLEAN, self : Nat, other : SUBSET Names, queries : Nat \ {0},
           reads : Seq([bind : Binds, fix : Seq(Source), hasNext : BOOLEAN, cols : SUBSET Names]),
           sync : [bind : Binds, fix : Seq(Source)]]

ASSUME ScriptConstants ==
    /\ Scripts \subseteq Script /\ RowCaps \subseteq Nat
    /\ Times \subseteq Nat
    /\ MaxRows \in Nat /\ MaxRuns \in Nat

VARIABLES
    script, rowCap,      (* the script, and rowCap of its buffer           *)
    absent,              (* the init entries whose trigger returns rows    *)
    ctxDone,             (* the shared context, parent of that of the plan *)
    panic,               (* why the process died, "none" while it lives    *)
    run, pc, seq,        (* the run, where it stands, its currentSeq       *)
    isInit, asked, item, left,  (* init: the flag, its entries, its queries *)
    plan, param,         (* the read plan, and the parameters made last    *)
    rows, next, row,     (* its result, isNext, and the row being stored   *)
    buf,                 (* paramBuffer                                    *)
    got,                 (* the rows each plan stored in this run (history) *)
    merged, watch        (* of each run's AnyContext: done; its goroutines *)

envVars == <<script, rowCap, absent, ctxDone, panic>>
initVars == <<isInit, asked, item, left>>
readVars == <<plan, rows, next, row>>
ctxVars == <<merged, watch>>
vars == <<envVars, run, pc, seq, initVars, readVars, param, buf, got, ctxVars>>

Runs == 1..MaxRuns
Reads == DOMAIN script.reads
Entries == {<<"self", k>> : k \in 1..script.self} \cup {<<"other", d>> : d \in script.other}
NoRows == [p \in Reads |-> 0]
At(l) == panic = "none" /\ pc = l

Init ==
    /\ script \in Scripts /\ rowCap \in RowCaps
    /\ absent \in SUBSET Entries
    /\ ctxDone = FALSE /\ panic = "none"
    /\ run = 0 /\ pc = "idle" /\ seq = 0
    /\ isInit = FALSE /\ asked = {} /\ item = <<>> /\ left = 0
    /\ plan = 1 /\ rows = 0 /\ next = FALSE /\ row = 0
    /\ param = <<>> /\ got = NoRows
    /\ buf = [p \in Reads |-> [c \in script.reads[p].cols |-> <<>>]]
    /\ merged = [n \in Runs |-> FALSE] /\ watch = [n \in Runs |-> {}]

\* Run returns, and the deferred cancelFn ends the merged context.
Return == pc' = "idle" /\ merged' = [merged EXCEPT ![run] = TRUE]

Panic(why) ==
    /\ panic' = why
    /\ UNCHANGED <<script, rowCap, absent, ctxDone, run, seq, pc, initVars, readVars, param, buf, got, ctxVars>>

-----------------------------------------------------------------------------
(* init.                                                                   *)

StartRun ==
    /\ At("idle") /\ run < MaxRuns /\ run' = run + 1
    /\ script.hasInit \/ isInit
    /\ pc' = IF script.hasInit THEN "init" ELSE "wait"
    /\ asked' = {} /\ got' = NoRows
    /\ UNCHANGED <<envVars, seq, isInit, item, left, readVars, param, buf, ctxVars>>

\* Only a script that was initialised may have no Init.
NilInit == At("idle") /\ run < MaxRuns /\ ~script.hasInit /\ ~isInit /\ Panic("nil Init")

\* The self entries come in their order, the others follow in any.
Due(i) == \A j \in Entries : j[1] = "self" /\ (i[1] = "other" \/ j[2] < i[2]) => j \in asked

\* The trigger query of an entry; without rows there is nothing to do.
TriggerEnds(i) ==   \* mutant: the first entry that is there ends the loop
    /\ At("init") /\ i \in Entries \ asked /\ Due(i)
    /\ IF i \in absent THEN /\ pc' = "apply" /\ item' = i /\ UNCHANGED isInit
                            /\ left' = IF i[1] = "self" THEN 1 ELSE script.queries
                       ELSE pc' = "wait" /\ isInit' = TRUE /\ UNCHANGED <<item, left>>
    /\ UNCHANGED <<envVars, run, seq, asked, readVars, param, buf, got, ctxVars>>
Trigger(i) ==
    /\ At("init") /\ i \in Entries \ asked /\ Due(i)
    /\ IF i \in absent THEN /\ pc' = "apply" /\ item' = i /\ UNCHANGED asked
                            /\ left' = IF i[1] = "self" THEN 1 ELSE script.queries
                       ELSE asked' = asked \cup {i} /\ UNCHANGED <<pc, item, left>>
    /\ UNCHANGED <<envVars, run, seq, isInit, readVars, param, buf, got, ctxVars>>

\* An init query of the entry; after the last one its trigger is silent.
Apply ==
    /\ At("apply") /\ left' = left - 1
    /\ IF left = 1 THEN asked' = asked \cup {item} /\ absent' = absent \ {item} /\ pc' = "init"
                   ELSE UNCHANGED <<asked, absent, pc>>
    /\ UNCHANGED <<script, rowCap, ctxDone, panic, run, seq, isInit, item, readVars, param, buf, got, ctxVars>>

InitEnd ==
    /\ At("init") /\ asked = Entries
    /\ pc' = "wait" /\ isInit' = TRUE
    /\ UNCHANGED <<envVars, run, seq, asked, item, left, readVars, param, buf, got, ctxVars>>

\* No pool, or a query that fails; what was applied stays.  There is no merged
\* context yet.
InitFails ==
    /\ pc \in {"init", "apply"} /\ At(pc) /\ pc' = "idle"
    /\ UNCHANGED <<envVars, run, seq, initVars, readVars, param, buf, got, ctxVars>>

-----------------------------------------------------------------------------
(* runRead.                                                                *)

\* The interval is over; AnyContext starts its goroutines.
Wake ==
    /\ At("wait") /\ pc' = "param"
    /\ seq' \in Times
    /\ plan' = 1
    /\ watch' = [watch EXCEPT ![run] = {"root", "shared", "own"}]
    /\ UNCHANGED <<envVars, run, initVars, rows, next, row, param, buf, got, merged>>

Column(s) == IF s.plan \in Reads /\ s.col \in script.reads[s.plan].cols THEN buf[s.plan][s.col] ELSE <<>>

\* get, which answers nil for a plan that is not there.
Readable(s, r) == s.plan \notin Reads \/ r < Len(Column(s))
Value(s, r) == IF s.plan = 0 THEN Static ELSE IF s.plan \notin Reads THEN Nil ELSE Seen(Column(s), r, seq)

Bind == script.reads[plan]

\* prevData is always nil, and what a Lua script returns is not followed.
ReadParam ==
    /\ At("param") /\ plan \in Reads /\ pc' = "query"
    /\ Bind.bind # "wrong"
    /\ IF Bind.bind = "fix"
       THEN /\ \A k \in DOMAIN Bind.fix : Readable(Bind.fix[k], Bind.fix[k].row)
            /\ param' = [k \in DOMAIN Bind.fix |-> Value(Bind.fix[k], Bind.fix[k].row)]
       ELSE param' = <<>>
    /\ UNCHANGED <<envVars, run, seq, initVars, readVars, buf, got, ctxVars>>

\* The query of the plan, and that of its IsNext.
Query ==
    /\ At("query") /\ pc' = "alloc"
    /\ rows' \in 0..MaxRows /\ row' = 0
    /\ next' \in BOOLEAN /\ (Bind.hasNext \/ next')
    /\ UNCHANGED <<envVars, run, seq, initVars, plan, param, buf, got, ctxVars>>

\* allocCurrentDataToState, a row at a time.
StoreRow ==
    /\ At("alloc") /\ row < rows /\ row' = row + 1
    /\ \A c \in Bind.cols : HasRow(buf[plan][c], row, seq, rowCap)
    /\ buf' = [buf EXCEPT ![plan] =
                  [c \in Bind.cols |-> PutCell(buf[plan][c], row, <<plan, c, row, run>>, seq, rowCap)]]
    /\ UNCHANGED <<envVars, run, pc, seq, initVars, plan, rows, next, param, got, ctxVars>>

StoreRowPanics ==
    /\ At("alloc") /\ row < rows
    /\ \E c \in Bind.cols : ~HasRow(buf[plan][c], row, seq, rowCap)
    /\ Panic("index out of range")

\* The break for a context that is done only leaves its select: the loop goes on.
StoreEnd ==
    /\ At("alloc") /\ row = rows
    /\ got' = [got EXCEPT ![plan] = rows]
    /\ plan' = plan + 1 /\ pc' = IF next THEN "param" ELSE "sync"
    /\ UNCHANGED <<envVars, run, seq, initVars, rows, next, row, param, buf, ctxVars>>

ReadsEnd ==
    /\ At("param") /\ plan \notin Reads /\ pc' = "sync"
    /\ UNCHANGED <<envVars, run, seq, initVars, readVars, param, buf, got, ctxVars>>

-----------------------------------------------------------------------------
(* runWrite.                                                               *)

MaxOf(S) == CHOOSE n \in S : \A m \in S : m <= n
ColSize == MaxOf({0} \cup {Cardinality({c \in DOMAIN buf[p] : buf[p][c] # <<>>}) : p \in Reads})
RowSize == MaxOf({0} \cup UNION {{Len(buf[p][c]) : c \in DOMAIN buf[p]} : p \in Reads})

\* Cell k of row r of the matrix: a dynamic value only from StartSyncOffset on.
SyncValue(s, r) == IF s.plan # 0 /\ r < s.row THEN Nil ELSE Value(s, r)

\* makeSyncPlanParam.  The matrix has a row for every cell of the longest column,
\* written in this run or not, and each column must have them all.
SyncParam ==
    /\ At("sync") /\ pc' = "write"
    /\ script.sync.bind # "wrong"
    /\ IF script.sync.bind = "fix"
       THEN LET fix == script.sync.fix
            IN  /\ Len(fix) <= ColSize
                /\ \A k \in DOMAIN fix : fix[k].plan # 0 => \A r \in fix[k].row .. RowSize - 1 : Readable(fix[k], r)
                /\ param' = [r \in 1..RowSize |-> [k \in DOMAIN fix |-> SyncValue(fix[k], r - 1)]]
       ELSE param' = <<>>
    /\ UNCHANGED <<envVars, run, seq, initVars, readVars, buf, got, ctxVars>>

Write ==
    /\ At("write") /\ Return
    /\ UNCHANGED <<envVars, run, seq, initVars, readVars, param, buf, got, watch>>

\* A parameter that cannot be made, no pool, a query that fails, a result whose
\* rows are not as wide as its columns: the run ends, the buffer stays.
RunFails ==
    /\ pc \in {"param", "query", "sync", "write"} /\ At(pc) /\ Return
    /\ UNCHANGED <<envVars, run, seq, initVars, readVars, param, buf, got, watch>>

-----------------------------------------------------------------------------
(* utils.AnyContext, and the environment.                                  *)

\* The goroutine of one of the contexts waits for it and for the merged one.
WatchContextAlone(n, w) ==   \* mutant: it does not wait for the merged one
    /\ panic = "none" /\ w \in watch[n] \ {"root"}
    /\ ctxDone
    /\ merged' = [merged EXCEPT ![n] = TRUE]
    /\ watch' = [watch EXCEPT ![n] = @ \ {w}]
    /\ UNCHANGED <<envVars, run, pc, seq, initVars, readVars, param, buf, got>>
WatchContext(n, w) ==
    /\ panic = "none" /\ w \in watch[n] \ {"root"}
    /\ ctxDone \/ merged[n]
    /\ merged' = [merged EXCEPT ![n] = TRUE]
    /\ watch' = [watch EXCEPT ![n] = @ \ {w}]
    /\ UNCHANGED <<envVars, run, pc, seq, initVars, readVars, param, buf, got>>

\* The first goroutine waits for the merged context; its cancel is too late.
WatchRootEarly(n) ==   \* mutant: it does not wait
    /\ panic = "none" /\ "root" \in watch[n]
    /\ merged' = [merged EXCEPT ![n] = TRUE]
    /\ watch' = [watch EXCEPT ![n] = @ \ {"root"}]
    /\ UNCHANGED <<envVars, run, pc, seq, initVars, readVars, param, buf, got>>
WatchRoot(n) ==
    /\ panic = "none" /\ "root" \in watch[n]
    /\ merged[n]
    /\ watch' = [watch EXCEPT ![n] = @ \ {"root"}]
    /\ UNCHANGED <<envVars, run, pc, seq, initVars, readVars, param, buf, got, merged>>

Cancel ==
    /\ panic = "none" /\ ~ctxDone /\ ctxDone' = TRUE
    /\ UNCHANGED <<script, rowCap, absent, panic, run, pc, seq, initVars, readVars, param, buf, got, ctxVars>>

\* Somebody drops what an init entry made.
Drop(i) ==
    /\ panic = "none" /\ i \in Entries \ absent /\ absent' = absent \cup {i}
    /\ UNCHANGED <<script, rowCap, ctxDone, panic, run, pc, seq, initVars, readVars, param, buf, got, ctxVars>>

Finished ==
    /\ panic # "none" \/ (run = MaxRuns /\ pc = "idle" /\ \A n \in Runs : watch[n] = {})
    /\ UNCHANGED vars

RunStep ==
    \/ StartRun \/ NilInit \/ (\E i \in Entries : Trigger(i)) \/ Apply \/ InitEnd \/ InitFails
    \/ Wake \/ ReadParam \/ Query \/ StoreRow \/ StoreRowPanics \/ StoreEnd \/ ReadsEnd
    \/ SyncParam \/ Write \/ RunFails

Watch(n) == WatchRoot(n) \/ \E w \in {"shared", "own"} : WatchContext(n, w)

Next ==
    \/ RunStep
    \/ \E n \in Runs : Watch(n)
    \/ Cancel
    \/ \E i \in Entries : Drop(i)
    \/ Finished

Spec == Init /\ [][Next]_vars

\* Goroutines that can run do; sleeps and queries end.
FairSpec == /\ Spec
            /\ WF_vars(RunStep)
            /\ \A n \in Runs : WF_vars(Watch(n))

-----------------------------------------------------------------------------
(* Properties.                                                             *)

\* What a cell can hold: nil, or a value that was read for this very place.
Fresh(p, c, r, n) == <<p, c, r, n>>
Datum == {Nil} \cup (Nat \X Names \X Nat \X Nat)
Data(p, c, r) == {Nil} \cup {Fresh(p, c, r, n) : n \in 1..run}

\* The variables have their types; a value never leaves its plan, column and
\* row, however often the column was grown and cut.
TypeOK ==
    /\ script \in Scripts /\ rowCap \in RowCaps /\ absent \subseteq Entries /\ ctxDone \in BOOLEAN
    /\ panic \in {"none", "nil Init", "index out of range"}
    /\ run \in 0..MaxRuns /\ seq \in Times \cup {0}
    /\ pc \in {"idle", "init", "apply", "wait", "param", "query", "alloc", "sync", "write"}
    /\ pc # "idle" => run # 0
    /\ isInit \in BOOLEAN /\ asked \subseteq Entries
    /\ left \in Nat /\ (pc = "apply" => item \in Entries /\ left > 0)
    /\ plan \in Nat \ {0} /\ (pc \in {"query", "alloc"} => plan \in Reads)
    /\ rows \in 0..MaxRows /\ next \in BOOLEAN /\ row \in Nat
    /\ got \in [Reads -> 0..MaxRows]
    /\ DOMAIN buf = Reads
    /\ \A p \in Reads :
          /\ DOMAIN buf[p] = script.reads[p].cols
          /\ \A c \in script.reads[p].cols :
                /\ buf[p][c] \in Seq([data : Datum, seq : Nat])
                /\ \A r \in 1..Len(buf[p][c]) : buf[p][c][r].data \in Data(p, c, r - 1)
    /\ merged \in [Runs -> BOOLEAN] /\ watch \in [Runs -> SUBSET {"root", "shared", "own"}]

\* A run reads and writes only after each of its init entries was asked for in
\* this very run, and found or made, whatever became of the databases since the
\* run before and wherever that one failed.
InitFirst ==
    script.hasInit /\ pc \in {"wait", "param", "query", "alloc", "sync", "write"} => asked = Entries

\* set grows a column by rowCap without looking at the row, and cuts one that
\* is idle: rows stored in order still always find their cell, if rowCap is not
\* 0.
SetsFit == rowCap > 0 => panic # "index out of range"

\* The cells of a column outlive the run that wrote them, and the sequence
\* numbers may go back with the clock; still a parameter that this run has read
\* is never taken from an earlier run: not by a later read plan, and not by the
\* sync plan, which has every row from its offset on.
ThisRunsData ==
    /\ pc = "query" /\ Bind.bind = "fix" =>
          \A k \in DOMAIN Bind.fix : LET s == Bind.fix[k]
                                     IN  s.plan \in Reads /\ s.col \in script.reads[s.plan].cols /\ s.row < got[s.plan]
                                            => param[k] = Fresh(s.plan, s.col, s.row, run)
    /\ pc = "write" /\ script.sync.bind = "fix" =>
          \A k \in DOMAIN script.sync.fix :
              LET s == script.sync.fix[k]
              IN  s.plan \in Reads /\ s.col \in script.reads[s.plan].cols =>
                      /\ got[s.plan] <= Len(param)
                      /\ \A r \in s.row .. got[s.plan] - 1 : param[r + 1][k] = Fresh(s.plan, s.col, r, run)

Returned(n) == n < run \/ (n = run /\ pc = "idle")

\* The context of a run ends with the run or with one of its two contexts, and
\* never because a goroutine of AnyContext, of this or of an earlier run, ends.
ContextExact == \A n \in Runs : merged[n] => ctxDone \/ Returned(n)

\* Every run ends, and so do the three goroutines it leaves behind, whether it
\* fails or the context is cancelled meanwhile.
RunsEnd == \A n \in Runs : run = n ~> (panic # "none" \/ (Returned(n) /\ watch[n] = {}))
=============================================================================
