------------------------------- MODULE Syncd -------------------------------
(***************************************************************************)
(* The sync daemon of cmd/oncecall_sync/entry/syncd.go and the end that    *)
(* main.go makes of it.  Its main loop brings the plan map in line with    *)
(* the scripts of the database, its background goroutine starts every      *)
(* plan of the map that does not run, and each start is a goroutine of its *)
(* own.  They only share the plan map and the thread states, both without  *)
(* a common lock.  The process ends with main, whatever still runs then.   *)
(* A version stands for the MD5 hash of a script; how a plan runs is left  *)
(* open, and whether it returns.                                           *)
(***************************************************************************)
EXTENDS Naturals

CONSTANTS Scripts,     (* the names of the scripts                         *)
          Versions,    (* what a script can contain (its hash)             *)
          None,        (* no version: the script is absent                 *)
          Prompts,     (* the schedulers looked at, see prompt             *)
          Hangs,       (* the sets of scripts looked at, see hangs         *)
          MaxRuns,     (* bound: goroutines of plans at the same time      *)
          MaxFaults    (* bound: changes of scripts and failures together  *)

ASSUME SyncdConstants ==
    /\ None \notin Versions
    /\ Prompts \subseteq BOOLEAN
    /\ Hangs \subseteq SUBSET Scripts
    /\ MaxRuns \in Nat
    /\ MaxFaults \in Nat

VARIABLES
    prompt,      (* a new goroutine is scheduled within a second           *)
    hangs,       (* the scripts of which a run may never return            *)
    script,      (* the scripts in the database                            *)
    parentUp,    (* the master runs                                        *)
    ctx,         (* the context is done                                    *)
    faults,      (* how many faults happened                               *)
    mpc,         (* where the main loop stands                             *)
    scriptList,  (* what it fetched                                        *)
    rest,        (* the scripts its present loop has still to look at      *)
    planMap,     (* PlanMap: the version of each plan                      *)
    threadState, (* the thread state of each script                        *)
    bpc,         (* where the background goroutine stands                  *)
    left,        (* the scripts its Range has still to visit               *)
    visit,       (* the key and value its Range is at                      *)
    run          (* the goroutines of plans                                *)

fixedVars == <<prompt, hangs>>
envVars == <<fixedVars, script, parentUp, faults>>
mainVars == <<mpc, scriptList, rest>>
backVars == <<bpc, left, visit>>
vars == <<envVars, ctx, mainVars, planMap, threadState, backVars, run>>

Contents == [Scripts -> Versions \cup {None}]
Ids == 1..MaxRuns
Free == [key |-> None, ver |-> None, st |-> "free"]
Live(i) == run[i].st # "free"
\* The process is gone, and its goroutines with it.
Dead == mpc \in {"panic", "exited"}

Init ==
    /\ prompt \in Prompts /\ hangs \in Hangs
    /\ script \in Contents
    /\ parentUp = TRUE /\ ctx = FALSE /\ faults = 0
    /\ mpc = "top" /\ scriptList = [k \in Scripts |-> None] /\ rest = {}
    /\ planMap = [k \in Scripts |-> None]
    /\ threadState = [k \in Scripts |-> "none"]
    /\ bpc = "top" /\ left = {} /\ visit = [key |-> None, ver |-> None]
    /\ run = [i \in Ids |-> Free]

Fault == ~Dead /\ faults < MaxFaults /\ faults' = faults + 1

-----------------------------------------------------------------------------
(* SyncdEntry.                                                             *)

MainAt(l) == mpc = l
Others == UNCHANGED <<envVars, threadState, backVars, run>>

\* The return of SyncdEntry runs the deferred syncdCancel.
Return == mpc' = "done" /\ ctx' = TRUE

Enter ==
    /\ MainAt("top")
    /\ IF ctx \/ ~parentUp THEN Return ELSE mpc' = "list" /\ UNCHANGED ctx
    /\ UNCHANGED <<scriptList, rest, planMap>> /\ Others

\* syncdResetDbList: no pool is ever pushed before GetConnPool is asked, so only
\* an empty list leaves the loop going.
ResetDbList ==
    /\ MainAt("list") /\ mpc' = "script"
    /\ UNCHANGED <<ctx, scriptList, rest, planMap>> /\ Others

\* A query fails, or a row is not what the parser wants.
FetchFails ==
    /\ mpc \in {"list", "script"} /\ Fault /\ Return
    /\ UNCHANGED <<fixedVars, script, parentUp, scriptList, rest, planMap, threadState, backVars, run>>

\* The one row width DBList accepts is too short for parsingConnInfo.
DbListPanics ==
    /\ MainAt("list") /\ Fault /\ mpc' = "panic"
    /\ UNCHANGED <<fixedVars, script, parentUp, ctx, scriptList, rest, planMap, threadState, backVars, run>>

FetchScripts ==
    /\ MainAt("script") /\ mpc' = "clean"
    /\ scriptList' = script /\ rest' = Scripts
    /\ UNCHANGED <<ctx, planMap>> /\ Others

\* The Range of syncdResetScriptPlan deletes the plans of scripts that are gone.
Clean(k) ==
    /\ MainAt("clean") /\ k \in rest
    /\ rest' = rest \ {k}
    /\ planMap' = IF scriptList[k] = None THEN [planMap EXCEPT ![k] = None] ELSE planMap
    /\ UNCHANGED <<ctx, mpc, scriptList>> /\ Others

CleanEnd ==
    /\ MainAt("clean") /\ rest = {} /\ mpc' = "apply"
    /\ rest' = {k \in Scripts : scriptList[k] # None}
    /\ UNCHANGED <<ctx, scriptList, planMap>> /\ Others

\* A plan whose hash is unchanged stays; another is deleted, and stored anew in
\* a step of its own.  Its Close does nothing: a run of it goes on.
UnchangedIfThere(k) == planMap[k] # None   \* mutant: the hashes are not compared
Unchanged(k) == planMap[k] = scriptList[k]

Keep(k) ==
    /\ MainAt("apply") /\ k \in rest /\ Unchanged(k)
    /\ rest' = rest \ {k}
    /\ UNCHANGED <<ctx, mpc, scriptList, planMap>> /\ Others

DeletePlan(k) ==
    /\ MainAt("apply") /\ k \in rest /\ ~Unchanged(k) /\ planMap[k] # None
    /\ planMap' = [planMap EXCEPT ![k] = None]
    /\ UNCHANGED <<ctx, mpc, scriptList, rest>> /\ Others

StorePlan(k) ==
    /\ MainAt("apply") /\ k \in rest /\ planMap[k] = None
    /\ planMap' = [planMap EXCEPT ![k] = scriptList[k]]
    /\ rest' = rest \ {k}
    /\ UNCHANGED <<ctx, mpc, scriptList>> /\ Others

\* A script without [option]: the pointer to its options is nil.
StorePlanPanics(k) ==
    /\ MainAt("apply") /\ k \in rest /\ planMap[k] = None /\ Fault /\ mpc' = "panic"
    /\ UNCHANGED <<fixedVars, script, parentUp, ctx, scriptList, rest, planMap, threadState, backVars, run>>

ApplyEnd ==
    /\ MainAt("apply") /\ rest = {} /\ mpc' = "sleep"
    /\ UNCHANGED <<ctx, scriptList, rest, planMap>> /\ Others

Wake ==
    /\ MainAt("sleep") /\ mpc' = "top"
    /\ UNCHANGED <<ctx, scriptList, rest, planMap>> /\ Others

-----------------------------------------------------------------------------
(* syncdBackground.                                                        *)

BackAt(l) == ~Dead /\ bpc = l
Rest == UNCHANGED <<envVars, ctx, mainVars, planMap, threadState>>

BackEnter ==
    /\ BackAt("top") /\ bpc' = IF ctx THEN "done" ELSE "range"
    /\ left' = IF ctx THEN left ELSE Scripts
    /\ UNCHANGED <<visit, run>> /\ Rest

\* Range calls the function with a key and the value it has at this moment.
VisitAll(k) ==   \* mutant: also for a key that is not there
    /\ BackAt("range") /\ k \in left /\ left' = left \ {k}
    /\ bpc' = "found" /\ visit' = [key |-> k, ver |-> planMap[k]]
    /\ UNCHANGED run /\ Rest
Visit(k) ==
    /\ BackAt("range") /\ k \in left /\ left' = left \ {k}
    /\ IF planMap[k] = None THEN UNCHANGED <<bpc, visit>>
       ELSE bpc' = "found" /\ visit' = [key |-> k, ver |-> planMap[k]]
    /\ UNCHANGED run /\ Rest

BusyUnlessNew(k) == threadState[k] = "stop"   \* mutant: the states are mixed up
Busy(k) == threadState[k] = "running"

Skip ==
    /\ BackAt("found") /\ bpc' = "range"
    /\ Busy(visit.key)
    /\ UNCHANGED <<left, visit, run>> /\ Rest

\* The go statement; the goroutine itself sets its state to running.
Go ==
    /\ BackAt("found") /\ bpc' = "range"
    /\ ~Busy(visit.key)
    /\ \E i \in Ids :
          /\ ~Live(i) /\ \A j \in Ids : j < i => Live(j)
          /\ run' = [run EXCEPT ![i] = [key |-> visit.key, ver |-> visit.ver, st |-> "new"]]
    /\ UNCHANGED <<left, visit>> /\ Rest

\* The sleep to the next full second, at the end of a Range.
BackSleep ==
    /\ BackAt("range") /\ left = {} /\ bpc' = "top"
    /\ prompt => \A i \in Ids : run[i].st # "new"
    /\ UNCHANGED <<left, visit, run>> /\ Rest

-----------------------------------------------------------------------------
(* The goroutine of a plan.                                                *)

SetRunningThreadState(i) ==
    /\ ~Dead /\ run[i].st = "new"
    /\ run' = [run EXCEPT ![i].st = "running"]
    /\ threadState' = [threadState EXCEPT ![run[i].key] = "running"]
    /\ UNCHANGED <<envVars, ctx, mainVars, planMap, backVars>>

\* Plan.Run returned, with an error or without.
StopForgotten(i) ==   \* mutant: an error returns before SetStopThreadState
    /\ ~Dead /\ run[i].st = "running"
    /\ run' = [run EXCEPT ![i] = Free]
    /\ UNCHANGED <<envVars, ctx, mainVars, planMap, threadState, backVars>>
SetStopThreadState(i) ==
    /\ ~Dead /\ run[i].st = "running"
    /\ run' = [run EXCEPT ![i] = Free]
    /\ threadState' = [threadState EXCEPT ![run[i].key] = "stop"]
    /\ UNCHANGED <<envVars, ctx, mainVars, planMap, backVars>>

\* Nothing recovers from a panic in Plan.Run: the process ends.
RunPanics(i) ==
    /\ run[i].st = "running" /\ Fault /\ mpc' = "panic"
    /\ UNCHANGED <<fixedVars, script, parentUp, ctx, scriptList, rest, planMap, threadState, backVars, run>>

-----------------------------------------------------------------------------
(* The environment.                                                        *)

ChangeScript(k, v) ==
    /\ Fault /\ v # script[k] /\ script' = [script EXCEPT ![k] = v]
    /\ UNCHANGED <<fixedVars, parentUp, ctx, mainVars, planMap, threadState, backVars, run>>

ParentDies ==
    /\ Fault /\ parentUp /\ parentUp' = FALSE
    /\ UNCHANGED <<fixedVars, script, ctx, mainVars, planMap, threadState, backVars, run>>

\* main cancels the context after a signal.
Cancel ==
    /\ Fault /\ ~ctx /\ ctx' = TRUE
    /\ UNCHANGED <<fixedVars, script, parentUp, mainVars, planMap, threadState, backVars, run>>

\* main looks once a second whether SyncdEntry returned; then, and after a
\* signal, it closes what is global and returns.  Nothing waits for the other
\* goroutines: they stop where they are.
ProcessExits ==
    /\ ~Dead /\ ctx /\ mpc' = "exited"
    /\ UNCHANGED <<envVars, ctx, scriptList, rest, planMap, threadState, backVars, run>>

Finished == Dead /\ UNCHANGED vars

MainStep ==
    \/ Enter \/ ResetDbList \/ FetchScripts \/ CleanEnd \/ ApplyEnd \/ Wake
    \/ \E k \in Scripts : Clean(k) \/ Keep(k) \/ DeletePlan(k) \/ StorePlan(k)

BackStep == BackEnter \/ (\E k \in Scripts : Visit(k)) \/ Skip \/ Go \/ BackSleep

RunStep(i) == SetRunningThreadState(i) \/ SetStopThreadState(i)

Faulty ==
    \/ FetchFails \/ DbListPanics \/ ParentDies \/ Cancel
    \/ \E i \in Ids : RunPanics(i)
    \/ \E k \in Scripts : StorePlanPanics(k)
    \/ \E k \in Scripts, v \in Versions \cup {None} : ChangeScript(k, v)

Next == MainStep \/ BackStep \/ (\E i \in Ids : RunStep(i)) \/ ProcessExits \/ Faulty \/ Finished

Spec == Init /\ [][Next]_vars

\* The Go scheduler runs every goroutine that can run; sleeps and the queries of
\* the two loops end, and so does a plan that does not hang.  main polls, and
\* what it closes closes.
FairSpec == /\ Spec
            /\ WF_vars(MainStep)
            /\ WF_vars(BackStep)
            /\ \A i \in Ids : /\ WF_vars(SetRunningThreadState(i))
                              /\ WF_vars(run[i].key \notin hangs /\ SetStopThreadState(i))
            /\ WF_vars(ProcessExits)

-----------------------------------------------------------------------------
(* Properties.                                                             *)

\* The variables have their types; a plan never runs for a key without a value.
TypeOK ==
    /\ prompt \in BOOLEAN /\ hangs \subseteq Scripts /\ parentUp \in BOOLEAN /\ ctx \in BOOLEAN /\ faults \in Nat
    /\ script \in Contents /\ scriptList \in Contents /\ planMap \in Contents
    /\ mpc \in {"top", "list", "script", "clean", "apply", "sleep", "done", "panic", "exited"}
    /\ bpc \in {"top", "range", "found", "done"}
    /\ rest \subseteq Scripts /\ left \subseteq Scripts
    /\ threadState \in [Scripts -> {"none", "running", "stop"}]
    /\ bpc = "found" => visit \in [key : Scripts, ver : Versions]
    /\ run \in [Ids -> {Free} \cup [key : Scripts, ver : Versions, st : {"new", "running"}]]

\* GetThreadState and SetRunningThreadState are steps of two goroutines, a plan
\* can be replaced or removed between them, and its Close stops nothing: as long
\* as a new goroutine is scheduled within the second that syncdBackground
\* sleeps, a script never runs twice at once, and its state tells the truth.
OneRun ==
    prompt =>
        /\ \A i, j \in Ids : Live(i) /\ Live(j) /\ i # j => run[i].key # run[j].key
        /\ \A k \in Scripts :
              threadState[k] = "running" <=> \E i \in Ids : run[i].key = k /\ run[i].st = "running"

\* A reset that was not cut short leaves exactly the plans of the scripts it
\* fetched, although syncdBackground ranges over the map meanwhile.
ResetExact == mpc = "sleep" => planMap = scriptList

\* Once the scripts stay as they are and the daemon goes on, each script is run
\* again and again in its present version, and in no other: the runs of a
\* replaced or removed plan, which nothing cancels, are not started anew.  Said
\* of scripts whose runs return: one that hangs is never started again.
Stays(k, v) == <>[](mpc \notin {"done", "panic", "exited"} /\ script[k] = v)
RunsAs(k, v) == \E i \in Ids : run[i].key = k /\ run[i].ver = v /\ run[i].st = "running"
Settles ==
    hangs = {} => \A k \in Scripts : \A v \in Versions \cup {None} :
        Stays(k, v) => /\ v # None => []<>RunsAs(k, v)
                       /\ \A w \in Versions \ {v} : <>[]~RunsAs(k, w)

=============================================================================
