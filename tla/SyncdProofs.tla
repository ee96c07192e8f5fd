---------------------------- MODULE SyncdProofs ----------------------------
(* What syncd.go guarantees for any number of scripts, versions and faults. *)
EXTENDS Syncd, TLAPS

(* Types.                                                                  *)

Going == [key : Scripts, ver : Versions, st : {"new", "running"}]

\* The main loop, syncdBackground and the goroutines keep the types of what
\* they share; a Range only hands out plans that are in the map.
THEOREM TypeCorrect == Spec => []TypeOK
<1>. USE SyncdConstants
<1>1. Init => TypeOK
  <2>. SUFFICES ASSUME Init PROVE TypeOK
    OBVIOUS
  <2>1. prompt \in BOOLEAN /\ hangs \subseteq Scripts /\ parentUp \in BOOLEAN /\ ctx \in BOOLEAN
    BY DEF Init
  <2>2. /\ script \in Contents /\ scriptList \in Contents /\ planMap \in Contents
        /\ threadState \in [Scripts -> {"none", "running", "stop"}]
        /\ run \in [Ids -> {Free} \cup Going]
    BY DEF Init, Contents
  <2>. QED
    BY <2>1, <2>2 DEF Init, TypeOK, Going
<1>2. TypeOK /\ [Next]_vars => TypeOK'
  <2>. SUFFICES ASSUME TypeOK, [Next]_vars PROVE TypeOK'
    OBVIOUS
  <2>. USE DEF TypeOK, Contents, Live, Ids, Dead
  <2>1. CASE MainStep
    <3>. USE DEF MainAt, Others, Return, envVars, fixedVars, backVars
    <3>1. CASE Enter
      BY <3>1 DEF Enter
    <3>2. CASE ResetDbList \/ FetchScripts \/ CleanEnd \/ ApplyEnd \/ Wake
      BY <3>2 DEF ResetDbList, FetchScripts, CleanEnd, ApplyEnd, Wake
    <3>3. ASSUME NEW k \in Scripts, Clean(k) \/ Keep(k) \/ DeletePlan(k) \/ StorePlan(k)
          PROVE  TypeOK'
      BY <3>3 DEF Clean, Keep, DeletePlan, StorePlan
    <3>. QED
      BY <2>1, <3>1, <3>2, <3>3 DEF MainStep
  <2>2. CASE BackStep
    <3>. USE DEF BackAt, Rest, envVars, fixedVars, mainVars
    <3>1. CASE BackEnter \/ Skip \/ BackSleep
      BY <3>1 DEF BackEnter, Skip, BackSleep
    <3>2. ASSUME NEW k \in Scripts, Visit(k) PROVE TypeOK'
      BY <3>2 DEF Visit
    <3>3. CASE Go
      BY <3>3 DEF Go
    <3>. QED
      BY <2>2, <3>1, <3>2, <3>3 DEF BackStep
  <2>3. ASSUME NEW i \in Ids, RunStep(i) PROVE TypeOK'
    <3>1. run[i] \in Going
      BY <2>3 DEF RunStep, SetRunningThreadState, SetStopThreadState, Free, Going
    <3>2. CASE SetRunningThreadState(i)
      BY <3>1, <3>2 DEF SetRunningThreadState, envVars, fixedVars, mainVars, backVars, Going
    <3>3. CASE SetStopThreadState(i)
      BY <3>1, <3>3 DEF SetStopThreadState, envVars, fixedVars, mainVars, backVars, Going
    <3>. QED
      BY <2>3, <3>2, <3>3 DEF RunStep
  <2>4. CASE Faulty
    <3>. USE DEF Fault, backVars, fixedVars
    <3>0. prompt' \in BOOLEAN /\ ctx' \in BOOLEAN /\ parentUp' \in BOOLEAN
      BY ONLY TypeOK, Faulty, Zenon
         DEF TypeOK, Faulty, FetchFails, DbListPanics, ParentDies, Cancel, RunPanics, StorePlanPanics, ChangeScript, Return
    <3>1. CASE FetchFails \/ DbListPanics
      BY <3>0, <3>1 DEF FetchFails, DbListPanics, Return
    <3>2. CASE ParentDies \/ Cancel
      BY <3>0, <3>2 DEF ParentDies, Cancel, mainVars
    <3>3. ASSUME NEW i \in Ids, RunPanics(i) PROVE TypeOK'
      BY <3>3 DEF RunPanics
    <3>5. ASSUME NEW k \in Scripts, StorePlanPanics(k) PROVE TypeOK'
      BY <3>5 DEF StorePlanPanics, MainAt
    <3>4. ASSUME NEW k \in Scripts, NEW v \in Versions \cup {None}, ChangeScript(k, v)
          PROVE  TypeOK'
      BY <3>4 DEF ChangeScript, mainVars
    <3>. HIDE DEF TypeOK, Fault, Ids
    <3>. QED
      BY <2>4, <3>1, <3>2, <3>3, <3>4, <3>5 DEF Faulty
  <2>5. CASE UNCHANGED vars \/ Finished
    BY <2>5 DEF vars, Finished, envVars, fixedVars, mainVars, backVars
  <2>6. CASE ProcessExits
    BY <2>6 DEF ProcessExits, envVars, fixedVars, backVars
  <2>. HIDE DEF TypeOK
  <2>. QED
    BY <2>1, <2>2, <2>3, <2>4, <2>5, <2>6 DEF Next
<1>. QED
  BY <1>1, <1>2, PTL DEF Spec

-----------------------------------------------------------------------------
(* One run at a time.                                                      *)

New(i) == run[i].st = "new"

\* A goroutine that has not set its state yet is of a script the present Range
\* has passed, and there is none when a Range begins.
RunInv ==
    prompt =>
        /\ OneRun
        /\ bpc = "top" => \A i \in Ids : ~New(i)
        /\ bpc = "found" => visit.key \notin left
        /\ \A i \in Ids : New(i) => /\ run[i].key \notin left
                                    /\ bpc = "found" => run[i].key # visit.key

\* The steps of the main loop, the end and the faults leave the scheduler's state alone.
LEMMA SchedulerAlone ==
    ASSUME MainStep \/ Faulty \/ ProcessExits \/ Finished \/ UNCHANGED vars
    PROVE  UNCHANGED <<prompt, threadState, backVars, run>>
<1>1. CASE MainStep
  BY <1>1 DEF MainStep, Others, envVars, fixedVars, Enter, ResetDbList, FetchScripts, CleanEnd, ApplyEnd,
              Wake, Clean, Keep, DeletePlan, StorePlan
<1>2. CASE Faulty
  BY <1>2 DEF Faulty, FetchFails, DbListPanics, ParentDies, Cancel, RunPanics, StorePlanPanics, ChangeScript,
              fixedVars
<1>. QED
  BY <1>1, <1>2 DEF ProcessExits, Finished, vars, envVars, fixedVars

\* RunInv survives every step of the Range and of the goroutines.
LEMMA RunStepKeeps == TypeOK /\ RunInv /\ [Next]_vars => RunInv'
<1>. SUFFICES ASSUME TypeOK, RunInv, [Next]_vars PROVE RunInv'
  OBVIOUS
<1>. USE SyncdConstants DEF RunInv, OneRun, New, Live, TypeOK
<1>1. CASE MainStep \/ Faulty \/ ProcessExits \/ Finished \/ UNCHANGED vars
  <2>1. prompt' = prompt /\ threadState' = threadState /\ backVars' = backVars /\ run' = run
    BY ONLY <1>1, SchedulerAlone
  <2>2. prompt' = prompt
    BY ONLY <2>1, Zenon
  <2>3. bpc' = bpc /\ left' = left /\ visit' = visit /\ threadState' = threadState /\ run' = run
    BY ONLY <2>1 DEF backVars
  <2>4. OneRun' = OneRun
    BY ONLY <2>2, <2>3 DEF OneRun, Live
  <2>. QED
    BY <2>2, <2>3, <2>4
<1>2. CASE BackStep
  <2>. USE DEF BackAt, Rest, envVars, fixedVars, mainVars
  <2>1. CASE BackEnter
    BY <2>1 DEF BackEnter
  <2>2. ASSUME NEW k \in Scripts, Visit(k) PROVE RunInv'
    BY <2>2 DEF Visit
  <2>3. CASE Skip
    BY <2>3 DEF Skip
  <2>4. CASE Go
    <3>. SUFFICES ASSUME prompt PROVE RunInv'
      BY <2>4 DEF Go
    <3>1. PICK i \in Ids : /\ ~Live(i)
                           /\ run' = [run EXCEPT ![i] = [key |-> visit.key, ver |-> visit.ver, st |-> "new"]]
      BY <2>4 DEF Go
    <3>2. \A j \in Ids : Live(j) => run[j].key # visit.key
      BY <2>4 DEF Go, Busy, Free
    <3>3. run'[i] = [key |-> visit.key, ver |-> visit.ver, st |-> "new"]
      BY <3>1
    <3>4. \A j \in Ids : j # i => run'[j] = run[j]
      BY <3>1
    <3>5. bpc' = "range" /\ UNCHANGED <<left, visit, threadState, prompt>>
      BY <2>4 DEF Go
    <3>6. \A j, l \in Ids : Live(j)' /\ Live(l)' /\ j # l => run'[j].key # run'[l].key
      BY <3>2, <3>3, <3>4
    <3>7. \A k \in Scripts :
             threadState'[k] = "running" <=> \E j \in Ids : run'[j].key = k /\ run'[j].st = "running"
      <4>1. ASSUME NEW j \in Ids PROVE run'[j].st = "running" <=> run[j].st = "running"
        BY <3>1, <3>3, <3>4
      <4>2. ASSUME NEW j \in Ids, run[j].st = "running" PROVE run'[j] = run[j]
        <5>1. j # i
          BY <3>1, <4>2 DEF Live
        <5>. QED
          BY ONLY <3>4, <5>1, j \in Ids
      <4>3. \A k \in Scripts : threadState'[k] = threadState[k]
        BY <3>5
      <4>4. \A k \in Scripts :
               threadState[k] = "running" <=> \E j \in Ids : run[j].key = k /\ run[j].st = "running"
        BY DEF RunInv, OneRun
      <4>. QED
        BY ONLY <4>1, <4>2, <4>3, <4>4
    <3>8. \A j \in Ids : New(j)' => run'[j].key \notin left'
      BY <3>3, <3>4, <3>5, <2>4 DEF Go
    <3>. QED
      BY <3>5, <3>6, <3>7, <3>8
  <2>5. CASE BackSleep
    BY <2>5 DEF BackSleep
  <2>. QED
    BY <1>2, <2>1, <2>2, <2>3, <2>4, <2>5 DEF BackStep
<1>3. ASSUME NEW i \in Ids, RunStep(i) PROVE RunInv'
  <2>. SUFFICES ASSUME prompt PROVE RunInv'
    BY <1>3 DEF RunStep, SetRunningThreadState, SetStopThreadState, envVars, fixedVars
  <2>1. run[i] \in Going
    BY <1>3 DEF RunStep, SetRunningThreadState, SetStopThreadState, Free, Going
  <2>2. UNCHANGED <<bpc, left, visit, prompt>>
    BY <1>3 DEF RunStep, SetRunningThreadState, SetStopThreadState, backVars, envVars, fixedVars
  <2>3. CASE SetRunningThreadState(i)
    BY <2>1, <2>2, <2>3 DEF SetRunningThreadState, Going
  <2>4. CASE SetStopThreadState(i)
    BY <2>1, <2>2, <2>4 DEF SetStopThreadState, Going, Free
  <2>. QED
    BY <1>3, <2>3, <2>4 DEF RunStep
<1>. QED
  BY <1>1, <1>2, <1>3 DEF Next

\* With a scheduler that starts a goroutine within the second, the test and the
\* setting of a thread state, two steps of two goroutines, are as good as one.
THEOREM OneRunAtATime == Spec => []OneRun
<1>1. Init => RunInv
  BY DEF Init, RunInv, OneRun, New, Live, Free
<1>2. RunInv => OneRun
  BY DEF RunInv, OneRun
<1>. QED
  BY <1>1, <1>2, RunStepKeeps, TypeCorrect, PTL DEF Spec

-----------------------------------------------------------------------------
(* The reset.                                                              *)

\* What the two loops of syncdResetScriptPlan have done so far.
ResetInv ==
    /\ mpc = "clean" => \A k \in Scripts \ rest : scriptList[k] = None => planMap[k] = None
    /\ mpc = "apply" => /\ \A k \in Scripts \ rest : planMap[k] = scriptList[k]
                        /\ \A k \in rest : scriptList[k] # None
    /\ ResetExact

\* A reset that ends leaves the plans of the scripts it fetched and no other.
THEOREM ResetCorrect == Spec => []ResetExact
<1>. USE DEF ResetInv, ResetExact
<1>1. Init => ResetInv
  BY DEF Init
<1>2. TypeOK /\ ResetInv /\ [Next]_vars => ResetInv'
  <2>. SUFFICES ASSUME TypeOK, ResetInv, [Next]_vars PROVE ResetInv'
    OBVIOUS
  <2>. USE DEF TypeOK, Contents
  <2>1. CASE Enter \/ ResetDbList \/ FetchScripts \/ CleanEnd \/ Wake
    BY <2>1 DEF Enter, ResetDbList, FetchScripts, CleanEnd, Wake, MainAt, Return
  <2>2. CASE ApplyEnd
    BY <2>2 DEF ApplyEnd, MainAt
  <2>3. ASSUME NEW k \in Scripts, Clean(k) \/ Keep(k) \/ DeletePlan(k) \/ StorePlan(k)
        PROVE  ResetInv'
    BY <2>3 DEF Clean, Keep, DeletePlan, StorePlan, Unchanged, MainAt
  <2>4. CASE Faulty
    BY <2>4 DEF Faulty, FetchFails, DbListPanics, ParentDies, Cancel, RunPanics, StorePlanPanics, ChangeScript,
                Return, mainVars
  <2>5. CASE BackStep
    BY <2>5 DEF BackStep, BackEnter, Visit, Skip, Go, BackSleep, Rest, mainVars
  <2>6. ASSUME NEW i \in Ids, RunStep(i) PROVE ResetInv'
    BY <2>6 DEF RunStep, SetRunningThreadState, SetStopThreadState, mainVars
  <2>7. CASE ProcessExits \/ UNCHANGED vars \/ Finished
    BY <2>7 DEF vars, ProcessExits, Finished, mainVars
  <2>. QED
    BY <2>1, <2>2, <2>3, <2>4, <2>5, <2>6, <2>7 DEF Next, MainStep
<1>. QED
  BY <1>1, <1>2, TypeCorrect, PTL DEF Spec
=============================================================================
