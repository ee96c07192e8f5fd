---------------------------- MODULE MasterProofs ----------------------------
(* What master.go guarantees for any list of identities, any number of      *)
(* rounds, and any number of crashes, restarts and list changes.            *)
EXTENDS Master, SequenceTheorems, TLAPS

Child == [ident : Idents, st : {"running", "killed", "exited"}, master : Nat]

\* A process that starts comes behind the ones there are.
LEMMA Started ==
    ASSUME NEW c \in Seq(Child), NEW x \in Child
    PROVE  /\ Append(c, x) \in Seq(Child)
           /\ Len(Append(c, x)) = Len(c) + 1
           /\ DOMAIN Append(c, x) = DOMAIN c \cup {Len(c) + 1}
           /\ Append(c, x)[Len(c) + 1] = x
           /\ \A n \in DOMAIN c : Append(c, x)[n] = c[n]
OBVIOUS

\* A signal, a crash or an exit changes the state of one process.
LEMMA StateSet ==
    ASSUME NEW c \in Seq(Child), NEW n \in DOMAIN c, NEW v \in {"running", "killed", "exited"}
    PROVE  /\ [c EXCEPT ![n].st = v] \in Seq(Child)
           /\ DOMAIN [c EXCEPT ![n].st = v] = DOMAIN c
           /\ [c EXCEPT ![n].st = v][n] = [c[n] EXCEPT !.st = v]
           /\ \A m \in DOMAIN c : m # n => [c EXCEPT ![n].st = v][m] = c[m]
<1>. DEFINE y == [c[n] EXCEPT !.st = v]
<1>1. c[n] \in Child /\ n \in 1..Len(c)
  OBVIOUS
<1>2. y \in Child
  BY <1>1 DEF Child
<1>3. [c EXCEPT ![n].st = v] = [c EXCEPT ![n] = y]
  OBVIOUS
<1>4. [c EXCEPT ![n] = y] \in Seq(Child)
  BY <1>1, <1>2, ExceptSeq
<1>. QED
  BY <1>3, <1>4

\* Taking a row from a list, or adding one, leaves a list, and the other
\* identities have the rows they had.
LEMMA RowChange ==
    ASSUME NEW b \in [Idents -> Nat], NEW s \in Idents
    PROVE  /\ s \in Rows(b) => RowLess(b, s) \in [Idents -> Nat]
           /\ RowMore(b, s) \in [Idents -> Nat]
           /\ \A k \in Rows(RowLess(b, s)) : k \in Rows(b) /\ (k = s => b[s] > 1)
           /\ \A k \in Rows(RowMore(b, s)) : k \in Rows(b) \/ k = s
BY DEF Rows, RowLess, RowMore

\* The steps that touch processes or the registry, apart from Restart.
Touches(s, n) == StartDown(s) \/ Kill(s) \/ ParentCheck(n) \/ Killed(n) \/ Crash(n)

\* The steps that leave rows alone or set them anew, the steps that move one
\* row from todo, and both together.
Quiet ==
    \/ Fetch \/ CompareLists \/ StartsEnd \/ Sleep \/ FetchFails \/ StartFails \/ KillFails \/ Die
    \/ \E s \in Idents : KillMissing(s) \/ ChangeList(s)
    \/ UNCHANGED vars
Probing == \E s \in Idents : Probe(s) \/ ProbeFails(s)
Calm == Quiet \/ Probing

\* The calm steps neither start nor stop a process nor touch the registry.
LEMMA CalmAlone == ASSUME Calm PROVE UNCHANGED <<os, inc, procs, child>>
BY DEF Calm, Quiet, Probing, Fetch, CompareLists, StartsEnd, Sleep, FetchFails, StartFails, KillFails, Die, Probe,
       KillMissing, ProbeFails, ChangeList, GiveUpKills, vars, envVars, histVars

\* A step is calm, touches one process, or starts a new master.
LEMMA Steps ==
    ASSUME [Next]_vars
    PROVE  Calm \/ Restart \/ (\E s \in Idents, n \in DOMAIN child : Touches(s, n))
                \/ (\E s \in Idents : StartDown(s) \/ Kill(s))
                \/ (\E n \in DOMAIN child : ParentCheck(n) \/ Killed(n) \/ Crash(n))
BY DEF Next, MasterStep, Faulty, Calm, Quiet, Probing, Touches

\* Kill (masterDownAliveProc) signals the registered process and forgets it.
LEMMA KillEffect ==
    ASSUME TypeOK, NEW s \in Idents, Kill(s)
    PROVE  /\ s \in DOMAIN procs /\ procs[s] \in DOMAIN child
           /\ \E v \in {"killed", "exited"} : child' = [child EXCEPT ![procs[s]].st = v]
           /\ DOMAIN procs' = DOMAIN procs \ {s}
           /\ \A k \in DOMAIN procs \ {s} : procs'[k] = procs[k]
           /\ UNCHANGED <<envVars, pc, histVars, seen, todo, alive, down, faults>>
           /\ kills' \subseteq kills
<1>1. s \in DOMAIN procs /\ procs[s] \in DOMAIN child
  BY DEF Kill, Alive, TypeOK
<1>2. child[procs[s]] \in Child
  <2>1. child \in Seq(Child)
    BY DEF TypeOK, Child
  <2>. QED
    BY <1>1, <2>1
<1>3. child' = [child EXCEPT ![procs[s]].st =
                  IF child[procs[s]].st = "running" THEN "killed" ELSE child[procs[s]].st]
  BY DEF Kill, Signal
<1>4. \E v \in {"killed", "exited"} : child' = [child EXCEPT ![procs[s]].st = v]
  <2>1. CASE child[procs[s]].st = "running"
    BY <1>3, <2>1
  <2>2. CASE child[procs[s]].st # "running"
    BY <1>2, <1>3, <2>2 DEF Child
  <2>. QED
    BY <2>1, <2>2
<1>5. /\ DOMAIN procs' = DOMAIN procs \ {s}
      /\ \A k \in DOMAIN procs \ {s} : procs'[k] = procs[k]
  BY DEF Kill, Forget
<1>6. /\ UNCHANGED <<envVars, pc, histVars, seen, todo, alive, down, faults>>
      /\ kills' \subseteq kills
  BY DEF Kill
<1>. QED
  BY <1>1, <1>4, <1>5, <1>6

\* A child that stops, for whatever reason, changes its own state and nothing
\* of the master.
LEMMA ExitEffect ==
    ASSUME NEW n \in DOMAIN child, ParentCheck(n) \/ Killed(n) \/ Crash(n), faults \in Nat
    PROVE  /\ child' = [child EXCEPT ![n].st = "exited"]
           /\ UNCHANGED <<envVars, roundVars, procs, histVars>>
           /\ faults' \in Nat
BY DEF ParentCheck, Killed, Crash, Exit, Fault

\* The variables keep their types, and procs names only processes that exist,
\* for any number of faults.
THEOREM TypeCorrect == Spec => []TypeOK
<1>1. Init => TypeOK
  <2>. SUFFICES ASSUME Init PROVE TypeOK
    OBVIOUS
  <2>1. up \in BOOLEAN /\ misjudged \in BOOLEAN
    BY DEF Init
  <2>2. DOMAIN procs = {} /\ child \in Seq(Child)
    BY DEF Init, NoProcs
  <2>. QED
    BY <2>1, <2>2, MasterConstants DEF Init, TypeOK, Child, NoRows
<1>2. TypeOK /\ [Next]_vars => TypeOK'
  <2>. SUFFICES ASSUME TypeOK, [Next]_vars PROVE TypeOK'
    OBVIOUS
  <2>0. child \in Seq(Child) /\ faults \in Nat
    BY DEF TypeOK, Child
  <2>1. CASE Calm
    <3>1. UNCHANGED <<os, inc, procs, child>>
      BY <2>1, CalmAlone
    <3>2. up' \in BOOLEAN /\ misjudged' \in BOOLEAN
      BY <2>1, Zenon DEF Calm, Quiet, Probing, TypeOK, Fetch, CompareLists, StartsEnd, Sleep, FetchFails, StartFails,
         KillFails, Die, Probe, KillMissing, ProbeFails, ChangeList, GiveUpKills, vars, envVars, histVars
    <3>3. faults' \in Nat
      BY <2>1 DEF Calm, Quiet, Probing, TypeOK, Fetch, CompareLists, StartsEnd, Sleep, FetchFails, StartFails,
         KillFails, Die, Probe, KillMissing, ProbeFails, ChangeList, GiveUpKills, vars, envVars, histVars,
         Fault, NoFault
    <3>4. /\ pc' \in {"fetch", "scan", "start", "kill"}
          /\ alive' \subseteq Idents /\ kills' \subseteq Idents /\ twice' \subseteq Idents
      BY <2>1 DEF Calm, Quiet, Probing, TypeOK, Fetch, CompareLists, StartsEnd, Sleep, FetchFails, StartFails,
         KillFails, Die, Probe, KillMissing, ProbeFails, ChangeList, GiveUpKills, vars, envVars, histVars,
         roundVars, histVars, Compare
    <3>5. NoRows \in [Idents -> Nat]
      BY DEF NoRows
    <3>6. /\ listed' \in [Idents -> Nat] /\ seen' \in [Idents -> Nat]
          /\ todo' \in [Idents -> Nat] /\ down' \in [Idents -> Nat]
      <4>1. CASE Probing
        <5>1. PICK s \in Idents : Probe(s) \/ ProbeFails(s)
          BY <4>1 DEF Probing
        <5>2. /\ listed' = listed /\ seen' = seen
              /\ s \in Rows(todo) /\ todo' = RowLess(todo, s)
              /\ down' = down \/ down' = RowMore(down, s)
          BY <5>1 DEF Probe, ProbeFails, envVars
        <5>3. RowLess(todo, s) \in [Idents -> Nat] /\ RowMore(down, s) \in [Idents -> Nat]
          BY <5>2, RowChange DEF TypeOK
        <5>. QED
          BY <5>2, <5>3 DEF TypeOK
      <4>2. CASE Quiet /\ ~\E s \in Idents : ChangeList(s)
        BY <3>5, <4>2 DEF Quiet, Fetch, CompareLists, StartsEnd, Sleep, FetchFails, StartFails,
         KillFails, Die, KillMissing, ChangeList, GiveUpKills, vars, envVars, roundVars, TypeOK
      <4>3. ASSUME NEW s \in Idents, ChangeList(s)
            PROVE  /\ listed' \in [Idents -> Nat] /\ seen' \in [Idents -> Nat]
                   /\ todo' \in [Idents -> Nat] /\ down' \in [Idents -> Nat]
        BY <4>3, MasterConstants DEF ChangeList, roundVars, TypeOK
      <4>. QED
        BY <2>1, <4>1, <4>2, <4>3 DEF Calm
    <3>. QED
      BY <3>1, <3>2, <3>3, <3>4, <3>6 DEF TypeOK
  <2>2. CASE Restart
    <3>1. up' \in BOOLEAN /\ misjudged' \in BOOLEAN
      BY <2>2 DEF Restart
    <3>2. DOMAIN procs' = {}
      BY <2>2 DEF Restart, NoProcs
    <3>. QED
      BY <2>2, <3>1, <3>2 DEF Restart, TypeOK, NoRows
  <2>3. ASSUME NEW s \in Idents, StartDown(s) PROVE TypeOK'
    <3>. DEFINE x == [ident |-> s, st |-> "running", master |-> inc]
    <3>1. x \in Child /\ child' = Append(child, x)
      BY <2>3 DEF StartDown, Start, TypeOK, Child
    <3>2. child' \in Seq(Child) /\ Len(child') \in DOMAIN child' /\ DOMAIN child \subseteq DOMAIN child'
      BY <2>0, <3>1, Started
    <3>3. DOMAIN procs' = DOMAIN procs \cup {s}
          /\ \A k \in DOMAIN procs' : procs'[k] \in DOMAIN child'
      BY <2>3, <3>2 DEF StartDown, Start, TypeOK
    <3>4. down' \in [Idents -> Nat] /\ twice' \subseteq Idents
      BY <2>3, RowChange DEF StartDown, TypeOK
    <3>. QED
      BY <2>3, <3>2, <3>3, <3>4 DEF StartDown, TypeOK, envVars, Child
  <2>4. ASSUME NEW s \in Idents, Kill(s) PROVE TypeOK'
    <3>1. PICK v \in {"killed", "exited"} : child' = [child EXCEPT ![procs[s]].st = v]
      BY <2>4, KillEffect
    <3>2. child' \in Seq(Child) /\ DOMAIN child' = DOMAIN child
      BY <2>0, <2>4, <3>1, KillEffect, StateSet
    <3>3. up' \in BOOLEAN /\ misjudged' \in BOOLEAN
      BY <2>4, KillEffect, Zenon DEF TypeOK, envVars, histVars
    <3>. QED
      BY <2>4, <3>2, <3>3, KillEffect DEF TypeOK, Child, envVars, histVars
  <2>5. ASSUME NEW n \in DOMAIN child, ParentCheck(n) \/ Killed(n) \/ Crash(n) PROVE TypeOK'
    <3>0. child' = [child EXCEPT ![n].st = "exited"]
      BY <2>0, <2>5, ExitEffect
    <3>1. child' \in Seq(Child) /\ DOMAIN child' = DOMAIN child
      BY <2>0, <3>0, StateSet
    <3>. QED
      BY <2>0, <2>5, <3>1, ExitEffect DEF TypeOK, Child, envVars, roundVars, histVars
  <2>. QED
    BY <2>1, <2>2, <2>3, <2>4, <2>5, Steps DEF Touches
<1>. QED
  BY <1>1, <1>2, PTL DEF Spec
-----------------------------------------------------------------------------
(* Every running child is the one registered, unless it was started next to *)
(* another one for a repeated row.  Not inductive as it stands: Start       *)
(* overwrites an entry, so the identities in down must not run when their   *)
(* turn comes, and a new master must not take an older child for its own.   *)

DownIsDown ==
    up /\ ~misjudged /\ pc \in {"scan", "start"} =>
        \A s \in (Rows(down) \cap DOMAIN procs) \ twice : ~Runs(procs[s])

NoFutureMaster == \A n \in DOMAIN child : child[n].master <= inc

RegInv == Registered /\ DownIsDown /\ NoFutureMaster

\* A calm step keeps processes and registry, and puts an identity into down
\* only after a probe found nothing (or failed).
LEMMA CalmKeepsRegistered == ASSUME TypeOK, RegInv, Calm PROVE RegInv'
<1>1. UNCHANGED <<os, inc, procs, child>>
  BY CalmAlone
<1>2. up' => up
  BY Zenon DEF Calm, Quiet, Probing, Fetch, CompareLists, StartsEnd, Sleep, FetchFails, StartFails,
     KillFails, Die, Probe, KillMissing, ProbeFails, ChangeList, GiveUpKills, vars, envVars, histVars
<1>3. misjudged => misjudged'
  BY Zenon DEF Calm, Quiet, Probing, Fetch, CompareLists, StartsEnd, Sleep, FetchFails, StartFails,
     KillFails, Die, Probe, KillMissing, ProbeFails, ChangeList, GiveUpKills, vars, envVars, histVars
<1>0. up' => twice' = twice
  BY Zenon DEF Calm, Quiet, Probing, Fetch, CompareLists, StartsEnd, Sleep, FetchFails, StartFails,
     KillFails, Die, Probe, KillMissing, ProbeFails, ChangeList, GiveUpKills, vars, envVars, histVars
<1>4. Registered' /\ NoFutureMaster'
  BY <1>0, <1>1, <1>2, <1>3 DEF RegInv, Registered, NoFutureMaster, Runs, MasterUp
<1>5. ASSUME ~misjudged', pc' \in {"scan", "start"}, NEW s \in Rows(down') \cap DOMAIN procs
      PROVE  (s \in Rows(down) /\ pc \in {"scan", "start"}) \/ ~Runs(procs[s])
  <2>1. Rows(NoRows) = {} /\ s \in Idents
    BY <1>5 DEF Rows, NoRows
  <2>2. CASE Quiet
    BY <1>5, <2>1, <2>2 DEF Quiet, Fetch, CompareLists, StartsEnd, Sleep, FetchFails, StartFails,
       KillFails, Die, KillMissing, ChangeList, GiveUpKills, vars, envVars, roundVars
  <2>3. ASSUME NEW k \in Idents, Probe(k) \/ ProbeFails(k)
        PROVE  (s \in Rows(down) /\ pc \in {"scan", "start"}) \/ ~Runs(procs[s])
    <3>1. pc = "scan" /\ (down' = down \/ (down' = RowMore(down, k) /\ ~Alive(k)))
      <4>1. CASE Probe(k)
        BY <4>1 DEF Probe
      <4>2. CASE ProbeFails(k)
        BY <1>5, <4>2 DEF ProbeFails
      <4>. QED
        BY <2>3, <4>1, <4>2
    <3>2. s \in Rows(down) \/ (s = k /\ ~Alive(k))
      BY <1>5, <3>1, RowChange DEF TypeOK
    <3>. QED
      BY <1>5, <3>1, <3>2 DEF Alive, Exists, Runs
  <2>. QED
    BY <2>2, <2>3 DEF Calm, Probing
<1>6. DownIsDown'
  BY <1>0, <1>1, <1>2, <1>3, <1>5 DEF RegInv, DownIsDown, Runs
<1>. QED
  BY <1>4, <1>6 DEF RegInv

\* StartDown registers the new process in the place of one that does not run.
LEMMA StartKeepsRegistered == ASSUME TypeOK, RegInv, NEW s \in Idents, StartDown(s) PROVE RegInv'
<1>. DEFINE x == [ident |-> s, st |-> "running", master |-> inc]
            m == Len(child) + 1
<1>1. x \in Child /\ child \in Seq(Child) /\ child' = Append(child, x)
  BY DEF StartDown, Start, TypeOK, Child
<1>2. /\ DOMAIN child' = DOMAIN child \cup {m} /\ Len(child') = m
      /\ child'[m] = x /\ \A n \in DOMAIN child : child'[n] = child[n] /\ n # m
  BY <1>1, Started
<1>3. /\ DOMAIN procs' = DOMAIN procs \cup {s} /\ procs'[s] = m
      /\ \A k \in DOMAIN procs : k # s => procs'[k] = procs[k]
  BY <1>2 DEF StartDown, Start
<1>4. /\ UNCHANGED <<up, inc, pc, misjudged>> /\ pc = "start" /\ up /\ s \in Rows(down)
      /\ twice \subseteq twice' /\ (down[s] > 1 => s \in twice')
      /\ \A k \in Rows(down') : k \in Rows(down) /\ (k = s => down[s] > 1)
  <2>1. down' = RowLess(down, s) /\ down \in [Idents -> Nat]
    BY DEF StartDown, TypeOK
  <2>2. \A k \in Rows(down') : k \in Rows(down) /\ (k = s => down[s] > 1)
    BY <2>1, RowChange
  <2>. QED
    BY <2>2 DEF StartDown, envVars
<1>5. Registered'
  <2>. SUFFICES ASSUME up, ~misjudged, NEW n \in DOMAIN child', Runs(n)', MasterUp(n)',
                       child'[n].ident \notin twice'
                PROVE  child'[n].ident \in DOMAIN procs' /\ procs'[child'[n].ident] = n
    BY <1>4 DEF Registered
  <2>1. CASE n = m
    BY <1>2, <1>3, <2>1
  <2>2. CASE n \in DOMAIN child
    <3>1. child'[n] = child[n] /\ Runs(n) /\ MasterUp(n)
      BY <1>2, <1>4, <2>2 DEF Runs, MasterUp
    <3>2. child[n].ident \in DOMAIN procs /\ procs[child[n].ident] = n /\ child[n].ident \notin twice
      BY <1>4, <2>2, <3>1 DEF RegInv, Registered
    <3>3. child[n].ident # s
      BY <1>4, <3>1, <3>2 DEF RegInv, DownIsDown
    <3>. QED
      BY <1>3, <3>1, <3>2, <3>3
  <2>. QED
    BY <1>2, <2>1, <2>2
<1>6. DownIsDown'
  <2>. SUFFICES ASSUME ~misjudged, NEW k \in Rows(down') \ twice', k \in DOMAIN procs' PROVE child'[procs'[k]].st # "running"
    BY <1>4 DEF DownIsDown, Runs
  <2>1. k \in Rows(down) \cap DOMAIN procs /\ k \notin twice /\ k # s
    BY <1>3, <1>4
  <2>2. procs'[k] = procs[k] /\ procs[k] \in DOMAIN child
    BY <1>3, <2>1 DEF TypeOK
  <2>3. ~Runs(procs[k])
    BY <1>4, <2>1 DEF RegInv, DownIsDown
  <2>. QED
    BY <1>2, <2>2, <2>3 DEF Runs
<1>7. NoFutureMaster'
  <2>1. inc' = inc /\ inc <= inc /\ child'[m].master = inc
    BY <1>2, <1>4 DEF TypeOK
  <2>. QED
    BY <1>2, <2>1 DEF RegInv, NoFutureMaster
<1>. QED
  BY <1>5, <1>6, <1>7 DEF RegInv

\* A process that is signalled or exits does not run afterwards, so only its
\* own entry may go.
LEMMA StopKeepsRegistered ==
    ASSUME TypeOK, RegInv, NEW n \in DOMAIN child, NEW v \in {"killed", "exited"},
           child' = [child EXCEPT ![n].st = v],
           UNCHANGED <<up, inc, pc, misjudged, twice, down>>,
           \/ UNCHANGED procs
           \/ pc = "kill" /\ \E s \in DOMAIN procs :
                /\ procs[s] = n /\ DOMAIN procs' = DOMAIN procs \ {s}
                /\ \A k \in DOMAIN procs \ {s} : procs'[k] = procs[k]
    PROVE  RegInv'
<1>1. child \in Seq(Child)
  BY DEF TypeOK, Child
<1>2. DOMAIN child' = DOMAIN child /\ \A m \in DOMAIN child : m # n => child'[m] = child[m]
  BY <1>1, StateSet
<1>3. child'[n] = [child[n] EXCEPT !.st = v]
  BY <1>1, StateSet
<1>4. ~Runs(n)' /\ child'[n].master = child[n].master
  <2>1. child[n] \in Child
    BY <1>1
  <2>. QED
    BY <1>3, <2>1 DEF Runs, Child
<1>5. \A m \in DOMAIN child : Runs(m)' => m # n /\ Runs(m) /\ child'[m] = child[m]
  BY <1>2, <1>4 DEF Runs
<1>6. Registered'
  <2>. SUFFICES ASSUME up, ~misjudged, NEW m \in DOMAIN child, Runs(m)', MasterUp(m)',
                       child'[m].ident \notin twice
                PROVE  child'[m].ident \in DOMAIN procs' /\ procs'[child'[m].ident] = m
    BY <1>2 DEF Registered
  <2>1. m # n /\ Runs(m) /\ MasterUp(m) /\ child'[m] = child[m]
    BY <1>5 DEF MasterUp
  <2>2. child[m].ident \in DOMAIN procs /\ procs[child[m].ident] = m
    BY <2>1 DEF RegInv, Registered
  <2>. QED
    BY <2>1, <2>2
<1>7. DownIsDown'
  <2>. SUFFICES ASSUME up, ~misjudged, pc \in {"scan", "start"}, 
                       NEW k \in (Rows(down) \cap DOMAIN procs') \ twice
                PROVE  child'[procs'[k]].st # "running"
    BY DEF DownIsDown, Runs
  <2>1. procs' = procs
    OBVIOUS
  <2>2. procs[k] \in DOMAIN child /\ ~Runs(procs[k])
    BY <2>1 DEF RegInv, DownIsDown, TypeOK
  <2>. QED
    BY <1>5, <2>1, <2>2 DEF Runs
<1>8. NoFutureMaster'
  BY <1>2, <1>4 DEF RegInv, NoFutureMaster
<1>. QED
  BY <1>6, <1>7, <1>8 DEF RegInv

\* While no probe failed, every process this master started and did not kill is
\* the one registered under its identity, for any list, any number of rounds,
\* crashes and masters: Start hides a running child only of an identity that a
\* list repeats and that is down at both of its rows.
THEOREM ChildrenRegistered == Spec => []Registered
<1>1. Init => RegInv
  BY DEF Init, RegInv, Registered, DownIsDown, NoFutureMaster
<1>2. TypeOK /\ RegInv /\ [Next]_vars => RegInv'
  <2>. SUFFICES ASSUME TypeOK, RegInv, [Next]_vars PROVE RegInv'
    OBVIOUS
  <2>1. CASE Calm
    BY <2>1, CalmKeepsRegistered
  <2>2. CASE Restart
    <3>1. child' = child /\ inc' = inc + 1 /\ inc \in Nat /\ pc' = "fetch"
      BY <2>2 DEF Restart, TypeOK
    <3>2. \A n \in DOMAIN child : child[n].master <= inc /\ child[n].master \in Nat
      <4>1. child \in Seq(Child)
        BY DEF TypeOK, Child
      <4>2. \A n \in DOMAIN child : child[n] \in Child
        BY <4>1
      <4>. QED
        BY <4>2 DEF RegInv, NoFutureMaster, Child
    <3>. QED
      BY <3>1, <3>2 DEF RegInv, Registered, DownIsDown, NoFutureMaster, MasterUp
  <2>3. ASSUME NEW s \in Idents, StartDown(s) PROVE RegInv'
    BY <2>3, StartKeepsRegistered
  <2>4. ASSUME NEW s \in Idents, Kill(s) PROVE RegInv'
    <3>1. PICK v \in {"killed", "exited"} : child' = [child EXCEPT ![procs[s]].st = v]
      BY <2>4, KillEffect
    <3>2. /\ s \in DOMAIN procs /\ procs[s] \in DOMAIN child /\ pc = "kill"
          /\ UNCHANGED <<up, inc, pc, misjudged, twice, down>>
          /\ DOMAIN procs' = DOMAIN procs \ {s} /\ \A k \in DOMAIN procs \ {s} : procs'[k] = procs[k]
      BY <2>4, KillEffect DEF Kill, envVars, histVars
    <3>. QED
      BY <3>1, <3>2, StopKeepsRegistered
  <2>5. ASSUME NEW n \in DOMAIN child, ParentCheck(n) \/ Killed(n) \/ Crash(n) PROVE RegInv'
    <3>1. child' = [child EXCEPT ![n].st = "exited"] /\ UNCHANGED <<up, inc, pc, misjudged, twice, down, procs>>
      BY <2>5, ExitEffect DEF TypeOK, envVars, roundVars, histVars
    <3>. QED
      BY <3>1, StopKeepsRegistered
  <2>. QED
    BY <2>1, <2>2, <2>3, <2>4, <2>5, Steps DEF Touches
<1>3. RegInv => Registered
  BY DEF RegInv
<1>. QED
  BY <1>1, <1>2, <1>3, TypeCorrect, PTL DEF Spec

-----------------------------------------------------------------------------
(* killList spares the identities of the list on Linux: what was probed is  *)
(* alive or was never registered, and nothing registers during the scan.    *)

ProbedSpared ==
    os = "linux" /\ up /\ ~misjudged /\ pc = "scan" =>
        \A s \in Rows(seen) \ Rows(todo) : s \in alive \/ s \notin DOMAIN procs

KillsInv == KillsUnlisted /\ ProbedSpared

\* A list of processes to kill, computed before the starts and used after
\* them, never holds an identity of the list on Linux (where a process that
\* exited still counts as alive), unless a probe failed.
THEOREM ListedAreSpared == Spec => []KillsUnlisted
<1>1. Init => KillsInv
  BY DEF Init, KillsInv, KillsUnlisted, ProbedSpared
<1>2. TypeOK /\ KillsInv /\ [Next]_vars => KillsInv'
  <2>. SUFFICES ASSUME TypeOK, KillsInv, [Next]_vars PROVE KillsInv'
    OBVIOUS
  <2>1. CASE Calm
    <3>1. UNCHANGED <<os, procs>>
      BY <2>1, CalmAlone
    <3>2. ASSUME os = "linux", up', ~misjudged', pc' = "scan", NEW s \in Rows(seen') \ Rows(todo')
          PROVE  s \in alive' \/ s \notin DOMAIN procs
      <4>0. s \in Idents
        BY <3>2 DEF Rows
      <4>1. CASE Quiet
        BY <3>2, <4>0, <4>1 DEF Quiet, Fetch, CompareLists, StartsEnd, Sleep, FetchFails, StartFails,
         KillFails, Die, KillMissing, ChangeList, GiveUpKills, vars, envVars, roundVars, histVars, KillsInv, ProbedSpared
      <4>2. ASSUME NEW k \in Idents, Probe(k) \/ ProbeFails(k)
            PROVE  s \in alive' \/ s \notin DOMAIN procs
        <5>1. /\ pc = "scan" /\ up /\ seen' = seen /\ todo' = RowLess(todo, k)
              /\ alive \subseteq alive' /\ (k \in alive' \/ ~Alive(k)) /\ ~misjudged
          <6>1. CASE Probe(k)
            BY <3>2, <6>1 DEF Probe, envVars, histVars
          <6>2. CASE ProbeFails(k)
            BY <3>2, <6>2 DEF ProbeFails
          <6>. QED
            BY <4>2, <6>1, <6>2
        <5>2. s \in Rows(seen) /\ (s \notin Rows(todo) \/ s = k)
          BY <3>2, <4>0, <5>1 DEF Rows, RowLess, TypeOK
        <5>. QED
          BY <3>2, <5>1, <5>2 DEF Alive, Exists, KillsInv, ProbedSpared
      <4>. QED
        BY <2>1, <4>1, <4>2 DEF Calm, Probing
    <3>3. ASSUME os = "linux", up', ~misjudged', pc' \in {"start", "kill"}
          PROVE  kills' \cap Rows(seen') = {}
      BY <2>1, <3>3 DEF Calm, Quiet, Probing, Fetch, CompareLists, StartsEnd, Sleep, FetchFails, StartFails,
         KillFails, Die, Probe, KillMissing, ProbeFails, ChangeList, GiveUpKills, vars, envVars, histVars,
         roundVars, Compare, KillsInv, KillsUnlisted, ProbedSpared
    <3>. QED
      BY <3>1, <3>2, <3>3 DEF KillsInv, KillsUnlisted, ProbedSpared
  <2>2. CASE Restart
    BY <2>2 DEF Restart, KillsInv, KillsUnlisted, ProbedSpared
  <2>3. ASSUME NEW s \in Idents, StartDown(s) PROVE KillsInv'
    <3>1. UNCHANGED <<os, up, pc, seen, kills, misjudged>> /\ pc = "start"
      BY <2>3 DEF StartDown, envVars
    <3>. QED
      BY <3>1 DEF KillsInv, KillsUnlisted, ProbedSpared
  <2>4. ASSUME NEW s \in Idents, Kill(s) PROVE KillsInv'
    <3>1. UNCHANGED <<os, up, pc, seen, misjudged>> /\ pc = "kill" /\ kills' \subseteq kills
      BY <2>4 DEF Kill, envVars, histVars
    <3>. QED
      BY <3>1 DEF KillsInv, KillsUnlisted, ProbedSpared
  <2>5. ASSUME NEW n \in DOMAIN child, ParentCheck(n) \/ Killed(n) \/ Crash(n) PROVE KillsInv'
    <3>1. UNCHANGED <<envVars, roundVars, procs, histVars>>
      BY <2>5, ExitEffect DEF TypeOK
    <3>. QED
      BY <3>1 DEF KillsInv, KillsUnlisted, ProbedSpared, envVars, roundVars, histVars
  <2>. QED
    BY <2>1, <2>2, <2>3, <2>4, <2>5, Steps DEF Touches
<1>3. KillsInv => KillsUnlisted
  BY DEF KillsInv
<1>. QED
  BY <1>1, <1>2, <1>3, TypeCorrect, PTL DEF Spec
=============================================================================
