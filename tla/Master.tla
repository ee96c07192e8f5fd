------------------------------- MODULE Master -------------------------------
(***************************************************************************)
(* The master process of cmd/oncecall_sync/entry/master.go: it keeps one   *)
(* child process per identity of a database list, and its children watch   *)
(* it.  The master is one goroutine; the list, the children, the probes of *)
(* the operating system and the master's own death interleave with each of *)
(* its steps.  Child n is the n-th process started, and n stands for its   *)
(* PID (the process handle of procs keeps a PID from being used again).    *)
(* A list is kept as the number of its rows for each identity: nothing     *)
(* keeps the query from answering with one identity twice, and the order   *)
(* of the rows is any.                                                     *)
(***************************************************************************)
EXTENDS Integers, Sequences, FiniteSets

CONSTANTS Idents,      (* the identities that can be in the list           *)
          Platforms,   (* the systems looked at: "linux", "windows"        *)
          MaxRows,     (* bound: rows of the list that name one identity   *)
          MaxFaults    (* bound: list changes, errors, crashes together    *)

ASSUME MasterConstants ==
    /\ Platforms \subseteq {"linux", "windows"}
    /\ MaxRows \in Nat
    /\ MaxFaults \in Nat

VARIABLES
    os,          (* the platform the binary was built for                  *)
    up, inc,     (* a master is running; how many were started before it   *)
    pc,          (* where its loop stands                                  *)
    seen,        (* list: the rows fetched in this round                   *)
    todo, alive, down,   (* its rows not probed, the identities found      *)
                         (* alive, and the rows found down                 *)
    kills,       (* killList, without those dealt with                     *)
    procs,       (* procs of the ProcManager: identity to PID              *)
    listed,      (* the list in the database                               *)
    child,       (* the processes ever started                             *)
    misjudged,   (* a probe of a live child failed (a history)             *)
    twice,       (* identities of which one round starts two (a history)   *)
    faults       (* how many faults happened                               *)

roundVars == <<pc, seen, todo, alive, down, kills>>
envVars == <<os, up, inc, listed>>
histVars == <<misjudged, twice>>
vars == <<envVars, roundVars, procs, child, histVars, faults>>

NoProcs == [s \in {} |-> 0]
NoRows == [s \in Idents |-> 0]
Rows(list) == {s \in Idents : list[s] > 0}
RowLess(list, s) == [list EXCEPT ![s] = @ - 1]
RowMore(list, s) == [list EXCEPT ![s] = @ + 1]

Init ==
    /\ os \in Platforms
    /\ up = TRUE /\ inc = 0
    /\ pc = "fetch" /\ seen = NoRows /\ todo = NoRows /\ alive = {} /\ down = NoRows /\ kills = {}
    /\ procs = NoProcs
    /\ listed = [s \in Idents |-> 1]
    /\ child = <<>>
    /\ misjudged = FALSE /\ twice = {} /\ faults = 0

Fault == faults < MaxFaults /\ faults' = faults + 1
NoFault == UNCHANGED faults

-----------------------------------------------------------------------------
(* ProcManager.                                                            *)

\* /proc/<pid> is there for a zombie, and nobody calls Wait; Get-CimInstance
\* no longer finds a process that exited.
Exists(n) == child[n].st # "exited" \/ os = "linux"

\* procs only holds processes this master started: the PPID is always its own.
AliveUnprobed(s) == s \in DOMAIN procs   \* mutant: the system is not asked
Alive(s) == s \in DOMAIN procs /\ Exists(procs[s])

\* Start: the new process takes the place of an earlier one in procs.
StartOnce(s) ==   \* mutant: an entry that is there stays
    /\ child' = Append(child, [ident |-> s, st |-> "running", master |-> inc])
    /\ procs' = [k \in DOMAIN procs \cup {s} |-> IF k \in DOMAIN procs THEN procs[k] ELSE Len(child')]
Start(s) ==
    /\ child' = Append(child, [ident |-> s, st |-> "running", master |-> inc])
    /\ procs' = [k \in DOMAIN procs \cup {s} |-> IF k = s THEN Len(child') ELSE procs[k]]

Forget(s) == procs' = [k \in DOMAIN procs \ {s} |-> procs[k]]

\* Process.Kill only sends the signal; signalling a zombie is no error.
Signal(n) == child' = [child EXCEPT ![n].st = IF @ = "running" THEN "killed" ELSE @]

-----------------------------------------------------------------------------
(* MasterEntry, one round.                                                 *)

Fetch ==
    /\ up /\ pc = "fetch" /\ pc' = "scan"
    /\ seen' = listed /\ todo' = listed /\ alive' = {} /\ down' = NoRows
    /\ UNCHANGED <<envVars, kills, procs, child, histVars, faults>>

\* The loop goes on at once; only the log tells.
FetchFails ==
    /\ up /\ pc = "fetch" /\ Fault
    /\ UNCHANGED <<envVars, roundVars, procs, child, histVars>>

\* masterCurrentProcList probes the identity of one row; a repeated one is
\* probed, and appended, again.
Probe(s) ==
    /\ up /\ pc = "scan" /\ s \in Rows(todo)
    /\ todo' = RowLess(todo, s)
    /\ IF Alive(s) THEN alive' = alive \cup {s} /\ UNCHANGED down
                   ELSE down' = RowMore(down, s) /\ UNCHANGED alive
    /\ UNCHANGED <<envVars, pc, seen, kills, procs, child, histVars, faults>>

\* An error of the probe counts as a process that is down.
ProbeFails(s) ==
    /\ up /\ pc = "scan" /\ s \in Rows(todo) /\ Alive(s)
    /\ Fault /\ misjudged' = TRUE
    /\ todo' = RowLess(todo, s) /\ down' = RowMore(down, s)
    /\ UNCHANGED <<envVars, pc, seen, alive, kills, procs, child, twice>>

\* Difference(alive, List()): every registered identity not found alive.
CompareAll == kills' = DOMAIN procs   \* mutant: alive is not taken away
Compare == kills' = DOMAIN procs \ alive

CompareLists ==
    /\ up /\ pc = "scan" /\ Rows(todo) = {} /\ pc' = "start"
    /\ Compare
    /\ UNCHANGED <<envVars, seen, todo, alive, down, procs, child, histVars, faults>>

\* masterDownStart, one row; the first error ends it.
StartDown(s) ==
    /\ up /\ pc = "start" /\ s \in Rows(down)
    /\ Start(s)
    /\ down' = RowLess(down, s)
    /\ twice' = IF down[s] > 1 THEN twice \cup {s} ELSE twice
    /\ UNCHANGED <<envVars, pc, seen, todo, alive, kills, misjudged, faults>>

StartFailsLate ==   \* mutant: registered before the process is there
    /\ up /\ pc = "start" /\ Fault
    /\ \E s \in Rows(down) : procs' = [k \in DOMAIN procs \cup {s} |-> IF k = s THEN Len(child) + 1 ELSE procs[k]]
    /\ down' = NoRows
    /\ UNCHANGED <<envVars, pc, seen, todo, alive, kills, child, histVars>>
StartFails ==
    /\ up /\ pc = "start" /\ Rows(down) # {} /\ Fault
    /\ down' = NoRows
    /\ UNCHANGED <<envVars, pc, seen, todo, alive, kills, procs, child, histVars>>

StartsEnd ==
    /\ up /\ pc = "start" /\ Rows(down) = {} /\ pc' = "kill"
    /\ UNCHANGED <<envVars, seen, todo, alive, down, kills, procs, child, histVars, faults>>

\* masterDownAliveProc, in the random order of a map.
Kill(s) ==
    /\ up /\ pc = "kill" /\ s \in kills /\ Alive(s)
    /\ Signal(procs[s]) /\ Forget(s)
    /\ kills' = kills \ {s}
    /\ UNCHANGED <<envVars, pc, seen, todo, alive, down, histVars, faults>>

\* "process not found" (or a failing probe) ends the killing, and the entry
\* stays.
GiveUpKills == kills' = {} /\ UNCHANGED <<envVars, pc, seen, todo, alive, down, procs, child, histVars>>
KillMissing(s) == up /\ pc = "kill" /\ s \in kills /\ ~Alive(s) /\ NoFault /\ GiveUpKills
KillFails == up /\ pc = "kill" /\ kills # {} /\ Fault /\ GiveUpKills

Sleep ==
    /\ up /\ pc = "kill" /\ kills = {} /\ pc' = "fetch"
    /\ UNCHANGED <<envVars, seen, todo, alive, down, kills, procs, child, histVars, faults>>

-----------------------------------------------------------------------------
(* The master's life and its children.                                     *)

\* main returns after a signal, or the process is killed: no child is told.
Die ==
    /\ up /\ up' = FALSE /\ Fault
    /\ UNCHANGED <<os, inc, listed, roundVars, procs, child, histVars>>

\* A new master knows none of the processes of the one before.
Restart ==
    /\ ~up /\ up' = TRUE /\ inc' = inc + 1
    /\ pc' = "fetch" /\ seen' = NoRows /\ todo' = NoRows /\ alive' = {} /\ down' = NoRows /\ kills' = {}
    /\ procs' = NoProcs /\ misjudged' = FALSE /\ twice' = {}
    /\ UNCHANGED <<os, listed, child, faults>>

MasterUp(n) == up /\ child[n].master = inc

\* IsParentRunning: a child whose parent died has init as its parent on Linux,
\* and a PID that cannot be opened on Windows.
IsParentRunning(n) == MasterUp(n) \/ os = "linux"

Exit(n) == child' = [child EXCEPT ![n].st = "exited"]

\* SyncdEntry leaves its loop once a minute at the latest.
ParentIgnored(n) == FALSE /\ n \in DOMAIN child /\ UNCHANGED vars   \* mutant: no check
ParentCheck(n) ==
    /\ child[n].st = "running" /\ ~IsParentRunning(n)
    /\ Exit(n)
    /\ UNCHANGED <<envVars, roundVars, procs, histVars, faults>>

\* The signal of Kill is delivered.
Killed(n) ==
    /\ child[n].st = "killed"
    /\ Exit(n)
    /\ UNCHANGED <<envVars, roundVars, procs, histVars, faults>>

\* A child stops: an error in its loop, or a panic.
Crash(n) ==
    /\ child[n].st = "running" /\ Fault
    /\ Exit(n)
    /\ UNCHANGED <<envVars, roundVars, procs, histVars>>

\* Somebody adds rows of an identity to the list, or removes some.
ChangeList(s) ==
    /\ Fault
    /\ \E k \in (0..MaxRows) \ {listed[s]} : listed' = [listed EXCEPT ![s] = k]
    /\ UNCHANGED <<os, up, inc, roundVars, procs, child, histVars>>

MasterStep ==
    \/ Fetch \/ CompareLists \/ StartsEnd \/ Sleep
    \/ \E s \in Idents : Probe(s) \/ StartDown(s) \/ Kill(s) \/ KillMissing(s)

Faulty ==
    \/ FetchFails \/ StartFails \/ KillFails \/ Die
    \/ \E s \in Idents : ProbeFails(s) \/ ChangeList(s)
    \/ \E n \in DOMAIN child : Crash(n)

Next ==
    \/ MasterStep
    \/ Restart
    \/ \E n \in DOMAIN child : ParentCheck(n) \/ Killed(n)
    \/ Faulty

Spec == Init /\ [][Next]_vars

\* The loop of a running master goes on; signals arrive; a child makes its
\* check.  A map is walked in random order, so an identity that is in killList
\* round after round is reached before the error that ends the walk.
FairSpec ==
    /\ Spec
    /\ WF_vars(MasterStep)
    /\ \A s \in Idents : SF_vars(Kill(s))
    /\ WF_vars(\E n \in DOMAIN child : ParentCheck(n))
    /\ WF_vars(\E n \in DOMAIN child : Killed(n))

-----------------------------------------------------------------------------
(* Properties.                                                             *)

\* The variables have their types, and procs only names processes that exist:
\* Start registers a process after cmd.Start returned.
TypeOK ==
    /\ os \in Platforms /\ up \in BOOLEAN /\ inc \in Nat
    /\ pc \in {"fetch", "scan", "start", "kill"}
    /\ listed \in [Idents -> Nat] /\ seen \in [Idents -> Nat]
    /\ todo \in [Idents -> Nat] /\ down \in [Idents -> Nat]
    /\ alive \subseteq Idents /\ kills \subseteq Idents /\ twice \subseteq Idents
    /\ DOMAIN procs \subseteq Idents
    /\ \A s \in DOMAIN procs : procs[s] \in DOMAIN child
    /\ child \in Seq([ident : Idents, st : {"running", "killed", "exited"}, master : Nat])
    /\ misjudged \in BOOLEAN /\ faults \in Nat

Runs(n) == child[n].st = "running"

\* While no probe failed, every process this master started and did not kill is
\* the one registered under its identity: none is lost, and no identity has
\* two.  (Start overwrites the entry; Kill works on the entry of this moment.)
\* Excepted is only an identity that stood twice in down: both rows are probed
\* before the first start, both are started, and the first child is lost.
Registered ==
    up /\ ~misjudged => \A n \in DOMAIN child :
        Runs(n) /\ MasterUp(n) /\ child[n].ident \notin twice =>
            child[n].ident \in DOMAIN procs /\ procs[child[n].ident] = n

\* killList is computed before the starts, and used after them: on Linux it
\* still never holds an identity that is in the list.
KillsUnlisted ==
    os = "linux" /\ up /\ ~misjudged /\ pc \in {"start", "kill"} => kills \cap Rows(seen) = {}

Served(s) == up /\ \E n \in DOMAIN child : Runs(n) /\ MasterUp(n) /\ child[n].ident = s
ZombieFor(s) == s \in DOMAIN procs /\ child[procs[s]].st = "exited"

\* Once the faults end, every identity in the list is served and no other is,
\* whatever the faults left behind: a half done round, a dead entry of procs, a
\* list that changed in the middle.  (A child lost to a repeated row is not
\* found again: such an identity is excepted here too.)
Converges ==
    \A s \in Idents :
        /\ <>[](up /\ ~misjudged /\ s \in Rows(listed))
              => <>[](Served(s) \/ (os = "linux" /\ ZombieFor(s)))
        /\ <>[](up /\ ~misjudged /\ s \notin Rows(listed) /\ s \notin twice)
              => <>[]~Served(s)

\* The children of a master that died stop (Windows).
Orphaned(s) == \E n \in DOMAIN child : Runs(n) /\ ~MasterUp(n) /\ child[n].ident = s
OrphansStop == os = "windows" => \A s \in Idents : []<>~Orphaned(s)

\* What syncd.go:157 says ("master process is down"): a child whose master is
\* gone finds out and stops, on every platform.
MasterIsDown == \A s \in Idents : []<>~Orphaned(s)

\* What master.go:12 sorts into "down" and master.go:32 starts again: the
\* process of a listed identity that stopped is replaced.
DownIsStarted ==
    \A s \in Idents : <>[](up /\ ~misjudged /\ s \in Rows(listed)) => <>[]Served(s)
=============================================================================
