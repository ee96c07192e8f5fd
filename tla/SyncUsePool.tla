----------------------------- MODULE SyncUsePool -----------------------------
(***************************************************************************)
(* The pool SyncUsePool of utils/generic/sync.go, over a sync.Pool that    *)
(* hands out any of the data put into it, or none, and may drop what it    *)
(* keeps at any time.  Goroutines call Use and Close; a load or store of   *)
(* isClose, an access to the sync.Pool, a locked access to the stat and a  *)
(* call of gen, useFn or data.Close are steps of their own.  Data are      *)
(* numbered as gen makes them; 0 is the zero value.                        *)
(***************************************************************************)
EXTENDS Integers, FiniteSets

CONSTANTS Goroutines,   (* those that call Use or Close                    *)
          MaxData,      (* bound: the data gen makes                       *)
          MaxUses       (* bound: the calls                                *)

ASSUME SyncConstants == MaxData \in Nat /\ MaxUses \in Nat /\ IsFiniteSet(Goroutines)

VARIABLES
    usePc,              (* where a goroutine stands in Use or Close        *)
    holds,              (* the data it has at hand                         *)
    kept,               (* what the sync.Pool keeps                        *)
    stat, snapshot,     (* the field; what Close read of it                *)
    shut,               (* isClose                                         *)
    madeData, closedData,    (* history: the data made, and the closed     *)
    uses                (* history: the calls                              *)

syncVars == <<usePc, holds, kept, stat, snapshot, shut, madeData, closedData, uses>>

Stats == {"full", "use", "idle", "err"}
NoStat == [s \in Stats |-> 0]
NoData == 0

SyncInit ==
    /\ usePc = [g \in Goroutines |-> "idle"] /\ holds = [g \in Goroutines |-> NoData]
    /\ kept = {} /\ stat = NoStat /\ snapshot = [g \in Goroutines |-> NoStat]
    /\ shut = FALSE /\ madeData = 0 /\ closedData = {} /\ uses = 0

Move(g, from, to) == usePc[g] = from /\ usePc' = [usePc EXCEPT ![g] = to]
Holds(g, d) == holds' = [holds EXCEPT ![g] = d]

-----------------------------------------------------------------------------
(* The stat.                                                               *)

addStat(full, use, idle, err) ==
    stat' = [full |-> stat["full"] + full, use |-> stat["use"] + use,
             idle |-> stat["idle"] + idle, err |-> stat["err"] + err]

Count(g, from, to, full, use, idle, err) ==
    /\ Move(g, from, to) /\ addStat(full, use, idle, err)
    /\ UNCHANGED <<holds, kept, snapshot, shut, madeData, closedData, uses>>

-----------------------------------------------------------------------------
(* Use, and wrapGen.                                                       *)

UseStart(g) ==
    /\ uses < MaxUses /\ uses' = uses + 1 /\ ~shut
    /\ Move(g, "idle", "get")
    /\ UNCHANGED <<holds, kept, stat, snapshot, shut, madeData, closedData>>

GetKept(g) ==
    /\ Move(g, "get", "take")
    /\ \E d \in kept : Holds(g, d) /\ kept' = kept \ {d}
    /\ UNCHANGED <<stat, snapshot, shut, madeData, closedData, uses>>

\* sync.Pool may call New although it keeps something.
GetNew(g) ==
    /\ Move(g, "get", IF shut THEN "take" ELSE "gen") /\ Holds(g, NoData)
    /\ UNCHANGED <<kept, stat, snapshot, shut, madeData, closedData, uses>>

MakeData(g) ==
    /\ madeData < MaxData /\ Move(g, "gen", "made")
    /\ madeData' = madeData + 1 /\ Holds(g, madeData')
    /\ UNCHANGED <<kept, stat, snapshot, shut, closedData, uses>>
MakeFails(g) == Count(g, "gen", "idle", 0, 0, 0, 1)
CountMade(g) == Count(g, "made", "take", 1, 0, 1, 0)

CountTaken(g) == Count(g, "take", "using", 0, 1, -1, 0)
UseEnds(g) == \E to \in {"worked", "broke"} : Count(g, "using", to, 0, -1, 1, 0)

CloseData(g, from, to) ==
    /\ Move(g, from, to) /\ closedData' = closedData \cup {holds[g]} /\ Holds(g, NoData)
    /\ UNCHANGED <<kept, stat, snapshot, shut, madeData, uses>>

\* useFn returned an error.
CloseBroken(g) == CloseData(g, "broke", "closed")
CountBrokenTwice(g) == Count(g, "closed", "idle", -1, -1, 0, 1)   \* mutant: counted as used
CountBrokenOn(g) == Count(g, "closed", "worked", -1, 0, -1, 1)   \* mutant: no return
CountBroken(g) == Count(g, "closed", "idle", -1, 0, -1, 1)

\* It did not; the pool may be closed before the Put.
CheckShut(g) ==
    /\ Move(g, "worked", IF shut THEN "drop" ELSE "put")
    /\ UNCHANGED <<holds, kept, stat, snapshot, shut, madeData, closedData, uses>>
Put(g) ==
    /\ Move(g, "put", "idle") /\ kept' = kept \cup {holds[g]} /\ Holds(g, NoData)
    /\ UNCHANGED <<stat, snapshot, shut, madeData, closedData, uses>>
CountDropped(g) == Count(g, "drop", "dropped", -1, 0, -1, 0)
CloseDropped(g) == CloseData(g, "dropped", "idle")

\* The garbage collector: nobody closes what it takes.
Collect(d) ==
    /\ d \in kept /\ kept' = kept \ {d}
    /\ UNCHANGED <<usePc, holds, stat, snapshot, shut, madeData, closedData, uses>>

-----------------------------------------------------------------------------
(* Close.                                                                  *)

CloseStart(g) ==
    /\ uses < MaxUses /\ uses' = uses + 1 /\ ~shut
    /\ Move(g, "idle", "store")
    /\ UNCHANGED <<holds, kept, stat, snapshot, shut, madeData, closedData>>

StoreShut(g) ==
    /\ Move(g, "store", "stat") /\ shut' = TRUE
    /\ UNCHANGED <<holds, kept, stat, snapshot, madeData, closedData, uses>>

Stat(g) ==
    /\ Move(g, "stat", "reset") /\ snapshot' = [snapshot EXCEPT ![g] = stat]
    /\ UNCHANGED <<holds, kept, stat, shut, madeData, closedData, uses>>

ResetStat(g) ==
    LET s == snapshot[g] IN
    Count(g, "reset", "idle", -s["full"], -s["use"], -s["idle"], -s["err"])

UsePoolStep(g) ==
    \/ UseStart(g) \/ GetKept(g) \/ GetNew(g) \/ MakeData(g) \/ MakeFails(g) \/ CountMade(g)
    \/ CountTaken(g) \/ UseEnds(g) \/ CloseBroken(g) \/ CountBroken(g)
    \/ CheckShut(g) \/ Put(g) \/ CountDropped(g) \/ CloseDropped(g)
    \/ CloseStart(g) \/ StoreShut(g) \/ Stat(g) \/ ResetStat(g)

SyncNext ==
    \/ \E g \in Goroutines : UsePoolStep(g)
    \/ \E d \in kept : Collect(d)

SyncSpec == SyncInit /\ [][SyncNext]_syncVars

-----------------------------------------------------------------------------
(* Properties.                                                             *)

In(pcs) == {g \in Goroutines : usePc[g] \in pcs}

\* What Stat says between any two steps of Use: until the pool is closed, used
\* is who runs useFn, and full are the data that were made and not closed, but
\* for those whose goroutine is about to count them; the rest of full is idle,
\* and it stays so when Close subtracts what it read a step before.
StatExact ==
    /\ stat["full"] = stat["use"] + stat["idle"]
    /\ ~shut =>
        /\ stat["use"] = Cardinality(In({"using"}))
        /\ stat["full"] + Cardinality(In({"made"})) =
              madeData - Cardinality(closedData) + Cardinality(In({"closed"}))

\* A datum is with one goroutine or in the sync.Pool, and open there; the zero
\* value only gets to a useFn once the pool is closed.
DataOwned ==
    /\ kept \cap closedData = {} /\ (NoData \in kept \cup closedData => shut)
    /\ \A g \in In({"made", "take", "using", "worked", "broke", "put", "drop", "dropped"}) :
          IF holds[g] = NoData THEN shut
          ELSE /\ holds[g] \notin kept \cup closedData
               /\ \A h \in Goroutines \ {g} : holds[h] # holds[g]
=============================================================================
