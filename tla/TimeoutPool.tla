---------------------------- MODULE TimeoutPool ----------------------------
(***************************************************************************)
(* The connection pool of extension/pool/timeout_pool.go.  Goroutines call *)
(* Use and Close at the same time; every load or store of a field another  *)
(* goroutine reads is a step of its own, and the steps between two such    *)
(* accesses are taken together.  A connection is the number of the call of *)
(* Gen that made it; 0 is the zero value of the connection type (nil).     *)
(* The sampling of a gauge, and the counter update just before it, are one *)
(* step: the gauge is then written by a later step, so it can be stale.    *)
(***************************************************************************)
EXTENDS Integers, Sequences, FiniteSets

CONSTANTS Users,        (* the goroutines that call Use                    *)
          Closers,      (* the goroutines that call Close                  *)
          NoProc,       (* the owner of a free mutex                       *)
          Max,          (* the field Max; 0 stands for "not set"           *)
          IdleTimeout,  (* the field IdleTimeout, in seconds               *)
          Minute,       (* seconds in a minute                             *)
          MaxCalls,     (* bound: calls made by each goroutine             *)
          MaxClosing,   (* bound: the same, once somebody closes           *)
          StartTime,    (* the second in which the pool is made            *)
          MaxTime       (* bound: the last second                          *)

ASSUME PoolConstants ==
    /\ Users \cap Closers = {}
    /\ NoProc \notin Users \cup Closers
    /\ Max \in Nat
    /\ IdleTimeout \in Nat
    /\ Minute \in Nat \ {0}
    /\ MaxCalls \in Nat
    /\ MaxClosing \in Nat
    /\ StartTime \in Nat
    /\ MaxTime \in Nat

VARIABLES
    pc,          (* where each goroutine stands; "idle" is outside the pool *)
    calls,       (* the calls each goroutine has made                       *)
    item,        (* the local variable item of each Use, 0 when none        *)
    sample,      (* the gauges a goroutine has read and will publish        *)
    made, chan, chanClosed,  (* chanPool: non-nil, its buffer, closed       *)
    isInit, initLock,        (* the flag, and the owner of the mutex        *)
    pushLock,                (* the owner of chanPushLock                   *)
    isClose,
    useCnt, accErr,          (* the atomic counters                         *)
    metric,                  (* the gauges published under the pool's name  *)
    opened, closed,          (* connections made, and those closed          *)
    now, ctxDone,            (* the clock, and the caller's context         *)
    panic                    (* why the process died, "none" while it lives *)

chanVars  == <<made, chan, chanClosed>>
syncVars  == <<isInit, initLock, pushLock, isClose>>
gaugeVars == <<useCnt, accErr, metric>>
connVars  == <<opened, closed>>
world     == <<now, ctxDone, panic>>
vars == <<pc, calls, item, sample, chanVars, syncVars, gaugeVars, connVars, world>>

Procs == Users \cup Closers
NoConn == 0

\* realMaxCnt, which every execution of the once body sets to the same value.
Cap == IF Max > 0 THEN Max ELSE 10

GaugeKeys == {"full", "idle", "use", "accErr"}
NoGauges == [k \in GaugeKeys |-> 0]
NoSample == [k \in {} |-> 0]

\* time.Now().Second(): the second within the minute.
Second(t) == t % Minute

ExpiredAcross(it) ==   \* mutant: the distance of the seconds, whichever is larger
    /\ IdleTimeout > 0 /\ Second(it.at) # 0
    /\ \/ Second(now) - Second(it.at) > IdleTimeout
       \/ Second(it.at) - Second(now) > IdleTimeout

\* The test of a received item; lastUseTime is the second of its last push.
Expired(it) ==
    IdleTimeout > 0 /\ Second(it.at) # 0 /\ Second(now) - Second(it.at) > IdleTimeout

At(p, l) == panic = "none" /\ pc[p] = l
Goto(p, l) == pc' = [pc EXCEPT ![p] = l]
Hold(u, c) == item' = [item EXCEPT ![u] = c]
CloseConn(c) == closed' = closed \cup {c}
Sample(p, g) == sample' = [sample EXCEPT ![p] = g]

\* The idle and use gauges as a goroutine reads them.
Gauges(ch, use) == [idle |-> Len(ch), use |-> use]

\* Metric.Assignment(s): the sampled keys replace those of the pool (maps.Copy).
Publish(p) ==
    /\ metric' = [k \in GaugeKeys |-> IF k \in DOMAIN sample[p] THEN sample[p][k] ELSE metric[k]]
    /\ sample' = [sample EXCEPT ![p] = NoSample]
    /\ UNCHANGED <<useCnt, accErr>>

\* A step that only decides where the goroutine goes on.
Local(p, from, to) ==
    /\ At(p, from) /\ Goto(p, to)
    /\ UNCHANGED <<calls, item, sample, chanVars, syncVars, gaugeVars, connVars, world>>

PublishStep(p, from, to) ==
    /\ At(p, from) /\ Goto(p, to) /\ Publish(p)
    /\ UNCHANGED <<calls, item, chanVars, syncVars, connVars, world>>

\* A Go panic; nothing in the program recovers, so the process dies.
Panic(p, from, why) ==
    /\ At(p, from) /\ panic' = why
    /\ UNCHANGED <<pc, calls, item, sample, chanVars, syncVars, gaugeVars, connVars, now, ctxDone>>

\* The bounds on the calls: more of them while nobody closes.
Closing == ctxDone \/ \E p \in Closers : calls[p] > 0
MayClose == \A p \in Procs : calls[p] <= MaxClosing

\* A goroutine makes one more call; to is where the call goes.
Call(p, to) ==
    /\ At(p, "idle") /\ Goto(p, to)
    /\ calls[p] < IF Closing THEN MaxClosing ELSE MaxCalls
    /\ calls' = [calls EXCEPT ![p] = @ + 1]
    /\ UNCHANGED <<item, sample, chanVars, syncVars, gaugeVars, connVars, world>>

Init ==
    /\ pc = [p \in Procs |-> "idle"]
    /\ calls = [p \in Procs |-> 0]
    /\ item = [u \in Users |-> NoConn]
    /\ sample = [p \in Procs |-> NoSample]
    /\ made = FALSE /\ chan = <<>> /\ chanClosed = FALSE
    /\ isInit = FALSE /\ initLock = NoProc /\ pushLock = NoProc /\ isClose = FALSE
    /\ useCnt = 0 /\ accErr = 0 /\ metric = NoGauges
    /\ opened = 0 /\ closed = {}
    /\ now = StartTime /\ ctxDone = FALSE /\ panic = "none"

-----------------------------------------------------------------------------
(* Use: the checks on entry and the lazy initialisation.                   *)

\* Use on a closed pool returns an error; a cancelled context makes it Close.
CallUse(u) == Call(u, IF isClose THEN "idle" ELSE "context")
CheckContext(u) == Local(u, "context", IF ctxDone THEN "swap" ELSE "init")
CheckInit(u) == Local(u, "init", IF isInit THEN "get" ELSE "once")

\* once.Do under initLock: only the first goroutine makes the channel.
InitPool(u) ==
    /\ At(u, "once") /\ Goto(u, "full")
    /\ initLock = NoProc /\ initLock' = u
    /\ made' = TRUE
    /\ Sample(u, [full |-> Cap])
    /\ UNCHANGED <<calls, item, chan, chanClosed, isInit, pushLock, isClose, gaugeVars, connVars, world>>

PublishFull(u) ==
    /\ At(u, "full") /\ Goto(u, "stored") /\ Publish(u)
    /\ initLock' = NoProc
    /\ UNCHANGED <<calls, item, chanVars, isInit, pushLock, isClose, connVars, world>>

StoreInit(u) ==
    /\ At(u, "stored") /\ Goto(u, "get")
    /\ isInit' = TRUE
    /\ UNCHANGED <<calls, item, sample, chanVars, initLock, pushLock, isClose, gaugeVars, connVars, world>>

-----------------------------------------------------------------------------
(* Use: getting a connection.                                              *)

Receive(u) ==
    /\ At(u, "get") /\ Goto(u, "enter")
    /\ chan # <<>> /\ ~Expired(Head(chan))
    /\ Hold(u, Head(chan).conn)
    /\ chan' = Tail(chan)
    /\ UNCHANGED <<calls, sample, made, chanClosed, syncVars, gaugeVars, connVars, world>>

\* An expired connection is closed and the loop tries again.
ReceiveExpired(u) ==
    /\ At(u, "get") /\ Goto(u, "expired")
    /\ chan # <<>> /\ Expired(Head(chan))
    /\ CloseConn(Head(chan).conn)
    /\ chan' = Tail(chan)
    /\ Sample(u, [idle |-> Len(chan')])
    /\ UNCHANGED <<calls, item, made, chanClosed, syncVars, gaugeVars, opened, world>>

PublishExpired(u) == PublishStep(u, "expired", "get")

\* A closed and drained channel yields the zero item, with no connection.
ReceiveZero(u) == chan = <<>> /\ chanClosed /\ Local(u, "get", "enter")

\* The default branch: gen(), which returns the zero value on a closed pool.
FindNone(u) == chan = <<>> /\ ~chanClosed /\ Local(u, "get", "gen")
CheckGen(u) == Local(u, "gen", IF isClose THEN "enter" ELSE "dial")

GenOk(u) ==
    /\ At(u, "dial") /\ Goto(u, "enter")
    /\ opened' = opened + 1
    /\ Hold(u, opened')
    /\ UNCHANGED <<calls, sample, chanVars, syncVars, gaugeVars, closed, world>>

CountError(u, from, n) ==
    /\ At(u, from) /\ Goto(u, "return")
    /\ accErr' = accErr + n
    /\ Sample(u, [accErr |-> accErr'])
    /\ UNCHANGED <<calls, item, chanVars, syncVars, useCnt, metric, connVars, world>>

GenFail(u) == CountError(u, "dial", 1)

\* The last publication of a call that failed; Use returns the error.
PublishError(u) == PublishStep(u, "return", "idle")

-----------------------------------------------------------------------------
(* Use: running useFn on the connection.                                   *)

CountUse(u, from, to, n) ==
    /\ At(u, from) /\ Goto(u, to)
    /\ useCnt' = useCnt + n
    /\ Sample(u, Gauges(chan, useCnt'))
    /\ UNCHANGED <<calls, item, chanVars, syncVars, accErr, metric, connVars, world>>

EnterUse(u) == CountUse(u, "enter", "entered", 1)
PublishEnter(u) == PublishStep(u, "entered", "using")

\* useFn returns without an error, or with one, or is given nil.
UseOk(u) == item[u] # NoConn /\ CountUse(u, "using", "ok", -1)
UseFail(u) == item[u] # NoConn /\ CountUse(u, "using", "failed", -1)
UseNil(u) == item[u] = NoConn /\ Panic(u, "using", "nil connection")

PublishLeave(u) ==
    PublishStep(u, "ok", "recheck") \/ PublishStep(u, "failed", "discard")

\* The connection of a call whose useFn failed is closed.
Discard(u, to, c) ==
    /\ At(u, "discard") /\ Goto(u, to)
    /\ CloseConn(item[u]) /\ Hold(u, c)
    /\ accErr' = accErr + 1
    /\ Sample(u, [idle |-> Len(chan), use |-> useCnt, accErr |-> accErr'])
    /\ UNCHANGED <<calls, chanVars, syncVars, useCnt, metric, opened, world>>

DiscardAndPush(u) == Discard(u, "recheck", item[u])   \* mutant: no return
DiscardFailed(u) == Discard(u, "return", NoConn)

-----------------------------------------------------------------------------
(* Use: giving the connection back.                                        *)

CheckOpen(u) == ~isClose /\ Local(u, "recheck", "lock")

\* On a closed pool Use returns without closing the connection.
ForgetConn(u) ==
    /\ At(u, "recheck") /\ Goto(u, "idle")
    /\ isClose
    /\ Hold(u, NoConn)
    /\ UNCHANGED <<calls, sample, chanVars, syncVars, gaugeVars, connVars, world>>

LockPushUnlocked(u) == Len(chan) < Cap /\ Local(u, "lock", "send")   \* mutant: no lock
LockPush(u) ==
    /\ At(u, "lock") /\ Goto(u, "send")
    /\ pushLock = NoProc /\ pushLock' = u
    /\ Len(chan) < Cap
    /\ UNCHANGED <<calls, item, sample, chanVars, isInit, initLock, isClose, gaugeVars, connVars, world>>

\* The pool is full: the connection is closed, still under the lock.
DropFull(u, gone) ==
    /\ At(u, "lock") /\ Goto(u, "unlock")
    /\ pushLock = NoProc /\ pushLock' = u
    /\ Len(chan) >= Cap
    /\ closed' = closed \cup gone /\ Hold(u, NoConn)
    /\ Sample(u, Gauges(chan, useCnt))
    /\ UNCHANGED <<calls, chanVars, isInit, initLock, isClose, gaugeVars, opened, world>>

LockFullForgets(u) == DropFull(u, {})   \* mutant: the connection is not closed
LockFull(u) == DropFull(u, {item[u]})

\* The send blocks on a full channel and panics on a closed one.
Push(u, seen) ==
    /\ At(u, "send") /\ Goto(u, "unlock")
    /\ ~chanClosed /\ Len(chan) < Cap
    /\ chan' = Append(chan, [conn |-> item[u], at |-> now])
    /\ Hold(u, NoConn)
    /\ Sample(u, Gauges(seen, useCnt))
    /\ UNCHANGED <<calls, made, chanClosed, syncVars, gaugeVars, connVars, world>>

SendAfterSample(u) == Push(u, chan)   \* mutant: gauges read before the push
Send(u) == Push(u, Append(chan, [conn |-> item[u], at |-> now]))
SendClosed(u) == chanClosed /\ Panic(u, "send", "send on closed channel")

PublishPushLocked(u) == PublishStep(u, "unlock", "idle")   \* mutant: no Unlock
PublishPush(u) ==
    /\ At(u, "unlock") /\ Goto(u, "idle") /\ Publish(u)
    /\ pushLock' = NoProc
    /\ UNCHANGED <<calls, item, chanVars, isInit, initLock, isClose, connVars, world>>

-----------------------------------------------------------------------------
(* Close, called by its own goroutines and by Use on a cancelled context.  *)

CallClose(p) == MayClose /\ Call(p, "swap")

\* Only the call that swaps FALSE for TRUE goes on.
TestClose(p) == Local(p, "swap", IF isClose THEN "idle" ELSE "drain")   \* mutant: no swap
SwapClose(p) ==
    /\ At(p, "swap") /\ Goto(p, IF isClose THEN "idle" ELSE "drain")
    /\ isClose' = TRUE
    /\ UNCHANGED <<calls, item, sample, chanVars, isInit, initLock, pushLock, gaugeVars, connVars, world>>

DrainOne(p) ==
    /\ At(p, "drain") /\ chan # <<>>
    /\ CloseConn(Head(chan).conn)
    /\ chan' = Tail(chan)
    /\ UNCHANGED <<pc, calls, item, sample, made, chanClosed, syncVars, gaugeVars, opened, world>>

DrainEnd(p) == chan = <<>> /\ Local(p, "drain", "close")

\* A pool nobody used has no channel to close.  (Close reads chanPool without
\* a lock; it sees nil until the goroutine in once has stored the channel.)
CloseChan(p) ==
    /\ At(p, "close") /\ Goto(p, "delete")
    /\ chanClosed' = made
    /\ UNCHANGED <<calls, item, sample, made, chan, syncVars, gaugeVars, connVars, world>>

DeleteMetric(p) ==
    /\ At(p, "delete") /\ Goto(p, "idle")
    /\ metric' = NoGauges
    /\ UNCHANGED <<calls, item, sample, chanVars, syncVars, useCnt, accErr, connVars, world>>

-----------------------------------------------------------------------------
(* The environment.                                                        *)

Tick ==
    /\ panic = "none" /\ now < MaxTime
    /\ now' = now + 1
    /\ UNCHANGED <<pc, calls, item, sample, chanVars, syncVars, gaugeVars, connVars, ctxDone, panic>>

\* The owner of the context gives up (only where somebody closes at all).
Cancel ==
    /\ panic = "none" /\ Closers # {} /\ ~ctxDone /\ MayClose
    /\ ctxDone' = TRUE
    /\ UNCHANGED <<pc, calls, item, sample, chanVars, syncVars, gaugeVars, connVars, now, panic>>

\* All calls have returned, or the process died.
Finished ==
    /\ panic # "none" \/ \A p \in Procs : pc[p] = "idle"
    /\ UNCHANGED vars

UseStep(u) ==
    \/ CallUse(u) \/ CheckContext(u) \/ CheckInit(u)
    \/ InitPool(u) \/ PublishFull(u) \/ StoreInit(u)
    \/ Receive(u) \/ ReceiveExpired(u) \/ PublishExpired(u) \/ ReceiveZero(u)
    \/ FindNone(u) \/ CheckGen(u) \/ GenOk(u) \/ GenFail(u) \/ PublishError(u)
    \/ EnterUse(u) \/ PublishEnter(u) \/ UseOk(u) \/ UseFail(u) \/ UseNil(u)
    \/ PublishLeave(u) \/ DiscardFailed(u)
    \/ CheckOpen(u) \/ ForgetConn(u) \/ LockPush(u) \/ LockFull(u)
    \/ Send(u) \/ SendClosed(u) \/ PublishPush(u)

CloseStep(p) ==
    SwapClose(p) \/ DrainOne(p) \/ DrainEnd(p) \/ CloseChan(p) \/ DeleteMetric(p)

Next ==
    \/ \E u \in Users : UseStep(u)
    \/ \E p \in Closers : CallClose(p)
    \/ \E p \in Procs : CloseStep(p)
    \/ Tick
    \/ Cancel
    \/ Finished

Spec == Init /\ [][Next]_vars

\* The Go scheduler runs every goroutine that can run; Gen and useFn return.
FairSpec == /\ Spec
            /\ \A u \in Users : WF_vars(UseStep(u))
            /\ \A p \in Procs : WF_vars(CloseStep(p))

-----------------------------------------------------------------------------
(* Properties.                                                             *)

Pcs == {"idle", "context", "init", "once", "full", "stored", "get", "expired",
        "gen", "dial", "return", "enter", "entered", "using", "ok", "failed",
        "discard", "recheck", "lock", "send", "unlock",
        "swap", "drain", "close", "delete"}

\* The types of the pool's fields and of each goroutine's locals.
TypeOK ==
    /\ pc \in [Procs -> Pcs]
    /\ calls \in [Procs -> Nat]
    /\ item \in [Users -> Nat]
    /\ DOMAIN sample = Procs
    /\ \A p \in Procs : \A k \in DOMAIN sample[p] : sample[p][k] \in Int
    /\ made \in BOOLEAN
    /\ chan \in Seq([conn : Nat, at : Nat])
    /\ chanClosed \in BOOLEAN
    /\ isInit \in BOOLEAN
    /\ initLock \in Procs \cup {NoProc}
    /\ pushLock \in Procs \cup {NoProc}
    /\ isClose \in BOOLEAN
    /\ useCnt \in Int
    /\ accErr \in Nat
    /\ metric \in [GaugeKeys -> Int]
    /\ opened \in Nat
    /\ closed \in SUBSET Nat
    /\ now \in Nat
    /\ ctxDone \in BOOLEAN
    /\ panic \in {"none", "nil connection", "send on closed channel"}

Idle(c) == \E i \in 1..Len(chan) : chan[i].conn = c
Held(c) == \E u \in Users : item[u] = c
Live(c) == c \in 1..opened /\ c \notin closed

\* No connection waits in the pool twice, or in the pool and with a caller, or
\* with two callers, whatever Use and Close do at the same time (the receive
\* of Use against the drain of Close, a push against a receive).
OneOwner ==
    /\ \A i, j \in 1..Len(chan) : chan[i].conn = chan[j].conn => i = j
    /\ \A u, v \in Users : item[u] = item[v] /\ item[u] # NoConn => u = v
    /\ \A u \in Users : item[u] # NoConn => ~Idle(item[u])

\* A connection that can still be used has not been closed.
OwnedIsLive ==
    /\ \A i \in 1..Len(chan) : Live(chan[i].conn)
    /\ \A u \in Users : item[u] # NoConn => Live(item[u])

\* Until Close is called every open connection waits in the pool or is with a
\* caller: none of the paths out of Use (success, useFn error, full pool,
\* expiry) loses one.
NoLeakWhileOpen ==
    ~isClose => \A c \in 1..opened : c \notin closed => Idle(c) \/ Held(c)

\* Who owns a connection of the pool, and for how long.
ConnOwnership == OneOwner /\ OwnedIsLive /\ NoLeakWhileOpen

\* The length test and the send of Use are two steps, and receivers do not
\* take chanPushLock: still a send never finds the channel full, so no
\* goroutine blocks while it holds the lock, and the capacity is never passed.
SendNeverBlocks ==
    /\ Len(chan) <= Cap
    /\ \A u \in Users : pc[u] = "send" => Len(chan) < Cap

\* The unsynchronised steps of Use are harmless as long as nobody calls Close:
\* no useFn gets a nil connection and nothing is sent on a closed channel.
NoPanicWhileOpen == ~isClose => panic = "none"

\* The gauges are written outside the lock, from values read earlier; still,
\* when every call has returned, none failed and the pool is open, they are
\* exact (what timeout_pool_test.go reads after wg.Wait).
SettledGauges ==
    (\A p \in Procs : pc[p] = "idle") /\ isInit /\ ~isClose /\ accErr = 0
        => metric = [full |-> Cap, idle |-> Len(chan), use |-> 0, accErr |-> 0]

\* The expiry test compares seconds within the minute: whatever minute they
\* belong to, it never closes a connection that waited IdleTimeout or less.
NoEarlyExpiry ==
    [][\A u \in Users :
          ReceiveExpired(u) => now - Head(chan).at > IdleTimeout]_vars

\* Every call of Use and Close returns, unless the process dies: the expiry
\* loop ends, no lock is kept, no send or receive blocks forever.
CallsReturn ==
    \A p \in Procs : pc[p] # "idle" ~> (pc[p] = "idle" \/ panic # "none")

IdleConns == {chan[i].conn : i \in 1..Len(chan)}

\* The pool keeps what ConnPool promises: every step of every goroutine is a
\* step of the abstract pool, or invisible to it.
Promise == INSTANCE ConnPool WITH
    idle <- IdleConns,
    held <- item,
    shut <- isClose
PoolPromise == Promise!PoolSpec

\* What the message of the error at timeout_pool.go:59 says of a Use on a
\* closed pool, and of one that Close overtakes: it ends in an error.
NoPanic == panic = "none"

\* What timeout_pool_test.go:142 (IdleTimeoutFree) is about: a connection that
\* waited longer than IdleTimeout is not handed out (one second of slack for
\* the clock's truncation).
IdleTimeoutFree ==
    [][\A u \in Users :
          Receive(u) /\ IdleTimeout > 0 => now - Head(chan).at <= IdleTimeout + 1]_vars
=============================================================================
