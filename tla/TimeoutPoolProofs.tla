------------------------- MODULE TimeoutPoolProofs -------------------------
(* Theorems about TimeoutPool, for every value of its constants.           *)
EXTENDS TimeoutPool, SequenceTheorems, FiniteSetTheorems, TLAPS

Slot == [conn : Nat, at : Nat]

(* The channel as a sequence of slots.                                     *)

\* What receiving leaves: the slots after the first, in their order.
LEMMA SlotsTail ==
    ASSUME NEW s \in Seq(Slot), s # <<>>
    PROVE  /\ Len(s) \in Nat /\ Len(s) >= 1
           /\ Head(s) = s[1] /\ Head(s) \in Slot /\ Head(s).conn \in Nat
           /\ Tail(s) \in Seq(Slot)
           /\ Len(Tail(s)) = Len(s) - 1
           /\ \A i \in 1..Len(Tail(s)) : Tail(s)[i] = s[i + 1]
<1>1. /\ Head(s) \in Slot
      /\ Tail(s) \in Seq(Slot)
      /\ Len(Tail(s)) = Len(s) - 1
      /\ \A i \in 1..Len(Tail(s)) : Tail(s)[i] = s[i + 1]
  BY HeadTailProperties
<1>2. Len(s) \in Nat /\ Len(s) >= 1 /\ Head(s) = s[1]
  OBVIOUS
<1>. QED
  BY <1>1, <1>2 DEF Slot

\* What sending leaves: the new slot behind the others.
LEMMA SlotsAppend ==
    ASSUME NEW s \in Seq(Slot), NEW c \in Nat, NEW t \in Nat
    PROVE  LET r == Append(s, [conn |-> c, at |-> t])
           IN  /\ r \in Seq(Slot)
               /\ Len(s) \in Nat
               /\ Len(r) = Len(s) + 1
               /\ \A i \in 1..Len(s) : r[i].conn = s[i].conn
               /\ r[Len(s) + 1].conn = c
<1>. DEFINE e == [conn |-> c, at |-> t]
<1>1. e \in Slot /\ e.conn = c
  BY DEF Slot
<1>2. /\ Append(s, e) \in Seq(Slot)
      /\ Len(Append(s, e)) = Len(s) + 1
      /\ \A i \in 1..Len(s) : Append(s, e)[i] = s[i]
      /\ Append(s, e)[Len(s) + 1] = e
  BY <1>1, AppendProperties
<1>3. Len(s) \in Nat
  BY LenProperties
<1>. QED
  BY <1>1, <1>2, <1>3

SampleOK(f) == DOMAIN f = Procs /\ \A q \in Procs : \A k \in DOMAIN f[q] : f[q][k] \in Int

\* A goroutine that reads integer gauges leaves the samples of all well typed.
LEMMA SampleType ==
    ASSUME NEW f, SampleOK(f), NEW p \in Procs, NEW g, \A k \in DOMAIN g : g[k] \in Int
    PROVE  SampleOK([f EXCEPT ![p] = g])
BY DEF SampleOK

\* The samples that Use and Close take hold integers.
LEMMA OneGauge ==
    ASSUME NEW x \in Int
    PROVE  \A k \in DOMAIN [idle |-> x] : [idle |-> x][k] \in Int
OBVIOUS

\* The fields and locals keep their types, the channel its slots and the
\* counters their sort, for any number of callers.
THEOREM TypeCorrect == Spec => []TypeOK
<1>. USE PoolConstants DEF TypeOK, Procs, Pcs, NoConn, GaugeKeys
<1>1. Init => TypeOK
  <2>. SUFFICES ASSUME Init PROVE TypeOK
    OBVIOUS
  <2>1. chan \in Seq([conn : Nat, at : Nat])
    BY DEF Init
  <2>2. DOMAIN sample = Procs /\ \A p \in Procs : \A k \in DOMAIN sample[p] : sample[p][k] \in Int
    BY DEF Init, NoSample
  <2>3. metric \in [GaugeKeys -> Int]
    BY DEF Init, NoGauges
  <2>4. /\ pc \in [Procs -> Pcs]
        /\ calls \in [Procs -> Nat]
        /\ item \in [Users -> Nat]
    BY DEF Init
  <2>5. /\ made \in BOOLEAN /\ chanClosed \in BOOLEAN /\ isInit \in BOOLEAN
        /\ isClose \in BOOLEAN /\ ctxDone \in BOOLEAN
        /\ initLock \in Procs \cup {NoProc}
        /\ pushLock \in Procs \cup {NoProc}
    BY DEF Init
  <2>6. /\ useCnt \in Int /\ accErr \in Nat /\ opened \in Nat /\ now \in Nat
        /\ closed \in SUBSET Nat
        /\ panic \in {"none", "nil connection", "send on closed channel"}
    BY DEF Init
  <2>. QED
    BY <2>1, <2>2, <2>3, <2>4, <2>5, <2>6
<1>2. TypeOK /\ [Next]_vars => TypeOK'
  <2>. SUFFICES ASSUME TypeOK, [Next]_vars PROVE TypeOK'
    OBVIOUS
  <2>. USE DEF At, Goto, Hold, CloseConn, Sample, Publish, Local, PublishStep, Panic, Call, NoSample, NoGauges, Gauges, vars, chanVars, syncVars, gaugeVars, connVars, world, Cap
  <2>1. ASSUME NEW u \in Users, CallUse(u) PROVE TypeOK'
    BY <2>1, SMTT(30) DEF CallUse
  <2>2. ASSUME NEW u \in Users, CheckContext(u) PROVE TypeOK'
    BY <2>2 DEF CheckContext
  <2>3. ASSUME NEW u \in Users, CheckInit(u) PROVE TypeOK'
    BY <2>3 DEF CheckInit
  <2>4. ASSUME NEW u \in Users, InitPool(u) PROVE TypeOK'
    BY <2>4 DEF InitPool
  <2>5. ASSUME NEW u \in Users, PublishFull(u) PROVE TypeOK'
    BY <2>5 DEF PublishFull
  <2>6. ASSUME NEW u \in Users, StoreInit(u) PROVE TypeOK'
    BY <2>6 DEF StoreInit
  <2>7. ASSUME NEW u \in Users, Receive(u) PROVE TypeOK'
    <3>1. chan \in Seq(Slot) /\ chan # <<>>
      BY <2>7 DEF Receive, Slot
    <3>2. Head(chan).conn \in Nat /\ Tail(chan) \in Seq([conn : Nat, at : Nat])
      BY <3>1, SlotsTail DEF Slot
    <3>. QED
      BY <2>7, <3>2 DEF Receive
  <2>8. ASSUME NEW u \in Users, ReceiveExpired(u) PROVE TypeOK'
    <3>1. chan \in Seq(Slot) /\ chan # <<>>
      BY <2>8 DEF ReceiveExpired, Slot
    <3>2. Head(chan).conn \in Nat /\ Tail(chan) \in Seq([conn : Nat, at : Nat])
      BY <3>1, SlotsTail DEF Slot
    <3>3. Len(chan') \in Int
      BY <2>8, <3>2, LenProperties DEF ReceiveExpired
    <3>4. DOMAIN sample' = Procs /\ \A q \in Procs : \A k \in DOMAIN sample'[q] : sample'[q][k] \in Int
      <4>. DEFINE g == [idle |-> Len(chan')]
      <4>1. \A k \in DOMAIN g : g[k] \in Int
        BY <3>3, OneGauge
      <4>2. u \in Procs /\ sample' = [sample EXCEPT ![u] = g] /\ SampleOK(sample)
        BY <2>8 DEF ReceiveExpired, SampleOK
      <4>. HIDE DEF g, Procs, TypeOK
      <4>3. SampleOK([sample EXCEPT ![u] = g])
        BY <4>1, <4>2, SampleType
      <4>. QED
        BY <4>2, <4>3 DEF SampleOK, Procs
    <3>. QED
      BY <2>8, <3>2, <3>4 DEF ReceiveExpired
  <2>9. ASSUME NEW u \in Users, PublishExpired(u) PROVE TypeOK'
    BY <2>9, SMTT(30) DEF PublishExpired
  <2>10. ASSUME NEW u \in Users, ReceiveZero(u) PROVE TypeOK'
    BY <2>10 DEF ReceiveZero
  <2>11. ASSUME NEW u \in Users, FindNone(u) PROVE TypeOK'
    BY <2>11 DEF FindNone
  <2>12. ASSUME NEW u \in Users, CheckGen(u) PROVE TypeOK'
    BY <2>12 DEF CheckGen
  <2>13. ASSUME NEW u \in Users, GenOk(u) PROVE TypeOK'
    BY <2>13 DEF GenOk
  <2>14. ASSUME NEW u \in Users, GenFail(u) PROVE TypeOK'
    BY <2>14 DEF GenFail, CountError
  <2>15. ASSUME NEW u \in Users, PublishError(u) PROVE TypeOK'
    BY <2>15 DEF PublishError
  <2>16. ASSUME NEW u \in Users, EnterUse(u) PROVE TypeOK'
    BY <2>16 DEF EnterUse, CountUse
  <2>17. ASSUME NEW u \in Users, PublishEnter(u) PROVE TypeOK'
    BY <2>17 DEF PublishEnter
  <2>18. ASSUME NEW u \in Users, UseOk(u) PROVE TypeOK'
    BY <2>18 DEF UseOk, CountUse
  <2>19. ASSUME NEW u \in Users, UseFail(u) PROVE TypeOK'
    BY <2>19 DEF UseFail, CountUse
  <2>20. ASSUME NEW u \in Users, UseNil(u) PROVE TypeOK'
    BY <2>20 DEF UseNil
  <2>21. ASSUME NEW u \in Users, PublishLeave(u) PROVE TypeOK'
    <3>1. CASE PublishStep(u, "ok", "recheck")
      BY <3>1
    <3>2. CASE PublishStep(u, "failed", "discard")
      BY <3>2
    <3>. QED
      BY <2>21, <3>1, <3>2 DEF PublishLeave
  <2>22. ASSUME NEW u \in Users, DiscardFailed(u) PROVE TypeOK'
    <3>1. item[u] \in Nat
      OBVIOUS
    <3>2. closed' \in SUBSET Nat
      BY <2>22, <3>1 DEF DiscardFailed, Discard
    <3>3. item' \in [Users -> Nat]
      BY <2>22 DEF DiscardFailed, Discard
    <3>4. DOMAIN sample' = Procs /\ \A q \in Procs : \A k \in DOMAIN sample'[q] : sample'[q][k] \in Int
      BY <2>22, SMTT(30) DEF DiscardFailed, Discard
    <3>. QED
      BY <2>22, <3>2, <3>3, <3>4 DEF DiscardFailed, Discard
  <2>23. ASSUME NEW u \in Users, CheckOpen(u) PROVE TypeOK'
    BY <2>23 DEF CheckOpen
  <2>24. ASSUME NEW u \in Users, ForgetConn(u) PROVE TypeOK'
    BY <2>24 DEF ForgetConn
  <2>25. ASSUME NEW u \in Users, LockPush(u) PROVE TypeOK'
    BY <2>25 DEF LockPush
  <2>26. ASSUME NEW u \in Users, LockFull(u) PROVE TypeOK'
    <3>1. item[u] \in Nat
      OBVIOUS
    <3>2. closed' \in SUBSET Nat
      BY <2>26, <3>1 DEF LockFull, DropFull
    <3>3. item' \in [Users -> Nat]
      BY <2>26 DEF LockFull, DropFull
    <3>4. DOMAIN sample' = Procs /\ \A q \in Procs : \A k \in DOMAIN sample'[q] : sample'[q][k] \in Int
      BY <2>26, SMTT(30) DEF LockFull, DropFull
    <3>. QED
      BY <2>26, <3>2, <3>3, <3>4 DEF LockFull, DropFull
  <2>27. ASSUME NEW u \in Users, Send(u) PROVE TypeOK'
    BY <2>27, SMTT(30) DEF Send, Push
  <2>28. ASSUME NEW u \in Users, SendClosed(u) PROVE TypeOK'
    BY <2>28 DEF SendClosed
  <2>29. ASSUME NEW u \in Users, PublishPush(u) PROVE TypeOK'
    BY <2>29 DEF PublishPush
  <2>30. ASSUME NEW p \in Closers, CallClose(p) PROVE TypeOK'
    BY <2>30, SMTT(30) DEF CallClose
  <2>31. ASSUME NEW p \in Procs, SwapClose(p) PROVE TypeOK'
    BY <2>31 DEF SwapClose
  <2>32. ASSUME NEW p \in Procs, DrainOne(p) PROVE TypeOK'
    <3>1. chan \in Seq(Slot) /\ chan # <<>>
      BY <2>32 DEF DrainOne, Slot
    <3>2. Head(chan).conn \in Nat /\ Tail(chan) \in Seq([conn : Nat, at : Nat])
      BY <3>1, SlotsTail DEF Slot
    <3>. QED
      BY <2>32, <3>2 DEF DrainOne
  <2>33. ASSUME NEW p \in Procs, DrainEnd(p) PROVE TypeOK'
    BY <2>33 DEF DrainEnd
  <2>34. ASSUME NEW p \in Procs, CloseChan(p) PROVE TypeOK'
    BY <2>34 DEF CloseChan
  <2>35. ASSUME NEW p \in Procs, DeleteMetric(p) PROVE TypeOK'
    BY <2>35 DEF DeleteMetric
  <2>36. ASSUME Tick PROVE TypeOK'
    BY <2>36 DEF Tick
  <2>37. ASSUME Cancel PROVE TypeOK'
    BY <2>37 DEF Cancel
  <2>38. ASSUME Finished PROVE TypeOK'
    BY <2>38, ZenonT(30) DEF Finished
  <2>39. ASSUME UNCHANGED vars PROVE TypeOK'
    BY <2>39 DEF vars
  <2>. QED
    BY <2>1, <2>2, <2>3, <2>4, <2>5, <2>6, <2>7, <2>8, <2>9, <2>10, <2>11, <2>12, <2>13, <2>14, <2>15, <2>16, <2>17, <2>18, <2>19, <2>20, <2>21, <2>22, <2>23, <2>24, <2>25, <2>26, <2>27, <2>28, <2>29, <2>30, <2>31, <2>32, <2>33, <2>34, <2>35, <2>36, <2>37, <2>38, <2>39 DEF Next, UseStep, CloseStep
<1>. QED
  BY <1>1, <1>2, PTL DEF Spec

HoldPcs == {"enter", "entered", "using", "ok", "failed", "discard", "recheck",
            "lock", "send"}
UsedPcs == HoldPcs \ {"enter", "entered", "using"}

ItemByPc ==
    \A u \in Users :
        /\ item[u] # NoConn => pc[u] \in HoldPcs
        /\ pc[u] \in UsedPcs => item[u] # NoConn
        /\ pc[u] \in HoldPcs /\ item[u] = NoConn => isClose

CloseFirst ==
    /\ chanClosed => isClose
    /\ panic # "none" => isClose
    /\ \A p \in Procs : pc[p] \in {"drain", "close", "delete"} => isClose

LiveChan == \A i \in 1..Len(chan) : chan[i].conn # NoConn

FlowInv == ItemByPc /\ CloseFirst /\ LiveChan

\* What a goroutine's place in Use says: where it may hold a connection, where
\* it must, and that nothing is closed before the swap of Close.
LEMMA FlowCorrect == Spec => []FlowInv
<1>. USE PoolConstants DEF FlowInv, ItemByPc, CloseFirst, LiveChan, HoldPcs, UsedPcs, Procs, NoConn
<1>1. Init => FlowInv
  BY DEF Init
<1>2. TypeOK /\ FlowInv /\ [Next]_vars => FlowInv'
  <2>. SUFFICES ASSUME TypeOK, FlowInv, [Next]_vars PROVE FlowInv'
    OBVIOUS
  <2>. USE DEF TypeOK, At, Goto, Hold, CloseConn, Publish, Local, PublishStep, Panic, Call, vars, chanVars, syncVars, gaugeVars, connVars, world
  <2>1. ASSUME NEW u \in Users, CallUse(u) PROVE FlowInv'
    BY <2>1 DEF CallUse
  <2>2. ASSUME NEW u \in Users, CheckContext(u) PROVE FlowInv'
    BY <2>2 DEF CheckContext
  <2>3. ASSUME NEW u \in Users, CheckInit(u) PROVE FlowInv'
    BY <2>3 DEF CheckInit
  <2>4. ASSUME NEW u \in Users, InitPool(u) PROVE FlowInv'
    BY <2>4 DEF InitPool
  <2>5. ASSUME NEW u \in Users, PublishFull(u) PROVE FlowInv'
    BY <2>5 DEF PublishFull
  <2>6. ASSUME NEW u \in Users, StoreInit(u) PROVE FlowInv'
    BY <2>6 DEF StoreInit
  <2>7. ASSUME NEW u \in Users, Receive(u) PROVE FlowInv'
    BY <2>7 DEF Receive
  <2>8. ASSUME NEW u \in Users, ReceiveExpired(u) PROVE FlowInv'
    BY <2>8 DEF ReceiveExpired
  <2>9. ASSUME NEW u \in Users, PublishExpired(u) PROVE FlowInv'
    BY <2>9 DEF PublishExpired
  <2>10. ASSUME NEW u \in Users, ReceiveZero(u) PROVE FlowInv'
    BY <2>10 DEF ReceiveZero
  <2>11. ASSUME NEW u \in Users, FindNone(u) PROVE FlowInv'
    BY <2>11 DEF FindNone
  <2>12. ASSUME NEW u \in Users, CheckGen(u) PROVE FlowInv'
    BY <2>12 DEF CheckGen
  <2>13. ASSUME NEW u \in Users, GenOk(u) PROVE FlowInv'
    BY <2>13 DEF GenOk
  <2>14. ASSUME NEW u \in Users, GenFail(u) PROVE FlowInv'
    BY <2>14 DEF GenFail, CountError
  <2>15. ASSUME NEW u \in Users, PublishError(u) PROVE FlowInv'
    BY <2>15 DEF PublishError
  <2>16. ASSUME NEW u \in Users, EnterUse(u) PROVE FlowInv'
    BY <2>16 DEF EnterUse, CountUse
  <2>17. ASSUME NEW u \in Users, PublishEnter(u) PROVE FlowInv'
    BY <2>17 DEF PublishEnter
  <2>18. ASSUME NEW u \in Users, UseOk(u) PROVE FlowInv'
    BY <2>18 DEF UseOk, CountUse
  <2>19. ASSUME NEW u \in Users, UseFail(u) PROVE FlowInv'
    BY <2>19 DEF UseFail, CountUse
  <2>20. ASSUME NEW u \in Users, UseNil(u) PROVE FlowInv'
    BY <2>20 DEF UseNil
  <2>21. ASSUME NEW u \in Users, PublishLeave(u) PROVE FlowInv'
    <3>1. CASE PublishStep(u, "ok", "recheck")
      BY <3>1
    <3>2. CASE PublishStep(u, "failed", "discard")
      BY <3>2
    <3>. QED
      BY <2>21, <3>1, <3>2 DEF PublishLeave
  <2>22. ASSUME NEW u \in Users, DiscardFailed(u) PROVE FlowInv'
    BY <2>22 DEF DiscardFailed, Discard
  <2>23. ASSUME NEW u \in Users, CheckOpen(u) PROVE FlowInv'
    BY <2>23 DEF CheckOpen
  <2>24. ASSUME NEW u \in Users, ForgetConn(u) PROVE FlowInv'
    BY <2>24 DEF ForgetConn
  <2>25. ASSUME NEW u \in Users, LockPush(u) PROVE FlowInv'
    BY <2>25 DEF LockPush
  <2>26. ASSUME NEW u \in Users, LockFull(u) PROVE FlowInv'
    BY <2>26 DEF LockFull, DropFull
  <2>27. ASSUME NEW u \in Users, Send(u) PROVE FlowInv'
    <3>1. chan \in Seq(Slot) /\ item[u] \in Nat /\ now \in Nat /\ item[u] # NoConn
      BY <2>27 DEF Send, Push, Slot
    <3>2. LiveChan'
      BY <2>27, <3>1, SlotsAppend DEF Send, Push
    <3>3. ItemByPc' /\ CloseFirst'
      BY <2>27 DEF Send, Push
    <3>. QED
      BY <3>2, <3>3
  <2>28. ASSUME NEW u \in Users, SendClosed(u) PROVE FlowInv'
    BY <2>28 DEF SendClosed
  <2>29. ASSUME NEW u \in Users, PublishPush(u) PROVE FlowInv'
    BY <2>29 DEF PublishPush
  <2>30. ASSUME NEW p \in Closers, CallClose(p) PROVE FlowInv'
    BY <2>30 DEF CallClose
  <2>31. ASSUME NEW p \in Procs, SwapClose(p) PROVE FlowInv'
    BY <2>31 DEF SwapClose
  <2>32. ASSUME NEW p \in Procs, DrainOne(p) PROVE FlowInv'
    BY <2>32 DEF DrainOne
  <2>33. ASSUME NEW p \in Procs, DrainEnd(p) PROVE FlowInv'
    BY <2>33 DEF DrainEnd
  <2>34. ASSUME NEW p \in Procs, CloseChan(p) PROVE FlowInv'
    BY <2>34 DEF CloseChan
  <2>35. ASSUME NEW p \in Procs, DeleteMetric(p) PROVE FlowInv'
    BY <2>35 DEF DeleteMetric
  <2>36. ASSUME Tick PROVE FlowInv'
    BY <2>36 DEF Tick
  <2>37. ASSUME Cancel PROVE FlowInv'
    BY <2>37 DEF Cancel
  <2>38. ASSUME Finished PROVE FlowInv'
    BY <2>38 DEF Finished
  <2>39. ASSUME UNCHANGED vars PROVE FlowInv'
    BY <2>39 DEF vars
  <2>. QED
    BY <2>1, <2>2, <2>3, <2>4, <2>5, <2>6, <2>7, <2>8, <2>9, <2>10, <2>11, <2>12, <2>13, <2>14, <2>15, <2>16, <2>17, <2>18, <2>19, <2>20, <2>21, <2>22, <2>23, <2>24, <2>25, <2>26, <2>27, <2>28, <2>29, <2>30, <2>31, <2>32, <2>33, <2>34, <2>35, <2>36, <2>37, <2>38, <2>39 DEF Next, UseStep, CloseStep
<1>. QED
  BY <1>1, <1>2, TypeCorrect, PTL DEF Spec

-----------------------------------------------------------------------------
(* A push fits: chanPushLock is held from the length test to the send, and   *)
(* the goroutines that do not take it only make the channel shorter.         *)

PushInv ==
    /\ SendNeverBlocks
    /\ \A u \in Users : pc[u] \in {"send", "unlock"} => pushLock = u

\* Whoever stands between the length test and the send owns chanPushLock.
LEMMA PushCorrect == Spec => []PushInv
<1>. USE PoolConstants DEF PushInv, SendNeverBlocks, Procs, NoConn, Cap
<1>1. Init => PushInv
  BY DEF Init
<1>2. TypeOK /\ PushInv /\ [Next]_vars => PushInv'
  <2>. SUFFICES ASSUME TypeOK, PushInv, [Next]_vars PROVE PushInv'
    OBVIOUS
  <2>. USE DEF TypeOK, At, Goto, Hold, CloseConn, Publish, Local, PublishStep, Panic, Call, vars, chanVars, syncVars, gaugeVars, connVars, world
  <2>1. ASSUME NEW u \in Users, CallUse(u) PROVE PushInv'
    BY <2>1 DEF CallUse
  <2>2. ASSUME NEW u \in Users, CheckContext(u) PROVE PushInv'
    BY <2>2 DEF CheckContext
  <2>3. ASSUME NEW u \in Users, CheckInit(u) PROVE PushInv'
    BY <2>3 DEF CheckInit
  <2>4. ASSUME NEW u \in Users, InitPool(u) PROVE PushInv'
    BY <2>4 DEF InitPool
  <2>5. ASSUME NEW u \in Users, PublishFull(u) PROVE PushInv'
    BY <2>5 DEF PublishFull
  <2>6. ASSUME NEW u \in Users, StoreInit(u) PROVE PushInv'
    BY <2>6 DEF StoreInit
  <2>7. ASSUME NEW u \in Users, Receive(u) PROVE PushInv'
    BY <2>7 DEF Receive
  <2>8. ASSUME NEW u \in Users, ReceiveExpired(u) PROVE PushInv'
    BY <2>8 DEF ReceiveExpired
  <2>9. ASSUME NEW u \in Users, PublishExpired(u) PROVE PushInv'
    BY <2>9 DEF PublishExpired
  <2>10. ASSUME NEW u \in Users, ReceiveZero(u) PROVE PushInv'
    BY <2>10 DEF ReceiveZero
  <2>11. ASSUME NEW u \in Users, FindNone(u) PROVE PushInv'
    BY <2>11 DEF FindNone
  <2>12. ASSUME NEW u \in Users, CheckGen(u) PROVE PushInv'
    BY <2>12 DEF CheckGen
  <2>13. ASSUME NEW u \in Users, GenOk(u) PROVE PushInv'
    BY <2>13 DEF GenOk
  <2>14. ASSUME NEW u \in Users, GenFail(u) PROVE PushInv'
    BY <2>14 DEF GenFail, CountError
  <2>15. ASSUME NEW u \in Users, PublishError(u) PROVE PushInv'
    BY <2>15 DEF PublishError
  <2>16. ASSUME NEW u \in Users, EnterUse(u) PROVE PushInv'
    BY <2>16 DEF EnterUse, CountUse
  <2>17. ASSUME NEW u \in Users, PublishEnter(u) PROVE PushInv'
    BY <2>17 DEF PublishEnter
  <2>18. ASSUME NEW u \in Users, UseOk(u) PROVE PushInv'
    BY <2>18 DEF UseOk, CountUse
  <2>19. ASSUME NEW u \in Users, UseFail(u) PROVE PushInv'
    BY <2>19 DEF UseFail, CountUse
  <2>20. ASSUME NEW u \in Users, UseNil(u) PROVE PushInv'
    BY <2>20 DEF UseNil
  <2>21. ASSUME NEW u \in Users, PublishLeave(u) PROVE PushInv'
    <3>1. CASE PublishStep(u, "ok", "recheck")
      BY <3>1
    <3>2. CASE PublishStep(u, "failed", "discard")
      BY <3>2
    <3>. QED
      BY <2>21, <3>1, <3>2 DEF PublishLeave
  <2>22. ASSUME NEW u \in Users, DiscardFailed(u) PROVE PushInv'
    BY <2>22 DEF DiscardFailed, Discard
  <2>23. ASSUME NEW u \in Users, CheckOpen(u) PROVE PushInv'
    BY <2>23 DEF CheckOpen
  <2>24. ASSUME NEW u \in Users, ForgetConn(u) PROVE PushInv'
    BY <2>24 DEF ForgetConn
  <2>25. ASSUME NEW u \in Users, LockPush(u) PROVE PushInv'
    BY <2>25 DEF LockPush
  <2>26. ASSUME NEW u \in Users, LockFull(u) PROVE PushInv'
    BY <2>26 DEF LockFull, DropFull
  <2>27. ASSUME NEW u \in Users, Send(u) PROVE PushInv'
    BY <2>27 DEF Send, Push
  <2>28. ASSUME NEW u \in Users, SendClosed(u) PROVE PushInv'
    BY <2>28 DEF SendClosed
  <2>29. ASSUME NEW u \in Users, PublishPush(u) PROVE PushInv'
    BY <2>29 DEF PublishPush
  <2>30. ASSUME NEW p \in Closers, CallClose(p) PROVE PushInv'
    BY <2>30 DEF CallClose
  <2>31. ASSUME NEW p \in Procs, SwapClose(p) PROVE PushInv'
    BY <2>31 DEF SwapClose
  <2>32. ASSUME NEW p \in Procs, DrainOne(p) PROVE PushInv'
    BY <2>32 DEF DrainOne
  <2>33. ASSUME NEW p \in Procs, DrainEnd(p) PROVE PushInv'
    BY <2>33 DEF DrainEnd
  <2>34. ASSUME NEW p \in Procs, CloseChan(p) PROVE PushInv'
    BY <2>34 DEF CloseChan
  <2>35. ASSUME NEW p \in Procs, DeleteMetric(p) PROVE PushInv'
    BY <2>35 DEF DeleteMetric
  <2>36. ASSUME Tick PROVE PushInv'
    BY <2>36 DEF Tick
  <2>37. ASSUME Cancel PROVE PushInv'
    BY <2>37 DEF Cancel
  <2>38. ASSUME Finished PROVE PushInv'
    BY <2>38 DEF Finished
  <2>39. ASSUME UNCHANGED vars PROVE PushInv'
    BY <2>39 DEF vars
  <2>. QED
    BY <2>1, <2>2, <2>3, <2>4, <2>5, <2>6, <2>7, <2>8, <2>9, <2>10, <2>11, <2>12, <2>13, <2>14, <2>15, <2>16, <2>17, <2>18, <2>19, <2>20, <2>21, <2>22, <2>23, <2>24, <2>25, <2>26, <2>27, <2>28, <2>29, <2>30, <2>31, <2>32, <2>33, <2>34, <2>35, <2>36, <2>37, <2>38, <2>39 DEF Next, UseStep, CloseStep
<1>. QED
  BY <1>1, <1>2, TypeCorrect, PTL DEF Spec

\* A push never blocks, whatever the number of goroutines and the capacity:
\* chanPushLock covers the length test and the send of Use.
THEOREM PushesFit == Spec => []SendNeverBlocks
<1>1. PushInv => SendNeverBlocks
  BY DEF PushInv
<1>. QED
  BY <1>1, PushCorrect, PTL

\* While nobody has called Close, Use neither hands out a nil connection nor
\* sends on a closed channel.
THEOREM OpenPoolNeverPanics == Spec => []NoPanicWhileOpen
<1>1. FlowInv => NoPanicWhileOpen
  BY DEF FlowInv, CloseFirst, NoPanicWhileOpen
<1>. QED
  BY <1>1, FlowCorrect, PTL

-----------------------------------------------------------------------------
(* Ownership.  Most steps leave the connections alone.                       *)

ownVars == <<item, chan, opened, closed, isClose>>

\* The steps on locks, gauges, samples and clocks touch no connection.
LEMMA Quiet ==
    ASSUME TypeOK, FlowInv, [Next]_vars
    PROVE  \/ UNCHANGED ownVars
           \/ \E u \in Users : \/ Receive(u) \/ ReceiveExpired(u) \/ GenOk(u)
                                \/ DiscardFailed(u) \/ ForgetConn(u)
                                \/ LockFull(u) \/ Send(u)
           \/ \E p \in Procs : SwapClose(p) \/ DrainOne(p)
<1>. USE DEF ownVars, chanVars, syncVars, connVars, world, Local, PublishStep, Panic, Call
<1>1. ASSUME NEW u \in Users, ReceiveZero(u) \/ FindNone(u)
      PROVE  UNCHANGED ownVars
  BY <1>1 DEF ReceiveZero, FindNone, Hold, At, TypeOK, FlowInv, ItemByPc, HoldPcs, NoConn
<1>2. ASSUME NEW u \in Users,
             \/ CallUse(u) \/ CheckContext(u) \/ CheckInit(u) \/ InitPool(u)
             \/ PublishFull(u) \/ StoreInit(u) \/ PublishExpired(u)
             \/ CheckGen(u) \/ GenFail(u) \/ PublishError(u)
      PROVE  UNCHANGED ownVars
  BY <1>2 DEF CallUse, CheckContext, CheckInit, InitPool, PublishFull, StoreInit,
              PublishExpired, CheckGen, GenFail, CountError, PublishError
<1>3. ASSUME NEW u \in Users,
             \/ EnterUse(u) \/ PublishEnter(u) \/ UseOk(u) \/ UseFail(u)
             \/ UseNil(u) \/ PublishLeave(u) \/ CheckOpen(u) \/ LockPush(u)
             \/ SendClosed(u) \/ PublishPush(u)
      PROVE  UNCHANGED ownVars
  BY <1>3 DEF EnterUse, PublishEnter, UseOk, UseFail, CountUse, UseNil,
              PublishLeave, CheckOpen, LockPush, SendClosed, PublishPush
<1>4. ASSUME NEW p \in Procs,
             CallClose(p) \/ DrainEnd(p) \/ CloseChan(p) \/ DeleteMetric(p)
      PROVE  UNCHANGED ownVars
  BY <1>4 DEF CallClose, DrainEnd, CloseChan, DeleteMetric
<1>5. ASSUME Tick \/ Cancel \/ Finished \/ UNCHANGED vars
      PROVE  UNCHANGED ownVars
  BY <1>5 DEF Tick, Cancel, Finished, vars
<1>. QED
  BY <1>1, <1>2, <1>3, <1>4, <1>5 DEF Next, UseStep, CloseStep, Procs

\* What the ownership proofs need of the types.
LEMMA ChanTypes ==
    ASSUME TypeOK, FlowInv
    PROVE  /\ chan \in Seq(Slot) /\ Len(chan) \in Nat
           /\ item \in [Users -> Nat]
           /\ opened \in Nat
           /\ now \in Nat
           /\ \A i \in 1..Len(chan) : chan[i].conn # NoConn /\ chan[i].conn \in Nat
<1>1. chan \in Seq(Slot)
  BY DEF TypeOK, Slot
<1>2. \A i \in 1..Len(chan) : chan[i] \in Slot
  BY <1>1, ElementOfSeq
<1>. QED
  BY <1>1, <1>2, LenProperties DEF TypeOK, Slot, FlowInv, LiveChan

\* Ownership is inductive once a number that Gen has not used yet is known
\* not to be closed.
ConnInv == ConnOwnership /\ closed \subseteq 1..opened

\* Every receive, dial, close, send and drain keeps the owners apart.
LEMMA OwnershipStep ==
    ASSUME TypeOK, FlowInv, ConnInv, [Next]_vars
    PROVE  ConnInv'
<1>. USE DEF ConnInv, ConnOwnership, OneOwner, OwnedIsLive, NoLeakWhileOpen, Idle, Held, Live, NoConn
<1>0. /\ chan \in Seq(Slot) /\ Len(chan) \in Nat
      /\ item \in [Users -> Nat]
      /\ opened \in Nat
      /\ now \in Nat
      /\ \A i \in 1..Len(chan) : chan[i].conn # NoConn /\ chan[i].conn \in Nat
  BY ChanTypes
<1>1. CASE UNCHANGED ownVars
  BY <1>1 DEF ownVars
<1>2. ASSUME NEW u \in Users, Receive(u) PROVE ConnInv'
  <2>. DEFINE c == chan[1].conn
  <2>1. /\ item[u] = NoConn
        /\ chan # <<>>
        /\ chan' = Tail(chan)
        /\ opened' = opened /\ closed' = closed /\ isClose' = isClose
    BY <1>2 DEF Receive, At, FlowInv, ItemByPc, HoldPcs, connVars, syncVars
  <2>2. /\ Len(chan) >= 1
        /\ Len(chan') = Len(chan) - 1
        /\ Head(chan) = chan[1]
        /\ \A i \in 1..Len(chan') : chan'[i] = chan[i + 1]
    BY <1>0, <2>1, SlotsTail
  <2>3. item' = [item EXCEPT ![u] = c]
    BY <1>2, <2>2 DEF Receive, Hold
  <2>. HIDE DEF c
  <2>4. /\ c = chan[1].conn /\ c # NoConn /\ Live(c)
        /\ \A v \in Users : item[v] # c
    BY <1>0, <2>2 DEF c
  <2>5. OneOwner'
    BY <1>0, <2>1, <2>2, <2>3, <2>4
  <2>6. OwnedIsLive'
    BY <1>0, <2>1, <2>2, <2>3, <2>4
  <2>7. NoLeakWhileOpen'
    <3>. SUFFICES ASSUME ~isClose, NEW d \in 1..opened, d \notin closed
                  PROVE  Idle(d)' \/ Held(d)'
      BY <2>1
    <3>1. CASE \E i \in 1..Len(chan) : i > 1 /\ chan[i].conn = d
      <4>1. PICK i \in 1..Len(chan) : i > 1 /\ chan[i].conn = d
        BY <3>1
      <4>2. i - 1 \in 1..Len(chan') /\ (i - 1) + 1 = i
        BY <4>1, <1>0, <2>2
      <4>3. chan'[i - 1] = chan[i]
        BY <4>2, <2>2
      <4>. QED
        BY <4>1, <4>2, <4>3
    <3>2. CASE d = c
      BY <3>2, <1>0, <2>3
    <3>3. CASE Held(d)
      BY <3>3, <1>0, <2>1, <2>3
    <3>. QED
      BY <3>1, <3>2, <3>3, <1>0, <2>2, <2>4
  <2>. QED
    BY <2>1, <2>5, <2>6, <2>7
<1>3. ASSUME chan # <<>>,
             chan' = Tail(chan),
             closed' = closed \cup {Head(chan).conn},
             UNCHANGED <<item, opened, isClose>>
      PROVE  ConnInv'
  <2>1. /\ Len(chan) >= 1
        /\ Len(chan') = Len(chan) - 1
        /\ \A i \in 1..Len(chan') : chan'[i] = chan[i + 1]
        /\ closed' = closed \cup {chan[1].conn}
    BY <1>0, <1>3, SlotsTail
  <2>2. OneOwner'
    BY <1>0, <1>3, <2>1
  <2>3. OwnedIsLive'
    <3>1. ASSUME NEW i \in 1..Len(chan') PROVE Live(chan[i].conn)'
      <4>1. i + 1 \in 1..Len(chan) /\ 1 \in 1..Len(chan) /\ i + 1 # 1
        BY <1>0, <2>1
      <4>2. Live(chan[i + 1].conn) /\ chan[i + 1].conn # chan[1].conn
        BY <4>1
      <4>3. chan'[i] = chan[i + 1]
        BY <2>1
      <4>. QED
        BY <4>2, <4>3, <1>3, <2>1
    <3>2. ASSUME NEW u \in Users, item[u] # NoConn PROVE Live(item[u])'
      <4>1. 1 \in 1..Len(chan)
        BY <1>0, <2>1
      <4>2. item[u] # chan[1].conn
        BY <3>2, <4>1
      <4>. QED
        BY <3>2, <4>2, <1>3, <2>1
    <3>. QED
      BY <3>1, <3>2, <1>3
  <2>4. NoLeakWhileOpen'
    <3>. SUFFICES ASSUME ~isClose, NEW d \in 1..opened, d \notin closed'
                  PROVE  Idle(d)' \/ Held(d)'
      BY <1>3
    <3>1. CASE Held(d)
      BY <3>1, <1>3
    <3>2. ASSUME NEW i \in 1..Len(chan), chan[i].conn = d PROVE Idle(d)'
      <4>1. i # 1
        BY <2>1, <3>2
      <4>2. i - 1 \in 1..Len(chan') /\ (i - 1) + 1 = i
        BY <4>1, <3>2, <1>0, <2>1
      <4>3. chan'[i - 1] = chan[i]
        BY <4>2, <2>1
      <4>. QED
        BY <3>2, <4>2, <4>3
    <3>. QED
      BY <3>1, <3>2, <2>1
  <2>5. closed' \subseteq 1..opened'
    <3>1. 1 \in 1..Len(chan)
      BY <1>0, <2>1
    <3>2. chan[1].conn \in 1..opened
      BY <3>1
    <3>. QED
      BY <3>2, <1>3, <2>1
  <2>. QED
    BY <2>2, <2>3, <2>4, <2>5
<1>4. ASSUME NEW u \in Users, ReceiveExpired(u) PROVE ConnInv'
  BY <1>3, <1>4 DEF ReceiveExpired, CloseConn, syncVars
<1>5. ASSUME NEW p \in Procs, DrainOne(p) PROVE ConnInv'
  BY <1>3, <1>5 DEF DrainOne, CloseConn, syncVars
<1>6. ASSUME NEW u \in Users, GenOk(u) PROVE ConnInv'
  <2>1. /\ item[u] = NoConn
        /\ item' = [item EXCEPT ![u] = opened + 1]
        /\ opened' = opened + 1
        /\ UNCHANGED <<chan, closed, isClose>>
    BY <1>6 DEF GenOk, At, Hold, FlowInv, ItemByPc, HoldPcs, chanVars, syncVars
  <2>2. opened + 1 \notin closed /\ 1..(opened + 1) = 1..opened \cup {opened + 1}
    BY <1>0
  <2>3. /\ \A v \in Users : item[v] # opened + 1
        /\ \A i \in 1..Len(chan) : chan[i].conn # opened + 1
    BY <1>0
  <2>4. OneOwner'
    BY <1>0, <2>1, <2>3
  <2>5. OwnedIsLive'
    BY <1>0, <2>1, <2>2
  <2>6. NoLeakWhileOpen'
    BY <1>0, <2>1, <2>2, SMTT(30)
  <2>. QED
    BY <1>0, <2>1, <2>2, <2>4, <2>5, <2>6
<1>7. ASSUME NEW u \in Users, DiscardFailed(u) \/ LockFull(u) PROVE ConnInv'
  <2>1. /\ item[u] # NoConn
        /\ item' = [item EXCEPT ![u] = NoConn]
        /\ closed' = closed \cup {item[u]}
        /\ UNCHANGED <<chan, opened, isClose>>
    BY <1>7 DEF DiscardFailed, Discard, LockFull, DropFull, CloseConn, At, Hold, FlowInv, ItemByPc, HoldPcs, UsedPcs, chanVars, syncVars
  <2>. QED
    BY <1>0, <2>1
<1>8. ASSUME NEW u \in Users, ForgetConn(u) PROVE ConnInv'
  <2>1. /\ isClose
        /\ item' = [item EXCEPT ![u] = NoConn]
        /\ UNCHANGED <<chan, opened, closed, isClose>>
    BY <1>8 DEF ForgetConn, Hold, syncVars, chanVars, connVars
  <2>. QED
    BY <1>0, <2>1
<1>9. ASSUME NEW u \in Users, Send(u) PROVE ConnInv'
  <2>1. /\ item[u] # NoConn
        /\ item' = [item EXCEPT ![u] = NoConn]
        /\ UNCHANGED <<opened, closed, isClose>>
    BY <1>9 DEF Send, Push, At, Hold, FlowInv, ItemByPc, HoldPcs, UsedPcs, connVars, syncVars
  <2>2. /\ Len(chan') = Len(chan) + 1
        /\ \A i \in 1..Len(chan) : chan'[i].conn = chan[i].conn
        /\ chan'[Len(chan) + 1].conn = item[u]
    BY <1>0, <1>9, SlotsAppend DEF Send, Push
  <2>3. \A i \in 1..Len(chan') : i \in 1..Len(chan) \/ i = Len(chan) + 1
    BY <1>0, <2>2
  <2>4. OneOwner'
    <3>1. \A i \in 1..Len(chan) : chan[i].conn # item[u]
      BY <2>1
    <3>2. ASSUME NEW i \in 1..Len(chan'), NEW j \in 1..Len(chan'),
                 chan'[i].conn = chan'[j].conn
          PROVE  i = j
      <4>1. CASE i \in 1..Len(chan) /\ j \in 1..Len(chan)
        BY <3>2, <4>1, <2>2
      <4>2. CASE i = Len(chan) + 1 /\ j \in 1..Len(chan)
        BY <3>1, <3>2, <4>2, <2>2
      <4>3. CASE i \in 1..Len(chan) /\ j = Len(chan) + 1
        BY <3>1, <3>2, <4>3, <2>2
      <4>. QED
        BY <4>1, <4>2, <4>3, <2>3
    <3>3. \A v, w \in Users : item'[v] = item'[w] /\ item'[v] # NoConn => v = w
      BY <1>0, <2>1
    <3>4. ASSUME NEW v \in Users, item'[v] # NoConn, NEW i \in 1..Len(chan')
          PROVE  chan'[i].conn # item'[v]
      <4>1. v # u /\ item'[v] = item[v] /\ item[v] # item[u]
        BY <1>0, <2>1, <3>4
      <4>2. CASE i \in 1..Len(chan)
        BY <3>4, <4>1, <4>2, <2>2
      <4>3. CASE i = Len(chan) + 1
        BY <4>1, <4>3, <2>2
      <4>. QED
        BY <4>2, <4>3, <2>3
    <3>. QED
      BY <3>2, <3>3, <3>4
  <2>5. OwnedIsLive'
    <3>1. ASSUME NEW i \in 1..Len(chan') PROVE Live(chan[i].conn)'
      <4>1. CASE i \in 1..Len(chan)
        BY <4>1, <2>1, <2>2
      <4>2. CASE i = Len(chan) + 1
        BY <4>2, <2>1, <2>2
      <4>. QED
        BY <4>1, <4>2, <2>3
    <3>2. ASSUME NEW v \in Users, item'[v] # NoConn PROVE Live(item[v])'
      BY <3>2, <1>0, <2>1
    <3>. QED
      BY <3>1, <3>2
  <2>6. NoLeakWhileOpen'
    <3>. SUFFICES ASSUME ~isClose, NEW d \in 1..opened, d \notin closed
                  PROVE  Idle(d)' \/ Held(d)'
      BY <2>1
    <3>1. ASSUME NEW i \in 1..Len(chan), chan[i].conn = d PROVE Idle(d)'
      <4>1. i \in 1..Len(chan') /\ chan'[i].conn = d
        BY <3>1, <1>0, <2>2
      <4>. QED
        BY <4>1
    <3>2. ASSUME NEW v \in Users, item[v] = d, v # u PROVE Held(d)'
      BY <3>2, <1>0, <2>1
    <3>3. CASE item[u] = d
      <4>1. Len(chan) + 1 \in 1..Len(chan') /\ chan'[Len(chan) + 1].conn = d
        BY <3>3, <1>0, <2>2
      <4>. QED
        BY <4>1
    <3>. QED
      BY <3>1, <3>2, <3>3
  <2>. QED
    BY <2>1, <2>4, <2>5, <2>6
<1>10. ASSUME NEW p \in Procs, SwapClose(p) PROVE ConnInv'
  BY <1>10 DEF SwapClose, chanVars, connVars
<1>. QED
  BY <1>1, <1>2, <1>4, <1>5, <1>6, <1>7, <1>8, <1>9, <1>10, Quiet

\* Ownership holds in every state of every behaviour.
LEMMA ConnCorrect == Spec => []ConnInv
<1>1. Init => ConnInv
  BY DEF Init, ConnInv, ConnOwnership, OneOwner, OwnedIsLive, NoLeakWhileOpen, Idle, Held, Live, NoConn
<1>2. TypeOK /\ FlowInv /\ ConnInv /\ [Next]_vars => ConnInv'
  BY OwnershipStep
<1>. QED
  BY <1>1, <1>2, TypeCorrect, FlowCorrect, PTL DEF Spec

\* A connection has one owner, is open as long as it has one, and is lost by
\* no path of Use before Close is called, for any number of callers.
THEOREM OwnershipCorrect == Spec => []ConnOwnership
<1>1. ConnInv => ConnOwnership
  BY DEF ConnInv
<1>. QED
  BY <1>1, ConnCorrect, PTL

-----------------------------------------------------------------------------
(* The pool implements ConnPool.                                             *)

\* As many connections are idle as slots are filled, so a push that finds room
\* in the channel finds room in the abstract pool.
LEMMA FewIdle ==
    ASSUME TypeOK, FlowInv, Len(chan) < Cap
    PROVE  Cardinality(IdleConns) < Cap
<1>. DEFINE n == Len(chan)
            f == [i \in 1..n |-> chan[i].conn]
<1>1. n \in Nat
  BY ChanTypes
<1>2. f \in Surjection(1..n, IdleConns)
  BY DEF Surjection, IdleConns
<1>3. ExistsSurjection(1..n, IdleConns)
  BY <1>2 DEF ExistsSurjection
<1>4. Cardinality(IdleConns) <= n
  BY <1>1, <1>3, FS_SurjCardinalityBound
<1>5. Cardinality(IdleConns) \in Nat
  BY <1>1, <1>3, FS_NatSurjection, FS_CardinalityType
<1>. QED
  BY <1>1, <1>4, <1>5, PoolConstants DEF Cap

\* Taking the first slot takes exactly its connection out of the idle ones.
LEMMA IdleTail ==
    ASSUME TypeOK, FlowInv, ConnInv, chan # <<>>, chan' = Tail(chan)
    PROVE  /\ Head(chan).conn \in IdleConns
           /\ IdleConns' = IdleConns \ {Head(chan).conn}
<1>1. /\ Len(chan) \in Nat /\ Len(chan) >= 1 /\ Head(chan) = chan[1]
      /\ Len(chan') = Len(chan) - 1
      /\ \A i \in 1..Len(chan') : chan'[i] = chan[i + 1]
  BY ChanTypes, SlotsTail
<1>2. \A i, j \in 1..Len(chan) : chan[i].conn = chan[j].conn => i = j
  BY DEF ConnInv, ConnOwnership, OneOwner
<1>3. Head(chan).conn \in IdleConns
  BY <1>1 DEF IdleConns
<1>4. ASSUME NEW c \in IdleConns' PROVE c \in IdleConns \ {Head(chan).conn}
  <2>1. PICK i \in 1..Len(chan') : c = chan'[i].conn
    BY DEF IdleConns
  <2>2. /\ i + 1 \in 1..Len(chan) /\ 1 \in 1..Len(chan) /\ i + 1 # 1
        /\ c = chan[i + 1].conn
    BY <1>1, <2>1
  <2>. QED
    BY <1>1, <1>2, <2>2 DEF IdleConns
<1>5. ASSUME NEW c \in IdleConns, c # Head(chan).conn PROVE c \in IdleConns'
  <2>1. PICK i \in 1..Len(chan) : c = chan[i].conn
    BY DEF IdleConns
  <2>2. i - 1 \in 1..Len(chan') /\ (i - 1) + 1 = i
    BY <1>1, <1>5, <2>1
  <2>3. c = chan'[i - 1].conn
    BY <1>1, <2>1, <2>2
  <2>. QED
    BY <2>2, <2>3 DEF IdleConns
<1>. QED
  BY <1>3, <1>4, <1>5

\* Every step of a goroutine is a step of ConnPool, or leaves its state alone.
LEMMA PromiseStep ==
    ASSUME TypeOK, FlowInv, PushInv, ConnInv, [Next]_vars
    PROVE  [Promise!PoolNext]_(Promise!poolVars)
<1>. USE DEF Promise!PoolNext, Promise!poolVars
<1>0. /\ chan \in Seq(Slot) /\ Len(chan) \in Nat
      /\ item \in [Users -> Nat] /\ opened \in Nat /\ now \in Nat
  BY ChanTypes
<1>1. CASE UNCHANGED ownVars
  BY <1>1 DEF ownVars, IdleConns
<1>2. ASSUME NEW u \in Users, Receive(u) PROVE Promise!Take(u)
  <2>1. /\ item[u] = 0
        /\ chan # <<>> /\ chan' = Tail(chan)
        /\ item' = [item EXCEPT ![u] = Head(chan).conn]
        /\ UNCHANGED <<opened, closed, isClose>>
    BY <1>2 DEF Receive, At, Hold, FlowInv, ItemByPc, HoldPcs, NoConn, connVars, syncVars
  <2>. QED
    BY <2>1, IdleTail DEF Promise!Take
<1>3. ASSUME chan # <<>>, chan' = Tail(chan),
             closed' = closed \cup {Head(chan).conn},
             UNCHANGED <<item, opened, isClose>>
      PROVE  Promise!Expel
  BY <1>3, IdleTail DEF Promise!Expel
<1>4. ASSUME NEW u \in Users, ReceiveExpired(u) PROVE Promise!Expel
  BY <1>3, <1>4 DEF ReceiveExpired, CloseConn, syncVars
<1>5. ASSUME NEW p \in Procs, DrainOne(p) PROVE Promise!Expel
  BY <1>3, <1>5 DEF DrainOne, CloseConn, syncVars
<1>6. ASSUME NEW u \in Users, GenOk(u) PROVE Promise!Open(u)
  BY <1>6 DEF GenOk, At, Hold, FlowInv, ItemByPc, HoldPcs, NoConn, chanVars, syncVars,
              IdleConns, Promise!Open
<1>7. ASSUME NEW u \in Users, DiscardFailed(u) \/ LockFull(u) PROVE Promise!Discard(u)
  BY <1>7 DEF DiscardFailed, Discard, LockFull, DropFull, CloseConn, At, Hold, FlowInv, ItemByPc,
              HoldPcs, UsedPcs, NoConn, chanVars, syncVars, IdleConns, Promise!Discard
<1>8. ASSUME NEW u \in Users, ForgetConn(u)
      PROVE  Promise!Abandon(u)
  BY <1>8 DEF ForgetConn, At, Hold, FlowInv, ItemByPc, HoldPcs, UsedPcs, NoConn,
              chanVars, syncVars, connVars, IdleConns, Promise!Abandon
<1>9. ASSUME NEW u \in Users, Send(u) PROVE Promise!Park(u)
  <2>1. /\ item[u] # 0
        /\ Len(chan) < Cap
        /\ item' = [item EXCEPT ![u] = 0]
        /\ UNCHANGED <<opened, closed, isClose>>
    BY <1>9 DEF Send, Push, At, Hold, FlowInv, ItemByPc, HoldPcs, UsedPcs, NoConn, connVars, syncVars
  <2>2. /\ Len(chan') = Len(chan) + 1
        /\ \A i \in 1..Len(chan) : chan'[i].conn = chan[i].conn
        /\ chan'[Len(chan) + 1].conn = item[u]
    BY <1>0, <1>9, SlotsAppend DEF Send, Push
  <2>3. 1..Len(chan') = (1..Len(chan)) \cup {Len(chan) + 1}
    BY <1>0, <2>2
  <2>4. IdleConns' = IdleConns \cup {item[u]}
    BY <2>2, <2>3 DEF IdleConns
  <2>5. Cardinality(IdleConns) < Cap
    BY <2>1, FewIdle
  <2>. QED
    BY <2>1, <2>4, <2>5 DEF Promise!Park, Promise!Cardinality, Cardinality
<1>10. ASSUME NEW p \in Procs, SwapClose(p)
       PROVE  Promise!Shut \/ UNCHANGED Promise!poolVars
  BY <1>10 DEF SwapClose, chanVars, connVars, TypeOK, IdleConns, Promise!Shut
<1>. QED
  BY <1>1, <1>2, <1>4, <1>5, <1>6, <1>7, <1>8, <1>9, <1>10, Quiet

\* timeout_pool.go implements the abstract pool: the goroutines' steps on the
\* channel, the flags and the two mutexes are steps on a set of idle
\* connections, or invisible.
THEOREM PoolCorrect == Spec => PoolPromise
<1>1. Init => Promise!PoolInit
  BY DEF Init, Promise!PoolInit, IdleConns, NoConn
<1>2. TypeOK /\ FlowInv /\ PushInv /\ ConnInv /\ [Next]_vars
        => [Promise!PoolNext]_(Promise!poolVars)
  BY PromiseStep
<1>. QED
  BY <1>1, <1>2, TypeCorrect, FlowCorrect, PushCorrect, ConnCorrect, PTL
     DEF Spec, PoolPromise, Promise!PoolSpec

-----------------------------------------------------------------------------
(* Expiry: no slot of the channel is of the future, and seconds within the   *)
(* minute differ by no more than the seconds between them.                   *)

LEMMA DivMod ==
    ASSUME NEW M \in Nat \ {0}, NEW a \in Nat
    PROVE  a = M * (a \div M) + (a % M) /\ a % M \in 0..(M - 1) /\ a \div M \in Nat
OBVIOUS

LEMMA TimesGrows ==
    ASSUME NEW M \in Nat \ {0}, NEW q \in Nat, NEW r \in Nat, q <= r
    PROVE  M * q <= M * r
OBVIOUS

\* Two times within their minutes are never further apart than the times.
LEMMA SecondsApart ==
    ASSUME NEW a \in Nat, NEW b \in Nat, a <= b
    PROVE  Second(b) - Second(a) <= b - a /\ Second(a) \in Nat /\ Second(b) \in Nat
<1>. DEFINE M == Minute
            q == a \div M
            r == b \div M
<1>1. a = M * q + (a % M) /\ a % M \in 0..(M - 1) /\ q \in Nat
  BY DivMod, PoolConstants
<1>2. b = M * r + (b % M) /\ b % M \in 0..(M - 1) /\ r \in Nat
  BY DivMod, PoolConstants
<1>3. M \in Nat \ {0} /\ M * q \in Nat /\ M * r \in Nat
  BY <1>1, <1>2, PoolConstants
<1>. HIDE DEF M, q, r
<1>4. CASE q <= r
  <2>1. M * q <= M * r
    BY <1>1, <1>2, <1>3, <1>4, TimesGrows
  <2>. QED
    BY <1>1, <1>2, <1>3, <2>1 DEF Second, M
<1>5. CASE r + 1 <= q
  <2>1. M * (r + 1) <= M * q
    BY <1>1, <1>2, <1>3, <1>5, TimesGrows
  <2>2. M * (r + 1) = M * r + M
    BY <1>2, <1>3
  <2>. QED
    BY <1>1, <1>2, <1>3, <2>1, <2>2 DEF Second, M
<1>. QED
  BY <1>1, <1>2, <1>4, <1>5

PastInv == \A i \in 1..Len(chan) : chan[i].at \in 0..now

\* A slot carries the time of its push.
LEMMA PastCorrect == Spec => []PastInv
<1>1. Init => PastInv
  BY DEF Init, PastInv
<1>2. TypeOK /\ FlowInv /\ PastInv /\ [Next]_vars => PastInv'
  <2>. SUFFICES ASSUME TypeOK, FlowInv, PastInv, [Next]_vars PROVE PastInv'
    OBVIOUS
  <2>0. chan \in Seq(Slot) /\ Len(chan) \in Nat /\ now \in Nat /\ item \in [Users -> Nat]
    BY ChanTypes
  <2>1. now' = now \/ now' = now + 1
    BY ZenonT(30) DEF Next, UseStep, CloseStep, CallUse, CheckContext, CheckInit, InitPool, PublishFull, StoreInit,
           Receive, ReceiveExpired, PublishExpired, ReceiveZero, FindNone, CheckGen, GenOk, GenFail,
           CountError, PublishError, EnterUse, PublishEnter, UseOk, UseFail, UseNil, PublishLeave, CountUse,
           Discard, DiscardFailed, CheckOpen, ForgetConn, LockPush, DropFull, LockFull, Push, Send,
           SendClosed, PublishPush, CallClose, SwapClose, DrainOne, DrainEnd, CloseChan, DeleteMetric,
           Tick, Cancel, Finished, vars, world, Local, PublishStep, Panic, Call
  <2>2. CASE chan' = chan
    BY <2>0, <2>1, <2>2 DEF PastInv
  <2>3. CASE chan # <<>> /\ chan' = Tail(chan)
    BY <2>0, <2>1, <2>3, SlotsTail DEF PastInv
  <2>4. CASE \E u \in Users : Send(u)
    <3>1. PICK u \in Users : Send(u)
      BY <2>4
    <3>2. /\ chan' = Append(chan, [conn |-> item[u], at |-> now]) /\ now' = now
          /\ item[u] \in Nat
      BY <2>0, <3>1 DEF Send, Push, connVars, world
    <3>3. /\ Len(chan') = Len(chan) + 1
          /\ \A i \in 1..Len(chan) : chan'[i] = chan[i]
          /\ chan'[Len(chan) + 1].at = now
      <4>1. [conn |-> item[u], at |-> now] \in Slot
        BY <2>0, <3>2 DEF Slot
      <4>. QED
        BY <2>0, <3>2, <4>1, AppendProperties
    <3>. QED
      BY <2>0, <3>2, <3>3 DEF PastInv
  <2>5. \/ UNCHANGED ownVars
        \/ \E u \in Users : \/ Receive(u) \/ ReceiveExpired(u) \/ GenOk(u)
                             \/ DiscardFailed(u) \/ ForgetConn(u)
                             \/ LockFull(u) \/ Send(u)
        \/ \E p \in Procs : SwapClose(p) \/ DrainOne(p)
    BY Quiet
  <2>6. ASSUME UNCHANGED ownVars PROVE PastInv'
    BY <2>2, <2>6 DEF ownVars
  <2>7. ASSUME NEW u \in Users, Receive(u) \/ ReceiveExpired(u) PROVE PastInv'
    BY <2>3, <2>7 DEF Receive, ReceiveExpired
  <2>8. ASSUME NEW u \in Users, GenOk(u) \/ DiscardFailed(u) \/ ForgetConn(u) \/ LockFull(u) PROVE PastInv'
    BY <2>2, <2>8 DEF GenOk, DiscardFailed, Discard, ForgetConn, LockFull, DropFull, chanVars
  <2>9. ASSUME NEW p \in Procs, SwapClose(p) \/ DrainOne(p) PROVE PastInv'
    BY <2>2, <2>3, <2>9 DEF SwapClose, DrainOne, chanVars
  <2>. QED
    BY <2>4, <2>5, <2>6, <2>7, <2>8, <2>9
<1>. QED
  BY <1>1, <1>2, TypeCorrect, FlowCorrect, PTL DEF Spec

\* The expiry test of timeout_pool.go:90 never closes a connection too early,
\* whatever the timeout and however many minutes the connection waited.
THEOREM ExpiryNotEarly == Spec => NoEarlyExpiry
<1>1. TypeOK /\ FlowInv /\ PastInv /\ [Next]_vars
        => [\A u \in Users : ReceiveExpired(u) => now - Head(chan).at > IdleTimeout]_vars
  <2>. SUFFICES ASSUME TypeOK, FlowInv, PastInv, NEW u \in Users, ReceiveExpired(u)
                PROVE  now - Head(chan).at > IdleTimeout
    OBVIOUS
  <2>1. chan \in Seq(Slot) /\ chan # <<>> /\ now \in Nat
    BY ChanTypes DEF ReceiveExpired
  <2>2. Head(chan).at \in 0..now
    BY <2>1, SlotsTail DEF PastInv
  <2>3. Second(now) - Second(Head(chan).at) > IdleTimeout
    BY DEF ReceiveExpired, Expired
  <2>4. /\ Head(chan).at \in Nat /\ Head(chan).at <= now
    BY <2>1, <2>2
  <2>5. /\ Second(now) - Second(Head(chan).at) <= now - Head(chan).at
        /\ Second(now) \in Nat /\ Second(Head(chan).at) \in Nat
    BY <2>1, <2>4, SecondsApart
  <2>. QED
    BY <2>1, <2>3, <2>4, <2>5, PoolConstants
<1>. QED
  BY <1>1, TypeCorrect, FlowCorrect, PastCorrect, PTL DEF Spec, NoEarlyExpiry

-----------------------------------------------------------------------------
(* The gauges at rest.  Whoever changes the channel or the counter is at     *)
(* work, and comes by the push lock, where it samples both, before it rests: *)
(* the last to come by publishes what is there.                              *)

Calm == ~isClose /\ accErr = 0
Outside == {"idle", "context", "init", "once", "swap"}
Working == {"get", "expired", "gen", "dial", "enter", "entered", "using", "ok",
            "failed", "discard", "recheck", "lock", "send"}

Counted == {"entered", "using"}
InUse == {u \in Users : pc[u] \in Counted}
UseCounted == IsFiniteSet(InUse) /\ useCnt = Cardinality(InUse)

\* What a goroutine that saw no error publishes.
GoodSample(s) == DOMAIN s \subseteq {"full", "idle", "use"} /\ ("full" \in DOMAIN s => s["full"] = Cap)

SamplesGood ==
    \A u \in Users : /\ pc[u] # "return" /\ GoodSample(sample[u])
                     /\ pc[u] = "full" => sample[u] = [full |-> Cap]

FullPublished ==
    /\ metric["accErr"] = 0
    /\ isInit \/ (\E u \in Users : pc[u] = "stored") => metric["full"] = Cap

LastPublished ==
    (\A u \in Users : pc[u] \notin Working) =>
        /\ \A u \in Users : pc[u] = "unlock" => sample[u] = [idle |-> Len(chan), use |-> 0]
        /\ (\A u \in Users : pc[u] # "unlock") => metric["idle"] = Len(chan) /\ metric["use"] = 0

GaugeFacts == UseCounted /\ SamplesGood /\ FullPublished /\ LastPublished
GaugeInv == Calm => GaugeFacts

\* What the proof about the gauges needs of the types.
LEMMA GaugeTypes ==
    ASSUME TypeOK
    PROVE  /\ pc \in [Procs -> Pcs] /\ DOMAIN sample = Procs /\ item \in [Users -> Nat]
           /\ chan \in Seq(Slot) /\ Len(chan) \in Int
           /\ useCnt \in Int /\ accErr \in Nat /\ now \in Nat
           /\ metric \in [GaugeKeys -> Int]
<1>1. pc \in [Procs -> Pcs] /\ DOMAIN sample = Procs /\ item \in [Users -> Nat]
  BY DEF TypeOK
<1>2. chan \in Seq(Slot)
  BY DEF TypeOK, Slot
<1>3. useCnt \in Int /\ accErr \in Nat /\ now \in Nat /\ metric \in [GaugeKeys -> Int]
  BY DEF TypeOK
<1>. QED
  BY <1>1, <1>2, <1>3, LenProperties

\* A goroutine moves on.
LEMMA Moved ==
    ASSUME TypeOK, NEW p \in Procs, NEW to, Goto(p, to)
    PROVE  /\ pc'[p] = to /\ \A q \in Procs : q # p => pc'[q] = pc[q]
           /\ Users \subseteq Procs
<1>1. pc \in [Procs -> Pcs] /\ pc' = [pc EXCEPT ![p] = to]
  BY GaugeTypes DEF Goto
<1>2. pc'[p] = to /\ \A q \in Procs : q # p => pc'[q] = pc[q]
  BY <1>1
<1>. QED
  BY <1>2 DEF Procs

\* The counter follows those who use a connection.
LEMMA CountMoves ==
    ASSUME TypeOK, UseCounted, NEW p \in Procs, NEW to, Goto(p, to),
           \/ useCnt' = useCnt /\ (pc[p] \in Counted <=> to \in Counted)
           \/ useCnt' = useCnt + 1 /\ p \in Users /\ pc[p] \notin Counted /\ to \in Counted
           \/ useCnt' = useCnt - 1 /\ p \in Users /\ pc[p] \in Counted /\ to \notin Counted
    PROVE  UseCounted'
<1>1. pc'[p] = to /\ (\A q \in Users : q # p => pc'[q] = pc[q]) /\ IsFiniteSet(InUse) /\ useCnt = Cardinality(InUse)
  BY Moved DEF UseCounted
<1>2. CASE useCnt' = useCnt /\ (pc[p] \in Counted <=> to \in Counted)
  <2>1. InUse' = InUse
    BY <1>1, <1>2 DEF InUse
  <2>. QED
    BY <1>1, <1>2, <2>1 DEF UseCounted
<1>3. CASE useCnt' = useCnt + 1 /\ p \in Users /\ pc[p] \notin Counted /\ to \in Counted
  <2>1. InUse' = InUse \cup {p} /\ p \notin InUse
    BY <1>1, <1>3 DEF InUse
  <2>2. IsFiniteSet(InUse \cup {p}) /\ Cardinality(InUse \cup {p}) = Cardinality(InUse) + 1
    BY <1>1, <2>1, FS_AddElement
  <2>. QED
    BY <1>1, <1>3, <2>1, <2>2 DEF UseCounted
<1>4. CASE useCnt' = useCnt - 1 /\ p \in Users /\ pc[p] \in Counted /\ to \notin Counted
  <2>1. InUse' = InUse \ {p} /\ p \in InUse
    BY <1>1, <1>4 DEF InUse
  <2>2. IsFiniteSet(InUse \ {p}) /\ Cardinality(InUse \ {p}) = Cardinality(InUse) - 1
    BY <1>1, <2>1, FS_RemoveElement
  <2>. QED
    BY <1>1, <1>4, <2>1, <2>2 DEF UseCounted
<1>. QED
  BY <1>2, <1>3, <1>4

\* A publication of a good sample.
LEMMA Published ==
    ASSUME TypeOK, NEW u \in Users, GoodSample(sample[u]), Publish(u)
    PROVE  /\ metric'["accErr"] = metric["accErr"]
           /\ metric'["full"] \in {metric["full"], Cap}
           /\ "full" \in DOMAIN sample[u] => metric'["full"] = Cap
           /\ \A k \in {"idle", "use"} :
                 metric'[k] = IF k \in DOMAIN sample[u] THEN sample[u][k] ELSE metric[k]
           /\ sample' = [sample EXCEPT ![u] = NoSample] /\ GoodSample(NoSample)
<1>1. sample' = [sample EXCEPT ![u] = NoSample]
  BY DEF Publish
<1>2. DOMAIN NoSample = {}
  BY DEF NoSample
<1>3. \A k \in GaugeKeys : metric'[k] = IF k \in DOMAIN sample[u] THEN sample[u][k] ELSE metric[k]
  BY DEF Publish
<1>4. "accErr" \in GaugeKeys /\ "full" \in GaugeKeys /\ "idle" \in GaugeKeys /\ "use" \in GaugeKeys
  BY DEF GaugeKeys
<1>. QED
  BY <1>1, <1>2, <1>3, <1>4 DEF GoodSample

\* Before the pool is asked for a connection, and in Close before the swap.
LEMMA GaugesOutside ==
    ASSUME TypeOK, GaugeFacts, NEW p \in Procs, NEW to \in Outside, Goto(p, to), pc[p] \in Outside,
           UNCHANGED <<sample, chan, isInit, useCnt, metric>>
    PROVE  GaugeFacts'
<1>1. pc'[p] = to /\ (\A q \in Users : q # p => pc'[q] = pc[q])
  BY Moved
<1>2. to \notin Working \cup Counted \cup {"return", "full", "stored", "unlock"}
  BY DEF Outside, Working, Counted
<1>3. pc[p] \notin Working \cup Counted \cup {"return", "full", "stored", "unlock"}
  BY DEF Outside, Working, Counted
<1>4. UseCounted'
  BY <1>2, <1>3, CountMoves DEF GaugeFacts
<1>5. SamplesGood'
  BY <1>1, <1>2 DEF GaugeFacts, SamplesGood, GoodSample, Cap
<1>6. FullPublished'
  BY <1>1, <1>2 DEF GaugeFacts, FullPublished, Cap
<1>7. LastPublished'
  BY <1>1, <1>2, <1>3 DEF GaugeFacts, LastPublished
<1>. QED
  BY <1>4, <1>5, <1>6, <1>7 DEF GaugeFacts

\* The first publication, of the capacity.
LEMMA GaugesInit ==
    ASSUME TypeOK, GaugeFacts, NEW u \in Users,
           UNCHANGED <<chan, isInit, useCnt>>,
           \/ pc[u] = "once" /\ Goto(u, "full") /\ Sample(u, [full |-> Cap]) /\ metric' = metric
           \/ pc[u] = "full" /\ Goto(u, "stored") /\ Publish(u)
    PROVE  GaugeFacts'
<1>0. u \in Procs /\ GoodSample([full |-> Cap]) /\ GoodSample(sample[u]) /\ DOMAIN sample = Procs /\ Users \subseteq Procs
  <2>1. u \in Procs /\ DOMAIN sample = Procs /\ Users \subseteq Procs
    BY GaugeTypes DEF Procs
  <2>2. GoodSample([full |-> Cap])
    BY DEF GoodSample
  <2>. QED
    BY <2>1, <2>2 DEF GaugeFacts, SamplesGood
<1>1. PICK to \in {"full", "stored"} : Goto(u, to)
  OBVIOUS
<1>2. pc'[u] = to /\ (\A q \in Users : q # u => pc'[q] = pc[q])
  BY <1>0, <1>1, Moved
<1>3. UseCounted'
  BY <1>0, <1>1, CountMoves DEF GaugeFacts, Counted
<1>4. CASE pc[u] = "once" /\ Goto(u, "full") /\ Sample(u, [full |-> Cap]) /\ metric' = metric
  <2>1. pc'[u] = "full" /\ sample'[u] = [full |-> Cap] /\ \A q \in Users : q # u => sample'[q] = sample[q]
    BY <1>0, <1>4, Moved DEF Sample
  <2>2. SamplesGood'
    BY <1>0, <1>2, <2>1 DEF GaugeFacts, SamplesGood, GoodSample, Cap
  <2>3. FullPublished'
    BY <1>2, <1>4, <2>1 DEF GaugeFacts, FullPublished, Cap
  <2>4. LastPublished'
    BY <1>2, <1>4, <2>1 DEF GaugeFacts, LastPublished, Working
  <2>. QED
    BY <1>3, <2>2, <2>3, <2>4 DEF GaugeFacts
<1>5. CASE pc[u] = "full" /\ Goto(u, "stored") /\ Publish(u)
  <2>1. pc'[u] = "stored" /\ sample[u] = [full |-> Cap] /\ DOMAIN sample[u] = {"full"}
    BY <1>0, <1>5, Moved DEF GaugeFacts, SamplesGood
  <2>2. /\ metric'["accErr"] = 0 /\ metric'["full"] = Cap
        /\ metric'["idle"] = metric["idle"] /\ metric'["use"] = metric["use"]
        /\ sample'[u] = NoSample /\ GoodSample(NoSample)
        /\ \A q \in Users : q # u => sample'[q] = sample[q]
    BY <1>0, <1>5, <2>1, Published DEF GaugeFacts, FullPublished
  <2>3. SamplesGood'
    BY <1>2, <2>1, <2>2 DEF GaugeFacts, SamplesGood, GoodSample, Cap
  <2>4. FullPublished'
    BY <2>2 DEF FullPublished, Cap
  <2>5. LastPublished'
    BY <1>2, <1>5, <2>1, <2>2 DEF GaugeFacts, LastPublished, Working
  <2>. QED
    BY <1>3, <2>3, <2>4, <2>5 DEF GaugeFacts
<1>. QED
  BY <1>4, <1>5

\* A goroutine that has come by no lock yet need not leave anything exact.
LEMMA GaugesWorking ==
    ASSUME TypeOK, GaugeFacts, NEW u \in Users, NEW to \in Working, Goto(u, to),
           pc[u] \in Working \cup {"init", "stored"},
           isInit' = isInit \/ pc[u] = "stored",
           \/ sample' = sample /\ metric' = metric
           \/ Publish(u)
           \/ metric' = metric /\ \E x \in Int, y \in Int : \/ Sample(u, [idle |-> x])
                                                            \/ Sample(u, [idle |-> x, use |-> y]),
           \/ useCnt' = useCnt /\ (pc[u] \in Counted <=> to \in Counted)
           \/ useCnt' = useCnt + 1 /\ pc[u] \notin Counted /\ to \in Counted
           \/ useCnt' = useCnt - 1 /\ pc[u] \in Counted /\ to \notin Counted
    PROVE  GaugeFacts'
<1>0. u \in Procs /\ GoodSample(sample[u]) /\ DOMAIN sample = Procs /\ Users \subseteq Procs
  BY GaugeTypes DEF Procs, GaugeFacts, SamplesGood
<1>1. pc'[u] = to /\ (\A q \in Users : q # u => pc'[q] = pc[q])
  BY <1>0, Moved
<1>2. to \notin {"return", "full", "stored"}
  BY DEF Working
<1>3. UseCounted'
  BY <1>0, CountMoves DEF GaugeFacts
<1>4. GoodSample(sample'[u]) /\ \A q \in Users : q # u => sample'[q] = sample[q]
  <2>1. CASE sample' = sample
    BY <1>0, <2>1
  <2>2. CASE Publish(u)
    BY <1>0, <2>2, Published
  <2>3. ASSUME NEW g, Sample(u, g), GoodSample(g)
        PROVE  GoodSample(sample'[u]) /\ \A q \in Users : q # u => sample'[q] = sample[q]
    BY <1>0, <2>3 DEF Sample
  <2>4. \A x \in Int, y \in Int : GoodSample([idle |-> x]) /\ GoodSample([idle |-> x, use |-> y])
    BY DEF GoodSample
  <2>. QED
    BY <2>1, <2>2, <2>3, <2>4
<1>5. SamplesGood'
  BY <1>1, <1>2, <1>4 DEF GaugeFacts, SamplesGood, GoodSample, Cap
<1>6. metric'["accErr"] = metric["accErr"] /\ metric'["full"] \in {metric["full"], Cap}
  BY <1>0, Published
<1>7. FullPublished'
  BY <1>1, <1>2, <1>6 DEF GaugeFacts, FullPublished, Cap
<1>8. LastPublished'
  BY <1>1 DEF LastPublished
<1>. QED
  BY <1>3, <1>5, <1>7, <1>8 DEF GaugeFacts

\* The last sample is taken under the lock, and if nobody else is at work the
\* counter is 0.
LEMMA GaugesSampled ==
    ASSUME TypeOK, GaugeFacts, PushInv, NEW u \in Users, Goto(u, "unlock"),
           \/ pc[u] = "lock" /\ pushLock = NoProc
           \/ pc[u] = "send",
           NEW x \in Int, x = Len(chan'), Sample(u, [idle |-> x, use |-> useCnt]),
           UNCHANGED <<isInit, useCnt, metric>>
    PROVE  GaugeFacts'
<1>0. u \in Procs /\ DOMAIN sample = Procs /\ Users \subseteq Procs /\ NoProc \notin Users
  BY PoolConstants, GaugeTypes DEF Procs
<1>1. pc'[u] = "unlock" /\ (\A q \in Users : q # u => pc'[q] = pc[q])
  BY <1>0, Moved
<1>2. sample'[u] = [idle |-> x, use |-> useCnt] /\ \A q \in Users : q # u => sample'[q] = sample[q]
  BY <1>0 DEF Sample
<1>3. UseCounted'
  BY <1>0, CountMoves DEF GaugeFacts, Counted
<1>4. SamplesGood'
  BY <1>1, <1>2 DEF GaugeFacts, SamplesGood, GoodSample, Cap
<1>5. FullPublished'
  BY <1>1 DEF GaugeFacts, FullPublished, Cap
<1>6. \A q \in Users : q # u => pc'[q] # "unlock"
  BY <1>0, <1>1 DEF PushInv
<1>7. ASSUME \A q \in Users : pc'[q] \notin Working PROVE useCnt = 0
  <2>1. InUse' = {}
    BY <1>7 DEF InUse, Working, Counted
  <2>2. Cardinality(InUse') = 0
    BY <2>1, FS_EmptySet
  <2>. QED
    BY <1>3, <2>2 DEF UseCounted
<1>8. LastPublished'
  BY <1>1, <1>2, <1>6, <1>7 DEF LastPublished
<1>. QED
  BY <1>3, <1>4, <1>5, <1>8 DEF GaugeFacts

\* It is published before the lock is released.
LEMMA GaugesPublished ==
    ASSUME TypeOK, GaugeFacts, PushInv, NEW u \in Users, pc[u] = "unlock", Goto(u, "idle"), Publish(u),
           UNCHANGED <<chan, isInit, useCnt>>
    PROVE  GaugeFacts'
<1>0. u \in Procs /\ GoodSample(sample[u]) /\ DOMAIN sample = Procs /\ Users \subseteq Procs
  BY GaugeTypes DEF Procs, GaugeFacts, SamplesGood
<1>1. pc'[u] = "idle" /\ (\A q \in Users : q # u => pc'[q] = pc[q])
  BY <1>0, Moved
<1>2. /\ metric'["accErr"] = 0 /\ metric'["full"] \in {metric["full"], Cap}
      /\ \A k \in {"idle", "use"} :
            metric'[k] = IF k \in DOMAIN sample[u] THEN sample[u][k] ELSE metric[k]
      /\ sample'[u] = NoSample /\ GoodSample(NoSample)
      /\ \A q \in Users : q # u => sample'[q] = sample[q]
  BY <1>0, Published DEF GaugeFacts, FullPublished
<1>3. UseCounted'
  BY <1>0, CountMoves DEF GaugeFacts, Counted
<1>4. SamplesGood'
  BY <1>1, <1>2 DEF GaugeFacts, SamplesGood, GoodSample, Cap
<1>5. FullPublished'
  BY <1>1, <1>2 DEF GaugeFacts, FullPublished, Cap
<1>6. \A q \in Users : q # u => pc[q] # "unlock"
  BY DEF PushInv
<1>7. ASSUME \A q \in Users : pc'[q] \notin Working
      PROVE  metric'["idle"] = Len(chan) /\ metric'["use"] = 0
  <2>1. \A q \in Users : pc[q] \notin Working
    BY <1>1, <1>7 DEF Working
  <2>2. sample[u] = [idle |-> Len(chan), use |-> 0]
    BY <2>1 DEF GaugeFacts, LastPublished
  <2>3. DOMAIN sample[u] = {"idle", "use"} /\ sample[u]["idle"] = Len(chan) /\ sample[u]["use"] = 0
    BY <2>2
  <2>. QED
    BY <1>2, <2>3
<1>8. LastPublished'
  BY <1>1, <1>6, <1>7 DEF LastPublished
<1>. QED
  BY <1>3, <1>4, <1>5, <1>8 DEF GaugeFacts

\* The pool is not reopened, and an error stays counted.
LEMMA CalmBefore == ASSUME TypeOK, [Next]_vars, Calm' PROVE Calm
<1>1. accErr \in Nat
  BY GaugeTypes
<1>. USE DEF chanVars, syncVars, gaugeVars, connVars, world, Local, PublishStep, Publish, Panic, Call
<1>2. ASSUME NEW u \in Users,
             \/ CallUse(u) \/ CheckContext(u) \/ CheckInit(u) \/ InitPool(u)
             \/ PublishFull(u) \/ StoreInit(u) \/ PublishExpired(u)
             \/ Receive(u) \/ ReceiveExpired(u) \/ ReceiveZero(u) \/ FindNone(u)
             \/ CheckGen(u) \/ GenOk(u) \/ PublishError(u)
      PROVE  UNCHANGED <<isClose, accErr>>
  BY <1>2 DEF CallUse, CheckContext, CheckInit, InitPool, PublishFull, StoreInit, PublishExpired,
              Receive, ReceiveExpired, ReceiveZero, FindNone, CheckGen, GenOk, PublishError
<1>3. ASSUME NEW u \in Users,
             \/ EnterUse(u) \/ PublishEnter(u) \/ UseOk(u) \/ UseFail(u)
             \/ UseNil(u) \/ PublishLeave(u) \/ CheckOpen(u) \/ ForgetConn(u) \/ LockPush(u)
             \/ LockFull(u) \/ Send(u) \/ SendClosed(u) \/ PublishPush(u)
      PROVE  UNCHANGED <<isClose, accErr>>
  BY <1>3 DEF EnterUse, PublishEnter, UseOk, UseFail, CountUse, UseNil, PublishLeave, CheckOpen,
              ForgetConn, LockPush, LockFull, DropFull, Send, Push, SendClosed, PublishPush
<1>4. ASSUME NEW u \in Users, GenFail(u) \/ DiscardFailed(u)
      PROVE  isClose' = isClose /\ accErr' = accErr + 1
  BY <1>4 DEF GenFail, CountError, DiscardFailed, Discard
<1>5. ASSUME NEW p \in Procs, CallClose(p) \/ DrainOne(p) \/ DrainEnd(p) \/ CloseChan(p) \/ DeleteMetric(p)
      PROVE  UNCHANGED <<isClose, accErr>>
  BY <1>5 DEF CallClose, DrainOne, DrainEnd, CloseChan, DeleteMetric
<1>6. ASSUME NEW p \in Procs, SwapClose(p) PROVE isClose'
  BY <1>6 DEF SwapClose
<1>7. ASSUME Tick \/ Cancel \/ Finished \/ UNCHANGED vars PROVE UNCHANGED <<isClose, accErr>>
  BY <1>7 DEF Tick, Cancel, Finished, vars
<1>8. \/ UNCHANGED <<isClose, accErr>>
      \/ isClose' = isClose /\ accErr' = accErr + 1
      \/ isClose'
  BY <1>2, <1>3, <1>4, <1>5, <1>6, <1>7 DEF Next, UseStep, CloseStep, Procs
<1>. QED
  BY <1>1, <1>8 DEF Calm

\* The steps of Use before it has a connection.
LEMMA GaugesGet ==
    ASSUME TypeOK, FlowInv, GaugeFacts, Calm, Calm', NEW u \in Users,
           \/ CallUse(u) \/ CheckContext(u) \/ CheckInit(u) \/ InitPool(u)
           \/ PublishFull(u) \/ StoreInit(u) \/ PublishExpired(u)
           \/ Receive(u) \/ ReceiveExpired(u) \/ ReceiveZero(u) \/ FindNone(u)
           \/ CheckGen(u) \/ GenOk(u) \/ GenFail(u) \/ PublishError(u)
    PROVE  GaugeFacts'
<1>. USE DEF chanVars, syncVars, gaugeVars, connVars, world, At
<1>0. u \in Procs /\ ~isClose /\ ~chanClosed /\ accErr = 0 /\ accErr' = 0
  BY DEF Procs, Calm, FlowInv, CloseFirst
<1>1. CASE CallUse(u)
  <2>1. Goto(u, "context") /\ pc[u] = "idle" /\ UNCHANGED <<sample, chan, isInit, useCnt, metric>>
    BY <1>0, <1>1 DEF CallUse, Call
  <2>. QED
    BY <1>0, <2>1, GaugesOutside DEF Outside
<1>2. CASE CheckContext(u)
  <2>1. PICK to \in {"swap", "init"} : Goto(u, to) /\ pc[u] = "context" /\ UNCHANGED <<sample, chan, isInit, useCnt, metric>>
    BY <1>2 DEF CheckContext, Local
  <2>. QED
    BY <1>0, <2>1, GaugesOutside DEF Outside
<1>3. CASE CheckInit(u)
  <2>1. pc[u] = "init" /\ UNCHANGED <<sample, chan, isInit, useCnt, metric>>
    BY <1>3 DEF CheckInit, Local
  <2>2. CASE isInit
    <3>1. Goto(u, "get")
      BY <1>3, <2>2 DEF CheckInit, Local
    <3>. QED
      BY <2>1, <3>1, GaugesWorking DEF Working, Counted
  <2>3. CASE ~isInit
    <3>1. Goto(u, "once")
      BY <1>3, <2>3 DEF CheckInit, Local
    <3>. QED
      BY <1>0, <2>1, <3>1, GaugesOutside DEF Outside
  <2>. QED
    BY <2>2, <2>3
<1>4. CASE InitPool(u)
  <2>1. /\ pc[u] = "once" /\ Goto(u, "full") /\ Sample(u, [full |-> Cap]) /\ metric' = metric
        /\ UNCHANGED <<chan, isInit, useCnt>>
    BY <1>4 DEF InitPool
  <2>. QED
    BY <2>1, GaugesInit
<1>5. CASE PublishFull(u)
  <2>1. pc[u] = "full" /\ Goto(u, "stored") /\ Publish(u) /\ UNCHANGED <<chan, isInit, useCnt>>
    BY <1>5 DEF PublishFull, Publish
  <2>. QED
    BY <2>1, GaugesInit
<1>6. CASE StoreInit(u)
  <2>1. pc[u] = "stored" /\ Goto(u, "get") /\ UNCHANGED <<sample, metric, useCnt>>
    BY <1>6 DEF StoreInit
  <2>. QED
    BY <2>1, GaugesWorking DEF Working, Counted
<1>7. CASE PublishExpired(u)
  <2>1. pc[u] = "expired" /\ Goto(u, "get") /\ Publish(u) /\ UNCHANGED <<isInit, useCnt>>
    BY <1>7 DEF PublishExpired, PublishStep, Publish
  <2>. QED
    BY <2>1, GaugesWorking DEF Working, Counted
<1>8. CASE Receive(u)
  <2>1. pc[u] = "get" /\ Goto(u, "enter") /\ UNCHANGED <<sample, metric, isInit, useCnt>>
    BY <1>8 DEF Receive
  <2>. QED
    BY <2>1, GaugesWorking DEF Working, Counted
<1>9. CASE ReceiveExpired(u)
  <2>1. /\ pc[u] = "get" /\ Goto(u, "expired") /\ UNCHANGED <<metric, isInit, useCnt>>
        /\ Sample(u, [idle |-> Len(chan')])
    BY <1>9 DEF ReceiveExpired
  <2>2. Len(chan') \in Int
    <3>1. chan \in Seq(Slot) /\ chan # <<>> /\ chan' = Tail(chan)
      BY <1>9, GaugeTypes DEF ReceiveExpired
    <3>. QED
      BY <3>1, SlotsTail, LenProperties
  <2>3. \E x \in Int, y \in Int : Sample(u, [idle |-> x])
    BY <2>1, <2>2
  <2>. QED
    BY <2>1, <2>3, GaugesWorking DEF Working, Counted
<1>10. CASE ReceiveZero(u)
  BY <1>0, <1>10 DEF ReceiveZero
<1>11. CASE FindNone(u)
  <2>1. pc[u] = "get" /\ Goto(u, "gen") /\ UNCHANGED <<sample, metric, isInit, useCnt>>
    BY <1>11 DEF FindNone, Local
  <2>. QED
    BY <2>1, GaugesWorking DEF Working, Counted
<1>12. CASE CheckGen(u)
  <2>1. pc[u] = "gen" /\ Goto(u, "dial") /\ UNCHANGED <<sample, metric, isInit, useCnt>>
    BY <1>0, <1>12 DEF CheckGen, Local
  <2>. QED
    BY <2>1, GaugesWorking DEF Working, Counted
<1>13. CASE GenOk(u)
  <2>1. pc[u] = "dial" /\ Goto(u, "enter") /\ UNCHANGED <<sample, metric, isInit, useCnt>>
    BY <1>13 DEF GenOk
  <2>. QED
    BY <2>1, GaugesWorking DEF Working, Counted
<1>14. CASE GenFail(u)
  BY <1>0, <1>14 DEF GenFail, CountError
<1>15. CASE PublishError(u)
  BY <1>15 DEF PublishError, PublishStep, GaugeFacts, SamplesGood
<1>. QED
  BY <1>1, <1>2, <1>3, <1>4, <1>5, <1>6, <1>7, <1>8, <1>9, <1>10, <1>11, <1>12, <1>13, <1>14, <1>15

\* The steps of Use on a connection, and of giving it back.
LEMMA GaugesUse ==
    ASSUME TypeOK, FlowInv, PushInv, GaugeFacts, Calm, Calm', NEW u \in Users,
           \/ EnterUse(u) \/ PublishEnter(u) \/ UseOk(u) \/ UseFail(u)
           \/ UseNil(u) \/ PublishLeave(u) \/ DiscardFailed(u) \/ CheckOpen(u) \/ ForgetConn(u)
           \/ LockPush(u) \/ LockFull(u) \/ Send(u) \/ SendClosed(u) \/ PublishPush(u)
    PROVE  GaugeFacts'
<1>. USE DEF chanVars, syncVars, gaugeVars, connVars, world, At
<1>0. /\ u \in Procs /\ ~isClose /\ ~chanClosed /\ accErr = 0 /\ accErr' = 0
      /\ useCnt \in Int /\ chan \in Seq(Slot) /\ Len(chan) \in Int
  BY GaugeTypes DEF Procs, Calm, FlowInv, CloseFirst
<1>1. ASSUME NEW from, NEW to, NEW n \in Int, CountUse(u, from, to, n)
      PROVE  /\ pc[u] = from /\ Goto(u, to) /\ UNCHANGED <<metric, isInit>> /\ useCnt' = useCnt + n
             /\ \E x \in Int, y \in Int : Sample(u, [idle |-> x, use |-> y])
  <2>1. useCnt' = useCnt + n /\ Sample(u, [idle |-> Len(chan), use |-> useCnt'])
    BY <1>1 DEF CountUse, Gauges
  <2>2. useCnt' \in Int
    BY <1>0, <2>1
  <2>. QED
    BY <1>0, <1>1, <2>1, <2>2 DEF CountUse
<1>2. CASE EnterUse(u)
  BY <1>1, <1>2, GaugesWorking DEF EnterUse, Working, Counted
<1>3. CASE UseOk(u) \/ UseFail(u)
  <2>1. PICK to \in {"ok", "failed"} : CountUse(u, "using", to, -1)
    BY <1>3 DEF UseOk, UseFail
  <2>2. useCnt' = useCnt - 1
    BY <1>0, <1>1, <2>1
  <2>3. /\ pc[u] = "using" /\ Goto(u, to) /\ UNCHANGED <<metric, isInit>>
        /\ \E x \in Int, y \in Int : Sample(u, [idle |-> x, use |-> y])
    BY <1>1, <2>1
  <2>4. to \in Working /\ pc[u] \in Working /\ pc[u] \in Counted /\ to \notin Counted
    BY <2>3 DEF Working, Counted
  <2>. QED
    BY <2>2, <2>3, <2>4, GaugesWorking
<1>4. CASE PublishEnter(u)
  <2>1. pc[u] = "entered" /\ Goto(u, "using") /\ Publish(u) /\ UNCHANGED <<isInit, useCnt>>
    BY <1>4 DEF PublishEnter, PublishStep, Publish
  <2>. QED
    BY <2>1, GaugesWorking DEF Working, Counted
<1>5. CASE PublishLeave(u)
  <2>1. PICK from \in {"ok", "failed"}, to \in {"recheck", "discard"} :
           pc[u] = from /\ Goto(u, to) /\ Publish(u) /\ UNCHANGED <<isInit, useCnt>>
    BY <1>5 DEF PublishLeave, PublishStep, Publish
  <2>. QED
    BY <2>1, GaugesWorking DEF Working, Counted
<1>6. CASE UseNil(u) \/ ForgetConn(u) \/ SendClosed(u) \/ DiscardFailed(u)
  <2>1. CASE UseNil(u)
    BY <1>0, <2>1 DEF UseNil, Panic, FlowInv, ItemByPc, HoldPcs
  <2>2. CASE ForgetConn(u) \/ SendClosed(u)
    BY <1>0, <2>2 DEF ForgetConn, SendClosed
  <2>3. CASE DiscardFailed(u)
    BY <1>0, <2>3 DEF DiscardFailed, Discard
  <2>. QED
    BY <1>6, <2>1, <2>2, <2>3
<1>7. CASE CheckOpen(u)
  <2>1. pc[u] = "recheck" /\ Goto(u, "lock") /\ UNCHANGED <<sample, metric, isInit, useCnt>>
    BY <1>7 DEF CheckOpen, Local
  <2>. QED
    BY <2>1, GaugesWorking DEF Working, Counted
<1>8. CASE LockPush(u)
  <2>1. pc[u] = "lock" /\ Goto(u, "send") /\ UNCHANGED <<sample, metric, isInit, useCnt>>
    BY <1>8 DEF LockPush
  <2>. QED
    BY <2>1, GaugesWorking DEF Working, Counted
<1>9. CASE LockFull(u)
  <2>1. /\ pc[u] = "lock" /\ pushLock = NoProc /\ Goto(u, "unlock") /\ chan' = chan
        /\ Sample(u, [idle |-> Len(chan), use |-> useCnt]) /\ UNCHANGED <<isInit, useCnt, metric>>
    BY <1>9 DEF LockFull, DropFull, Gauges
  <2>. QED
    BY <1>0, <2>1, GaugesSampled
<1>10. CASE Send(u)
  <2>1. /\ pc[u] = "send" /\ Goto(u, "unlock")
        /\ Sample(u, [idle |-> Len(chan'), use |-> useCnt]) /\ UNCHANGED <<isInit, useCnt, metric>>
    BY <1>10 DEF Send, Push, Gauges
  <2>2. Len(chan') \in Int
    <3>1. item[u] \in Nat /\ now \in Nat /\ chan' = Append(chan, [conn |-> item[u], at |-> now])
      BY <1>10, GaugeTypes DEF Send, Push
    <3>2. [conn |-> item[u], at |-> now] \in Slot
      BY <3>1 DEF Slot
    <3>. QED
      BY <1>0, <3>1, <3>2, AppendProperties, LenProperties
  <2>. QED
    BY <2>1, <2>2, GaugesSampled
<1>11. CASE PublishPush(u)
  <2>1. pc[u] = "unlock" /\ Goto(u, "idle") /\ Publish(u) /\ UNCHANGED <<chan, isInit, useCnt>>
    BY <1>11 DEF PublishPush, Publish
  <2>. QED
    BY <2>1, GaugesPublished
<1>. QED
  BY <1>2, <1>3, <1>4, <1>5, <1>6, <1>7, <1>8, <1>9, <1>10, <1>11

\* Close comes to nothing while the pool is open, and the world has no gauges.
LEMMA GaugesElsewhere ==
    ASSUME TypeOK, FlowInv, GaugeFacts, Calm, Calm',
           \/ \E p \in Closers : CallClose(p)
           \/ \E p \in Procs : CloseStep(p)
           \/ Tick \/ Cancel \/ Finished \/ UNCHANGED vars
    PROVE  GaugeFacts'
<1>. USE DEF chanVars, syncVars, gaugeVars, connVars, world, At
<1>1. ASSUME NEW p \in Closers, CallClose(p) PROVE GaugeFacts'
  <2>1. /\ p \in Procs /\ Goto(p, "swap") /\ pc[p] = "idle"
        /\ UNCHANGED <<sample, chan, isInit, useCnt, metric>>
    BY <1>1 DEF CallClose, Call, Procs
  <2>. QED
    BY <2>1, GaugesOutside DEF Outside
<1>2. ASSUME NEW p \in Procs, CloseStep(p) PROVE FALSE
  <2>1. ~isClose /\ ~isClose' /\ pc[p] \notin {"drain", "close", "delete"}
    BY DEF Calm, FlowInv, CloseFirst
  <2>. QED
    BY <1>2, <2>1 DEF CloseStep, SwapClose, DrainOne, DrainEnd, CloseChan, DeleteMetric, Local
<1>3. CASE Tick \/ Cancel \/ Finished \/ UNCHANGED vars
  <2>1. UNCHANGED <<pc, sample, chan, isInit, useCnt, metric>>
    BY <1>3 DEF Tick, Cancel, Finished, vars
  <2>. QED
    BY <2>1 DEF GaugeFacts, UseCounted, InUse, SamplesGood, GoodSample, FullPublished, LastPublished, Cap
<1>. QED
  BY <1>1, <1>2, <1>3

\* Once all calls have returned, none of them failed and nobody closed the pool,
\* the gauges are exact, for any number of callers and any capacity.
THEOREM GaugesSettle == Spec => []SettledGauges
<1>1. Init => GaugeInv
  <2>. SUFFICES ASSUME Init PROVE GaugeFacts
    BY DEF GaugeInv
  <2>1. InUse = {} /\ useCnt = 0
    BY DEF Init, InUse, Counted, Procs
  <2>2. UseCounted
    BY <2>1, FS_EmptySet DEF UseCounted
  <2>3. \A u \in Users : pc[u] = "idle" /\ sample[u] = NoSample
    BY DEF Init, Procs
  <2>4. SamplesGood
    BY <2>3 DEF SamplesGood, GoodSample, NoSample
  <2>5. FullPublished /\ LastPublished
    BY <2>3 DEF Init, FullPublished, LastPublished, NoGauges, GaugeKeys
  <2>. QED
    BY <2>2, <2>4, <2>5 DEF GaugeFacts
<1>2. TypeOK /\ FlowInv /\ PushInv /\ GaugeInv /\ [Next]_vars => GaugeInv'
  <2>. SUFFICES ASSUME TypeOK, FlowInv, PushInv, GaugeInv, [Next]_vars, Calm' PROVE GaugeFacts'
    BY DEF GaugeInv
  <2>1. Calm /\ GaugeFacts
    BY CalmBefore DEF GaugeInv
  <2>2. ASSUME NEW u \in Users, UseStep(u) PROVE GaugeFacts'
    BY <2>1, <2>2, GaugesGet, GaugesUse DEF UseStep
  <2>. QED
    BY <2>1, <2>2, GaugesElsewhere DEF Next
<1>3. TypeOK /\ GaugeInv => SettledGauges
  <2>. SUFFICES ASSUME TypeOK, GaugeFacts, \A p \in Procs : pc[p] = "idle", isInit, accErr = 0
                PROVE  metric = [full |-> Cap, idle |-> Len(chan), use |-> 0, accErr |-> 0]
    BY DEF SettledGauges, GaugeInv, Calm
  <2>1. \A u \in Users : pc[u] = "idle"
    BY DEF Procs
  <2>2. metric["idle"] = Len(chan) /\ metric["use"] = 0
    BY <2>1 DEF GaugeFacts, LastPublished, Working
  <2>3. metric["full"] = Cap /\ metric["accErr"] = 0
    BY DEF GaugeFacts, FullPublished
  <2>4. metric \in [{"full", "idle", "use", "accErr"} -> Int]
    BY GaugeTypes DEF GaugeKeys
  <2>. QED
    BY <2>2, <2>3, <2>4
<1>. QED
  BY <1>1, <1>2, <1>3, TypeCorrect, FlowCorrect, PushCorrect, PTL DEF Spec
=============================================================================
