------------------------------ MODULE ConnPool ------------------------------
(***************************************************************************)
(* What a pool of connections promises, whatever its algorithm: a          *)
(* connection is idle or held by one caller, at most Cap are idle, one     *)
(* that leaves the pool is closed, and only a pool that was shut loses     *)
(* connections without closing them.  extension/pool/timeout_pool.go is    *)
(* shown to implement it in module TimeoutPool.                            *)
(***************************************************************************)
EXTENDS Naturals, FiniteSets

CONSTANTS Users,     (* the goroutines that borrow connections             *)
          Cap        (* how many connections may be idle                   *)

VARIABLES opened,    (* connections are numbered 1..opened                 *)
          idle,      (* the connections waiting in the pool                *)
          held,      (* the connection each caller has borrowed, 0 if none *)
          closed,    (* the connections that were closed                   *)
          shut       (* Close was called                                   *)

poolVars == <<opened, idle, held, closed, shut>>

PoolInit ==
    /\ opened = 0
    /\ idle = {}
    /\ held = [u \in Users |-> 0]
    /\ closed = {}
    /\ shut = FALSE

\* A caller finds no idle connection and opens one.
Open(u) ==
    /\ held[u] = 0
    /\ opened' = opened + 1
    /\ held' = [held EXCEPT ![u] = opened + 1]
    /\ UNCHANGED <<idle, closed, shut>>

\* A caller takes an idle connection out of the pool.
Take(u) ==
    /\ held[u] = 0
    /\ \E c \in idle : /\ held' = [held EXCEPT ![u] = c]
                       /\ idle' = idle \ {c}
    /\ UNCHANGED <<opened, closed, shut>>

\* A caller gives its connection back, if there is room for it.
Park(u) ==
    /\ held[u] # 0
    /\ Cardinality(idle) < Cap
    /\ idle' = idle \cup {held[u]}
    /\ held' = [held EXCEPT ![u] = 0]
    /\ UNCHANGED <<opened, closed, shut>>

\* A caller closes its connection instead of giving it back.
Discard(u) ==
    /\ held[u] # 0
    /\ closed' = closed \cup {held[u]}
    /\ held' = [held EXCEPT ![u] = 0]
    /\ UNCHANGED <<opened, idle, shut>>

\* Only after Close may a caller drop its connection without closing it.
Abandon(u) ==
    /\ shut
    /\ held[u] # 0
    /\ held' = [held EXCEPT ![u] = 0]
    /\ UNCHANGED <<opened, idle, closed, shut>>

Shut ==
    /\ ~shut
    /\ shut' = TRUE
    /\ UNCHANGED <<opened, idle, held, closed>>

\* An idle connection is closed: it waited too long, or Close empties the pool.
Expel ==
    /\ \E c \in idle : /\ idle' = idle \ {c}
                       /\ closed' = closed \cup {c}
    /\ UNCHANGED <<opened, held, shut>>

PoolNext ==
    \/ \E u \in Users : Open(u) \/ Take(u) \/ Park(u) \/ Discard(u) \/ Abandon(u)
    \/ Shut
    \/ Expel

PoolSpec == PoolInit /\ [][PoolNext]_poolVars
=============================================================================
