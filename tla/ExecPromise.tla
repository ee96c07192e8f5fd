---------------------------- MODULE ExecPromise ----------------------------
(***************************************************************************)
(* What a caller of RunExecute is promised, whatever the connection is: a  *)
(* call has its effects while it runs and never later; an atomic call has  *)
(* all of them or none; a call that succeeds has had all of them, unless   *)
(* one of the faults the code cannot or does not see made it loose.  A call *)
(* that asks for a transaction is atomic, or split if it gets none.        *)
(***************************************************************************)
EXTENDS Integers

CONSTANTS Calls, MaxSize

VARIABLES phase,     (* of each call: "none", "run", "ok", "failed"        *)
          mode,      (* "atomic", "split", "each" or "loose"               *)
          size,      (* how many statements the caller asked for           *)
          effect     (* those that are durable                             *)

vars == <<phase, mode, size, effect>>

Init ==
    /\ phase = [c \in Calls |-> "none"] /\ mode = [c \in Calls |-> "each"]
    /\ size = [c \in Calls |-> 0] /\ effect = [c \in Calls |-> {}]

Begin(c, m, n) ==
    /\ phase[c] = "none" /\ phase' = [phase EXCEPT ![c] = "run"]
    /\ mode' = [mode EXCEPT ![c] = m] /\ size' = [size EXCEPT ![c] = n]
    /\ UNCHANGED effect

Step(c, p, m, new) ==
    /\ phase[c] = "run" /\ phase' = [phase EXCEPT ![c] = p]
    /\ m \in {mode[c], "loose"} /\ mode' = [mode EXCEPT ![c] = m]
    /\ effect[c] \subseteq new /\ new \subseteq 1..size[c]
    /\ m = "atomic" => new \in {{}, 1..size[c]}
    /\ p = "ok" /\ m # "loose" => new = 1..size[c]
    /\ effect' = [effect EXCEPT ![c] = new]
    /\ UNCHANGED size

Next == \E c \in Calls :
    \/ \E m \in {"atomic", "split", "each"}, n \in 0..MaxSize : Begin(c, m, n)
    \/ \E p \in {"run", "ok", "failed"}, m \in {mode[c], "loose"}, new \in SUBSET (1..size[c]) : Step(c, p, m, new)

Spec == Init /\ [][Next]_vars
=============================================================================
