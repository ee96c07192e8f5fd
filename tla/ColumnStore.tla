---------------------------- MODULE ColumnStore ----------------------------
(***************************************************************************)
(* What the parameter buffer of cmd/oncecall_sync/plan/new promises,       *)
(* whatever its memory layout: a table of columns, each a finite set of    *)
(* cells and the sequence number of its last write, where a write first    *)
(* drops the columns that nobody wrote for too long.  Module               *)
(* PlanParamBuffer runs it in step with the code and compares.             *)
(***************************************************************************)
EXTENDS Integers

CONSTANTS Tables,    (* the indexes of the tables                          *)
          NilCell,   (* writing NilCell empties a cell                     *)
          RowIdleSeq (* how far a column may lag; 0 or less stands for any *)

VARIABLE store       (* store[i][c]: the cells and seq of a column         *)

Empty == [k \in {} |-> NilCell]
StoreInit == store = [i \in Tables |-> Empty]

\* The columns of table i that survive a write with sequence number s.
Survivors(i, s) ==
    {c \in DOMAIN store[i] : RowIdleSeq <= 0 \/ store[i][c].seq >= s - RowIdleSeq}

\* The columns of new replace those of table i; all the others only age.
Replace(i, new, s) ==
    store' = [j \in Tables |->
        [c \in Survivors(j, s) \cup (IF j = i THEN DOMAIN new ELSE {}) |->
            IF j = i /\ c \in DOMAIN new THEN [cells |-> new[c], seq |-> s]
                                         ELSE store[j][c]]]

\* One cell is written, and the column keeps its other cells if it survives.
Put(i, c, r, d, s) ==
    LET old == IF c \in Survivors(i, s) THEN store[i][c].cells ELSE Empty
        rows == IF d = NilCell THEN DOMAIN old \ {r} ELSE DOMAIN old \cup {r}
    IN  Replace(i, [x \in {c} |-> [k \in rows |-> IF k = r THEN d ELSE old[k]]], s)
=============================================================================
