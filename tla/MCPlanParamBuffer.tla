------------------------- MODULE MCPlanParamBuffer -------------------------
(* A small instance of PlanParamBuffer for TLC: two tables, one with two    *)
(* columns, ragged matrices, and sequence numbers further apart than the    *)
(* idle limit of the cfg.                                                   *)
EXTENDS PlanParamBuffer

CONSTANTS a, b, x

MCColumnNames == [i \in 0..1 |-> IF i = 0 THEN {a, b} ELSE {a}]
MCSeqs == {1, 3}
MCRows == {<<x>>, <<NilCell, x>>}
=============================================================================
