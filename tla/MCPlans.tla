------------------------------ MODULE MCPlans ------------------------------
(***************************************************************************)
(* The parameter buffers of cmd/oncecall_sync/plan, for model checking:    *)
(* the one in use, in the runs of a script (ScriptPlan), or the one of     *)
(* plan/new (PlanParamBuffer).  They share nothing, and a behaviour is one *)
(* of them; the other stays as it is.                                      *)
(*                                                                         *)
(* Of the scripts the first reads two columns, binds a row of them in a    *)
(* second read plan behind an IsNext, and writes both columns; the second  *)
(* initialises itself and another database; the others have no Init, or    *)
(* binds that fail.                                                        *)
(***************************************************************************)
EXTENDS ScriptPlan, MCPlanParamBuffer

VARIABLE which

From(p, c, r) == [plan |-> p, col |-> c, row |-> r]
Read(bind, fix, hasNext, cols) == [bind |-> bind, fix |-> fix, hasNext |-> hasNext, cols |-> cols]

TwoPlans ==
    [hasInit |-> TRUE, self |-> 0, other |-> {}, queries |-> 1,
     reads |-> <<Read("none", <<>>, TRUE, {a, b}),
                 Read("fix", <<From(1, a, 1), From(0, a, 0), From(3, a, 0)>>, FALSE, {b})>>,
     sync |-> [bind |-> "fix", fix |-> <<From(1, b, 1), From(0, a, 0)>>]]
Initialised ==
    [hasInit |-> TRUE, self |-> 1, other |-> {a}, queries |-> 2,
     reads |-> <<>>, sync |-> [bind |-> "none", fix |-> <<>>]]
Uninitialised == [TwoPlans EXCEPT !.hasInit = FALSE]
Wrong ==
    [hasInit |-> TRUE, self |-> 0, other |-> {}, queries |-> 1,
     reads |-> <<Read("vm", <<>>, FALSE, {a}), Read("wrong", <<>>, FALSE, {a})>>,
     sync |-> [bind |-> "wrong", fix |-> <<>>]]

MCScripts == {TwoPlans, Initialised, Uninitialised, Wrong}
MCTimes == {10, 12}

PlansInit ==
    /\ which \in {"script", "buffer"} /\ Init /\ BufferInit
    /\ which = "buffer" => /\ script = Uninitialised /\ absent = {}
                          /\ rowCap = CHOOSE n \in RowCaps : TRUE

PlansNext ==
    \/ which = "script" /\ Next /\ UNCHANGED <<which, bufferVars>>
    \/ which = "buffer" /\ BufferNext /\ UNCHANGED <<which, vars>>

\* FairSpec of ScriptPlan, of the behaviours that are a script's.
PlansSpec ==
    /\ PlansInit /\ [][PlansNext]_<<which, vars, bufferVars>>
    /\ WF_vars(which = "script" /\ RunStep)
    /\ \A n \in Runs : WF_vars(which = "script" /\ Watch(n))
=============================================================================
