----------------------------- MODULE MCDispatch -----------------------------
(***************************************************************************)
(* Every way of dispatching, one behaviour per strategy, the dynamic router *)
(* among them.  Three calls over two deployments; weights 0 (rounded down)  *)
(* and 2; an index out of range among the models; an upstream with a limit  *)
(* of its own (1) and one with the default.                                *)
(***************************************************************************)
EXTENDS Dispatch, Discovery

CONSTANTS p1, p2, k1, k2

MCWeights == <<4, 15>>
MCModels == 0..2
MCRules == <<[on |-> {p2}, model |-> 2]>>
MCPrompts == {p1, p2}
MCStrategies == {"fallback", "cost", "chain", "pair", "round_robin", "latency",
                 "weighted", "semantic", "hedge", "dynamic"}
MCKeys == {k1, k2}
MCLimits == [k \in {k1} |-> 1]

MCInit == Init /\ RouterInit
MCNext ==
  \/ strategy # "dynamic" /\ Next /\ UNCHANGED routerVars
  \/ strategy = "dynamic" /\ RouterNext /\ UNCHANGED vars

MCFairness == WF_vars(Tick) /\ \A r \in Requests : WF_vars(Proceeds(r))
MCSpec == MCInit /\ [][MCNext]_<<vars, routerVars>> /\ MCFairness
=============================================================================
