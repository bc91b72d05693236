------------------------------ MODULE MCLimits ------------------------------
(***************************************************************************)
(* The two ways money and calls are limited, which share no state: the     *)
(* budget and the rate limit of requests (Limits), and a spending window   *)
(* of the budget ledger (SpendWindow).  A behaviour is one of one of them, *)
(* the other at rest.                                                      *)
(*                                                                         *)
(* Two requests of two models, so that both limits can be exceeded by late *)
(* records; a window of two ticks lets an observer see parts of two.  A    *)
(* spending window of two seconds that three threads read and add to: one  *)
(* that renews, one that comes too late and one that adds.  Four seconds   *)
(* are two windows and the calls that renew them.                          *)
(***************************************************************************)
EXTENDS Limits, SpendWindow, TLC

VARIABLE part   \* which of the two a behaviour is of

CONSTANTS m1, m2

MCModels == {m1, m2}
MCModelLimit == [m \in {m1, m2} |-> 1]
Symmetry ==
    Permutations(Requests) \cup Permutations(Models) \cup Permutations(Threads)

MCInit == part \in {"requests", "window"} /\ Init /\ WindowInit

MCNext ==
    \/ part = "requests" /\ Next /\ UNCHANGED <<part, windowVars>>
    \/ part = "window" /\ WindowNext /\ UNCHANGED <<part, vars>>

MCSpec == MCInit /\ [][MCNext]_<<part, vars, windowVars>>

=============================================================================
