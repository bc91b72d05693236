------------------------------- MODULE MCDedup -------------------------------
(***************************************************************************)
(* The two ways one execution serves several requests, which share no      *)
(* state: singleflight, and idempotency keys.  A behaviour is one of one   *)
(* of them, the other at rest.                                             *)
(*                                                                         *)
(* Singleflight with three requests over two keys: a leader with two       *)
(* followers, or two leaders of different keys, and every generation of    *)
(* requests after them, since slots are reused.  Idempotency with three    *)
(* requests on one key, two bodies and a TTL of one tick: entries expire   *)
(* while their owner executes.                                             *)
(***************************************************************************)
EXTENDS Singleflight, Idempotency

VARIABLE part   \* which of the two a behaviour is of

MCInit == part \in {"singleflight", "idempotency"} /\ Init /\ IdempotencyInit

MCNext ==
    \/ part = "singleflight" /\ Next /\ UNCHANGED <<part, idempotencyVars>>
    \/ part = "idempotency" /\ IdempotencyNext /\ UNCHANGED <<part, vars>>

MCSpec ==
    /\ MCInit /\ [][MCNext]_<<part, vars, idempotencyVars>>
    /\ Fairness /\ WF_idempotencyVars(Tick)

=============================================================================
