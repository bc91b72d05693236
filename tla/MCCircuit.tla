----------------------------- MODULE MCCircuit -----------------------------
(***************************************************************************)
(* Circuit on a small instance: three requests in flight, two failures to  *)
(* trip, backoffs of 1, 2, 3 (capped) ticks.                               *)
(***************************************************************************)
EXTENDS Circuit

=============================================================================
