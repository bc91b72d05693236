------------------------------- MODULE MCCache -------------------------------
(***************************************************************************)
(* Cache with a store of two entries and three keys, so that puts evict;   *)
(* the policy's TTL is longer than the store's and the queue has room for  *)
(* stale keys and for keys twice.                                          *)
(***************************************************************************)
EXTENDS Cache, TLC

Symmetry == Permutations(Requests) \cup Permutations(Keys) \cup Permutations(Bodies)

=============================================================================
