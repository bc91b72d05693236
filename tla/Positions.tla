------------------------------ MODULE Positions ------------------------------
(* Numbers in their order, and what a sequence holds at some of its positions. *)
EXTENDS Integers, Sequences, FiniteSets

\* The numbers of a set, in order.
InOrder(numbers) ==
  [k \in 1..Cardinality(numbers) |->
     CHOOSE i \in numbers : Cardinality({j \in numbers : j <= i}) = k]

Picked(seq, numbers) ==
  LET order == InOrder(numbers) IN [k \in DOMAIN order |-> seq[order[k]]]

=============================================================================
