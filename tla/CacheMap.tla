------------------------------ MODULE CacheMap ------------------------------
(***************************************************************************)
(* What the cache of src/src/tower/cache.rs promises its users: a bounded  *)
(* map that may forget but never invents.  A write makes exactly its own   *)
(* value readable under its key and nothing is ever readable that was not  *)
(* the last write to its key.                                              *)
(***************************************************************************)
EXTENDS FiniteSets, Naturals

CONSTANTS Keys, Values, Capacity, Nothing

VARIABLE contents

Init == contents = [k \in Keys |-> Nothing]

Held == {k \in Keys : contents[k] # Nothing}

\* Every key but those of keep holds what it held or nothing.
ForgetsExcept(keep) ==
    \A k \in Keys \ keep : contents'[k] \in {contents[k], Nothing}

\* At most one other key is forgotten for a write, and only when the map is
\* full.
Write(k, v) ==
    /\ contents' \in [Keys -> Values \cup {Nothing}]
    /\ contents'[k] = v
    /\ ForgetsExcept({k})
    /\ LET lost == {j \in Held \ {k} : contents'[j] = Nothing}
       IN  /\ Cardinality(lost) <= 1
           /\ lost # {} => Cardinality(Held) >= Capacity
    /\ Cardinality(Held') <= Capacity

Forget(k) ==
    /\ contents[k] # Nothing
    /\ contents' = [contents EXCEPT ![k] = Nothing]

Next == \E k \in Keys : Forget(k) \/ \E v \in Values : Write(k, v)

Spec == Init /\ [][Next]_contents

=============================================================================
