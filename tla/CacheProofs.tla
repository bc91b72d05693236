---------------------------- MODULE CacheProofs -----------------------------
(***************************************************************************)
(* The exact response cache keeps its queue and its map in step, and       *)
(* implements the bounded forgetting map of CacheMap, for any number of    *)
(* requests, keys and entries: proofs of what MCCache checks on a store of *)
(* two entries.                                                            *)
(***************************************************************************)
EXTENDS Cache, FiniteSetTheorems, NaturalsInduction, TLAPS

-----------------------------------------------------------------------------
(* Sequences.                                                              *)

\* A non-empty set of naturals has a least element; taken of the set of
\* counterexamples to a statement, this is how induction is used below.
LEMMA LeastNumber ==
  ASSUME NEW T \in SUBSET Nat, T # {}
  PROVE  \E m \in T : \A k \in T : m <= k
<1> DEFINE Below == OpToRel(<, Nat)
<1>1. \E m \in T : \A k \in T : <<k, m>> \notin Below
  BY NatLessThanWellFounded, WFMin
<1>2. \A k, m \in Nat : k < m => <<k, m>> \in Below
  BY DEF OpToRel
<1> HIDE DEF Below
<1>3. PICK m \in T : \A k \in T : <<k, m>> \notin Below
  BY <1>1
<1>4. \A k \in T : ~(k < m)
  BY <1>2, <1>3
<1>5. QED
  BY <1>4

\* A queue holds finitely many keys.
LEMMA QueueIsFinite ==
  ASSUME NEW S, NEW q \in Seq(S)
  PROVE  /\ IsFiniteSet(Range(q))
         /\ Range(q) = {q[i] : i \in 1..Len(q)} /\ Len(q) \in Nat
<1>1. Len(q) \in Nat /\ DOMAIN q = 1..Len(q)
  OBVIOUS
<1>2. Range(q) = {q[i] : i \in 1..Len(q)}
  BY <1>1 DEF Range
<1>3. q \in [1..Len(q) -> Range(q)]
  BY <1>1, <1>2
<1>4. q \in Surjection(1..Len(q), Range(q))
  BY <1>2, <1>3 DEF Surjection
<1>5. IsFiniteSet(1..Len(q))
  BY <1>1, FS_Interval
<1>6. IsFiniteSet(Range(q))
  BY <1>4, <1>5, FS_Surjection
<1> QED BY <1>1, <1>2, <1>6

\* retain() takes every occurrence of a key out of the queue and nothing else.
LEMMA WithoutTakesOut ==
  ASSUME NEW S, NEW q \in Seq(S), NEW k
  PROVE  Without(q, k) \in Seq(S) /\ Range(Without(q, k)) = Range(q) \ {k}
<1> DEFINE n == Len(q)
           next(s, i) == IF q[i] = k THEN s ELSE Append(s, q[i])
           step(f, i) == IF i = 0 THEN <<>> ELSE next(f[i - 1], i)
           Kept(f, m) == f = [i \in 0..m |-> step(f, i)]
<1>1. n \in Nat /\ DOMAIN q = 1..n
  OBVIOUS
<1> HIDE DEF n, next
<1>2. \E f : Kept(f, n)
  <2> DEFINE Bad == {m \in 0..n : \A f : ~Kept(f, m)}
  <2> HIDE DEF Kept
  <2>1. Bad = {}
    <3> SUFFICES ASSUME Bad # {} PROVE FALSE
      OBVIOUS
    <3>1. PICK m \in Bad : \A h \in Bad : m <= h
      <4>1. Bad \in SUBSET Nat
        BY <1>1
      <4> HIDE DEF Bad
      <4> QED BY <4>1, LeastNumber
    <3>2. CASE m = 0
      <4>1. Kept([i \in 0..0 |-> <<>>], 0)
        BY DEF Kept
      <4> QED BY <3>1, <3>2, <4>1
    <3>3. CASE m > 0
      <4>1. m \in 0..n /\ m - 1 \in 0..n /\ m - 1 \notin Bad
        BY <1>1, <3>1, <3>3
      <4>2. PICK f : Kept(f, m - 1)
        BY <4>1
      <4> DEFINE g == [i \in 0..m |-> IF i = m THEN next(f[m - 1], m) ELSE f[i]]
      <4>3. \A i \in 0..(m - 1) : f[i] = step(f, i)
        BY <4>2 DEF Kept
      <4>4. \A i \in 0..m : g[i] = step(g, i)
        BY <1>1, <3>3, <4>1, <4>3
      <4>5. Kept(g, m)
        <5> HIDE DEF step
        <5> QED BY <4>4 DEF Kept
      <4> HIDE DEF g
      <4> QED BY <3>1, <4>5
    <3> QED BY <1>1, <3>1, <3>2, <3>3
  <2>2. n \in 0..n
    BY <1>1
  <2>3. n \notin Bad
    BY <2>1
  <2> QED BY <2>2, <2>3
<1> DEFINE kept == CHOOSE f : Kept(f, n)
<1>3. Kept(kept, n)
  <2> HIDE DEF Kept
  <2> QED BY <1>2
<1>4. Without(q, k) = kept[n]
  BY DEF Without, n, next
<1> HIDE DEF kept
<1>5. \A i \in 0..n : kept[i] = step(kept, i)
  BY <1>3
<1> DEFINE Right(i) == kept[i] \in Seq(S) /\ Range(kept[i]) = {q[j] : j \in 1..i} \ {k}
           Wrong == {i \in 0..n : ~Right(i)}
<1>6. \A i \in 0..n : Right(i)
  <2> HIDE DEF Right
  <2> SUFFICES ASSUME Wrong # {} PROVE FALSE
    OBVIOUS
  <2>1. PICK i \in Wrong : \A h \in Wrong : i <= h
    <3>1. Wrong \in SUBSET Nat
      BY <1>1
    <3> HIDE DEF Wrong
    <3> QED BY <3>1, LeastNumber
  <2>2. CASE i = 0
    <3>1. kept[0] = <<>>
      BY <1>1, <1>5
    <3>2. Range(<<>>) = {}
      BY DEF Range
    <3>3. {q[j] : j \in 1..0} = {}
      OBVIOUS
    <3>4. Right(0)
      BY <3>1, <3>2, <3>3 DEF Right
    <3> QED BY <2>1, <2>2, <3>4
  <2>3. CASE i > 0
    <3> DEFINE before == kept[i - 1]
    <3>1. i \in 1..n /\ i - 1 \in 0..n /\ Right(i - 1)
      BY <1>1, <2>1, <2>3
    <3>2. kept[i] = IF q[i] = k THEN before ELSE Append(before, q[i])
      BY <1>5, <3>1 DEF next
    <3>3. before \in Seq(S) /\ Range(before) = {q[j] : j \in 1..(i - 1)} \ {k} /\ q[i] \in S
      BY <1>1, <3>1 DEF Right
    <3> HIDE DEF before
    <3>4. {q[j] : j \in 1..i} = {q[j] : j \in 1..(i - 1)} \cup {q[i]}
      BY <1>1, <3>1
    <3>5. Append(before, q[i]) \in Seq(S) /\ Range(Append(before, q[i])) = Range(before) \cup {q[i]}
      <4> DEFINE after == Append(before, q[i])
      <4>1. /\ after \in Seq(S) /\ Len(after) = Len(before) + 1 /\ Len(before) \in Nat
            /\ after[Len(after)] = q[i]
            /\ \A j \in 1..Len(before) : after[j] = before[j]
        BY <3>1, <3>3
      <4>2. Range(after) = {after[j] : j \in 1..Len(after)} /\ Range(before) = {before[j] : j \in 1..Len(before)}
        BY <3>3, <4>1, QueueIsFinite
      <4> HIDE DEF after
      <4>3. Range(after) = Range(before) \cup {q[i]}
        BY <4>1, <4>2
      <4> QED BY <4>1, <4>3 DEF after
    <3>6. CASE q[i] = k
      <4>1. Right(i)
        BY <3>2, <3>3, <3>4, <3>6 DEF Right
      <4> QED BY <2>1, <4>1
    <3>7. CASE q[i] # k
      <4>1. kept[i] \in Seq(S) /\ Range(kept[i]) = Range(before) \cup {q[i]}
        BY <3>2, <3>5, <3>7
      <4>2. Range(kept[i]) = {q[j] : j \in 1..i} \ {k}
        BY <3>3, <3>4, <3>7, <4>1
      <4>3. Right(i)
        BY <4>1, <4>2 DEF Right
      <4> QED BY <2>1, <4>3
    <3> QED BY <3>6, <3>7
  <2> QED BY <1>1, <2>2, <2>3
<1>7. kept[n] \in Seq(S) /\ Range(kept[n]) = {q[j] : j \in 1..n} \ {k}
  <2>1. Right(n)
    <3> HIDE DEF Right
    <3> QED BY <1>1, <1>6
  <2> QED BY <2>1
<1>8. Range(q) = {q[j] : j \in 1..n}
  BY QueueIsFinite DEF n
<1> QED BY <1>4, <1>7, <1>8

\* A queue cut in two: each of its keys is in the front or in the back.
LEMMA QueueCut ==
  ASSUME NEW S, NEW q \in Seq(S), NEW n \in 0..Len(q)
  PROVE  /\ SubSeq(q, n + 1, Len(q)) \in Seq(S)
         /\ Range(SubSeq(q, 1, n)) = {q[i] : i \in 1..n}
         /\ Range(q) = Range(SubSeq(q, 1, n)) \cup Range(SubSeq(q, n + 1, Len(q)))
<1>1. Len(q) \in Nat /\ n \in Nat /\ n <= Len(q) /\ \A i \in 1..Len(q) : q[i] \in S
  BY QueueIsFinite
<1> DEFINE front == SubSeq(q, 1, n)
           back == SubSeq(q, n + 1, Len(q))
<1>2. front \in Seq(S) /\ Len(front) = n /\ \A i \in 1..n : front[i] = q[i]
  BY <1>1
<1>3. /\ back \in Seq(S) /\ Len(back) = Len(q) - n
      /\ \A i \in 1..(Len(q) - n) : back[i] = q[n + i]
  BY <1>1
<1>4. Range(front) = {front[i] : i \in 1..n} /\ Range(back) = {back[i] : i \in 1..(Len(q) - n)}
  BY <1>2, <1>3, QueueIsFinite
<1> HIDE DEF front, back
<1>5. Range(front) = {q[i] : i \in 1..n}
  BY <1>2, <1>4
<1>6. Range(back) = {q[i] : i \in (n + 1)..Len(q)}
  <2>1. \A i \in 1..(Len(q) - n) : n + i \in (n + 1)..Len(q) /\ back[i] = q[n + i]
    BY <1>1, <1>3
  <2>2. \A i \in (n + 1)..Len(q) : i - n \in 1..(Len(q) - n) /\ q[i] = back[i - n]
    BY <1>1, <1>3
  <2> QED BY <1>4, <2>1, <2>2
<1>7. Range(q) = {q[i] : i \in 1..Len(q)}
  BY QueueIsFinite
<1>8. Range(q) = Range(front) \cup Range(back)
  BY <1>1, <1>5, <1>6, <1>7
<1> QED BY <1>3, <1>5, <1>8 DEF front, back

-----------------------------------------------------------------------------
(* The store: the inductive invariant and what insert() does to it.        *)

Capacity == IF MaxEntries = 0 THEN 1 ELSE MaxEntries

\* The queue reaches every entry, and there are no more than the capacity.
CacheInv == LiveKeysOrdered /\ Cardinality(Present) <= Capacity

\* An entry is told from no entry by its body.
LEMMA EntryOrNot ==
  \A e \in Entry \cup {NoEntry} :
    /\ e # NoEntry <=> e.body # NoBody
    /\ e \in Entry <=> e # NoEntry
    /\ e.body \in Bodies \cup {Json, NoBody}
<1>1. Json # NoBody
  BY DEF Json, NoBody
<1>2. \A e \in Entry : e.body \in Bodies \cup {Json} /\ e.body # NoBody
  BY <1>1, BodiesAssumption DEF Entry
<1>3. NoEntry.body = NoBody
  BY DEF NoEntry
<1> HIDE DEF NoEntry
<1> QED BY <1>2, <1>3

\* Seen as the abstract map, the store holds the keys that are present.
LEMMA HeldKeys ==
  ASSUME TypeOK
  PROVE  Promise!Held = Present
BY EntryOrNot DEF TypeOK, Present, Promise!Held

\* The abstract map counts as the store does.
LEMMA SameCount ==
  \A S : Promise!Cardinality(S) = Cardinality(S)
BY DEF Promise!Cardinality, Cardinality

(* Only finitely many keys have an entry.                                     *)
LEMMA PresentIsFinite ==
  ASSUME CacheInv
  PROVE  IsFiniteSet(Present) /\ Cardinality(Present) \in Nat
<1>1. order \in Seq(Keys) /\ Present \in SUBSET Range(order)
  BY DEF CacheInv, LiveKeysOrdered, TypeOK
<1>2. IsFiniteSet(Range(order))
  BY <1>1, QueueIsFinite
<1>3. IsFiniteSet(Present)
  BY <1>1, <1>2, FS_Subset
<1> QED BY <1>3, FS_CardinalityType

\* Evicting the first n keys of the queue keeps the present keys behind them.
LEMMA Kept ==
  ASSUME CacheInv, NEW queue \in Seq(Keys), NEW n \in 0..Len(queue)
  PROVE  /\ Remaining(queue, n) = Present \ {queue[i] : i \in 1..n}
         /\ IsFiniteSet(Remaining(queue, n)) /\ Cardinality(Remaining(queue, n)) \in Nat
         /\ Cardinality(Remaining(queue, n)) = Cardinality(Present) => Remaining(queue, n) = Present
         /\ Cardinality(Remaining(queue, n)) <= Cardinality(Present)
<1>1. Remaining(queue, n) = Present \ {queue[i] : i \in 1..n}
  BY QueueCut DEF Remaining
<1>2. Remaining(queue, n) \in SUBSET Present /\ IsFiniteSet(Present)
  BY <1>1, PresentIsFinite
<1>3. /\ IsFiniteSet(Remaining(queue, n))
      /\ Cardinality(Remaining(queue, n)) <= Cardinality(Present)
      /\ Cardinality(Remaining(queue, n)) = Cardinality(Present) => Remaining(queue, n) = Present
  BY <1>2, FS_Subset
<1> QED BY <1>1, <1>3, FS_CardinalityType

\* The loop of insert() stops in time: one key that has an entry leaves at most,
\* none while the map has room, and the new entry fits.
LEMMA EvictionsAreFew ==
  ASSUME CacheInv, NEW k \in Keys, NEW queue \in Seq(Keys),
         Present \ {k} \subseteq Range(queue), NEW n \in Evictions(queue)
  PROVE  LET kept == Remaining(queue, n)
             lost == (Present \ {k}) \ kept
         IN  /\ kept \subseteq Present
             /\ IsFiniteSet(lost) /\ Cardinality(lost) <= 1
             /\ lost # {} => Cardinality(Present) >= Capacity
             /\ Cardinality(kept \cup {k}) <= Capacity
             /\ kept \ {k} \subseteq Range(SubSeq(queue, n + 1, Len(queue)))
<1> DEFINE kept == Remaining(queue, n)
           lost == (Present \ {k}) \ kept
<1> USE ConfigAssumption
<1>1. Len(queue) \in Nat /\ Range(queue) = {queue[i] : i \in 1..Len(queue)}
  BY QueueIsFinite
<1>2. /\ n \in 0..Len(queue)
      /\ n = Len(queue) \/ ~(Cardinality(kept) >= MaxEntries)
      /\ \A m \in 0..(n - 1) : Cardinality(Remaining(queue, m)) >= MaxEntries
  BY DEF Evictions, Full
<1>3. /\ kept = Present \ {queue[i] : i \in 1..n}
      /\ IsFiniteSet(kept) /\ Cardinality(kept) \in Nat
  BY <1>2, Kept
<1>4. IsFiniteSet(Present) /\ Cardinality(Present) \in Nat /\ Cardinality(Present) <= Capacity
  BY PresentIsFinite DEF CacheInv
<1>5. kept \subseteq Present /\ lost \in SUBSET Present /\ lost \subseteq {queue[i] : i \in 1..n}
  BY <1>3
<1> HIDE DEF kept, lost
<1>6. IsFiniteSet(lost) /\ Cardinality(lost) <= Cardinality(Present) /\ Cardinality(lost) \in Nat
  BY <1>4, <1>5, FS_Subset, FS_CardinalityType
<1>7. ASSUME lost # {}
      PROVE  Cardinality(lost) <= 1 /\ Cardinality(Present) >= Capacity
  <2>1. n \in 1..Len(queue)
    BY <1>1, <1>2, <1>5, <1>7
  <2>2. CASE MaxEntries = 0
    <3>1. Cardinality(Present) # 0
      BY <1>4, <1>5, <1>7, FS_EmptySet
    <3> QED BY <1>4, <1>6, <2>2, <3>1 DEF Capacity
  <2>3. CASE MaxEntries # 0
    <3>1. n - 1 \in 0..(n - 1) /\ n - 1 \in 0..Len(queue)
      BY <1>1, <2>1
    <3>2. /\ Cardinality(Remaining(queue, n - 1)) >= MaxEntries
          /\ Cardinality(Remaining(queue, n - 1)) \in Nat
          /\ Cardinality(Remaining(queue, n - 1)) <= Cardinality(Present)
      BY <1>2, <3>1, Kept
    <3>3. Cardinality(Remaining(queue, n - 1)) = Cardinality(Present) /\ Cardinality(Present) >= Capacity
      BY <1>4, <2>3, <3>2 DEF Capacity
    <3>4. Present = Present \ {queue[i] : i \in 1..(n - 1)}
      BY <3>1, <3>3, Kept
    <3>5. lost \in SUBSET {queue[n]}
      BY <1>1, <1>5, <2>1, <3>4
    <3>6. IsFiniteSet({queue[n]}) /\ Cardinality({queue[n]}) = 1
      BY FS_Singleton
    <3>7. Cardinality(lost) <= 1
      BY <3>5, <3>6, FS_Subset
    <3> QED BY <3>3, <3>7
  <2> QED BY <2>2, <2>3
<1>8. lost = {} => Cardinality(lost) <= 1
  BY FS_EmptySet
<1>9. Cardinality(kept \cup {k}) <= Capacity
  <2>1. CASE n = Len(queue)
    <3>1. kept \cup {k} = {k}
      BY <1>1, <1>3, <2>1
    <3>2. Cardinality({k}) = 1
      BY FS_Singleton
    <3>3. 1 <= Capacity
      BY DEF Capacity
    <3>4. Cardinality(kept \cup {k}) = 1
      BY <3>1, <3>2, Zenon
    <3> QED BY <3>3, <3>4
  <2>2. CASE ~(Cardinality(kept) >= MaxEntries)
    <3>1. Cardinality(kept \cup {k}) = IF k \in kept THEN Cardinality(kept) ELSE Cardinality(kept) + 1
      BY <1>3, FS_AddElement
    <3> QED BY <1>3, <2>2, <3>1 DEF Capacity
  <2> QED BY <1>2, <2>1, <2>2
<1>10. kept \ {k} \subseteq Range(SubSeq(queue, n + 1, Len(queue)))
  <2>1. /\ Range(SubSeq(queue, 1, n)) = {queue[i] : i \in 1..n}
        /\ Range(queue) = Range(SubSeq(queue, 1, n)) \cup Range(SubSeq(queue, n + 1, Len(queue)))
    BY <1>2, QueueCut
  <2> QED BY <1>3, <2>1
<1> QED BY <1>5, <1>6, <1>7, <1>8, <1>9, <1>10 DEF kept, lost

\* put() is a write of the abstract map, and keeps queue and map in step.
LEMMA InsertWrites ==
  ASSUME CacheInv, NEW k \in Keys, NEW b \in Bodies \cup {Json}, Insert(k, b)
  PROVE  /\ entries' \in [Keys -> Entry \cup {NoEntry}] /\ order' \in Seq(Keys)
         /\ Present' \subseteq Range(order') /\ Cardinality(Present') <= Capacity
         /\ Promise!Write(k, b)
<1> DEFINE queue == IF k \in Present THEN Without(order, k) ELSE order
<1>1. order \in Seq(Keys) /\ Present \subseteq Range(order) /\ entries \in [Keys -> Entry \cup {NoEntry}]
  BY DEF CacheInv, LiveKeysOrdered, TypeOK
<1>2. queue \in Seq(Keys) /\ Present \ {k} \subseteq Range(queue)
  BY <1>1, WithoutTakesOut
<1>3. PICK n \in Evictions(queue) :
        /\ order' = Append(SubSeq(queue, n + 1, Len(queue)), k)
        /\ StoreEntry(k, b, Remaining(queue, n))
  BY DEF Insert
<1> HIDE DEF queue
<1> DEFINE kept == Remaining(queue, n)
           lost == (Present \ {k}) \ kept
           back == SubSeq(queue, n + 1, Len(queue))
           new == [body |-> b, ttl |-> TTL, age |-> 0]
<1>4. /\ kept \subseteq Present
      /\ IsFiniteSet(lost) /\ Cardinality(lost) <= 1
      /\ lost # {} => Cardinality(Present) >= Capacity
      /\ Cardinality(kept \cup {k}) <= Capacity
      /\ kept \ {k} \subseteq Range(back)
  BY <1>2, EvictionsAreFew
<1>5. back \in Seq(Keys)
  <2>1. n \in 0..Len(queue)
    BY DEF Evictions
  <2> QED BY <1>2, <2>1, QueueCut
<1>6. new \in Entry /\ new.body = b
  BY ConfigAssumption DEF Entry
<1>7. /\ entries' = [j \in Keys |-> IF j = k THEN new ELSE IF j \in kept THEN entries[j] ELSE NoEntry]
      /\ order' = Append(back, k)
  BY <1>3 DEF StoreEntry
<1> HIDE DEF kept, lost, back, new
<1>8. entries' \in [Keys -> Entry \cup {NoEntry}]
  BY <1>1, <1>6, <1>7
<1>9. order' \in Seq(Keys) /\ Range(order') = Range(back) \cup {k}
  <2> DEFINE q == Append(back, k)
  <2>1. /\ q \in Seq(Keys) /\ Len(q) = Len(back) + 1 /\ Len(back) \in Nat
        /\ q[Len(q)] = k /\ \A j \in 1..Len(back) : q[j] = back[j]
    BY <1>5
  <2>2. Range(q) = {q[j] : j \in 1..Len(q)} /\ Range(back) = {back[j] : j \in 1..Len(back)}
    BY <1>5, <2>1, QueueIsFinite
  <2> HIDE DEF q
  <2>3. Range(q) = Range(back) \cup {k}
    BY <2>1, <2>2
  <2> QED BY <1>7, <2>1, <2>3 DEF q
<1>10. \A j \in Keys : entries'[j] = IF j = k THEN new ELSE IF j \in kept THEN entries[j] ELSE NoEntry
  BY <1>7
<1>11. new # NoEntry
  BY <1>6, EntryOrNot
<1>12. Present' = kept \cup {k}
  <2>1. Present' = {j \in Keys : entries'[j] # NoEntry}
    BY DEF Present
  <2> QED BY <1>4, <1>10, <1>11, <2>1 DEF Present
<1>13. Present' \subseteq Range(order') /\ Cardinality(Present') <= Capacity
  BY <1>4, <1>9, <1>12
<1>14. Promise!Write(k, b)
  <2> DEFINE old == [j \in Keys |-> entries[j].body]
             now == [j \in Keys |-> entries'[j].body]
  <2>1. \A j \in Keys : now[j] \in (Bodies \cup {Json}) \cup {NoBody}
    BY <1>8, EntryOrNot
  <2>2. now[k] = b
    BY <1>6, <1>10
  <2>3. \A j \in Keys \ {k} : now[j] \in {old[j], NoBody}
    BY <1>10 DEF NoEntry
  <2>4. \A j \in Keys : now[j] # NoBody <=> j \in Present'
    <3>1. \A j \in Keys : j \in Present' <=> entries'[j] # NoEntry
      BY DEF Present
    <3> QED BY <1>8, <3>1, EntryOrNot
  <2>5. \A j \in Keys : old[j] # NoBody <=> j \in Present
    BY <1>1, EntryOrNot DEF Present
  <2>6. {j \in Keys : now[j] # NoBody} = Present'
    BY <2>4 DEF Present
  <2>7. {j \in Keys : old[j] # NoBody} = Present
    BY <2>5 DEF Present
  <2>8. {j \in Present \ {k} : now[j] = NoBody} = lost
    BY <1>4, <1>12, <2>4 DEF lost, Present
  <2>9. now \in [Keys -> (Bodies \cup {Json}) \cup {NoBody}]
    BY <2>1
  <2> HIDE DEF old, now
  <2> QED
    BY <1>4, <1>13, <2>2, <2>3, <2>6, <2>7, <2>8, <2>9, SameCount
    DEF Promise!Write, Promise!Held, Promise!ForgetsExcept, old, now, Capacity
<1> QED BY <1>8, <1>9, <1>13, <1>14

-----------------------------------------------------------------------------
(* The requests.                                                           *)

\* What the abstract map sees of the store.
Contents == [k \in Keys |-> entries[k].body]

\* A step on entries only, that takes keys out at most, keeps the invariant.
LEMMA SmallerMapKeeps ==
  ASSUME CacheInv, TypeOK', order' = order, Present' \subseteq Present
  PROVE  CacheInv'
<1>1. Present' \in SUBSET Present /\ IsFiniteSet(Present) /\ Cardinality(Present) \in Nat
  BY PresentIsFinite
<1>2. IsFiniteSet(Present') /\ Cardinality(Present') <= Cardinality(Present)
  BY <1>1, FS_Subset
<1>3. Cardinality(Present') \in Nat
  BY <1>2, FS_CardinalityType
<1>4. Capacity \in Nat
  BY ConfigAssumption DEF Capacity
<1>5. Cardinality(Present') <= Capacity
  BY <1>1, <1>2, <1>3, <1>4 DEF CacheInv
<1> QED BY <1>5 DEF CacheInv, LiveKeysOrdered

\* A step that leaves the store alone.
LEMMA StoreStays ==
  ASSUME CacheInv, UNCHANGED storeVars,
         pc' \in [Requests -> {"idle", "lookup", "calling", "stored"}],
         key' \in [Requests -> Keys], body' \in [Requests -> Bodies]
  PROVE  CacheInv' /\ UNCHANGED Contents
BY DEF CacheInv, LiveKeysOrdered, TypeOK, storeVars, Present, Contents

\* A key loses its entry: the abstract map forgets it.
LEMMA DropForgets ==
  ASSUME CacheInv, NEW k \in Present, DropEntry(k),
         pc' \in [Requests -> {"idle", "lookup", "calling", "stored"}],
         key' \in [Requests -> Keys], body' \in [Requests -> Bodies]
  PROVE  CacheInv' /\ Promise!Forget(k)
<1>1. entries' = [entries EXCEPT ![k] = NoEntry] /\ order' = order /\ k \in Keys
  BY DEF DropEntry, Present
<1>2. entries \in [Keys -> Entry \cup {NoEntry}]
  BY DEF CacheInv, LiveKeysOrdered, TypeOK
<1>3. \A j \in Keys : entries'[j] = IF j = k THEN NoEntry ELSE entries[j]
  BY <1>1, <1>2
<1>4. TypeOK'
  BY <1>1 DEF CacheInv, LiveKeysOrdered, TypeOK
<1>5. Present' \subseteq Present
  BY <1>3 DEF Present
<1>6. Promise!Forget(k)
  <2>1. entries[k].body # NoBody
    BY <1>2, EntryOrNot DEF Present
  <2>2. NoEntry.body = NoBody
    BY DEF NoEntry
  <2> HIDE DEF NoEntry
  <2>3. \A j \in Keys : entries'[j].body = IF j = k THEN NoBody ELSE entries[j].body
    BY <1>3, <2>2
  <2> QED BY <1>1, <2>1, <2>3 DEF Promise!Forget
<1> QED BY <1>1, <1>4, <1>5, <1>6, SmallerMapKeeps

\* Ages and time-to-live change under the same bodies: the map does not move.
LEMMA AgesDoNotShow ==
  ASSUME CacheInv, entries' \in [Keys -> Entry \cup {NoEntry}], order' = order,
         \A k \in Keys : entries'[k].body = entries[k].body,
         pc' \in [Requests -> {"idle", "lookup", "calling", "stored"}],
         key' \in [Requests -> Keys], body' \in [Requests -> Bodies]
  PROVE  CacheInv' /\ UNCHANGED Contents
<1>1. TypeOK'
  BY DEF CacheInv, LiveKeysOrdered, TypeOK
<1>2. entries \in [Keys -> Entry \cup {NoEntry}]
  BY DEF CacheInv, LiveKeysOrdered, TypeOK
<1>3. \A k \in Keys : entries'[k] # NoEntry => entries[k] # NoEntry
  BY <1>2, EntryOrNot
<1>4. Present' \subseteq Present
  BY <1>3 DEF Present
<1>5. CacheInv'
  BY <1>1, <1>4, SmallerMapKeeps
<1>6. UNCHANGED Contents
  BY DEF Contents
<1> QED BY <1>5, <1>6

(* Every step of the cache keeps CacheInv and is a step of CacheMap or none.  *)
LEMMA CacheStep ==
  ASSUME CacheInv, [Next]_vars
  PROVE  CacheInv' /\ (Promise!Next \/ UNCHANGED Contents)
<1> DEFINE States == {"idle", "lookup", "calling", "stored"}
           Goal == CacheInv' /\ (Promise!Next \/ UNCHANGED Contents)
<1>1. /\ pc \in [Requests -> States] /\ key \in [Requests -> Keys] /\ body \in [Requests -> Bodies]
      /\ entries \in [Keys -> Entry \cup {NoEntry}]
  BY DEF CacheInv, LiveKeysOrdered, TypeOK
<1>2. \A r \in Requests, from, to \in States : MovesTo(r, from, to) => pc' \in [Requests -> States]
  BY <1>1 DEF MovesTo
<1>3. ASSUME NEW k \in Present, DropEntry(k), pc' \in [Requests -> States],
             key' \in [Requests -> Keys], body' \in [Requests -> Bodies]
      PROVE  Goal
  <2>1. k \in Keys
    BY DEF Present
  <2> QED BY <1>3, <2>1, DropForgets DEF Promise!Next
<1>4. ASSUME NEW k \in Keys, NEW b \in Bodies \cup {Json}, StorePut(k, b), pc' \in [Requests -> States],
             key' \in [Requests -> Keys], body' \in [Requests -> Bodies]
      PROVE  Goal
  <2>1. Insert(k, b)
    BY <1>4 DEF StorePut
  <2>2. /\ entries' \in [Keys -> Entry \cup {NoEntry}] /\ order' \in Seq(Keys)
        /\ Present' \subseteq Range(order') /\ Cardinality(Present') <= Capacity
        /\ Promise!Write(k, b)
    BY <2>1, InsertWrites
  <2>3. CacheInv'
    BY <1>4, <2>2 DEF CacheInv, LiveKeysOrdered, TypeOK
  <2>4. Promise!Next
    BY <2>2 DEF Promise!Next
  <2> QED BY <2>3, <2>4
<1>5. ASSUME NEW r \in Requests, NEW k \in Keys, NEW b \in Bodies, Call(r, k, b)
      PROVE  Goal
  <2>1. UNCHANGED storeVars /\ pc' \in [Requests -> States]
    BY <1>2, <1>5 DEF Call
  <2>2. key' \in [Requests -> Keys] /\ body' \in [Requests -> Bodies]
    BY <1>1, <1>5 DEF Call
  <2> QED BY <2>1, <2>2, StoreStays
<1>6. ASSUME NEW r \in Requests, Hit(r)
      PROVE  Goal
  <2>1. UNCHANGED <<storeVars, key, body>> /\ pc' \in [Requests -> States]
    BY <1>2, <1>6 DEF Hit
  <2> QED BY <1>1, <2>1, StoreStays
<1>7. ASSUME NEW r \in Requests, Miss(r)
      PROVE  Goal
  <2>1. UNCHANGED <<key, body>> /\ pc' \in [Requests -> States] /\ GetMisses(key[r], body[r])
    BY <1>2, <1>7 DEF Miss
  <2>2. CASE Expired(key[r]) /\ DropEntry(key[r])
    BY <1>1, <1>3, <2>1, <2>2 DEF Expired
  <2>3. CASE UNCHANGED storeVars
    BY <1>1, <2>1, <2>3, StoreStays
  <2> QED BY <2>1, <2>2, <2>3 DEF GetMisses
<1>8. ASSUME NEW r \in Requests, Put(r)
      PROVE  Goal
  <2>1. UNCHANGED <<key, body>> /\ pc' \in [Requests -> States] /\ StorePut(key[r], body[r])
    BY <1>2, <1>8 DEF Put
  <2>2. key[r] \in Keys /\ body[r] \in Bodies \cup {Json}
    BY <1>1
  <2> QED BY <1>1, <1>4, <2>1, <2>2
<1>9. ASSUME NEW r \in Requests, NEW k \in Keys, FailStored(r, k)
      PROVE  Goal
  <2>1. UNCHANGED <<key, body>> /\ pc' \in [Requests -> States] /\ StorePut(k, Json)
    BY <1>2, <1>9 DEF FailStored
  <2> QED BY <1>1, <1>4, <2>1
<1>10. ASSUME NEW r \in Requests, SetTTL(r)
       PROVE  Goal
  <2>1. UNCHANGED <<order, key, body>> /\ pc' \in [Requests -> States]
    BY <1>2, <1>10 DEF SetTTL
  <2> DEFINE k == key[r]
             e == IF entries[k] = NoEntry THEN entries[k] ELSE [entries[k] EXCEPT !.ttl = OverrideTTL]
  <2>2. k \in Keys /\ entries' = [entries EXCEPT ![k] = e]
    BY <1>1, <1>10 DEF SetTTL
  <2> HIDE DEF k
  <2>3. e \in Entry \cup {NoEntry} /\ e.body = entries[k].body
    <3>1. CASE entries[k] = NoEntry
      BY <3>1
    <3>2. CASE entries[k] # NoEntry
      <4>1. entries[k] \in Entry
        BY <1>1, <2>2, <3>2
      <4> HIDE DEF NoEntry
      <4> QED BY <3>2, <4>1 DEF Entry
    <3> QED BY <3>1, <3>2
  <2> HIDE DEF e
  <2>4. /\ entries' \in [Keys -> Entry \cup {NoEntry}]
        /\ \A j \in Keys : entries'[j].body = entries[j].body
    BY <1>1, <2>2, <2>3
  <2> QED BY <1>1, <2>1, <2>4, AgesDoNotShow
<1>11. ASSUME NEW r \in Requests, Leave(r)
       PROVE  Goal
  <2>1. UNCHANGED <<storeVars, key, body>> /\ pc' \in [Requests -> States]
    BY <1>1, <1>11 DEF Leave, MovesTo
  <2> QED BY <1>1, <2>1, StoreStays
<1>12. ASSUME NEW k \in Keys, RemoveKey(k)
       PROVE  Goal
  BY <1>1, <1>3, <1>12 DEF RemoveKey
<1>13. CASE Tick
  <2> DEFINE e(k) == IF k \in Present /\ entries[k].age < MaxAge
                     THEN [entries[k] EXCEPT !.age = @ + 1] ELSE entries[k]
  <2>1. entries' = [k \in Keys |-> e(k)] /\ UNCHANGED <<order, pc, key, body>>
    BY <1>13 DEF Tick
  <2>2. \A k \in Keys : e(k) \in Entry \cup {NoEntry} /\ e(k).body = entries[k].body
    <3> SUFFICES ASSUME NEW k \in Keys
                 PROVE  e(k) \in Entry \cup {NoEntry} /\ e(k).body = entries[k].body
      OBVIOUS
    <3>1. CASE k \in Present /\ entries[k].age < MaxAge
      <4>1. entries[k] \in Entry
        BY <1>1, <3>1 DEF Present
      <4>2. entries[k].age \in 0..MaxAge /\ MaxAge \in Nat
        BY <4>1, ConfigAssumption DEF Entry
      <4>3. entries[k].age + 1 \in 0..MaxAge
        BY <3>1, <4>2
      <4> QED BY <3>1, <4>1, <4>3 DEF Entry
    <3>2. CASE ~(k \in Present /\ entries[k].age < MaxAge)
      BY <1>1, <3>2
    <3> QED BY <3>1, <3>2
  <2> HIDE DEF e
  <2>3. /\ entries' \in [Keys -> Entry \cup {NoEntry}]
        /\ \A j \in Keys : entries'[j].body = entries[j].body
    BY <2>1, <2>2
  <2> QED BY <1>1, <2>1, <2>3, AgesDoNotShow
<1>14. CASE UNCHANGED vars
  BY <1>1, <1>14, StoreStays DEF vars, storeVars
<1> QED
  BY <1>5, <1>6, <1>7, <1>8, <1>9, <1>10, <1>11, <1>12, <1>13, <1>14 DEF Next, Lookup

\* The invariant holds: no entry is out of eviction's reach.
LEMMA InvariantHolds == Spec => []CacheInv
<1>1. Init => CacheInv
  <2> SUFFICES ASSUME Init PROVE CacheInv
    OBVIOUS
  <2>1. Present = {}
    BY DEF Init, Present
  <2>2. TypeOK
    BY DEF Init, TypeOK
  <2>3. Cardinality({}) <= Capacity
    BY FS_EmptySet, ConfigAssumption DEF Capacity
  <2> QED BY <2>1, <2>2, <2>3 DEF CacheInv, LiveKeysOrdered
<1>2. CacheInv /\ [Next]_vars => CacheInv'
  BY CacheStep
<1> QED BY <1>1, <1>2, PTL DEF Spec

\* Whatever expiries, removals, overwritings and evictions leave in the queue,
\* every entry's key is in it, for any number of keys and any queue length.
THEOREM EntriesStayInReach == Spec => []LiveKeysOrdered
<1>1. CacheInv => LiveKeysOrdered
  BY DEF CacheInv
<1> QED BY <1>1, InvariantHolds, PTL

\* The store implements the bounded forgetting map: a put makes its own response
\* readable, forgets one entry at most and none while there is room, and the
\* map never holds more than max_entries, for any max_entries and any keys.
THEOREM StoreImplementsMap == Spec => KeepsPromise
<1>1. Init => Promise!Init
  BY DEF Init, Promise!Init, NoEntry
<1>2. CacheInv /\ [Next]_vars => (Promise!Next \/ UNCHANGED Contents)
  BY CacheStep
<1>3. CacheInv /\ [Next]_vars => [Promise!Next]_Contents
  BY <1>2
<1> QED BY <1>1, <1>3, InvariantHolds, PTL DEF Spec, KeepsPromise, Promise!Spec, Contents
=============================================================================
