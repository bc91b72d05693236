------------------------------ MODULE ChatProofs ------------------------------
(***************************************************************************)
(* A conversation is faithful (Chat), for any messages, replies, options   *)
(* and ids.                                                                *)
(*                                                                         *)
(* The request is described by what each message adds to it: a message     *)
(* more is converted on its own and comes after the others (HistoryFits,   *)
(* HistoryOneMore).  A stream is described by what was told before the     *)
(* event at a place: its text, its calls and its ends (SumAt), and every   *)
(* event leads from one such sum to the next (DeliverFits).                *)
(***************************************************************************)
EXTENDS ClientProofs

-----------------------------------------------------------------------------
(* Chat: sequences of sequences, one after the other.                      *)

\* Nothing is made of nothing, and a sequence more comes last.
LEMMA FlattenOneMore ==
  ASSUME NEW S, NEW seqs \in Seq(Seq(S)), NEW x \in Seq(S)
  PROVE  /\ FlattenSeq(<<>>) = <<>>
         /\ FlattenSeq(Append(seqs, x)) = FlattenSeq(seqs) \o x
         /\ FlattenSeq(seqs) \in Seq(S)
<1> DEFINE Step(f, ls, k) == IF k = 1 THEN ls[k] ELSE f[k - 1] \o ls[k]
           Flattens(f, ls, n) == f = [k \in 1..n |-> Step(f, ls, k)]
           All(ls) == CHOOSE f : Flattens(f, ls, Len(ls))
<1>1. \A ls : FlattenSeq(ls) = IF Len(ls) = 0 THEN ls ELSE All(ls)[Len(ls)]
  BY DEF FlattenSeq
<1>2. ASSUME NEW ls \in Seq(Seq(S))
      PROVE  \A n \in 0..Len(ls) : \E f : Flattens(f, ls, n)
  <2> DEFINE Bad == {n \in 0..Len(ls) : \A f : ~Flattens(f, ls, n)}
  <2>0. Len(ls) \in Nat
    OBVIOUS
  <2> HIDE DEF Flattens
  <2> SUFFICES ASSUME Bad # {} PROVE FALSE
    OBVIOUS
  <2>1. PICK n \in Bad : \A h \in Bad : n <= h
    <3>1. Bad \in SUBSET Nat
      BY <2>0
    <3> HIDE DEF Bad
    <3> QED
      BY <3>1, LeastNumber
  <2>2. CASE n = 0
    <3>1. Flattens([k \in 1..0 |-> <<>>], ls, 0)
      BY DEF Flattens
    <3> QED
      BY <2>1, <2>2, <3>1
  <2>3. CASE n > 0
    <3>0. n \in 1..Len(ls) /\ n - 1 \in 0..Len(ls) /\ ~(n <= n - 1)
      BY <2>0, <2>1, <2>3
    <3>1. n \in 1..Len(ls) /\ n - 1 \in 0..Len(ls) /\ n - 1 \notin Bad
      <4> HIDE DEF Bad
      <4> QED
        BY <3>0, <2>1
    <3>2. PICK f : Flattens(f, ls, n - 1)
      BY <3>1
    <3> DEFINE g == [k \in 1..n |-> IF k = n THEN Step(f, ls, n) ELSE f[k]]
    <3>3. \A k \in 1..(n - 1) : f[k] = Step(f, ls, k)
      BY <3>2 DEF Flattens
    <3>4. \A k \in 1..n : g[k] = Step(g, ls, k)
      <4> HIDE DEF Step
      <4> TAKE k \in 1..n
      <4>0. k # 1 => k - 1 \in 1..(n - 1) /\ g[k - 1] = f[k - 1]
        BY <3>1
      <4>1. CASE k = n
        <5>1. g[k] = Step(f, ls, k)
          BY <3>1, <4>1
        <5> QED
          BY <4>0, <5>1 DEF Step
      <4>2. CASE k # n
        <5>1. k \in 1..(n - 1) /\ g[k] = f[k]
          BY <3>1, <4>2
        <5> QED
          BY <3>3, <4>0, <5>1 DEF Step
      <4> QED
        BY <4>1, <4>2
    <3>5. Flattens(g, ls, n)
      <4> HIDE DEF Step
      <4> QED
        BY <3>4 DEF Flattens
    <3> HIDE DEF g
    <3> QED
      BY <2>1, <3>5
  <2> QED
    BY <2>0, <2>1, <2>2, <2>3
<1>3. ASSUME NEW ls \in Seq(Seq(S))
      PROVE  \A k \in 1..Len(ls) : All(ls)[k] = Step(All(ls), ls, k)
  <2>1. Len(ls) \in 0..Len(ls)
    OBVIOUS
  <2>2. \E f : Flattens(f, ls, Len(ls))
    <3> HIDE DEF Flattens
    <3> QED
      BY <1>2, <2>1
  <2>3. Flattens(All(ls), ls, Len(ls))
    <3> HIDE DEF Flattens
    <3> QED
      BY <2>2
  <2> HIDE DEF All, Step
  <2> QED
    BY <2>3
<1> HIDE DEF All
<1> DEFINE more == Append(seqs, x)
<1>4. more \in Seq(Seq(S)) /\ Len(more) = Len(seqs) + 1 /\ Len(seqs) \in Nat
      /\ more[Len(seqs) + 1] = x /\ \A k \in 1..Len(seqs) : more[k] = seqs[k]
  OBVIOUS
<1> HIDE DEF more
<1>5. \A k \in 1..Len(seqs) : All(more)[k] = All(seqs)[k] /\ All(seqs)[k] \in Seq(S)
  <2> DEFINE Bad == {k \in 1..Len(seqs) : ~(All(more)[k] = All(seqs)[k] /\ All(seqs)[k] \in Seq(S))}
  <2> SUFFICES ASSUME Bad # {} PROVE FALSE
    OBVIOUS
  <2>1. PICK k \in Bad : \A h \in Bad : k <= h
    <3>1. Bad \in SUBSET Nat
      BY <1>4
    <3> HIDE DEF Bad
    <3> QED
      BY <3>1, LeastNumber
  <2>2. k \in 1..Len(seqs) /\ k \in 1..Len(more) /\ more[k] = seqs[k] /\ seqs[k] \in Seq(S)
    BY <1>4, <2>1
  <2>3. All(more)[k] = Step(All(more), more, k) /\ All(seqs)[k] = Step(All(seqs), seqs, k)
    <3> HIDE DEF Step
    <3> QED
      BY <1>3, <1>4, <2>2
  <2>4. k # 1
    BY <2>1, <2>2, <2>3
  <2>5. k - 1 \in 1..Len(seqs) /\ k - 1 \notin Bad
    BY <1>4, <2>1, <2>2, <2>4
  <2>6. All(more)[k - 1] = All(seqs)[k - 1] /\ All(seqs)[k - 1] \in Seq(S)
    BY <1>4, <2>5
  <2>7. All(seqs)[k - 1] \o seqs[k] \in Seq(S)
    BY <2>2, <2>6, ConcatProperties
  <2> QED
    BY <2>1, <2>2, <2>3, <2>4, <2>6, <2>7
<1>6. FlattenSeq(<<>>) = <<>>
  BY <1>1
<1>7. FlattenSeq(seqs) \in Seq(S)
  <2>1. CASE Len(seqs) = 0
    <3>1. seqs = <<>>
      BY <2>1, EmptySeq
    <3>2. <<>> \in Seq(S)
      OBVIOUS
    <3> QED
      BY <1>6, <3>1, <3>2
  <2>2. CASE Len(seqs) # 0
    <3>1. Len(seqs) \in 1..Len(seqs)
      BY <1>4, <2>2
    <3> QED
      BY <1>1, <1>5, <2>2, <3>1
  <2> QED
    BY <2>1, <2>2
<1>8. FlattenSeq(more) = FlattenSeq(seqs) \o x
  <2>0. Len(more) \in 1..Len(more) /\ Len(more) # 0
    BY <1>4
  <2>1. FlattenSeq(more) = Step(All(more), more, Len(seqs) + 1)
    <3> HIDE DEF Step
    <3> QED
      BY <1>1, <1>3, <1>4, <2>0
  <2>2. CASE Len(seqs) = 0
    <3>1. FlattenSeq(more) = x
      BY <1>4, <2>1, <2>2
    <3>2. FlattenSeq(seqs) = <<>>
      BY <1>1, <2>2
    <3> QED
      BY <3>1, <3>2, ConcatEmptySeq
  <2>3. CASE Len(seqs) # 0
    <3>1. Len(seqs) \in 1..Len(seqs) /\ Len(seqs) + 1 # 1 /\ (Len(seqs) + 1) - 1 = Len(seqs)
      BY <1>4, <2>3
    <3>2. FlattenSeq(more) = All(more)[Len(seqs)] \o x
      BY <1>4, <2>1, <3>1
    <3>3. FlattenSeq(seqs) = All(seqs)[Len(seqs)]
      BY <1>1, <2>3
    <3> QED
      BY <1>5, <3>1, <3>2, <3>3
  <2> QED
    BY <2>2, <2>3
<1> QED
  BY <1>6, <1>7, <1>8 DEF more

\* What is added to the last sequence comes last.
LEMMA FlattenLastMore ==
  ASSUME NEW S, NEW seqs \in Seq(Seq(S)), seqs # <<>>, NEW x \in Seq(S)
  PROVE  FlattenSeq([seqs EXCEPT ![Len(seqs)] = @ \o x]) = FlattenSeq(seqs) \o x
<1>1. PICK s \in Seq(Seq(S)), e \in Seq(S) : seqs = Append(s, e)
  BY SequenceEmptyOrAppend
<1>2. e \o x \in Seq(S) /\ FlattenSeq(s) \in Seq(S)
  BY ConcatProperties, FlattenOneMore
<1>3. [seqs EXCEPT ![Len(seqs)] = @ \o x] = Append(s, e \o x)
  <2> DEFINE a == [seqs EXCEPT ![Len(seqs)] = @ \o x]
             b == Append(s, e \o x)
             n == Len(s) + 1
  <2>1. Len(s) \in Nat /\ n \in Nat /\ Len(seqs) = n /\ seqs[n] = e /\ (\A i \in 1..Len(s) : seqs[i] = s[i])
        /\ DOMAIN seqs = 1..n
    BY <1>1
  <2>2. b \in Seq(Seq(S)) /\ Len(b) = n /\ b[n] = e \o x /\ (\A i \in 1..Len(s) : b[i] = s[i])
    BY <1>2
  <2>3. a = [i \in 1..n |-> IF i = n THEN e \o x ELSE seqs[i]]
    BY <2>1
  <2>4. b = [i \in 1..n |-> b[i]]
    <3> HIDE DEF b
    <3> QED
      BY <2>2
  <2> HIDE DEF a, b
  <2>5. \A i \in 1..n : b[i] = IF i = n THEN e \o x ELSE seqs[i]
    <3> TAKE i \in 1..n
    <3>1. i # n => i \in 1..Len(s)
      BY <2>1
    <3> QED
      BY <2>1, <2>2, <3>1
  <2> QED
    BY <2>3, <2>4, <2>5 DEF a, b
<1>4. FlattenSeq(Append(s, e \o x)) = FlattenSeq(s) \o (e \o x) /\ FlattenSeq(seqs) = FlattenSeq(s) \o e
  BY <1>1, <1>2, FlattenOneMore
<1>5. (FlattenSeq(s) \o e) \o x = FlattenSeq(s) \o (e \o x)
  BY <1>2, ConcatAssociative
<1> QED
  BY <1>3, <1>4, <1>5

\* If all but the first are empty, what is made of them is the first.
LEMMA FlattenFirst ==
  ASSUME NEW S, NEW seqs \in Seq(Seq(S)), \A i \in 2..Len(seqs) : seqs[i] = <<>>
  PROVE  FlattenSeq(seqs) = IF seqs = <<>> THEN <<>> ELSE seqs[1]
<1> DEFINE Fine(ls) == (\A i \in 2..Len(ls) : ls[i] = <<>>) => FlattenSeq(ls) = IF ls = <<>> THEN <<>> ELSE ls[1]
           Bad == {n \in Nat : \E ls \in Seq(Seq(S)) : Len(ls) = n /\ ~Fine(ls)}
<1> SUFFICES ASSUME Bad # {} PROVE FALSE
  <2>1. Len(seqs) \in Nat
    OBVIOUS
  <2>2. Fine(seqs)
    <3> SUFFICES ASSUME ~Fine(seqs) PROVE FALSE
      OBVIOUS
    <3> HIDE DEF Fine
    <3> QED
      BY <2>1
  <2> QED
    BY <2>2
<1>1. PICK n \in Bad : \A m \in Bad : n <= m
  <2>1. Bad \in SUBSET Nat
    OBVIOUS
  <2> HIDE DEF Bad
  <2> QED
    BY <2>1, LeastNumber
<1>2. PICK ls \in Seq(Seq(S)) : Len(ls) = n /\ ~Fine(ls)
  <2> HIDE DEF Fine
  <2> QED
    BY <1>1
<1>0. FlattenSeq(<<>>) = <<>>
  BY DEF FlattenSeq
<1>3. ls # <<>>
  BY <1>0, <1>2
<1>4. PICK s \in Seq(Seq(S)), e \in Seq(S) : ls = Append(s, e)
  BY <1>3, SequenceEmptyOrAppend
<1>5. Len(s) \in Nat /\ Len(ls) = Len(s) + 1 /\ ls[Len(s) + 1] = e /\ (\A i \in 1..Len(s) : ls[i] = s[i])
      /\ Len(s) < n
  BY <1>2, <1>4
<1>6. Fine(s)
  <2> HIDE DEF Fine
  <2>1. Len(s) \notin Bad
    <3> HIDE DEF Bad
    <3>1. ~(n <= Len(s)) /\ n \in Nat
      BY <1>2, <1>5
    <3> QED
      BY <1>1, <3>1
  <2> QED
    BY <1>5, <2>1
<1>7. FlattenSeq(ls) = FlattenSeq(s) \o e
  BY <1>4, FlattenOneMore
<1> HIDE DEF Bad
<1>8. \A i \in 2..Len(ls) : ls[i] = <<>>
  BY <1>2
<1>9. FlattenSeq(ls) # ls[1]
  BY <1>2, <1>3
<1> HIDE DEF Fine
<1>10. CASE Len(s) = 0
  <2>1. s = <<>>
    BY <1>10, EmptySeq
  <2>2. FlattenSeq(ls) = e
    BY <1>7, <2>1, FlattenOneMore, ConcatEmptySeq
  <2>3. ls[1] = e
    BY <1>5, <1>10
  <2> QED
    BY <1>9, <2>2, <2>3
<1>11. CASE Len(s) # 0
  <2>1. \A i \in 2..Len(s) : i \in 2..Len(ls) /\ i \in 1..Len(s)
    BY <1>5
  <2>2. \A i \in 2..Len(s) : s[i] = <<>>
    BY <1>5, <1>8, <2>1
  <2>3. s # <<>> /\ 1 \in 1..Len(s) /\ Len(s) + 1 \in 2..Len(ls)
    BY <1>5, <1>11
  <2>4. FlattenSeq(s) = s[1] /\ s[1] \in Seq(S)
    BY <1>6, <2>2, <2>3 DEF Fine
  <2>5. e = <<>>
    BY <1>5, <1>8, <2>3
  <2> QED
    BY <1>5, <1>7, <1>9, <2>3, <2>4, <2>5, ConcatEmptySeq
<1> QED
  BY <1>10, <1>11

-----------------------------------------------------------------------------
(* Chat: what is picked out of a sequence.                                 *)

\* The numbers of an interval are in order.
LEMMA IntervalOrder ==
  ASSUME NEW a \in Nat, NEW n \in Nat
  PROVE  InOrder((a + 1)..(a + n)) = [k \in 1..n |-> a + k]
<1> DEFINE S == (a + 1)..(a + n)
<1>1. S \in SUBSET (1..(a + n)) /\ a + n \in Nat
  OBVIOUS
<1>2. Cardinality(S) = n
  <2>1. Cardinality((a + 1)..(a + n)) = IF a + 1 > a + n THEN 0 ELSE (a + n) - (a + 1) + 1
    BY FS_Interval
  <2> QED
    BY <2>1
<1>3. \A k \in 1..n : Rank(S, a + k) = k /\ a + k \in S
  <2> TAKE k \in 1..n
  <2>1. {j \in S : j <= a + k} = (a + 1)..(a + k)
    OBVIOUS
  <2>2. Cardinality((a + 1)..(a + k)) = IF a + 1 > a + k THEN 0 ELSE (a + k) - (a + 1) + 1
    BY FS_Interval
  <2>3. a + k \in S
    OBVIOUS
  <2> HIDE DEF S
  <2>4. ~(a + 1 > a + k) /\ (a + k) - (a + 1) + 1 = k
    OBVIOUS
  <2> QED
    BY <2>1, <2>2, <2>3, <2>4 DEF Rank
<1> HIDE DEF S
<1>4. \A k \in 1..n : InOrder(S)[k] = a + k
  BY <1>1, <1>3, Ordered
<1>5. InOrder(S) = [k \in 1..n |-> InOrder(S)[k]]
  BY <1>1, <1>2, Ordered
<1> QED
  BY <1>4, <1>5 DEF S

\* What is picked is what is at the positions, in their order.
LEMMA PickedIs ==
  ASSUME NEW S, NEW s \in Seq(S), NEW N \in SUBSET (1..Len(s))
  PROVE  /\ Picked(s, N) \in Seq(S) /\ Len(Picked(s, N)) = Cardinality(N) /\ Cardinality(N) \in Nat
         /\ \A k \in 1..Cardinality(N) : InOrder(N)[k] \in N /\ Picked(s, N)[k] = s[InOrder(N)[k]]
         /\ \A i \in N : \E k \in 1..Cardinality(N) : Picked(s, N)[k] = s[i]
<1> DEFINE o == InOrder(N)
           c == Cardinality(N)
<1>1. Len(s) \in Nat
  OBVIOUS
<1>2. /\ DOMAIN o = 1..c /\ c \in Nat
      /\ \A k \in 1..c : o[k] \in N
      /\ \A i \in N : Rank(N, i) \in 1..c /\ o[Rank(N, i)] = i
  BY <1>1, Ordered, Ranks
<1>3. Picked(s, N) = [k \in DOMAIN o |-> s[o[k]]]
  BY DEF Picked
<1> HIDE DEF o, c
<1>4. Picked(s, N) = [k \in 1..c |-> s[o[k]]]
  BY <1>2, <1>3
<1>5. \A k \in 1..c : s[o[k]] \in S
  <2> TAKE k \in 1..c
  <2>1. o[k] \in 1..Len(s)
    BY <1>2
  <2> QED
    BY <2>1, ElementOfSeq
<1>6. Picked(s, N) \in Seq(S) /\ Len(Picked(s, N)) = c
  BY <1>2, <1>4, <1>5
<1>7. \A i \in N : \E k \in 1..c : Picked(s, N)[k] = s[i]
  BY <1>2, <1>4
<1> QED
  BY <1>2, <1>4, <1>6, <1>7 DEF o, c

\* What follows is not picked.
LEMMA PickedHead ==
  ASSUME NEW S, NEW s \in Seq(S), NEW t \in Seq(S), NEW N \in SUBSET (1..Len(s))
  PROVE  Picked(s \o t, N) = Picked(s, N)
<1>1. Len(s) \in Nat /\ Len(t) \in Nat /\ s \o t \in Seq(S) /\ Len(s \o t) = Len(s) + Len(t)
      /\ \A i \in 1..Len(s) : (s \o t)[i] = s[i]
  BY ConcatProperties
<1>2. N \in SUBSET (1..Len(s \o t))
  BY <1>1
<1> DEFINE p == Picked(s \o t, N)
           q == Picked(s, N)
<1>3. p \in Seq(S) /\ q \in Seq(S) /\ Len(p) = Len(q) /\ Len(q) = Cardinality(N)
  BY <1>1, <1>2, PickedIs
<1>4. \A k \in 1..Cardinality(N) : p[k] = q[k]
  <2> TAKE k \in 1..Cardinality(N)
  <2>1. InOrder(N)[k] \in N /\ p[k] = (s \o t)[InOrder(N)[k]] /\ q[k] = s[InOrder(N)[k]]
    BY <1>1, <1>2, PickedIs
  <2> QED
    BY <1>1, <2>1
<1> HIDE DEF p, q
<1>5. p = q
  BY <1>3, <1>4, SeqEqual
<1> QED
  BY <1>5 DEF p, q

\* All that follows is picked.
LEMMA PickedTail ==
  ASSUME NEW S, NEW s \in Seq(S), NEW t \in Seq(S)
  PROVE  Picked(s \o t, (Len(s) + 1)..(Len(s) + Len(t))) = t
<1> DEFINE N == (Len(s) + 1)..(Len(s) + Len(t))
           p == Picked(s \o t, N)
<1>1. Len(s) \in Nat /\ Len(t) \in Nat /\ s \o t \in Seq(S) /\ Len(s \o t) = Len(s) + Len(t)
      /\ \A i \in 1..Len(t) : (s \o t)[Len(s) + i] = t[i]
  <2>1. \A i \in 1..(Len(s) + Len(t)) : (s \o t)[i] = IF i <= Len(s) THEN s[i] ELSE t[i - Len(s)]
    BY ConcatProperties
  <2>2. Len(s) \in Nat /\ Len(t) \in Nat
    OBVIOUS
  <2>3. \A i \in 1..Len(t) : Len(s) + i \in 1..(Len(s) + Len(t)) /\ ~(Len(s) + i <= Len(s)) /\ (Len(s) + i) - Len(s) = i
    BY <2>2
  <2> QED
    BY <2>1, <2>2, <2>3, ConcatProperties
<1>2. N \in SUBSET (1..Len(s \o t)) /\ InOrder(N) = [k \in 1..Len(t) |-> Len(s) + k]
  BY <1>1, IntervalOrder
<1>3. Cardinality(N) = Len(t)
  <2>1. Cardinality(N) = IF Len(s) + 1 > Len(s) + Len(t) THEN 0 ELSE (Len(s) + Len(t)) - (Len(s) + 1) + 1
    <3>1. Len(s) + 1 \in Int /\ Len(s) + Len(t) \in Int
      BY <1>1
    <3> QED
      BY <3>1, FS_Interval DEF N
  <2> QED
    BY <1>1, <2>1
<1> HIDE DEF N
<1> DEFINE w == s \o t
<1> HIDE DEF w
<1>4. p \in Seq(S) /\ Len(p) = Len(t) /\ \A k \in 1..Len(t) : p[k] = (s \o t)[InOrder(N)[k]]
  <2>1. w \in Seq(S) /\ N \in SUBSET (1..Len(w))
    BY <1>1, <1>2 DEF w
  <2>2. /\ Picked(w, N) \in Seq(S) /\ Len(Picked(w, N)) = Cardinality(N)
        /\ \A k \in 1..Cardinality(N) : Picked(w, N)[k] = w[InOrder(N)[k]]
    BY <2>1, PickedIs
  <2> QED
    BY <1>3, <2>2 DEF w
<1>5. \A k \in 1..Len(t) : p[k] = t[k]
  BY <1>1, <1>2, <1>4
<1> HIDE DEF p
<1>6. p = t
  BY <1>4, <1>5, SeqEqual
<1> QED
  BY <1>6 DEF p, N

-----------------------------------------------------------------------------
(* Chat: the history, as it is sent.                                       *)

\* A message more is merged into those before, unless it is a system message.
LEMMA MessagesOneMore ==
  ASSUME NEW S, NEW history \in Seq(S), NEW m \in S, NEW p
  PROVE  /\ Messages(p, <<>>) = <<>>
         /\ Messages(p, Append(history, m)) =
              IF IsSystem(m) THEN Messages(p, history)
              ELSE Merge(p, Messages(p, history), Converted(p, m, Len(history) + 1))
<1> DEFINE Step(f, ls, k) == IF k = 0 THEN <<>>
                            ELSE IF IsSystem(ls[k]) THEN f[k - 1] ELSE Merge(p, f[k - 1], Converted(p, ls[k], k))
           Merges(f, ls, n) == f = [k \in 0..n |-> Step(f, ls, k)]
           All(ls) == CHOOSE f : Merges(f, ls, Len(ls))
<1>1. \A ls : Messages(p, ls) = All(ls)[Len(ls)]
  BY DEF Messages
<1>2. ASSUME NEW ls \in Seq(S)
      PROVE  \A n \in 0..Len(ls) : \E f : Merges(f, ls, n)
  <2> DEFINE Bad == {n \in 0..Len(ls) : \A f : ~Merges(f, ls, n)}
  <2>0. Len(ls) \in Nat
    OBVIOUS
  <2> HIDE DEF Merges
  <2> SUFFICES ASSUME Bad # {} PROVE FALSE
    OBVIOUS
  <2>1. PICK n \in Bad : \A h \in Bad : n <= h
    <3>1. Bad \in SUBSET Nat
      BY <2>0
    <3> HIDE DEF Bad
    <3> QED
      BY <3>1, LeastNumber
  <2>2. CASE n = 0
    <3>1. Merges([k \in 0..0 |-> <<>>], ls, 0)
      BY DEF Merges
    <3> QED
      BY <2>1, <2>2, <3>1
  <2>3. CASE n > 0
    <3>0. n \in 1..Len(ls) /\ n - 1 \in 0..Len(ls) /\ ~(n <= n - 1)
      BY <2>0, <2>1, <2>3
    <3>1. n \in 1..Len(ls) /\ n - 1 \in 0..Len(ls) /\ n - 1 \notin Bad
      <4> HIDE DEF Bad
      <4> QED
        BY <3>0, <2>1
    <3>2. PICK f : Merges(f, ls, n - 1)
      BY <3>1
    <3> DEFINE g == [k \in 0..n |-> IF k = n THEN Step(f, ls, n) ELSE f[k]]
    <3>3. \A k \in 0..(n - 1) : f[k] = Step(f, ls, k)
      BY <3>2 DEF Merges
    <3>4. \A k \in 0..n : g[k] = Step(g, ls, k)
      <4> HIDE DEF Step
      <4> TAKE k \in 0..n
      <4>0. k # 0 => k - 1 \in 0..(n - 1) /\ g[k - 1] = f[k - 1]
        BY <3>1
      <4>1. CASE k = n
        <5>1. g[k] = Step(f, ls, k) /\ k # 0
          BY <3>1, <4>1
        <5> QED
          BY <4>0, <5>1 DEF Step
      <4>2. CASE k # n
        <5>1. k \in 0..(n - 1) /\ g[k] = f[k]
          BY <3>1, <4>2
        <5>2. Step(f, ls, k) = Step(g, ls, k)
          BY <4>0, <3>1 DEF Step
        <5> QED
          BY <3>3, <5>1, <5>2
      <4> QED
        BY <4>1, <4>2
    <3>5. Merges(g, ls, n)
      <4> HIDE DEF Step
      <4> QED
        BY <3>4 DEF Merges
    <3> HIDE DEF g
    <3> QED
      BY <2>1, <3>5
  <2> QED
    BY <2>0, <2>1, <2>2, <2>3
<1>3. ASSUME NEW ls \in Seq(S)
      PROVE  \A k \in 0..Len(ls) : All(ls)[k] = Step(All(ls), ls, k)
  <2>1. Len(ls) \in 0..Len(ls)
    OBVIOUS
  <2>2. \E f : Merges(f, ls, Len(ls))
    <3> HIDE DEF Merges
    <3> QED
      BY <1>2, <2>1
  <2>3. Merges(All(ls), ls, Len(ls))
    <3> HIDE DEF Merges
    <3> QED
      BY <2>2
  <2> HIDE DEF All, Step
  <2> QED
    BY <2>3
<1> HIDE DEF All
<1> DEFINE more == Append(history, m)
<1>4. more \in Seq(S) /\ Len(more) = Len(history) + 1 /\ Len(history) \in Nat
      /\ more[Len(history) + 1] = m /\ \A k \in 1..Len(history) : more[k] = history[k]
  OBVIOUS
<1> HIDE DEF more
<1>5. \A k \in 0..Len(history) : All(more)[k] = All(history)[k]
  <2> DEFINE Bad == {k \in 0..Len(history) : All(more)[k] # All(history)[k]}
  <2> SUFFICES ASSUME Bad # {} PROVE FALSE
    OBVIOUS
  <2>1. PICK k \in Bad : \A h \in Bad : k <= h
    <3>1. Bad \in SUBSET Nat
      BY <1>4
    <3> HIDE DEF Bad
    <3> QED
      BY <3>1, LeastNumber
  <2>2. k \in 0..Len(history) /\ k \in 0..Len(more)
    BY <1>4, <2>1
  <2>3. All(more)[k] = Step(All(more), more, k) /\ All(history)[k] = Step(All(history), history, k)
    <3> HIDE DEF Step
    <3> QED
      BY <1>3, <1>4, <2>2
  <2>4. k # 0
    BY <2>1, <2>3
  <2>5. k - 1 \in 0..Len(history) /\ ~(k <= k - 1) /\ k \in 1..Len(history)
    BY <1>4, <2>1, <2>2, <2>4
  <2>6. All(more)[k - 1] = All(history)[k - 1] /\ more[k] = history[k]
    BY <1>4, <2>1, <2>5
  <2>7. Step(All(more), more, k) = Step(All(history), history, k)
    BY <2>6
  <2> QED
    BY <2>1, <2>3, <2>7
<1>6. Messages(p, more) = IF IsSystem(m) THEN Messages(p, history)
                          ELSE Merge(p, Messages(p, history), Converted(p, m, Len(history) + 1))
  <2>1. Len(history) + 1 \in 0..Len(more) /\ Len(history) + 1 > 0 /\ Len(history) + 1 # 0
        /\ (Len(history) + 1) - 1 = Len(history) /\ Len(history) \in 0..Len(history)
    BY <1>4
  <2>2. All(more)[Len(history) + 1] = Step(All(more), more, Len(history) + 1)
    <3> HIDE DEF Step
    <3> QED
      BY <1>3, <1>4, <2>1
  <2>3. Messages(p, more) = Step(All(more), more, Len(history) + 1)
    <3> HIDE DEF Step
    <3> QED
      BY <1>1, <1>4, <2>2
  <2>4. All(more)[Len(history)] = Messages(p, history)
    <3> HIDE DEF Step
    <3> QED
      BY <1>1, <1>5, <2>1
  <2> QED
    BY <1>4, <2>1, <2>3, <2>4
<1>7. Messages(p, <<>>) = <<>>
  <2>1. <<>> \in Seq(S) /\ Len(<<>>) = 0 /\ 0 \in 0..Len(<<>>)
    OBVIOUS
  <2>2. All(<<>>)[0] = Step(All(<<>>), <<>>, 0)
    <3> HIDE DEF Step
    <3> QED
      BY <1>3, <2>1
  <2>3. Messages(p, <<>>) = All(<<>>)[0]
    <3> HIDE DEF Step
    <3> QED
      BY <1>1, <2>1
  <2> QED
    BY <2>2, <2>3
<1> QED
  BY <1>6, <1>7 DEF more

-----------------------------------------------------------------------------
(* Chat: what a message is converted to.                                   *)

Taken == Pieces \cup {"json"}
ChatBlocks ==
  [type : {"text", "document", "image", "tool_use", "tool_result"}, from : Nat,
   id : CallIds \cup {"", "_"}, pieces : Seq(Taken)]
Turns == [role : {"user", "assistant"}, content : Seq(ChatBlocks)]
Spoken == Caller({"user", "assistant", "system", "developer", "tool"}, CallIds \cup {""})

\* A sequence of one.
LEMMA OneIs ==
  ASSUME NEW S, NEW x \in S
  PROVE  /\ <<x>> \in Seq(S) /\ Len(<<x>>) = 1 /\ <<x>>[1] = x /\ <<x>> # <<>> /\ DOMAIN <<x>> = 1..1
         /\ \A i \in DOMAIN <<x>> : <<x>>[i] = x
  OBVIOUS

\* The places of a sequence.
LEMMA DomainIs ==
  ASSUME NEW S, NEW s \in Seq(S)
  PROVE  DOMAIN s = 1..Len(s) /\ Len(s) \in Nat
  OBVIOUS

\* The fields of a message.
LEMMA SpokenIs ==
  ASSUME NEW m \in Spoken
  PROVE  /\ m.role \in {"user", "assistant", "system", "developer", "tool"} /\ m.plain \in BOOLEAN
         /\ m.content \in Seq(Pieces) /\ m.content \in Seq(Taken)
         /\ m.calls \in Seq([id : CallIds \cup {""}, args : Seq(Pieces)]) /\ m.id \in CallIds \cup {""}
         /\ m.role # "assistant" => m.calls = <<>>
<1>1. /\ m.role \in {"user", "assistant", "system", "developer", "tool"} /\ m.plain \in BOOLEAN
      /\ m.content \in Seq(Pieces)
      /\ m.calls \in Seq([id : CallIds \cup {""}, args : Seq(Pieces)]) /\ m.id \in CallIds \cup {""}
      /\ m.role # "assistant" => m.calls = <<>>
  BY DEF Spoken, Caller
<1>2. m.content \in Seq(Taken)
  <2>1. Pieces \subseteq Taken
    BY DEF Taken
  <2> QED
    BY <1>1, <2>1, SeqMonotonic
<1> QED
  BY <1>1, <1>2

\* Every part of a message of the user that the provider takes becomes a block.
LEMMA UserBlocksAre ==
  ASSUME NEW p, NEW m \in Spoken, NEW k \in Nat
  PROVE  /\ UserBlocks(p, m, k) \in Seq(ChatBlocks)
         /\ \A i \in DOMAIN UserBlocks(p, m, k) :
              UserBlocks(p, m, k)[i].from = k /\ UserBlocks(p, m, k)[i].type \in {"text", "document", "image"}
         /\ m.plain => UserBlocks(p, m, k) # <<>>
<1>0. m.plain \in BOOLEAN /\ m.content \in Seq(Taken) /\ m.content \in Seq(Pieces)
  BY SpokenIs
<1>1. CASE m.plain
  <2>1. UserBlocks(p, m, k) = <<Block("text", k, "", m.content)>>
    BY <1>1 DEF UserBlocks
  <2>2. Block("text", k, "", m.content) \in ChatBlocks /\ Block("text", k, "", m.content).from = k
        /\ Block("text", k, "", m.content).type = "text"
    BY <1>0 DEF ChatBlocks, Block
  <2> DEFINE b == Block("text", k, "", m.content)
  <2> HIDE DEF b
  <2>3. /\ <<b>> \in Seq(ChatBlocks) /\ <<b>> # <<>>
        /\ \A i \in DOMAIN <<b>> : <<b>>[i] = b
    BY <2>2, OneIs DEF b
  <2> QED
    BY <2>1, <2>2, <2>3 DEF b
<1>2. CASE ~m.plain
  <2> DEFINE N == {i \in DOMAIN m.content : PartType(p, m.content[i]) # "none"}
             kept == Picked(m.content, N)
             B(i) == Block(PartType(p, kept[i]), k, "", <<kept[i]>>)
  <2>1. UserBlocks(p, m, k) = [i \in DOMAIN kept |-> B(i)]
    BY <1>2 DEF UserBlocks
  <2>2. N \in SUBSET (1..Len(m.content)) /\ \A i \in N : PartType(p, m.content[i]) # "none" /\ i \in 1..Len(m.content)
    BY <1>0
  <2> HIDE DEF N
  <2>3. /\ kept \in Seq(Taken) /\ Len(kept) = Cardinality(N) /\ Cardinality(N) \in Nat
        /\ \A i \in 1..Cardinality(N) : InOrder(N)[i] \in N /\ kept[i] = m.content[InOrder(N)[i]]
    BY <1>0, <2>2, PickedIs
  <2> HIDE DEF kept
  <2>4. DOMAIN kept = 1..Cardinality(N)
    BY <2>3
  <2>5. \A i \in 1..Cardinality(N) : B(i) \in ChatBlocks /\ B(i).from = k /\ B(i).type \in {"text", "document", "image"}
    <3> TAKE i \in 1..Cardinality(N)
    <3>0. InOrder(N)[i] \in N /\ kept[i] = m.content[InOrder(N)[i]] /\ i \in 1..Len(kept)
      BY <2>3
    <3>1. PartType(p, kept[i]) # "none" /\ kept[i] \in Taken
      BY <2>2, <2>3, <3>0, ElementOfSeq
    <3>2. PartType(p, kept[i]) \in {"text", "document", "image"}
      BY <3>1 DEF PartType
    <3>3. <<kept[i]>> \in Seq(Taken)
      BY <3>1
    <3> QED
      BY <3>2, <3>3 DEF ChatBlocks, Block
  <2> HIDE DEF B
  <2> QED
    BY <1>2, <2>1, <2>3, <2>4, <2>5
<1> QED
  BY <1>0, <1>1, <1>2

\* What an assistant said becomes its text and its calls.
LEMMA AssistantBlocksAre ==
  ASSUME NEW m \in Spoken, NEW k \in Nat
  PROVE  LET blocks == AssistantBlocks(m, k)
             text == IF m.plain /\ m.content # <<>> THEN <<Block("text", k, "", m.content)>> ELSE <<>>
             uses == [c \in DOMAIN m.calls |-> Block("tool_use", k, m.calls[c].id, m.calls[c].args)]
         IN /\ blocks \in Seq(ChatBlocks) /\ blocks # <<>>
            /\ text \in Seq(ChatBlocks) /\ uses \in Seq(ChatBlocks) /\ Len(uses) = Len(m.calls) /\ Len(text) \in {0, 1}
            /\ \A i \in DOMAIN blocks : blocks[i].from = k /\ blocks[i].type \in {"text", "tool_use"}
            /\ \A c \in DOMAIN m.calls : \E i \in DOMAIN blocks :
                 blocks[i].type = "tool_use" /\ blocks[i].id = m.calls[c].id
            /\ blocks = IF text = <<>> /\ m.calls = <<>> THEN <<Block("text", k, "", <<>>)>> ELSE text \o uses
<1> DEFINE blocks == AssistantBlocks(m, k)
           text == IF m.plain /\ m.content # <<>> THEN <<Block("text", k, "", m.content)>> ELSE <<>>
           uses == [c \in DOMAIN m.calls |-> Block("tool_use", k, m.calls[c].id, m.calls[c].args)]
           empty == <<Block("text", k, "", <<>>)>>
<1>0. /\ m.plain \in BOOLEAN /\ m.content \in Seq(Taken)
      /\ m.calls \in Seq([id : CallIds \cup {""}, args : Seq(Pieces)])
  BY SpokenIs
<1>1. /\ text \in Seq(ChatBlocks) /\ Len(text) \in {0, 1}
      /\ \A i \in 1..Len(text) : text[i].from = k /\ text[i].type = "text"
  <2> DEFINE b == Block("text", k, "", m.content)
  <2>1. b \in ChatBlocks /\ b.from = k /\ b.type = "text"
    BY <1>0 DEF ChatBlocks, Block
  <2> HIDE DEF b
  <2>2. <<b>> \in Seq(ChatBlocks) /\ Len(<<b>>) = 1 /\ \A i \in 1..Len(<<b>>) : <<b>>[i] = b
    BY <2>1, OneIs
  <2>3. <<>> \in Seq(ChatBlocks) /\ Len(<<>>) = 0
    OBVIOUS
  <2>4. CASE m.plain /\ m.content # <<>>
    <3>1. text = <<b>>
      BY <2>4 DEF b
    <3> HIDE DEF text
    <3> QED
      BY <2>1, <2>2, <3>1
  <2>5. CASE ~(m.plain /\ m.content # <<>>)
    <3>1. text = <<>>
      BY <2>5
    <3> HIDE DEF text
    <3> QED
      BY <2>3, <3>1
  <2> QED
    BY <2>4, <2>5
<1>2. /\ uses \in Seq(ChatBlocks) /\ Len(uses) = Len(m.calls) /\ Len(uses) \in Nat
      /\ \A i \in 1..Len(uses) : uses[i].from = k /\ uses[i].type = "tool_use" /\ uses[i].id = m.calls[i].id
  <2> DEFINE B(c) == Block("tool_use", k, m.calls[c].id, m.calls[c].args)
  <2>1. \A c \in 1..Len(m.calls) : B(c) \in ChatBlocks /\ B(c).from = k /\ B(c).type = "tool_use" /\ B(c).id = m.calls[c].id
    <3> TAKE c \in 1..Len(m.calls)
    <3>1. m.calls[c] \in [id : CallIds \cup {""}, args : Seq(Pieces)]
      <4> DEFINE calls == m.calls
      <4>1. calls \in Seq([id : CallIds \cup {""}, args : Seq(Pieces)])
        BY <1>0
      <4> HIDE DEF calls
      <4>2. \A i \in 1..Len(calls) : calls[i] \in [id : CallIds \cup {""}, args : Seq(Pieces)]
        BY <4>1, ElementOfSeq
      <4> QED
        BY <4>2 DEF calls
    <3>2. m.calls[c].args \in Seq(Taken)
      <4>1. Pieces \subseteq Taken
        BY DEF Taken
      <4> QED
        BY <3>1, <4>1, SeqMonotonic
    <3> QED
      BY <3>1, <3>2 DEF ChatBlocks, Block
  <2>2. uses = [c \in 1..Len(m.calls) |-> B(c)] /\ Len(m.calls) \in Nat
    BY <1>0, DomainIs
  <2> HIDE DEF B, uses
  <2>3. uses \in Seq(ChatBlocks) /\ Len(uses) = Len(m.calls)
    BY <2>1, <2>2
  <2> QED
    BY <2>1, <2>2, <2>3
<1>3. empty # <<>> /\ empty \in Seq(ChatBlocks) /\ Len(empty) = 1 /\ empty[1].from = k /\ empty[1].type = "text"
  <2> DEFINE b == Block("text", k, "", <<>>)
  <2>1. b \in ChatBlocks /\ b.from = k /\ b.type = "text"
    <3>1. <<>> \in Seq(Taken)
      OBVIOUS
    <3> QED
      BY <3>1 DEF ChatBlocks, Block
  <2> HIDE DEF b
  <2>2. <<b>> # <<>> /\ <<b>> \in Seq(ChatBlocks) /\ Len(<<b>>) = 1 /\ <<b>>[1] = b
    BY <2>1, OneIs
  <2> QED
    BY <2>1, <2>2 DEF b
<1>4. blocks = IF text \o uses = <<>> THEN empty ELSE text \o uses
  BY DEF AssistantBlocks
<1> HIDE DEF text, uses, empty, blocks
<1>5. /\ text \o uses \in Seq(ChatBlocks) /\ Len(text \o uses) = Len(text) + Len(uses)
      /\ \A i \in 1..(Len(text) + Len(uses)) : (text \o uses)[i] = IF i <= Len(text) THEN text[i] ELSE uses[i - Len(text)]
      /\ text \o uses = <<>> <=> text = <<>> /\ uses = <<>>
  BY <1>1, <1>2, ConcatProperties, ConcatEqualIffEmpty
<1>6. uses = <<>> <=> m.calls = <<>>
  BY <1>0, <1>2, EmptySeq
<1>7. blocks = IF text = <<>> /\ m.calls = <<>> THEN empty ELSE text \o uses
  BY <1>4, <1>5, <1>6
<1>8. blocks \in Seq(ChatBlocks) /\ blocks # <<>>
  BY <1>3, <1>4, <1>5
<1>9. \A i \in DOMAIN (text \o uses) : (text \o uses)[i].from = k /\ (text \o uses)[i].type \in {"text", "tool_use"}
  <2> TAKE i \in DOMAIN (text \o uses)
  <2>1. i \in 1..(Len(text) + Len(uses))
    BY <1>5
  <2>2. CASE i <= Len(text)
    BY <1>1, <1>5, <2>1, <2>2
  <2>3. CASE ~(i <= Len(text))
    <3>1. i - Len(text) \in 1..Len(uses)
      BY <1>1, <1>2, <2>1, <2>3
    <3> QED
      BY <1>2, <1>5, <2>1, <2>3, <3>1
  <2> QED
    BY <2>2, <2>3
<1>10. \A i \in DOMAIN blocks : blocks[i].from = k /\ blocks[i].type \in {"text", "tool_use"}
  <2>1. \A i \in DOMAIN empty : empty[i].from = k /\ empty[i].type = "text"
    <3>1. DOMAIN empty = 1..1
      BY <1>3
    <3> QED
      BY <1>3, <3>1
  <2> QED
    BY <1>4, <1>9, <2>1
<1>11. ASSUME NEW c \in DOMAIN m.calls
       PROVE  \E i \in DOMAIN blocks : blocks[i].type = "tool_use" /\ blocks[i].id = m.calls[c].id
  <2>1. c \in 1..Len(uses) /\ uses # <<>>
    <3>1. c \in 1..Len(m.calls)
      BY <1>0, DomainIs
    <3>2. c \in 1..Len(uses) /\ Len(uses) # 0
      BY <1>2, <3>1
    <3> QED
      BY <1>2, <3>2, EmptySeq
  <2>2. blocks = text \o uses
    BY <1>4, <1>5, <2>1
  <2>3. /\ Len(text) + c \in 1..(Len(text) + Len(uses)) /\ ~(Len(text) + c <= Len(text))
        /\ (Len(text) + c) - Len(text) = c /\ DOMAIN (text \o uses) = 1..(Len(text) + Len(uses))
    BY <1>1, <1>2, <1>5, <2>1
  <2>4. (text \o uses)[Len(text) + c] = uses[c]
    BY <1>5, <2>3
  <2> QED
    BY <1>2, <2>1, <2>2, <2>3, <2>4
<1> QED
  BY <1>1, <1>2, <1>7, <1>8, <1>10, <1>11 DEF text, uses, empty, blocks

\* The id a result is given under.
ResultId(p, m) == IF Anthropic(p) THEN Sanitize(m.id) ELSE m.id

ResultContent(p, m) ==
  IF m.plain THEN m.content ELSE Picked(m.content, {i \in DOMAIN m.content : m.content[i] \in ResultParts(p)})

ResultTurn(p, m, k, blocks) ==
  /\ blocks \in Seq(ChatBlocks) /\ blocks # <<>> /\ Len(blocks) = 1
  /\ \A i \in DOMAIN blocks : /\ blocks[i].from = k /\ blocks[i].id = ResultId(p, m)
                              /\ blocks[i].type = "tool_result" /\ blocks[i].pieces = ResultContent(p, m)

\* What a result is converted to.
LEMMA ToolBlocksAre ==
  ASSUME NEW p, NEW m \in Spoken, NEW k \in Nat
  PROVE  ResultTurn(p, m, k, ToolBlocks(p, m, k))
<1> DEFINE parts == {i \in DOMAIN m.content : m.content[i] \in ResultParts(p)}
           content == ResultContent(p, m)
           b == Block("tool_result", k, ResultId(p, m), content)
<1>1. m.content \in Seq(Taken) /\ m.id \in CallIds \cup {"", "_"} /\ m.plain \in BOOLEAN
  <2>1. m.content \in Seq(Taken) /\ m.id \in CallIds \cup {""} /\ m.plain \in BOOLEAN
    BY SpokenIs
  <2> QED
    BY <2>1
<1>2. content \in Seq(Taken)
  <2>1. parts \in SUBSET (1..Len(m.content))
    BY <1>1, DomainIs
  <2> HIDE DEF parts
  <2>2. Picked(m.content, parts) \in Seq(Taken)
    BY <1>1, <2>1, PickedIs
  <2> QED
    BY <1>1, <2>2 DEF ResultContent, parts
<1>3. ToolBlocks(p, m, k) = <<b>>
  BY DEF ToolBlocks, ResultId, ResultContent
<1> HIDE DEF content
<1>4. b \in ChatBlocks /\ b.from = k /\ b.id = ResultId(p, m) /\ b.type = "tool_result" /\ b.pieces = content
  <2>1. ResultId(p, m) \in CallIds \cup {"", "_"}
    BY <1>1 DEF ResultId, Sanitize
  <2> QED
    BY <1>2, <2>1 DEF ChatBlocks, Block
<1> HIDE DEF b
<1>5. /\ <<b>> \in Seq(ChatBlocks) /\ <<b>> # <<>> /\ Len(<<b>>) = 1
      /\ \A i \in DOMAIN <<b>> : <<b>>[i] = b
  BY <1>4, OneIs
<1>6. ResultTurn(p, m, k, <<b>>)
  BY <1>4, <1>5 DEF ResultTurn, content
<1> QED
  BY <1>3, <1>6

\* What a message is converted to.
TurnFits(p, m, k, turn) ==
  /\ turn \in Turns
  /\ turn.role = IF m.role = "assistant" THEN "assistant" ELSE "user"
  /\ \A i \in DOMAIN turn.content : turn.content[i].from = k
  /\ m.plain => turn.content # <<>>
  /\ \A i \in DOMAIN turn.content : turn.content[i].type = "tool_result" =>
       m.role = "tool" /\ turn.content[i].id = ResultId(p, m)
  /\ \A c \in DOMAIN m.calls : \E i \in DOMAIN turn.content :
       turn.content[i].type = "tool_use" /\ turn.content[i].id = m.calls[c].id
  /\ m.role = "assistant" => turn.content = AssistantBlocks(m, k)

\* A message becomes one of its role, all of it its own.
LEMMA ConvertedIs ==
  ASSUME NEW p, NEW m \in Spoken, ~IsSystem(m), NEW k \in Nat
  PROVE  TurnFits(p, m, k, Converted(p, m, k))
<1>1. /\ m.role \in {"user", "assistant", "tool"} /\ m.plain \in BOOLEAN
      /\ m.role # "assistant" => m.calls = <<>>
  BY SpokenIs DEF IsSystem
<1>2. CASE m.role = "user"
  <2> DEFINE blocks == UserBlocks(p, m, k)
  <2>1. Converted(p, m, k) = [role |-> "user", content |-> blocks]
    BY <1>2 DEF Converted
  <2>2. /\ blocks \in Seq(ChatBlocks) /\ (m.plain => blocks # <<>>)
        /\ \A i \in DOMAIN blocks : blocks[i].from = k /\ blocks[i].type # "tool_result"
    BY UserBlocksAre
  <2> HIDE DEF blocks
  <2>3. TurnFits(p, m, k, [role |-> "user", content |-> blocks])
    BY <1>1, <1>2, <2>2 DEF Turns, TurnFits
  <2> QED
    BY <2>1, <2>3
<1>3. CASE m.role = "tool"
  <2> DEFINE blocks == ToolBlocks(p, m, k)
  <2>1. Converted(p, m, k) = [role |-> "user", content |-> blocks]
    BY <1>3 DEF Converted
  <2>2. /\ blocks \in Seq(ChatBlocks) /\ blocks # <<>>
        /\ \A i \in DOMAIN blocks : blocks[i].from = k /\ blocks[i].id = ResultId(p, m)
    <3>1. ResultTurn(p, m, k, blocks)
      BY ToolBlocksAre
    <3> HIDE DEF blocks
    <3> QED
      BY <3>1 DEF ResultTurn
  <2> HIDE DEF blocks
  <2>3. TurnFits(p, m, k, [role |-> "user", content |-> blocks])
    BY <1>1, <1>3, <2>2 DEF Turns, TurnFits
  <2> QED
    BY <2>1, <2>3
<1>4. CASE m.role = "assistant"
  <2> DEFINE blocks == AssistantBlocks(m, k)
  <2>1. Converted(p, m, k) = [role |-> "assistant", content |-> blocks]
    BY <1>4 DEF Converted
  <2>2. /\ blocks \in Seq(ChatBlocks) /\ blocks # <<>>
        /\ \A i \in DOMAIN blocks : blocks[i].from = k /\ blocks[i].type # "tool_result"
        /\ \A c \in DOMAIN m.calls : \E i \in DOMAIN blocks :
             blocks[i].type = "tool_use" /\ blocks[i].id = m.calls[c].id
    BY AssistantBlocksAre
  <2>3. TurnFits(p, m, k, [role |-> "assistant", content |-> blocks])
    <3>1. blocks = AssistantBlocks(m, k)
      OBVIOUS
    <3> HIDE DEF blocks
    <3> QED
      BY <1>1, <1>4, <2>2, <3>1 DEF Turns, TurnFits
  <2> QED
    BY <2>1, <2>3
<1> QED
  BY <1>1, <1>2, <1>3, <1>4

\* What a system message is converted to.
SystemTurn(m, k, blocks) ==
  /\ blocks \in Seq(ChatBlocks)
  /\ \A i \in DOMAIN blocks : blocks[i].from = k
  /\ \A text \in Instructions(m) : \E i \in DOMAIN blocks : blocks[i].pieces = text

\* Of a system message, its texts are kept.
LEMMA SystemBlocksAre ==
  ASSUME NEW p, NEW m \in Spoken, NEW k \in Nat
  PROVE  SystemTurn(m, k, SystemBlocks(p, m, k))
<1> DEFINE parts == IF m.plain THEN <<m.content>> ELSE [i \in DOMAIN m.content |-> <<m.content[i]>>]
           taken == {i \in DOMAIN parts : IF Anthropic(p) THEN parts[i] # <<>> ELSE m.plain \/ parts[i] = <<"text">>}
           kept == Picked(parts, taken)
           B(i) == Block("text", k, "", kept[i])
<1>0. m.plain \in BOOLEAN /\ m.content \in Seq(Taken)
  BY SpokenIs
<1>1. SystemBlocks(p, m, k) = [i \in DOMAIN kept |-> B(i)]
  BY DEF SystemBlocks
<1>2. parts \in Seq(Seq(Taken))
  <2>1. CASE m.plain
    <3>1. <<m.content>> \in Seq(Seq(Taken))
      BY <1>0, OneIs
    <3> QED
      BY <2>1, <3>1
  <2>2. CASE ~m.plain
    <3>1. \A i \in 1..Len(m.content) : <<m.content[i]>> \in Seq(Taken)
      <4> TAKE i \in 1..Len(m.content)
      <4>1. m.content[i] \in Taken
        BY <1>0, ElementOfSeq
      <4> QED
        BY <4>1, OneIs
    <3>2. DOMAIN m.content = 1..Len(m.content) /\ Len(m.content) \in Nat
      BY <1>0
    <3>3. [i \in 1..Len(m.content) |-> <<m.content[i]>>] \in Seq(Seq(Taken))
      BY <3>1, <3>2
    <3> QED
      BY <2>2, <3>2, <3>3
  <2> QED
    BY <2>1, <2>2
<1>3. \A text \in Instructions(m) : \E i \in taken : parts[i] = text
  <2> TAKE text \in Instructions(m)
  <2>1. CASE m.plain
    <3>1. text = m.content /\ text # <<>> /\ parts = <<m.content>>
      BY <2>1 DEF Instructions
    <3>2. 1 \in DOMAIN parts /\ parts[1] = text
      BY <3>1
    <3>3. 1 \in taken
      BY <2>1, <3>1, <3>2
    <3> QED
      BY <3>2, <3>3
  <2>2. CASE ~m.plain
    <3>1. PICK i \in DOMAIN m.content : m.content[i] = "text" /\ text = <<m.content[i]>>
      BY <2>2 DEF Instructions
    <3>2. i \in DOMAIN parts /\ parts[i] = text
      BY <2>2, <3>1
    <3>3. text # <<>> /\ text = <<"text">>
      BY <3>1
    <3> HIDE DEF parts
    <3>4. i \in taken
      BY <3>2, <3>3
    <3> QED
      BY <3>2, <3>4
  <2> QED
    BY <2>1, <2>2
<1>4. taken \in SUBSET (1..Len(parts))
  <2>1. DOMAIN parts = 1..Len(parts)
    BY <1>2, LenProperties
  <2> HIDE DEF parts
  <2> QED
    BY <2>1
<1> HIDE DEF taken, parts
<1>5. /\ kept \in Seq(Seq(Taken)) /\ Len(kept) = Cardinality(taken) /\ Cardinality(taken) \in Nat
      /\ \A i \in taken : \E x \in 1..Cardinality(taken) : kept[x] = parts[i]
  BY <1>2, <1>4, PickedIs
<1> HIDE DEF kept
<1>6. DOMAIN kept = 1..Len(kept) /\ Len(kept) \in Nat /\ \A i \in 1..Len(kept) : kept[i] \in Seq(Taken)
  BY <1>5, ElementOfSeq
<1>7. \A i \in 1..Len(kept) : B(i) \in ChatBlocks /\ B(i).from = k /\ B(i).pieces = kept[i]
  BY <1>6 DEF ChatBlocks, Block
<1> HIDE DEF B
<1>8. \A text \in Instructions(m) : \E i \in 1..Len(kept) : B(i).pieces = text
  <2> TAKE text \in Instructions(m)
  <2>1. PICK i \in taken : parts[i] = text
    BY <1>3
  <2>2. PICK x \in 1..Len(kept) : kept[x] = parts[i]
    BY <1>5
  <2> QED
    BY <1>7, <2>1, <2>2
<1>9. SystemBlocks(p, m, k) = [i \in 1..Len(kept) |-> B(i)]
  BY <1>1, <1>6
<1> DEFINE o == [i \in 1..Len(kept) |-> B(i)]
<1>10. o \in Seq(ChatBlocks) /\ DOMAIN o = 1..Len(kept) /\ \A i \in 1..Len(kept) : o[i] = B(i)
  BY <1>6, <1>7
<1>11. o = SystemBlocks(p, m, k)
  BY <1>9
<1> HIDE DEF o
<1>12. SystemTurn(m, k, o)
  BY <1>7, <1>8, <1>10 DEF SystemTurn
<1> QED
  BY <1>11, <1>12

-----------------------------------------------------------------------------
(* Chat: messages that are merged.                                         *)

RoleIn(history, k) == IF history[k].role = "assistant" THEN "assistant" ELSE "user"

RolesFit(messages, history) ==
  \A i \in DOMAIN messages : \A b \in DOMAIN messages[i].content :
    messages[i].content[b].from \in DOMAIN history /\ messages[i].role = RoleIn(history, messages[i].content[b].from)

Alternate(messages) == \A i \in DOMAIN messages : i > 1 => messages[i].role # messages[i - 1].role

\* The blocks of messages, one after the other.
LEMMA ContentsAre ==
  ASSUME NEW messages \in Seq(Turns)
  PROVE  [k \in DOMAIN messages |-> messages[k].content] \in Seq(Seq(ChatBlocks))
<1>1. \A k \in 1..Len(messages) : messages[k].content \in Seq(ChatBlocks)
  <2> TAKE k \in 1..Len(messages)
  <2>1. messages[k] \in Turns
    BY ElementOfSeq
  <2> QED
    BY <2>1 DEF Turns
<1>2. DOMAIN messages = 1..Len(messages) /\ Len(messages) \in Nat
  OBVIOUS
<1>3. [k \in 1..Len(messages) |-> messages[k].content] \in Seq(Seq(ChatBlocks))
  BY <1>1, <1>2
<1> QED
  BY <1>2, <1>3

\* A message with the blocks of another.
LEMMA TurnWith ==
  ASSUME NEW x \in Turns, NEW c
  PROVE  [x EXCEPT !.content = c] = [role |-> x.role, content |-> c]
  BY DEF Turns

Both(a, b) == [role |-> b.role, content |-> a.content \o b.content]

\* A message that joins the one before it.
LEMMA JoinedIs ==
  ASSUME NEW p, NEW done \in Seq(Turns), NEW turn \in Turns,
         Anthropic(p), done # <<>>, done[Len(done)].role = turn.role
  PROVE  /\ Merge(p, done, turn) \in Seq(Turns) /\ Len(Merge(p, done, turn)) = Len(done) /\ Len(done) \in Nat \ {0}
         /\ Merge(p, done, turn)[Len(done)] = Both(done[Len(done)], turn)
         /\ \A i \in 1..Len(done) : i # Len(done) => Merge(p, done, turn)[i] = done[i]
         /\ AllBlocks(Merge(p, done, turn)) = AllBlocks(done) \o turn.content
<1> DEFINE n == Len(done)
           last == [role |-> turn.role, content |-> done[n].content \o turn.content]
           merged == [i \in 1..n |-> IF i = n THEN last ELSE done[i]]
<1>1. n \in Nat \ {0} /\ DOMAIN done = 1..n /\ n \in 1..n
  BY EmptySeq
<1>2. \A i \in 1..n : done[i] \in Turns /\ done[i].content \in Seq(ChatBlocks)
  <2> TAKE i \in 1..n
  <2>1. done[i] \in Turns
    BY ElementOfSeq
  <2> QED
    BY <2>1 DEF Turns
<1>3. turn.content \in Seq(ChatBlocks) /\ turn.role \in {"user", "assistant"}
  BY DEF Turns
<1>4. last \in Turns
  <2>1. done[n].content \o turn.content \in Seq(ChatBlocks)
    BY <1>1, <1>2, <1>3, ConcatProperties
  <2> QED
    BY <1>3, <2>1 DEF Turns
<1>5. Merge(p, done, turn) = merged
  <2>1. Merge(p, done, turn) = [done EXCEPT ![n].content = @ \o turn.content]
    BY DEF Merge
  <2>2. [done[n] EXCEPT !.content = @ \o turn.content] = last
    <3>1. done[n] \in Turns
      BY <1>1, <1>2
    <3> QED
      BY <3>1, TurnWith
  <2>3. [done EXCEPT ![n].content = @ \o turn.content]
         = [i \in 1..n |-> IF i = n THEN [done[n] EXCEPT !.content = @ \o turn.content] ELSE done[i]]
    BY <1>1
  <2> QED
    BY <2>1, <2>2, <2>3
<1>6. merged \in Seq(Turns) /\ Len(merged) = n
  <2> HIDE DEF last, n
  <2> QED
    BY <1>1, <1>2, <1>4
<1>7. AllBlocks(merged) = AllBlocks(done) \o turn.content
  <2> DEFINE c == [k \in DOMAIN done |-> done[k].content]
             d == [k \in DOMAIN merged |-> merged[k].content]
  <2>1. c \in Seq(Seq(ChatBlocks)) /\ Len(c) = n /\ c # <<>>
    <3>1. c \in Seq(Seq(ChatBlocks))
      BY ContentsAre
    <3>2. DOMAIN c = 1..n
      BY <1>1
    <3> HIDE DEF c
    <3> QED
      BY <1>1, <3>1, <3>2
  <2>2. d = [c EXCEPT ![Len(c)] = @ \o turn.content]
    <3>1. d = [k \in 1..n |-> IF k = n THEN done[n].content \o turn.content ELSE done[k].content]
      OBVIOUS
    <3>2. c = [k \in 1..n |-> done[k].content]
      BY <1>1
    <3> HIDE DEF d, c, n
    <3>3. [c EXCEPT ![n] = @ \o turn.content] = [k \in 1..n |-> IF k = n THEN done[n].content \o turn.content ELSE done[k].content]
      BY <1>1, <3>2
    <3> QED
      BY <2>1, <3>1, <3>3
  <2>3. AllBlocks(merged) = FlattenSeq(d) /\ AllBlocks(done) = FlattenSeq(c)
    BY DEF AllBlocks
  <2> HIDE DEF c, d
  <2> QED
    BY <1>3, <2>1, <2>2, <2>3, FlattenLastMore
<1>8. merged[n] = last /\ \A i \in 1..n : i # n => merged[i] = done[i]
  BY <1>1
<1> HIDE DEF merged, last
<1> QED
  BY <1>1, <1>4, <1>5, <1>6, <1>7, <1>8 DEF last, Both

\* A message that follows the others.
LEMMA FollowingIs ==
  ASSUME NEW done \in Seq(Turns), NEW turn \in Turns
  PROVE  /\ Append(done, turn) \in Seq(Turns) /\ Len(Append(done, turn)) = Len(done) + 1 /\ Len(done) \in Nat
         /\ Append(done, turn)[Len(done) + 1] = turn
         /\ \A i \in 1..Len(done) : Append(done, turn)[i] = done[i]
         /\ AllBlocks(Append(done, turn)) = AllBlocks(done) \o turn.content
         /\ AllBlocks(done) \in Seq(ChatBlocks)
<1> DEFINE more == Append(done, turn)
           c == [k \in DOMAIN done |-> done[k].content]
           d == [k \in DOMAIN more |-> more[k].content]
<1>1. /\ more \in Seq(Turns) /\ Len(more) = Len(done) + 1 /\ Len(done) \in Nat
      /\ more[Len(done) + 1] = turn
      /\ \A i \in 1..Len(done) : more[i] = done[i]
      /\ DOMAIN more = 1..(Len(done) + 1) /\ DOMAIN done = 1..Len(done)
  OBVIOUS
<1>2. turn.content \in Seq(ChatBlocks)
  BY DEF Turns
<1>3. c \in Seq(Seq(ChatBlocks)) /\ d \in Seq(Seq(ChatBlocks))
  BY <1>1, ContentsAre
<1> HIDE DEF more
<1>4. c = [k \in 1..Len(done) |-> done[k].content] /\ d = [k \in 1..(Len(done) + 1) |-> more[k].content]
  BY <1>1
<1>5. AllBlocks(more) = FlattenSeq(d) /\ AllBlocks(done) = FlattenSeq(c)
  BY DEF AllBlocks
<1> HIDE DEF c, d
<1>6. d = Append(c, turn.content)
  <2> DEFINE e == Append(c, turn.content)
  <2>1. Len(c) = Len(done) /\ Len(d) = Len(done) + 1
    BY <1>1, <1>3, <1>4
  <2>2. /\ e \in Seq(Seq(ChatBlocks)) /\ Len(e) = Len(done) + 1 /\ e[Len(done) + 1] = turn.content
        /\ \A k \in 1..Len(done) : e[k] = c[k]
    BY <1>1, <1>2, <1>3, <2>1
  <2> HIDE DEF e
  <2>3. \A k \in 1..(Len(done) + 1) : d[k] = e[k]
    <3> TAKE k \in 1..(Len(done) + 1)
    <3>1. CASE k = Len(done) + 1
      BY <1>1, <1>4, <2>2, <3>1
    <3>2. CASE k # Len(done) + 1
      <4>1. k \in 1..Len(done)
        BY <1>1, <3>2
      <4> QED
        BY <1>1, <1>4, <2>2, <4>1
    <3> QED
      BY <3>1, <3>2
  <2>4. d = e
    BY <1>3, <2>1, <2>2, <2>3, SeqEqual
  <2> QED
    BY <2>4 DEF e
<1> QED
  BY <1>1, <1>2, <1>3, <1>5, <1>6, FlattenOneMore DEF more

\* Messages under their roles.
TurnsFit(p, history, messages) ==
  /\ messages \in Seq(Turns) /\ RolesFit(messages, history)
  /\ Anthropic(p) => Alternate(messages)

\* The blocks of a message that is merged come last; roles stay where they are.
LEMMA MergedIs ==
  ASSUME NEW p, NEW done \in Seq(Turns), NEW turn \in Turns, NEW history,
         RolesFit(done, history), Anthropic(p) => Alternate(done),
         \A b \in DOMAIN turn.content :
           turn.content[b].from \in DOMAIN history /\ turn.role = RoleIn(history, turn.content[b].from)
  PROVE  /\ TurnsFit(p, history, Merge(p, done, turn))
         /\ AllBlocks(Merge(p, done, turn)) = AllBlocks(done) \o turn.content
<1> DEFINE Good(t) == \A b \in DOMAIN t.content : t.content[b].from \in DOMAIN history
                                                  /\ t.role = RoleIn(history, t.content[b].from)
<1>0. \A i \in 1..Len(done) : Good(done[i])
  BY DEF RolesFit
<1>1. CASE Anthropic(p) /\ done # <<>> /\ done[Len(done)].role = turn.role
  <2> DEFINE n == Len(done)
             last == Both(done[n], turn)
             merged == Merge(p, done, turn)
  <2>1. /\ merged \in Seq(Turns) /\ Len(merged) = n /\ n \in Nat \ {0}
        /\ merged[n] = last
        /\ \A i \in 1..n : i # n => merged[i] = done[i]
        /\ AllBlocks(merged) = AllBlocks(done) \o turn.content
    <3>1. Anthropic(p)
      BY <1>1
    <3>2. done # <<>>
      BY <1>1
    <3>3. done[Len(done)].role = turn.role
      BY <1>1
    <3> QED
      BY <3>1, <3>2, <3>3, JoinedIs
  <2>2. Good(last)
    <3> DEFINE s == done[n].content
               t == turn.content
    <3>1. s \in Seq(ChatBlocks) /\ t \in Seq(ChatBlocks) /\ done[n].role = turn.role /\ Good(done[n])
      <4>1. n \in 1..n
        BY <2>1
      <4>2. done[n] \in Turns /\ Good(done[n])
        BY <1>0, <4>1, ElementOfSeq
      <4> QED
        BY <1>1, <4>2 DEF Turns
    <3>2. \A b \in DOMAIN s : s[b].from \in DOMAIN history /\ turn.role = RoleIn(history, s[b].from)
      BY <3>1
    <3> HIDE DEF s, t
    <3>3. /\ s \o t \in Seq(ChatBlocks) /\ Len(s \o t) = Len(s) + Len(t) /\ Len(s) \in Nat /\ Len(t) \in Nat
          /\ \A i \in 1..(Len(s) + Len(t)) : (s \o t)[i] = IF i <= Len(s) THEN s[i] ELSE t[i - Len(s)]
      BY <3>1, ConcatProperties
    <3>4. \A b \in DOMAIN (s \o t) : (s \o t)[b].from \in DOMAIN history /\ turn.role = RoleIn(history, (s \o t)[b].from)
      <4> TAKE b \in DOMAIN (s \o t)
      <4>1. b \in 1..(Len(s) + Len(t)) /\ DOMAIN s = 1..Len(s) /\ DOMAIN t = 1..Len(t)
        BY <3>1, <3>3
      <4>2. CASE b <= Len(s)
        BY <3>2, <3>3, <4>1, <4>2
      <4>3. CASE ~(b <= Len(s))
        <5>1. b - Len(s) \in DOMAIN t
          BY <3>3, <4>1, <4>3
        <5> QED
          BY <3>3, <4>1, <4>3, <5>1 DEF t
      <4> QED
        BY <4>2, <4>3
    <3> QED
      BY <3>4 DEF s, t, Both
  <2> HIDE DEF last, merged, Good
  <2>3. \A i \in 1..n : Good(merged[i]) /\ merged[i].role = done[i].role
    <3>1. last.role = turn.role
      BY DEF last, Both
    <3> QED
      BY <1>0, <1>1, <2>1, <2>2, <3>1
  <2>4. DOMAIN merged = 1..n /\ DOMAIN done = 1..n
    BY <2>1
  <2>5. RolesFit(merged, history)
    BY <2>3, <2>4 DEF RolesFit, Good
  <2>6. Alternate(merged)
    <3> SUFFICES ASSUME NEW i \in 1..n, i > 1 PROVE merged[i].role # merged[i - 1].role
      BY <2>4 DEF Alternate
    <3>1. i - 1 \in 1..n
      BY <2>1
    <3>2. done[i].role # done[i - 1].role
      BY <1>1, <2>4 DEF Alternate
    <3> QED
      BY <2>3, <3>1, <3>2
  <2> QED
    BY <2>1, <2>5, <2>6 DEF merged, TurnsFit
<1>2. CASE ~(Anthropic(p) /\ done # <<>> /\ done[Len(done)].role = turn.role)
  <2> DEFINE n == Len(done)
             merged == Append(done, turn)
  <2>0. Merge(p, done, turn) = merged
    BY <1>2 DEF Merge
  <2>1. /\ merged \in Seq(Turns) /\ Len(merged) = n + 1 /\ n \in Nat
        /\ merged[n + 1] = turn
        /\ \A i \in 1..n : merged[i] = done[i]
        /\ AllBlocks(merged) = AllBlocks(done) \o turn.content
    BY FollowingIs
  <2>2. Good(turn)
    OBVIOUS
  <2> HIDE DEF merged, Good
  <2>3. DOMAIN merged = 1..(n + 1) /\ DOMAIN done = 1..n
    BY <2>1
  <2>4. \A i \in 1..(n + 1) : i = n + 1 \/ i \in 1..n
    BY <2>1
  <2>5. \A i \in 1..(n + 1) : Good(merged[i])
    BY <1>0, <2>1, <2>2, <2>4
  <2>6. RolesFit(merged, history)
    BY <2>3, <2>5 DEF RolesFit, Good
  <2>7. ASSUME Anthropic(p) PROVE Alternate(merged)
    <3> SUFFICES ASSUME NEW i \in 1..(n + 1), i > 1 PROVE merged[i].role # merged[i - 1].role
      BY <2>3 DEF Alternate
    <3>1. CASE i = n + 1
      <4>1. done # <<>> /\ i - 1 = n /\ n \in 1..n
        BY <2>1, <3>1
      <4> QED
        BY <1>2, <2>1, <2>7, <3>1, <4>1
    <3>2. CASE i # n + 1
      <4>1. i \in 1..n /\ i - 1 \in 1..n
        BY <2>1, <3>2
      <4>2. done[i].role # done[i - 1].role
        BY <2>3, <2>7, <4>1 DEF Alternate
      <4> QED
        BY <2>1, <4>1, <4>2
    <3> QED
      BY <3>1, <3>2
  <2> QED
    BY <2>0, <2>1, <2>6, <2>7 DEF TurnsFit
<1> QED
  BY <1>1, <1>2

-----------------------------------------------------------------------------
(* Chat: the blocks of a request.                                          *)

InTurn(blocks) == \A i, j \in DOMAIN blocks : i < j => blocks[i].from <= blocks[j].from

\* New blocks after the old.
Following(s, t, n) ==
  /\ s \o t \in Seq(ChatBlocks) /\ InTurn(s \o t)
  /\ \A i \in DOMAIN (s \o t) : (s \o t)[i].from \in 1..n
  /\ \A i \in DOMAIN s : i \in DOMAIN (s \o t) /\ (s \o t)[i] = s[i]
  /\ \A i \in DOMAIN t : Len(s) + i \in DOMAIN (s \o t) /\ (s \o t)[Len(s) + i] = t[i]
  /\ \A i \in DOMAIN (s \o t) :
       i \in DOMAIN s \/ (i - Len(s) \in DOMAIN t /\ i > Len(s) /\ (s \o t)[i] = t[i - Len(s)])

\* The blocks of a message more come after those of the others.
LEMMA LaterBlocks ==
  ASSUME NEW s \in Seq(ChatBlocks), NEW t \in Seq(ChatBlocks), NEW n \in Nat,
         \A i \in DOMAIN s : s[i].from \in 1..n, InTurn(s),
         \A i \in DOMAIN t : t[i].from = n + 1
  PROVE  Following(s, t, n + 1)
<1> DEFINE r == s \o t
<1>1. /\ r \in Seq(ChatBlocks) /\ Len(r) = Len(s) + Len(t) /\ Len(s) \in Nat /\ Len(t) \in Nat
      /\ \A i \in 1..(Len(s) + Len(t)) : r[i] = IF i <= Len(s) THEN s[i] ELSE t[i - Len(s)]
  BY ConcatProperties
<1>2. DOMAIN s = 1..Len(s) /\ DOMAIN t = 1..Len(t)
  OBVIOUS
<1> HIDE DEF r
<1>3. DOMAIN r = 1..(Len(s) + Len(t))
  BY <1>1
<1>4. \A i \in DOMAIN s : i \in DOMAIN r /\ r[i] = s[i]
  <2> TAKE i \in DOMAIN s
  <2>1. i \in 1..(Len(s) + Len(t)) /\ i <= Len(s)
    BY <1>1, <1>2
  <2> QED
    BY <1>1, <1>3, <2>1
<1>5. \A i \in DOMAIN t : Len(s) + i \in DOMAIN r /\ r[Len(s) + i] = t[i]
  <2> TAKE i \in DOMAIN t
  <2>1. Len(s) + i \in 1..(Len(s) + Len(t)) /\ ~(Len(s) + i <= Len(s)) /\ (Len(s) + i) - Len(s) = i
    BY <1>1, <1>2
  <2> QED
    BY <1>1, <1>3, <2>1
<1>6. \A i \in DOMAIN r : i \in DOMAIN s \/ (i - Len(s) \in DOMAIN t /\ i > Len(s) /\ r[i] = t[i - Len(s)])
  <2> TAKE i \in DOMAIN r
  <2>1. CASE i <= Len(s)
    BY <1>1, <1>2, <1>3, <2>1
  <2>2. CASE ~(i <= Len(s))
    <3>1. i - Len(s) \in DOMAIN t /\ i > Len(s)
      BY <1>1, <1>2, <1>3, <2>2
    <3> QED
      BY <1>1, <1>3, <2>2, <3>1
  <2> QED
    BY <2>1, <2>2
<1>7. \A i \in DOMAIN r : r[i].from \in 1..(n + 1) /\ (i \in DOMAIN s => r[i].from <= n) /\ (i \notin DOMAIN s => r[i].from = n + 1)
  <2> TAKE i \in DOMAIN r
  <2>1. CASE i \in DOMAIN s
    <3>1. r[i].from \in 1..n
      BY <1>4, <2>1
    <3> QED
      BY <2>1, <3>1
  <2>2. CASE i \notin DOMAIN s
    <3>1. r[i].from = n + 1
      BY <1>6, <2>2
    <3> QED
      BY <2>2, <3>1
  <2> QED
    BY <2>1, <2>2
<1>8. InTurn(r)
  <2> SUFFICES ASSUME NEW i \in DOMAIN r, NEW j \in DOMAIN r, i < j PROVE r[i].from <= r[j].from
    BY DEF InTurn
  <2>1. CASE j \in DOMAIN s
    <3>1. i \in DOMAIN s
      BY <1>1, <1>2, <1>3, <2>1
    <3>2. s[i].from <= s[j].from
      BY <2>1, <3>1 DEF InTurn
    <3> QED
      BY <1>4, <2>1, <3>1, <3>2
  <2>2. CASE j \notin DOMAIN s
    <3>1. r[j].from = n + 1 /\ r[i].from \in 1..(n + 1)
      BY <1>7, <2>2
    <3> QED
      BY <3>1
  <2> QED
    BY <2>1, <2>2
<1>9. \A i \in DOMAIN r : r[i].from \in 1..(n + 1)
  BY <1>7
<1> QED
  BY <1>1, <1>4, <1>5, <1>6, <1>8, <1>9 DEF r, Following

\* What comes from a message is found among all blocks.
LEMMA FromOld ==
  ASSUME NEW s \in Seq(ChatBlocks), NEW t \in Seq(ChatBlocks), NEW k, \A i \in DOMAIN t : t[i].from # k
  PROVE  From(s \o t, k) = From(s, k)
<1> DEFINE r == s \o t
           N == {i \in DOMAIN s : s[i].from = k}
<1>1. /\ r \in Seq(ChatBlocks) /\ Len(r) = Len(s) + Len(t) /\ Len(s) \in Nat /\ Len(t) \in Nat
      /\ \A i \in 1..(Len(s) + Len(t)) : r[i] = IF i <= Len(s) THEN s[i] ELSE t[i - Len(s)]
      /\ DOMAIN s = 1..Len(s) /\ DOMAIN t = 1..Len(t)
  BY ConcatProperties
<1> HIDE DEF r
<1>2. DOMAIN r = 1..(Len(s) + Len(t))
  BY <1>1
<1>3. {i \in DOMAIN r : r[i].from = k} = N
  <2>1. \A i \in DOMAIN r : i \notin DOMAIN s => r[i].from # k
    <3> SUFFICES ASSUME NEW i \in DOMAIN r, i \notin DOMAIN s PROVE r[i].from # k
      OBVIOUS
    <3>1. i - Len(s) \in DOMAIN t /\ ~(i <= Len(s))
      BY <1>1, <1>2
    <3> QED
      BY <1>1, <1>2, <3>1
  <2>2. \A i \in DOMAIN s : i \in DOMAIN r /\ r[i] = s[i]
    <3> TAKE i \in DOMAIN s
    <3>1. i \in 1..(Len(s) + Len(t)) /\ i <= Len(s)
      BY <1>1
    <3> QED
      BY <1>1, <1>2, <3>1
  <2> QED
    BY <2>1, <2>2
<1>4. N \in SUBSET (1..Len(s))
  BY <1>1
<1>5. From(r, k) = Picked(r, N) /\ From(s, k) = Picked(s, N)
  BY <1>3 DEF From
<1> HIDE DEF N
<1>6. Picked(s \o t, N) = Picked(s, N)
  BY <1>4, PickedHead
<1> QED
  BY <1>5, <1>6 DEF r

\* What comes from the last message is all of its blocks.
LEMMA FromNew ==
  ASSUME NEW s \in Seq(ChatBlocks), NEW t \in Seq(ChatBlocks), NEW k,
         \A i \in DOMAIN s : s[i].from # k, \A i \in DOMAIN t : t[i].from = k
  PROVE  From(s \o t, k) = t
<1> DEFINE r == s \o t
           N == (Len(s) + 1)..(Len(s) + Len(t))
<1>1. /\ r \in Seq(ChatBlocks) /\ Len(r) = Len(s) + Len(t) /\ Len(s) \in Nat /\ Len(t) \in Nat
      /\ \A i \in 1..(Len(s) + Len(t)) : r[i] = IF i <= Len(s) THEN s[i] ELSE t[i - Len(s)]
      /\ DOMAIN s = 1..Len(s) /\ DOMAIN t = 1..Len(t)
  BY ConcatProperties
<1> HIDE DEF r
<1>2. DOMAIN r = 1..(Len(s) + Len(t))
  BY <1>1
<1>3. {i \in DOMAIN r : r[i].from = k} = N
  <2>1. \A i \in N : i \in DOMAIN r /\ r[i].from = k
    <3> TAKE i \in N
    <3>1. i - Len(s) \in DOMAIN t /\ ~(i <= Len(s)) /\ i \in 1..(Len(s) + Len(t))
      BY <1>1
    <3> QED
      BY <1>1, <1>2, <3>1
  <2>2. \A i \in DOMAIN r : i \notin N => r[i].from # k
    <3> SUFFICES ASSUME NEW i \in DOMAIN r, i \notin N PROVE r[i].from # k
      OBVIOUS
    <3>1. i \in DOMAIN s /\ i <= Len(s) /\ i \in 1..(Len(s) + Len(t))
      BY <1>1, <1>2
    <3> QED
      BY <1>1, <3>1
  <2> HIDE DEF N
  <2> QED
    BY <2>1, <2>2
<1>4. From(r, k) = Picked(r, N)
  BY <1>3 DEF From
<1> QED
  BY <1>4, PickedTail DEF r

CallsFound(history, blocks) ==
  \A k \in DOMAIN history : \A c \in DOMAIN history[k].calls :
    \E j \in DOMAIN blocks : blocks[j].type = "tool_use" /\ blocks[j].id = history[k].calls[c].id

ResultsFollow(p, history, blocks) ==
  \A i \in DOMAIN blocks : blocks[i].type = "tool_result" =>
    /\ blocks[i].id = ResultId(p, history[blocks[i].from])
    /\ \E j \in 1..(i - 1) : blocks[j].type = "tool_use" /\ blocks[j].id = history[blocks[i].from].id

EachFound(p, history, blocks) ==
  \A k \in DOMAIN history :
    From(blocks, k) = IF IsSystem(history[k]) THEN <<>> ELSE Converted(p, history[k], k).content

BlocksFit(p, history, blocks) ==
  /\ blocks \in Seq(ChatBlocks) /\ InTurn(blocks)
  /\ \A i \in DOMAIN blocks : blocks[i].from \in DOMAIN history
  /\ EachFound(p, history, blocks)
  /\ CallsFound(history, blocks)
  /\ ResultsFollow(p, history, blocks)

\* A result is one of a call made before.
ResultOf(history, m) ==
  m.role = "tool" => \E k \in DOMAIN history : \E c \in DOMAIN history[k].calls : history[k].calls[c].id = m.id

\* A system message adds no block.
LEMMA SystemAddsNone ==
  ASSUME NEW p, NEW history \in Seq(Spoken), NEW blocks, BlocksFit(p, history, blocks), NEW m \in Spoken, IsSystem(m)
  PROVE  BlocksFit(p, Append(history, m), blocks)
<1> DEFINE more == Append(history, m)
           n == Len(history) + 1
<1>1. /\ more \in Seq(Spoken) /\ DOMAIN more = 1..n /\ more[n] = m /\ DOMAIN history = 1..Len(history)
      /\ \A k \in 1..Len(history) : more[k] = history[k] /\ k \in 1..n
      /\ Len(history) \in Nat
  OBVIOUS
<1> HIDE DEF more
<1>2. /\ blocks \in Seq(ChatBlocks) /\ InTurn(blocks)
      /\ \A i \in DOMAIN blocks : blocks[i].from \in DOMAIN history /\ blocks[i].from \in DOMAIN more
  BY <1>1 DEF BlocksFit
<1>3. \A k \in DOMAIN more : k = n \/ k \in DOMAIN history
  BY <1>1
<1>4. EachFound(p, more, blocks)
  <2> SUFFICES ASSUME NEW k \in DOMAIN more
               PROVE  From(blocks, k) = IF IsSystem(more[k]) THEN <<>> ELSE Converted(p, more[k], k).content
    BY DEF EachFound
  <2>1. CASE k = n
    <3>1. \A i \in DOMAIN blocks : blocks[i].from # n
      BY <1>1, <1>2
    <3>2. {i \in DOMAIN blocks : blocks[i].from = n} = {}
      BY <3>1
    <3>3. From(blocks, n) = Picked(blocks, {})
      BY <3>2 DEF From
    <3>4. Picked(blocks, {}) = <<>>
      BY OrderedNone DEF Picked
    <3> QED
      BY <1>1, <2>1, <3>3, <3>4
  <2>2. CASE k # n
    BY <1>1, <1>3, <2>2 DEF BlocksFit, EachFound
  <2> QED
    BY <2>1, <2>2
<1>5. CallsFound(more, blocks)
  <2>1. m.calls = <<>>
    BY SpokenIs DEF IsSystem
  <2>2. \A k \in DOMAIN more : \A c \in DOMAIN more[k].calls : k \in DOMAIN history /\ more[k] = history[k]
    <3> TAKE k \in DOMAIN more
    <3>1. k = n => DOMAIN more[k].calls = {}
      BY <1>1, <2>1
    <3> QED
      BY <1>1, <1>3, <3>1
  <2> QED
    BY <2>2 DEF BlocksFit, CallsFound
<1>6. ResultsFollow(p, more, blocks)
  <2>1. \A i \in DOMAIN blocks : more[blocks[i].from] = history[blocks[i].from]
    BY <1>1, <1>2
  <2> QED
    BY <2>1 DEF BlocksFit, ResultsFollow
<1> QED
  BY <1>2, <1>4, <1>5, <1>6 DEF BlocksFit, more

\* Any other adds those it is converted to.
LEMMA OthersAddTheirs ==
  ASSUME NEW p, NEW history \in Seq(Spoken), NEW blocks, BlocksFit(p, history, blocks), NEW m \in Spoken, ~IsSystem(m),
         ResultOf(history, m)
  PROVE  BlocksFit(p, Append(history, m), blocks \o Converted(p, m, Len(history) + 1).content)
<1> DEFINE more == Append(history, m)
           n == Len(history) + 1
           turn == Converted(p, m, n)
           new == turn.content
           all == blocks \o new
<1>1. /\ more \in Seq(Spoken) /\ DOMAIN more = 1..n /\ more[n] = m /\ DOMAIN history = 1..Len(history)
      /\ \A k \in 1..Len(history) : more[k] = history[k] /\ k \in 1..n
      /\ Len(history) \in Nat /\ n \in Nat /\ Len(history) = n - 1
  OBVIOUS
<1> HIDE DEF more
<1>2. /\ blocks \in Seq(ChatBlocks) /\ InTurn(blocks)
      /\ \A i \in DOMAIN blocks : blocks[i].from \in 1..Len(history)
  BY <1>1 DEF BlocksFit
<1>3. /\ new \in Seq(ChatBlocks)
      /\ \A i \in DOMAIN new : new[i].from = n
      /\ \A i \in DOMAIN new : new[i].type = "tool_result" => m.role = "tool" /\ new[i].id = ResultId(p, m)
      /\ \A c \in DOMAIN m.calls : \E i \in DOMAIN new : new[i].type = "tool_use" /\ new[i].id = m.calls[c].id
  <2>1. /\ turn \in Turns
        /\ \A i \in DOMAIN new : new[i].from = n
        /\ \A i \in DOMAIN new : new[i].type = "tool_result" => m.role = "tool" /\ new[i].id = ResultId(p, m)
        /\ \A c \in DOMAIN m.calls : \E i \in DOMAIN new : new[i].type = "tool_use" /\ new[i].id = m.calls[c].id
    <3>1. TurnFits(p, m, n, turn)
      BY <1>1, ConvertedIs
    <3> HIDE DEF turn, n
    <3> QED
      BY <3>1 DEF TurnFits
  <2> HIDE DEF turn
  <2> QED
    BY <2>1 DEF Turns
<1>4. new = Converted(p, m, n).content
  OBVIOUS
<1> HIDE DEF new
<1>5. /\ all \in Seq(ChatBlocks) /\ InTurn(all)
      /\ \A i \in DOMAIN all : all[i].from \in 1..n
      /\ \A i \in DOMAIN blocks : i \in DOMAIN all /\ all[i] = blocks[i]
      /\ \A i \in DOMAIN new : Len(blocks) + i \in DOMAIN all /\ all[Len(blocks) + i] = new[i]
      /\ \A i \in DOMAIN all :
           i \in DOMAIN blocks \/ (i - Len(blocks) \in DOMAIN new /\ i > Len(blocks) /\ all[i] = new[i - Len(blocks)])
  <2>1. Following(blocks, new, n)
    BY <1>1, <1>2, <1>3, LaterBlocks
  <2> HIDE DEF n
  <2> QED
    BY <2>1 DEF Following
<1>6. \A k \in DOMAIN more : k = n \/ (k \in DOMAIN history /\ k # n)
  BY <1>1
<1>7. EachFound(p, more, all)
  <2> SUFFICES ASSUME NEW k \in DOMAIN more
               PROVE  From(all, k) = IF IsSystem(more[k]) THEN <<>> ELSE Converted(p, more[k], k).content
    BY DEF EachFound
  <2>1. CASE k = n
    <3>1. \A i \in DOMAIN blocks : blocks[i].from # n
      BY <1>1, <1>2
    <3>2. From(all, n) = new
      BY <1>2, <1>3, <3>1, FromNew
    <3> QED
      BY <1>1, <1>4, <2>1, <3>2
  <2>2. CASE k # n
    <3>1. \A i \in DOMAIN new : new[i].from # k
      BY <1>3, <2>2
    <3>2. From(all, k) = From(blocks, k)
      BY <1>2, <1>3, <3>1, FromOld
    <3> HIDE DEF all
    <3> QED
      BY <1>1, <1>6, <2>2, <3>2 DEF BlocksFit, EachFound
  <2> QED
    BY <2>1, <2>2
<1> HIDE DEF all
<1>8. CallsFound(more, all)
  <2> SUFFICES ASSUME NEW k \in DOMAIN more, NEW c \in DOMAIN more[k].calls
               PROVE  \E j \in DOMAIN all : all[j].type = "tool_use" /\ all[j].id = more[k].calls[c].id
    BY DEF CallsFound
  <2>1. CASE k = n
    <3>1. more[k] = m
      BY <1>1, <2>1
    <3>2. PICK i \in DOMAIN new : new[i].type = "tool_use" /\ new[i].id = m.calls[c].id
      BY <1>3, <3>1
    <3> QED
      BY <1>5, <3>1, <3>2
  <2>2. CASE k # n
    <3>1. k \in DOMAIN history /\ more[k] = history[k]
      BY <1>1, <1>6, <2>2
    <3>2. \E j \in DOMAIN blocks : blocks[j].type = "tool_use" /\ blocks[j].id = more[k].calls[c].id
      BY <3>1 DEF BlocksFit, CallsFound
    <3> QED
      BY <1>5, <3>2
  <2> QED
    BY <2>1, <2>2
<1>9. ResultsFollow(p, more, all)
  <2> SUFFICES ASSUME NEW i \in DOMAIN all, all[i].type = "tool_result"
               PROVE  /\ all[i].id = ResultId(p, more[all[i].from])
                      /\ \E j \in 1..(i - 1) : all[j].type = "tool_use" /\ all[j].id = more[all[i].from].id
    BY DEF ResultsFollow
  <2>0. DOMAIN blocks = 1..Len(blocks) /\ Len(blocks) \in Nat /\ DOMAIN all = 1..Len(all) /\ Len(all) \in Nat
    BY <1>2, <1>5
  <2>1. CASE i \in DOMAIN blocks
    <3>1. all[i] = blocks[i] /\ more[all[i].from] = history[blocks[i].from]
      BY <1>1, <1>2, <1>5, <2>1
    <3>2. blocks[i].id = ResultId(p, history[blocks[i].from])
      BY <2>1, <3>1 DEF BlocksFit, ResultsFollow
    <3>3. PICK j \in 1..(i - 1) : blocks[j].type = "tool_use" /\ blocks[j].id = history[blocks[i].from].id
      BY <2>1, <3>1 DEF BlocksFit, ResultsFollow
    <3>4. j \in DOMAIN blocks
      BY <2>0, <2>1
    <3> QED
      BY <1>5, <3>1, <3>2, <3>3, <3>4
  <2>2. CASE i \notin DOMAIN blocks
    <3>1. i - Len(blocks) \in DOMAIN new /\ i > Len(blocks) /\ all[i] = new[i - Len(blocks)]
      BY <1>5, <2>2
    <3>2. all[i].from = n /\ m.role = "tool" /\ all[i].id = ResultId(p, m)
      BY <1>3, <3>1
    <3>3. more[all[i].from] = m
      BY <1>1, <3>2
    <3>4. \E k \in DOMAIN history : \E c \in DOMAIN history[k].calls : history[k].calls[c].id = m.id
      BY <3>2 DEF ResultOf
    <3>5. PICK j \in DOMAIN blocks : blocks[j].type = "tool_use" /\ blocks[j].id = m.id
      BY <3>4 DEF BlocksFit, CallsFound
    <3>6. j \in 1..(i - 1)
      BY <2>0, <3>1
    <3> QED
      BY <1>5, <3>2, <3>3, <3>5, <3>6
  <2> QED
    BY <2>1, <2>2
<1>10. BlocksFit(p, more, all)
  BY <1>1, <1>5, <1>7, <1>8, <1>9 DEF BlocksFit
<1> QED
  BY <1>4, <1>10 DEF more, all

-----------------------------------------------------------------------------
(* Chat: the instructions of a request.                                    *)

SystemOf(p, history) ==
  FlattenSeq([k \in DOMAIN history |-> IF IsSystem(history[k]) THEN SystemBlocks(p, history[k], k) ELSE <<>>])

TextsFound(history, blocks) ==
  \A k \in DOMAIN history : IsSystem(history[k]) =>
    \A text \in Instructions(history[k]) : \E i \in DOMAIN blocks : blocks[i].from = k /\ blocks[i].pieces = text

SystemFits(history, blocks) ==
  /\ blocks \in Seq(ChatBlocks) /\ InTurn(blocks)
  /\ \A i \in DOMAIN blocks : blocks[i].from \in DOMAIN history
  /\ TextsFound(history, blocks)

\* Those of a message more follow those of the others.
LEMMA SystemOneMore ==
  ASSUME NEW p, NEW history \in Seq(Spoken), NEW m \in Spoken, SystemFits(history, SystemOf(p, history))
  PROVE  SystemFits(Append(history, m), SystemOf(p, Append(history, m)))
<1> DEFINE more == Append(history, m)
           n == Len(history) + 1
           Own(h) == [k \in DOMAIN h |-> IF IsSystem(h[k]) THEN SystemBlocks(p, h[k], k) ELSE <<>>]
           old == SystemOf(p, history)
           new == IF IsSystem(m) THEN SystemBlocks(p, m, n) ELSE <<>>
           all == old \o new
<1>1. /\ more \in Seq(Spoken) /\ DOMAIN more = 1..n /\ more[n] = m /\ DOMAIN history = 1..Len(history)
      /\ \A k \in 1..Len(history) : more[k] = history[k] /\ k \in 1..n /\ k # n
      /\ Len(history) \in Nat /\ n \in Nat /\ Len(history) = n - 1 /\ Len(more) = n
      /\ \A k \in 1..n : k = n \/ k \in 1..Len(history)
      /\ \A k \in 1..Len(history) : history[k] \in Spoken /\ k \in Nat
  OBVIOUS
<1> HIDE DEF more, n
<1>2. /\ new \in Seq(ChatBlocks)
      /\ \A i \in DOMAIN new : new[i].from = n
      /\ IsSystem(m) => \A text \in Instructions(m) : \E i \in DOMAIN new : new[i].pieces = text
  <2>1. <<>> \in Seq(ChatBlocks) /\ DOMAIN <<>> = {}
    OBVIOUS
  <2>2. CASE IsSystem(m)
    <3>1. new = SystemBlocks(p, m, n)
      BY <2>2
    <3> DEFINE o == SystemBlocks(p, m, n)
    <3>2. /\ o \in Seq(ChatBlocks)
          /\ \A i \in DOMAIN o : o[i].from = n
          /\ \A text \in Instructions(m) : \E i \in DOMAIN o : o[i].pieces = text
      <4>1. SystemTurn(m, n, o)
        BY <1>1, SystemBlocksAre
      <4> HIDE DEF o
      <4> QED
        BY <4>1 DEF SystemTurn
    <3> HIDE DEF new, o
    <3>3. new = o
      BY <3>1 DEF o
    <3> QED
      BY <3>2, <3>3
  <2>3. CASE ~IsSystem(m)
    BY <2>1, <2>3
  <2> QED
    BY <2>2, <2>3
<1>3. Own(history) \in Seq(Seq(ChatBlocks))
  <2>1. <<>> \in Seq(ChatBlocks)
    OBVIOUS
  <2> DEFINE B(k) == IF IsSystem(history[k]) THEN SystemBlocks(p, history[k], k) ELSE <<>>
  <2>2. \A k \in 1..Len(history) : B(k) \in Seq(ChatBlocks)
    <3> TAKE k \in 1..Len(history)
    <3>1. SystemTurn(history[k], k, SystemBlocks(p, history[k], k))
      BY <1>1, SystemBlocksAre
    <3> QED
      BY <2>1, <3>1 DEF SystemTurn
  <2>3. Own(history) = [k \in 1..Len(history) |-> B(k)]
    BY <1>1
  <2> HIDE DEF B, Own
  <2> QED
    BY <1>1, <2>2, <2>3
<1>4. Own(more) = Append(Own(history), new)
  <2> DEFINE a == Own(more)
             b == Append(Own(history), new)
  <2>1. a = [k \in 1..n |-> a[k]] /\ a[n] = new
        /\ \A k \in 1..Len(history) : a[k] = IF IsSystem(history[k]) THEN SystemBlocks(p, history[k], k) ELSE <<>>
    BY <1>1
  <2>2. Len(Own(history)) = n - 1
    BY <1>1
  <2>3. b \in Seq(Seq(ChatBlocks)) /\ Len(b) = n /\ b[n] = new /\ \A k \in 1..(n - 1) : b[k] = Own(history)[k]
    <3> DEFINE o == Own(history)
    <3>1. o \in Seq(Seq(ChatBlocks)) /\ Len(o) = n - 1
      BY <1>3, <2>2
    <3> HIDE DEF o, new
    <3>2. Append(o, new) \in Seq(Seq(ChatBlocks)) /\ Len(Append(o, new)) = n /\ Append(o, new)[n] = new
          /\ \A k \in 1..(n - 1) : Append(o, new)[k] = o[k]
      BY <1>1, <1>2, <3>1
    <3> QED
      BY <3>2 DEF o
  <2>4. \A k \in 1..Len(history) : Own(history)[k] = IF IsSystem(history[k]) THEN SystemBlocks(p, history[k], k) ELSE <<>>
    BY <1>1
  <2> HIDE DEF Own, a, new
  <2>5. b = [k \in 1..n |-> b[k]]
    <3> HIDE DEF b
    <3> QED
      BY <2>3
  <2> HIDE DEF b
  <2>6. \A k \in 1..n : a[k] = b[k]
    <3> TAKE k \in 1..n
    <3>1. CASE k = n
      BY <2>1, <2>3, <3>1
    <3>2. CASE k # n
      <4>1. k \in 1..Len(history) /\ k \in 1..(n - 1)
        BY <1>1, <3>2
      <4> QED
        BY <2>1, <2>3, <2>4, <4>1
    <3> QED
      BY <3>1, <3>2
  <2>7. a = b
    BY <2>1, <2>5, <2>6
  <2> QED
    BY <2>7 DEF a, b
<1>5. SystemOf(p, more) = all
  <2>1. SystemOf(p, more) = FlattenSeq(Own(more)) /\ old = FlattenSeq(Own(history))
    BY DEF SystemOf
  <2> HIDE DEF Own, new, old
  <2> QED
    BY <1>2, <1>3, <1>4, <2>1, FlattenOneMore
<1> HIDE DEF new, old
<1>6. /\ old \in Seq(ChatBlocks) /\ InTurn(old) /\ \A i \in DOMAIN old : old[i].from \in 1..Len(history)
      /\ TextsFound(history, old)
  BY <1>1 DEF SystemFits, old
<1>7. /\ all \in Seq(ChatBlocks) /\ InTurn(all)
      /\ \A i \in DOMAIN all : all[i].from \in 1..n
      /\ \A i \in DOMAIN old : i \in DOMAIN all /\ all[i] = old[i]
      /\ \A i \in DOMAIN new : Len(old) + i \in DOMAIN all /\ all[Len(old) + i] = new[i]
  <2>1. n = Len(history) + 1
    BY DEF n
  <2>2. \A i \in DOMAIN new : new[i].from = Len(history) + 1
    BY <1>2, <2>1
  <2>3. Following(old, new, Len(history) + 1)
    BY <1>1, <1>2, <1>6, <2>2, LaterBlocks
  <2> QED
    BY <2>1, <2>3 DEF Following
<1> HIDE DEF all
<1>8. TextsFound(more, all)
  <2> SUFFICES ASSUME NEW k \in 1..n, IsSystem(more[k]), NEW text \in Instructions(more[k])
               PROVE  \E i \in DOMAIN all : all[i].from = k /\ all[i].pieces = text
    BY <1>1 DEF TextsFound
  <2>1. CASE k = n
    <3>1. more[k] = m
      BY <1>1, <2>1
    <3>2. PICK i \in DOMAIN new : new[i].pieces = text
      BY <1>2, <3>1
    <3> QED
      BY <1>2, <1>7, <2>1, <3>2
  <2>2. CASE k # n
    <3>1. k \in DOMAIN history /\ more[k] = history[k]
      BY <1>1, <2>2
    <3>2. PICK i \in DOMAIN old : old[i].from = k /\ old[i].pieces = text
      BY <1>6, <3>1 DEF TextsFound
    <3> QED
      BY <1>7, <3>2
  <2> QED
    BY <2>1, <2>2
<1>9. SystemFits(more, all)
  BY <1>1, <1>7, <1>8 DEF SystemFits
<1> QED
  BY <1>5, <1>9 DEF more

\* So they are all there, with the one to answer in JSON.
LEMMA InstructionsAre ==
  ASSUME NEW p, NEW history \in Seq(Spoken), SystemFits(history, SystemOf(p, history)), NEW options
  PROVE  InstructionsKept(p, history, options)
<1> DEFINE blocks == SystemOf(p, history)
           json == JsonBlocks(options)
           all == System(p, history, options)
<1>1. all = IF Anthropic(p) THEN json \o blocks ELSE blocks \o json
  BY DEF System, SystemOf
<1>2. /\ json \in Seq(ChatBlocks) /\ (\A i \in DOMAIN json : json[i].from = 0)
      /\ DOMAIN json = IF options.format = "text" THEN {} ELSE 1..1
  <2>1. CASE options.format = "text"
    <3>1. json = <<>>
      BY <2>1 DEF JsonBlocks
    <3>2. <<>> \in Seq(ChatBlocks) /\ DOMAIN <<>> = {}
      OBVIOUS
    <3> QED
      BY <2>1, <3>1, <3>2
  <2>2. CASE options.format # "text"
    <3> DEFINE b == Block("text", 0, "", <<"json">>)
    <3>1. json = <<b>>
      BY <2>2 DEF JsonBlocks
    <3>2. "json" \in Taken
      BY DEF Taken
    <3>3. <<"json">> \in Seq(Taken)
      BY <3>2, OneIs
    <3>4. b \in ChatBlocks /\ b.from = 0
      BY <3>3 DEF Block, ChatBlocks
    <3> HIDE DEF b
    <3>5. <<b>> \in Seq(ChatBlocks) /\ DOMAIN <<b>> = 1..1 /\ \A i \in DOMAIN <<b>> : <<b>>[i] = b
      BY <3>4, OneIs
    <3> QED
      BY <2>2, <3>1, <3>4, <3>5
  <2> QED
    BY <2>1, <2>2
<1>3. /\ blocks \in Seq(ChatBlocks) /\ InTurn(blocks) /\ TextsFound(history, blocks)
      /\ \A i \in DOMAIN blocks : blocks[i].from \in 1..Len(history)
  BY DomainIs DEF SystemFits
<1>4. InstructionsKept(p, history, options) <=>
        /\ \A i, j \in DOMAIN all : i < j /\ all[j].from # 0 => all[i].from <= all[j].from
        /\ TextsFound(history, all)
        /\ (\E i \in DOMAIN all : all[i].from = 0) <=> options.format # "text"
  BY DEF InstructionsKept, TextsFound
<1> HIDE DEF blocks, json, all
<1>5. /\ json \o blocks \in Seq(ChatBlocks) /\ Len(json \o blocks) = Len(json) + Len(blocks)
      /\ \A i \in 1..(Len(json) + Len(blocks)) :
           (json \o blocks)[i] = IF i <= Len(json) THEN json[i] ELSE blocks[i - Len(json)]
      /\ blocks \o json \in Seq(ChatBlocks) /\ Len(blocks \o json) = Len(blocks) + Len(json)
      /\ \A i \in 1..(Len(blocks) + Len(json)) :
           (blocks \o json)[i] = IF i <= Len(blocks) THEN blocks[i] ELSE json[i - Len(blocks)]
  BY <1>2, <1>3, ConcatProperties
<1>6. /\ DOMAIN json = 1..Len(json) /\ Len(json) \in Nat /\ DOMAIN blocks = 1..Len(blocks) /\ Len(blocks) \in Nat
      /\ DOMAIN (json \o blocks) = 1..(Len(json) + Len(blocks))
      /\ DOMAIN (blocks \o json) = 1..(Len(blocks) + Len(json))
  BY <1>2, <1>3, <1>5, DomainIs
<1> DEFINE lj == Len(json)
           lb == Len(blocks)
           a == json \o blocks
           b == blocks \o json
<1>7. /\ \A i \in 1..lj : i \in DOMAIN a /\ a[i] = json[i] /\ lb + i \in DOMAIN b /\ b[lb + i] = json[i]
      /\ \A i \in 1..lb : i \in DOMAIN b /\ b[i] = blocks[i] /\ lj + i \in DOMAIN a /\ a[lj + i] = blocks[i]
  <2> HIDE DEF a, b
  <2>1. ASSUME NEW i \in 1..lj
        PROVE  i \in DOMAIN a /\ a[i] = json[i] /\ lb + i \in DOMAIN b /\ b[lb + i] = json[i]
    <3>1. i \in 1..(lj + lb) /\ i <= lj /\ lb + i \in 1..(lb + lj) /\ ~(lb + i <= lb) /\ (lb + i) - lb = i
      BY <1>6
    <3> QED
      BY <1>5, <1>6, <3>1 DEF a, b
  <2>2. ASSUME NEW i \in 1..lb
        PROVE  i \in DOMAIN b /\ b[i] = blocks[i] /\ lj + i \in DOMAIN a /\ a[lj + i] = blocks[i]
    <3>1. i \in 1..(lb + lj) /\ i <= lb /\ lj + i \in 1..(lj + lb) /\ ~(lj + i <= lj) /\ (lj + i) - lj = i
      BY <1>6
    <3> QED
      BY <1>5, <1>6, <3>1 DEF a, b
  <2> QED
    BY <2>1, <2>2
<1>8. /\ \A i \in DOMAIN a : i \in 1..lj \/ (i > lj /\ i - lj \in 1..lb /\ a[i] = blocks[i - lj])
      /\ \A i \in DOMAIN b : i \in 1..lb \/ (i > lb /\ i - lb \in 1..lj /\ b[i] = json[i - lb])
  <2> HIDE DEF a, b
  <2>1. ASSUME NEW i \in DOMAIN a PROVE i \in 1..lj \/ (i > lj /\ i - lj \in 1..lb /\ a[i] = blocks[i - lj])
    BY <1>5, <1>6 DEF a
  <2>2. ASSUME NEW i \in DOMAIN b PROVE i \in 1..lb \/ (i > lb /\ i - lb \in 1..lj /\ b[i] = json[i - lb])
    BY <1>5, <1>6 DEF b
  <2> QED
    BY <2>1, <2>2
<1> HIDE DEF a, b
<1>9. all \in {a, b} /\ (\A i \in 1..lb : blocks[i].from \in Nat /\ blocks[i].from # 0)
  BY <1>1, <1>3, <1>6 DEF a, b
<1>10. \A i, j \in DOMAIN all : i < j /\ all[j].from # 0 => all[i].from <= all[j].from
  <2>1. ASSUME NEW i \in DOMAIN a, NEW j \in DOMAIN a, i < j, a[j].from # 0 PROVE a[i].from <= a[j].from
    <3>1. j > lj /\ j - lj \in 1..lb /\ a[j] = blocks[j - lj]
      BY <1>2, <1>6, <1>7, <1>8, <2>1
    <3>2. CASE i \in 1..lj
      <4>1. a[i].from = 0 /\ a[j].from \in Nat
        BY <1>2, <1>6, <1>7, <1>9, <3>1, <3>2
      <4> QED
        BY <4>1
    <3>3. CASE i \notin 1..lj
      <4>1. i - lj \in 1..lb /\ a[i] = blocks[i - lj] /\ i - lj < j - lj
        BY <1>6, <1>8, <2>1, <3>3
      <4> QED
        BY <1>3, <1>6, <3>1, <4>1 DEF InTurn
    <3> QED
      BY <3>2, <3>3
  <2>2. ASSUME NEW i \in DOMAIN b, NEW j \in DOMAIN b, i < j, b[j].from # 0 PROVE b[i].from <= b[j].from
    <3>1. j \in 1..lb /\ b[j] = blocks[j]
      BY <1>2, <1>6, <1>7, <1>8, <2>2
    <3>2. i \in 1..lb /\ b[i] = blocks[i]
      <4>1. i \in 1..(lb + lj)
        BY <1>6, <2>2 DEF b
      <4>2. i \in 1..lb
        BY <1>6, <2>2, <3>1, <4>1
      <4> QED
        BY <1>7, <4>2
    <3> QED
      BY <1>3, <1>6, <2>2, <3>1, <3>2 DEF InTurn
  <2> QED
    BY <1>9, <2>1, <2>2
<1>11. TextsFound(history, all)
  <2> SUFFICES ASSUME NEW k \in DOMAIN history, IsSystem(history[k]), NEW text \in Instructions(history[k])
               PROVE  \E i \in DOMAIN all : all[i].from = k /\ all[i].pieces = text
    BY DEF TextsFound
  <2>1. PICK i \in DOMAIN blocks : blocks[i].from = k /\ blocks[i].pieces = text
    BY <1>3 DEF TextsFound
  <2> QED
    BY <1>6, <1>7, <1>9, <2>1
<1>12. (\E i \in DOMAIN all : all[i].from = 0) <=> options.format # "text"
  <2>1. CASE options.format = "text"
    <3>1. \A i \in 1..lj : FALSE
      BY <1>2, <1>6, <2>1
    <3>2. \A i \in DOMAIN all : all[i].from # 0
      BY <1>7, <1>8, <1>9, <3>1
    <3> QED
      BY <2>1, <3>2
  <2>2. CASE options.format # "text"
    <3>1. 1 \in 1..lj /\ json[1].from = 0
      BY <1>2, <1>6, <2>2
    <3> QED
      BY <1>7, <1>9, <2>2, <3>1
  <2> QED
    BY <2>1, <2>2
<1> QED
  BY <1>4, <1>10, <1>11, <1>12

-----------------------------------------------------------------------------
(* Chat: what a provider said comes back to it.                            *)

Made == [id : CallIds \cup {""}, args : Seq(Pieces)]

\* What a reply becomes can be spoken.
LEMMA WholeIs ==
  ASSUME NEW p, NEW reply \in Replies
  PROVE  /\ reply.blocks \in Seq(Said)
         /\ TextOf(reply.blocks) \in Seq(Pieces) /\ CallsOf(p, reply.blocks) \in Seq(Made)
         /\ WholeReply(p, reply) =
              [text |-> TextOf(reply.blocks), calls |-> CallsOf(p, reply.blocks),
               finish |-> FinishReason(p, reply.stop), prompt |-> Prompt(p, reply), completion |-> reply.output]
         /\ Told(WholeReply(p, reply)) =
              [role |-> "assistant", plain |-> TRUE, content |-> TextOf(reply.blocks),
               calls |-> CallsOf(p, reply.blocks), id |-> ""]
         /\ Told(WholeReply(p, reply)) \in Spoken
<1> DEFINE blocks == reply.blocks
           N == {k \in DOMAIN blocks : IsUse(p, blocks[k])}
           uses == Uses(p, blocks)
           B(k) == IF blocks[k].type = "text" THEN blocks[k].pieces ELSE <<>>
           seqs == [k \in DOMAIN blocks |-> B(k)]
           calls == CallsOf(p, blocks)
<1>1. blocks \in Seq(Said)
  BY ChatAssumption
<1>2. WholeReply(p, reply) =
        [text |-> TextOf(blocks), calls |-> calls,
         finish |-> FinishReason(p, reply.stop), prompt |-> Prompt(p, reply), completion |-> reply.output]
  BY DEF WholeReply, CallsOf
<1> HIDE DEF blocks
<1>3. TextOf(blocks) \in Seq(Pieces)
  <2>1. TextOf(blocks) = FlattenSeq(seqs)
    BY DEF TextOf
  <2>2. DOMAIN blocks = 1..Len(blocks) /\ Len(blocks) \in Nat
    BY <1>1, DomainIs
  <2>3. \A k \in 1..Len(blocks) : B(k) \in Seq(Pieces)
    <3> TAKE k \in 1..Len(blocks)
    <3>1. blocks[k] \in Said
      BY <1>1, ElementOfSeq
    <3>2. blocks[k].pieces \in Seq(Pieces)
      BY <3>1 DEF Said
    <3>3. <<>> \in Seq(Pieces)
      OBVIOUS
    <3> QED
      BY <3>2, <3>3
  <2>4. seqs = [k \in 1..Len(blocks) |-> B(k)]
    BY <2>2
  <2> HIDE DEF B, seqs
  <2>5. seqs \in Seq(Seq(Pieces))
    BY <2>2, <2>3, <2>4
  <2> QED
    BY <2>1, <2>5, FlattenOneMore
<1>4. calls \in Seq(Made)
  <2> DEFINE C(c) == [id |-> uses[c].id, args |-> uses[c].pieces]
  <2>1. uses = Picked(blocks, N)
    BY DEF Uses
  <2>2. calls = [c \in DOMAIN uses |-> C(c)]
    BY DEF CallsOf
  <2>3. N \in SUBSET (1..Len(blocks))
    BY <1>1, DomainIs
  <2> HIDE DEF N, uses
  <2>4. uses \in Seq(Said)
    BY <1>1, <2>1, <2>3, PickedIs
  <2>5. DOMAIN uses = 1..Len(uses) /\ Len(uses) \in Nat
    BY <2>4, DomainIs
  <2>6. \A c \in 1..Len(uses) : C(c) \in Made
    <3> TAKE c \in 1..Len(uses)
    <3>1. uses[c] \in Said
      BY <2>4, ElementOfSeq
    <3>2. uses[c].id \in CallIds \cup {""} /\ uses[c].pieces \in Seq(Pieces)
      BY <3>1 DEF Said
    <3> QED
      BY <3>2 DEF Made
  <2> HIDE DEF C
  <2> QED
    BY <2>2, <2>5, <2>6
<1> HIDE DEF calls
<1>5. Told(WholeReply(p, reply)) =
        [role |-> "assistant", plain |-> TRUE, content |-> TextOf(blocks), calls |-> calls, id |-> ""]
  BY <1>2 DEF Told, Message
<1>6. [role |-> "assistant", plain |-> TRUE, content |-> TextOf(blocks), calls |-> calls, id |-> ""] \in Spoken
  <2> DEFINE text == TextOf(blocks)
  <2> HIDE DEF text
  <2>1. text \in Seq(Pieces)
    BY <1>3 DEF text
  <2>2. [role |-> "assistant", plain |-> TRUE, content |-> text, calls |-> calls, id |-> ""] \in Spoken
    BY <1>4, <2>1 DEF Spoken, Caller, Made
  <2> QED
    BY <2>2 DEF text
<1> QED
  BY <1>1, <1>2, <1>3, <1>4, <1>5, <1>6 DEF blocks, calls

\* Its text and its calls are what the provider is given again.
LEMMA ToldBack ==
  ASSUME NEW p, NEW m \in Spoken, NEW k \in Nat
  PROVE  /\ TextOf(AssistantBlocks(m, k)) = IF m.plain THEN m.content ELSE <<>>
         /\ CallsOf(p, AssistantBlocks(m, k)) = m.calls
<1> DEFINE blocks == AssistantBlocks(m, k)
           own == IF m.plain THEN m.content ELSE <<>>
           text == IF m.plain /\ m.content # <<>> THEN <<Block("text", k, "", m.content)>> ELSE <<>>
           uses == [c \in DOMAIN m.calls |-> Block("tool_use", k, m.calls[c].id, m.calls[c].args)]
           none == <<Block("text", k, "", <<>>)>>
           B(i) == IF blocks[i].type = "text" THEN blocks[i].pieces ELSE <<>>
           seqs == [i \in DOMAIN blocks |-> B(i)]
           N == {i \in DOMAIN blocks : IsUse(p, blocks[i])}
<1>1. /\ blocks \in Seq(ChatBlocks) /\ blocks # <<>>
      /\ text \in Seq(ChatBlocks) /\ uses \in Seq(ChatBlocks) /\ Len(uses) = Len(m.calls) /\ Len(text) \in {0, 1}
      /\ blocks = IF text = <<>> /\ m.calls = <<>> THEN none ELSE text \o uses
  BY AssistantBlocksAre
<1>2. m.content \in Seq(Taken) /\ m.calls \in Seq(Made)
  BY SpokenIs DEF Made
<1>3. IF own = <<>> THEN text = <<>>
      ELSE Len(text) = 1 /\ text[1].type = "text" /\ text[1].pieces = own
  <2> DEFINE b == Block("text", k, "", m.content)
  <2>1. b.type = "text" /\ b.pieces = m.content
    BY DEF Block
  <2> HIDE DEF b
  <2>2. Len(<<b>>) = 1 /\ <<b>>[1] = b
    OBVIOUS
  <2> QED
    BY <2>1, <2>2 DEF b
<1>4. /\ DOMAIN m.calls = 1..Len(m.calls) /\ Len(m.calls) \in Nat
      /\ \A c \in 1..Len(m.calls) : uses[c].type = "tool_use" /\ uses[c].id = m.calls[c].id /\ uses[c].pieces = m.calls[c].args
  <2>1. DOMAIN m.calls = 1..Len(m.calls) /\ Len(m.calls) \in Nat
    BY <1>2, DomainIs
  <2> QED
    BY <2>1 DEF Block
<1>5. Len(none) = 1 /\ none[1].type = "text" /\ none[1].pieces = <<>>
  <2> DEFINE b == Block("text", k, "", <<>>)
  <2>1. b.type = "text" /\ b.pieces = <<>>
    BY DEF Block
  <2> HIDE DEF b
  <2>2. Len(<<b>>) = 1 /\ <<b>>[1] = b
    OBVIOUS
  <2> QED
    BY <2>1, <2>2 DEF b
<1> HIDE DEF text, uses, none, own
<1>6. /\ Len(text \o uses) = Len(text) + Len(uses) /\ Len(text) \in Nat /\ Len(uses) \in Nat
      /\ \A i \in 1..(Len(text) + Len(uses)) : (text \o uses)[i] = IF i <= Len(text) THEN text[i] ELSE uses[i - Len(text)]
  <2>1. text \in Seq(ChatBlocks) /\ uses \in Seq(ChatBlocks)
    BY <1>1
  <2>2. Len(text) \in Nat /\ Len(uses) \in Nat
    BY <2>1
  <2> QED
    BY <2>1, <2>2, ConcatProperties
<1>7. TextOf(blocks) = FlattenSeq(seqs) /\ Uses(p, blocks) = Picked(blocks, N)
      /\ CallsOf(p, blocks) = [c \in DOMAIN Uses(p, blocks) |-> [id |-> Uses(p, blocks)[c].id, args |-> Uses(p, blocks)[c].pieces]]
  BY DEF TextOf, Uses, CallsOf
<1> HIDE DEF blocks
<1>8. /\ DOMAIN blocks = 1..Len(blocks) /\ Len(blocks) \in Nat \ {0}
  BY <1>1, DomainIs, EmptySeq
<1>9. seqs \in Seq(Seq(Taken)) /\ Len(seqs) = Len(blocks) /\ seqs # <<>> /\ \A i \in 1..Len(blocks) : seqs[i] = B(i)
  <2>1. \A i \in 1..Len(blocks) : B(i) \in Seq(Taken)
    <3> TAKE i \in 1..Len(blocks)
    <3>1. blocks[i] \in ChatBlocks
      BY <1>1, ElementOfSeq
    <3>2. blocks[i].pieces \in Seq(Taken)
      BY <3>1 DEF ChatBlocks
    <3>3. <<>> \in Seq(Taken)
      OBVIOUS
    <3> QED
      BY <3>2, <3>3
  <2>2. seqs = [i \in 1..Len(blocks) |-> B(i)]
    BY <1>8
  <2> HIDE DEF B, seqs
  <2>3. seqs \in Seq(Seq(Taken)) /\ Len(seqs) = Len(blocks) /\ \A i \in 1..Len(blocks) : seqs[i] = B(i)
    BY <1>8, <2>1, <2>2
  <2> QED
    BY <1>8, <2>3, EmptySeq
<1> HIDE DEF seqs
<1>10. CASE text = <<>> /\ m.calls = <<>>
  <2>1. blocks = none /\ Len(blocks) = 1
    BY <1>1, <1>5, <1>10
  <2>2. own = <<>>
    <3>1. Len(<<>>) = 0
      OBVIOUS
    <3> QED
      BY <1>3, <1>10, <3>1
  <2>3. \A i \in 2..Len(seqs) : seqs[i] = <<>>
    BY <1>9, <2>1
  <2>4. FlattenSeq(seqs) = seqs[1] /\ seqs[1] = B(1)
    BY <1>8, <1>9, <2>3, FlattenFirst
  <2>5. B(1) = <<>>
    BY <1>5, <2>1
  <2>6. N = {}
    <3>1. \A i \in DOMAIN blocks : ~IsUse(p, blocks[i])
      BY <1>5, <1>8, <2>1 DEF IsUse
    <3> QED
      BY <3>1
  <2>7. Uses(p, blocks) = <<>>
    <3>1. Picked(blocks, {}) = <<>>
      BY OrderedNone DEF Picked
    <3> QED
      BY <1>7, <2>6, <3>1
  <2>8. CallsOf(p, blocks) = <<>>
    <3>1. CallsOf(p, blocks) = [c \in DOMAIN <<>> |-> [id |-> <<>>[c].id, args |-> <<>>[c].pieces]]
      BY <1>7, <2>7
    <3> QED
      BY <3>1
  <2> QED
    BY <1>7, <1>10, <2>2, <2>4, <2>5, <2>8 DEF blocks, own
<1>11. CASE ~(text = <<>> /\ m.calls = <<>>)
  <2>1. blocks = text \o uses /\ Len(blocks) = Len(text) + Len(uses)
    BY <1>1, <1>6, <1>11
  <2>2. \A i \in 1..Len(blocks) : blocks[i] = IF i <= Len(text) THEN text[i] ELSE uses[i - Len(text)]
    BY <1>6, <2>1
  <2>3. \A i \in 1..Len(blocks) : i > Len(text) => i - Len(text) \in 1..Len(m.calls) /\ blocks[i].type = "tool_use"
    <3> TAKE i \in 1..Len(blocks)
    <3> SUFFICES ASSUME i > Len(text) PROVE i - Len(text) \in 1..Len(m.calls) /\ blocks[i].type = "tool_use"
      OBVIOUS
    <3>1. i - Len(text) \in 1..Len(m.calls)
      BY <1>1, <1>6, <2>1
    <3> QED
      BY <1>4, <1>6, <2>2, <3>1
  <2>4. \A i \in 1..Len(blocks) : i <= Len(text) => i = 1 /\ Len(text) = 1 /\ own # <<>>
    <3>1. Len(text) = 1 => own # <<>>
      <4>1. Len(<<>>) = 0
        OBVIOUS
      <4> QED
        BY <1>3, <4>1
    <3> QED
      BY <1>1, <3>1
  <2>5. \A i \in 2..Len(seqs) : seqs[i] = <<>>
    <3> TAKE i \in 2..Len(seqs)
    <3>1. i \in 1..Len(blocks) /\ i # 1
      BY <1>8, <1>9
    <3>2. blocks[i].type = "tool_use"
      BY <1>6, <2>3, <2>4, <3>1
    <3> QED
      BY <1>9, <3>1, <3>2
  <2>6. FlattenSeq(seqs) = seqs[1] /\ seqs[1] = B(1) /\ 1 \in 1..Len(blocks)
    BY <1>8, <1>9, <2>5, FlattenFirst
  <2>7. B(1) = own
    <3>1. CASE own = <<>>
      <4>1. ~(1 <= Len(text))
        BY <2>4, <2>6, <3>1
      <4>2. blocks[1].type = "tool_use"
        BY <1>6, <2>3, <2>6, <4>1
      <4> QED
        BY <3>1, <4>2
    <3>2. CASE own # <<>>
      <4>1. Len(text) = 1 /\ text[1].type = "text" /\ text[1].pieces = own
        BY <1>3, <3>2
      <4>2. blocks[1] = text[1]
        <5>1. 1 <= Len(text)
          BY <4>1
        <5> QED
          BY <2>2, <2>6, <5>1
      <4> QED
        BY <4>1, <4>2
    <3> QED
      BY <3>1, <3>2
  <2>8. N = (Len(text) + 1)..(Len(text) + Len(uses))
    <3>1. \A i \in 1..Len(blocks) : IsUse(p, blocks[i]) <=> i > Len(text)
      <4> TAKE i \in 1..Len(blocks)
      <4>1. CASE i > Len(text)
        BY <2>3, <4>1 DEF IsUse
      <4>2. CASE ~(i > Len(text))
        <5>1. i <= Len(text)
          BY <1>6, <4>2
        <5>2. i = 1 /\ Len(text) = 1 /\ own # <<>> /\ blocks[i] = text[i]
          BY <2>2, <2>4, <5>1
        <5>3. blocks[i].type = "text"
          BY <1>3, <5>2
        <5> QED
          BY <4>2, <5>3 DEF IsUse
      <4> QED
        BY <4>1, <4>2
    <3>2. N = {i \in 1..Len(blocks) : i > Len(text)}
      BY <1>8, <3>1
    <3> QED
      BY <1>6, <1>8, <2>1, <3>2
  <2>9. Uses(p, blocks) = uses
    BY <1>1, <1>7, <2>1, <2>8, PickedTail
  <2>10. CallsOf(p, blocks) = m.calls
    <3> DEFINE C(c) == [id |-> uses[c].id, args |-> uses[c].pieces]
    <3>1. CallsOf(p, blocks) = [c \in DOMAIN uses |-> C(c)]
      BY <1>7, <2>9
    <3>2. DOMAIN uses = 1..Len(m.calls)
      BY <1>1, DomainIs
    <3>3. \A c \in 1..Len(m.calls) : C(c) = m.calls[c]
      <4> TAKE c \in 1..Len(m.calls)
      <4>1. m.calls[c] \in Made
        BY <1>2, ElementOfSeq
      <4>2. m.calls[c] = [id |-> m.calls[c].id, args |-> m.calls[c].args]
        BY <4>1 DEF Made
      <4> QED
        BY <1>4, <4>2
    <3> HIDE DEF C
    <3>4. m.calls = [c \in 1..Len(m.calls) |-> m.calls[c]]
      BY <1>2
    <3> QED
      BY <3>1, <3>2, <3>3, <3>4
  <2> QED
    BY <1>7, <2>6, <2>7, <2>10 DEF blocks, own
<1> QED
  BY <1>10, <1>11

\* A sequence is what it holds at all its places.
LEMMA AllPicked ==
  ASSUME NEW S, NEW s \in Seq(S)
  PROVE  Picked(s, 1..Len(s)) = s
<1>1. <<>> \in Seq(S) /\ Len(<<>>) = 0 /\ Len(s) \in Nat
  OBVIOUS
<1>2. <<>> \o s = s
  BY ConcatEmptySeq
<1>3. Picked(<<>> \o s, (Len(<<>>) + 1)..(Len(<<>>) + Len(s))) = s
  BY <1>1, PickedTail
<1> QED
  BY <1>1, <1>2, <1>3

\* Blocks that call nothing.
LEMMA NoCalls ==
  ASSUME NEW p, NEW blocks, \A i \in DOMAIN blocks : blocks[i].type \notin {"tool_use", "server_tool_use"}
  PROVE  CallsOf(p, blocks) = <<>>
<1>1. {i \in DOMAIN blocks : IsUse(p, blocks[i])} = {}
  BY DEF IsUse
<1>2. Picked(blocks, {}) = <<>>
  BY OrderedNone DEF Picked
<1>3. Uses(p, blocks) = <<>>
  BY <1>1, <1>2 DEF Uses
<1>4. CallsOf(p, blocks) = [c \in DOMAIN <<>> |-> [id |-> <<>>[c].id, args |-> <<>>[c].pieces]]
  BY <1>3 DEF CallsOf
<1> QED
  BY <1>4

\* One block that is no call, and any number of calls after it.
LEMMA OneContent ==
  ASSUME NEW head \in Seq(ChatBlocks), Len(head) = 1, head[1].type # "tool_use", NEW tail \in Seq(ChatBlocks),
         \A i \in DOMAIN tail : tail[i].type = "tool_use"
  PROVE  ContentsOf(head \o tail) = IF head[1].pieces = <<>> THEN <<>> ELSE <<head[1].pieces>>
<1> DEFINE all == head \o tail
           N == {k \in DOMAIN all : all[k].type # "tool_use" /\ all[k].pieces # <<>>}
<1>1. /\ all \in Seq(ChatBlocks) /\ DOMAIN all = 1..(1 + Len(tail)) /\ Len(tail) \in Nat
      /\ all[1] = head[1] /\ \A i \in 1..(1 + Len(tail)) : i # 1 => all[i].type = "tool_use"
  <2>1. /\ all \in Seq(ChatBlocks) /\ Len(all) = 1 + Len(tail)
        /\ \A i \in 1..(1 + Len(tail)) : all[i] = IF i <= 1 THEN head[i] ELSE tail[i - 1]
    <3>1. /\ all \in Seq(ChatBlocks) /\ Len(all) = Len(head) + Len(tail)
          /\ \A i \in 1..(Len(head) + Len(tail)) : all[i] = IF i <= Len(head) THEN head[i] ELSE tail[i - Len(head)]
      BY ConcatProperties
    <3> HIDE DEF all
    <3> QED
      BY <3>1
  <2>2. Len(tail) \in Nat /\ DOMAIN tail = 1..Len(tail)
    BY DomainIs
  <2> HIDE DEF all
  <2>3. \A i \in 1..(1 + Len(tail)) : i # 1 => i - 1 \in DOMAIN tail /\ ~(i <= 1)
    BY <2>2
  <2>4. 1 \in 1..(1 + Len(tail)) /\ DOMAIN all = 1..(1 + Len(tail))
    BY <2>1, <2>2
  <2> QED
    BY <2>1, <2>2, <2>3, <2>4
<1>2. ContentsOf(all) = [k \in DOMAIN Picked(all, N) |-> Picked(all, N)[k].pieces]
  BY DEF ContentsOf
<1>3. CASE head[1].pieces = <<>>
  <2> HIDE DEF all
  <2>1. N = {}
    BY <1>1, <1>3
  <2>2. Picked(all, {}) = <<>>
    BY OrderedNone DEF Picked
  <2>3. ContentsOf(all) = [k \in DOMAIN <<>> |-> <<>>[k].pieces]
    BY <1>2, <2>1, <2>2
  <2> QED
    BY <1>3, <2>3 DEF all
<1>4. CASE head[1].pieces # <<>>
  <2>1. N = 1..1
    <3> HIDE DEF all
    <3>1. 1 \in N /\ \A k \in N : k = 1
      BY <1>1, <1>4
    <3> QED
      BY <3>1
  <2>2. Picked(all, 1..1) = Picked(head, 1..1)
    BY PickedHead
  <2>3. Picked(head, 1..1) = head
    BY AllPicked
  <2> HIDE DEF all
  <2>4. ContentsOf(all) = [k \in DOMAIN head |-> head[k].pieces]
    BY <1>2, <2>1, <2>2, <2>3
  <2>5. DOMAIN head = 1..1
    BY DomainIs
  <2>6. [k \in DOMAIN head |-> head[k].pieces] = <<head[1].pieces>>
    BY <2>5
  <2> QED
    BY <1>4, <2>4, <2>6 DEF all
<1> QED
  BY <1>3, <1>4

Carries(p, m, blocks) == ContentsOf(blocks) = GivenOf(p, m) /\ CallsOf(p, blocks) = m.calls

\* Of a message of the user, what is given of it.
LEMMA UserCarries ==
  ASSUME NEW p, NEW m \in Spoken, m.role = "user", NEW k \in Nat
  PROVE  Carries(p, m, UserBlocks(p, m, k))
<1> DEFINE blocks == UserBlocks(p, m, k)
<1>1. /\ m.plain \in BOOLEAN /\ m.content \in Seq(Taken) /\ m.calls = <<>>
  BY SpokenIs
<1>2. /\ blocks \in Seq(ChatBlocks)
      /\ \A i \in DOMAIN blocks : blocks[i].type \in {"text", "document", "image"}
  BY UserBlocksAre
<1>3. CallsOf(p, blocks) = <<>>
  <2> HIDE DEF blocks
  <2> QED
    BY <1>2, NoCalls
<1>4. CASE m.plain
  <2> DEFINE b == Block("text", k, "", m.content)
  <2>1. blocks = <<b>> /\ b.type = "text" /\ b.pieces = m.content
    BY <1>4 DEF UserBlocks, Block
  <2> HIDE DEF blocks, b
  <2>2. Len(blocks) = 1 /\ blocks[1] = b
    BY <2>1
  <2>3. <<>> \in Seq(ChatBlocks) /\ DOMAIN <<>> = {}
    OBVIOUS
  <2>4. ContentsOf(blocks \o <<>>) = IF m.content = <<>> THEN <<>> ELSE <<m.content>>
    BY <1>2, <2>1, <2>2, <2>3, OneContent
  <2>5. blocks \o <<>> = blocks
    BY <1>2, ConcatEmptySeq
  <2>6. GivenOf(p, m) = IF m.content = <<>> THEN <<>> ELSE <<m.content>>
    BY <1>4 DEF GivenOf
  <2> QED
    BY <1>1, <1>3, <2>4, <2>5, <2>6 DEF Carries, blocks
<1>5. CASE ~m.plain
  <2> DEFINE N == {i \in DOMAIN m.content : PartType(p, m.content[i]) # "none"}
             kept == Picked(m.content, N)
             B(i) == Block(PartType(p, kept[i]), k, "", <<kept[i]>>)
  <2>1. blocks = [i \in DOMAIN kept |-> B(i)]
    BY <1>5 DEF UserBlocks
  <2>2. N = {i \in DOMAIN m.content : m.content[i] \in GivenParts(p, m.role)}
    <3>1. GivenParts(p, m.role) = {"text", "data_image", "url_image", "document"}
      BY DEF GivenParts
    <3>2. \A x : PartType(p, x) # "none" <=> x \in {"text", "data_image", "url_image", "document"}
      BY DEF PartType
    <3> QED
      BY <3>1, <3>2
  <2>3. N \in SUBSET (1..Len(m.content))
    BY <1>1, DomainIs
  <2> HIDE DEF N
  <2>4. kept \in Seq(Taken)
    BY <1>1, <2>3, PickedIs
  <2>5. GivenOf(p, m) = IF kept = <<>> THEN <<>> ELSE [i \in DOMAIN kept |-> <<kept[i]>>]
    BY <1>5, <2>2 DEF GivenOf
  <2> HIDE DEF kept
  <2>6. DOMAIN kept = 1..Len(kept) /\ Len(kept) \in Nat
    BY <2>4, DomainIs
  <2>7. \A i \in 1..Len(kept) : B(i).pieces = <<kept[i]>> /\ B(i).type \in {"text", "document", "image"}
    <3>1. \A i \in 1..Len(kept) : blocks[i] = B(i) /\ i \in DOMAIN blocks
      BY <2>1, <2>6
    <3>2. \A i \in 1..Len(kept) : B(i).pieces = <<kept[i]>>
      BY DEF Block
    <3> HIDE DEF blocks, B
    <3> QED
      BY <1>2, <3>1, <3>2
  <2> HIDE DEF B
  <2>8. /\ DOMAIN blocks = 1..Len(kept) /\ Len(blocks) = Len(kept)
        /\ \A i \in 1..Len(kept) : blocks[i].pieces = <<kept[i]>> /\ blocks[i].type # "tool_use"
    <3>1. DOMAIN blocks = 1..Len(kept) /\ \A i \in 1..Len(kept) : blocks[i] = B(i)
      BY <2>1, <2>6
    <3>2. Len(blocks) = Len(kept)
      BY <1>2, <2>6, <3>1
    <3> HIDE DEF blocks
    <3> QED
      BY <2>7, <3>1, <3>2
  <2> HIDE DEF blocks
  <2>9. {i \in DOMAIN blocks : blocks[i].type # "tool_use" /\ blocks[i].pieces # <<>>} = 1..Len(blocks)
    <3>1. \A x : <<x>> # <<>>
      OBVIOUS
    <3> QED
      BY <2>8, <3>1
  <2>10. Picked(blocks, 1..Len(blocks)) = blocks
    BY <1>2, AllPicked
  <2>11. ContentsOf(blocks) = [i \in DOMAIN blocks |-> blocks[i].pieces]
    BY <2>9, <2>10 DEF ContentsOf
  <2>12. ContentsOf(blocks) = [i \in DOMAIN kept |-> <<kept[i]>>]
    BY <2>6, <2>8, <2>11
  <2>13. kept = <<>> => [i \in DOMAIN kept |-> <<kept[i]>>] = <<>>
    OBVIOUS
  <2> QED
    BY <1>1, <1>3, <2>5, <2>12, <2>13 DEF Carries, blocks
<1> QED
  BY <1>1, <1>4, <1>5

\* Of a result, what is given of it.
LEMMA ResultCarries ==
  ASSUME NEW p, NEW m \in Spoken, m.role = "tool", NEW k \in Nat
  PROVE  Carries(p, m, ToolBlocks(p, m, k))
<1> DEFINE blocks == ToolBlocks(p, m, k)
           content == ResultContent(p, m)
<1>1. m.plain \in BOOLEAN /\ m.calls = <<>>
  BY SpokenIs
<1>2. ResultTurn(p, m, k, blocks)
  BY ToolBlocksAre
<1> HIDE DEF blocks
<1>3. /\ blocks \in Seq(ChatBlocks) /\ Len(blocks) = 1
      /\ \A i \in DOMAIN blocks : blocks[i].type = "tool_result" /\ blocks[i].pieces = content
  BY <1>2 DEF ResultTurn
<1>4. blocks[1].type = "tool_result" /\ blocks[1].pieces = content
  <2>1. 1 \in DOMAIN blocks
    BY <1>3, DomainIs
  <2> QED
    BY <1>3, <2>1
<1>5. ContentsOf(blocks) = IF content = <<>> THEN <<>> ELSE <<content>>
  <2>1. <<>> \in Seq(ChatBlocks) /\ DOMAIN <<>> = {}
    OBVIOUS
  <2>2. blocks \o <<>> = blocks
    BY <1>3, ConcatEmptySeq
  <2> QED
    BY <1>3, <1>4, <2>1, <2>2, OneContent
<1>6. CallsOf(p, blocks) = <<>>
  BY <1>3, NoCalls
<1>7. GivenOf(p, m) = IF content = <<>> THEN <<>> ELSE <<content>>
  <2>1. GivenParts(p, m.role) = ResultParts(p)
    BY DEF GivenParts, ResultParts
  <2> QED
    BY <2>1 DEF GivenOf, ResultContent
<1> QED
  BY <1>1, <1>5, <1>6, <1>7 DEF Carries, blocks

\* Of a message of the assistant, what is given of it.
LEMMA AssistantCarries ==
  ASSUME NEW p, NEW m \in Spoken, m.role = "assistant", NEW k \in Nat
  PROVE  Carries(p, m, AssistantBlocks(m, k))
<1> DEFINE blocks == AssistantBlocks(m, k)
           text == IF m.plain /\ m.content # <<>> THEN <<Block("text", k, "", m.content)>> ELSE <<>>
           uses == [c \in DOMAIN m.calls |-> Block("tool_use", k, m.calls[c].id, m.calls[c].args)]
           none == <<Block("text", k, "", <<>>)>>
           N == {i \in DOMAIN blocks : blocks[i].type # "tool_use" /\ blocks[i].pieces # <<>>}
<1>1. /\ blocks \in Seq(ChatBlocks)
      /\ text \in Seq(ChatBlocks) /\ uses \in Seq(ChatBlocks) /\ Len(uses) = Len(m.calls)
      /\ blocks = IF text = <<>> /\ m.calls = <<>> THEN none ELSE text \o uses
  BY AssistantBlocksAre
<1>2. m.plain \in BOOLEAN /\ m.content \in Seq(Taken)
  BY SpokenIs
<1>3. GivenOf(p, m) = IF m.plain /\ m.content # <<>> THEN <<m.content>> ELSE <<>>
  <2>1. GivenParts(p, m.role) = {}
    BY DEF GivenParts
  <2>2. Picked(m.content, {i \in DOMAIN m.content : m.content[i] \in {}}) = <<>>
    <3>1. {i \in DOMAIN m.content : m.content[i] \in {}} = {}
      OBVIOUS
    <3>2. Picked(m.content, {}) = <<>>
      BY OrderedNone DEF Picked
    <3> QED
      BY <3>1, <3>2
  <2> QED
    BY <1>2, <2>1, <2>2 DEF GivenOf
<1>4. CallsOf(p, blocks) = m.calls
  BY ToldBack
<1>5. \A i \in DOMAIN uses : uses[i].type = "tool_use"
  BY DEF Block
<1>6. CASE text # <<>>
  <2> DEFINE b == Block("text", k, "", m.content)
  <2>1. m.plain /\ m.content # <<>> /\ text = <<b>>
    BY <1>6
  <2>2. b.type = "text" /\ b.pieces = m.content
    BY DEF Block
  <2>3. blocks = text \o uses
    BY <1>1, <1>6
  <2> HIDE DEF b, text, uses, blocks
  <2>4. Len(text) = 1 /\ text[1] = b
    BY <2>1
  <2>5. ContentsOf(text \o uses) = IF text[1].pieces = <<>> THEN <<>> ELSE <<text[1].pieces>>
    BY <1>1, <1>5, <2>2, <2>4, OneContent
  <2>6. ContentsOf(blocks) = <<m.content>>
    BY <2>1, <2>2, <2>3, <2>4, <2>5
  <2> QED
    BY <1>3, <1>4, <2>1, <2>6 DEF Carries, blocks
<1>7. CASE text = <<>>
  <2>1. ~(m.plain /\ m.content # <<>>)
    <3>1. \A x : <<x>> # <<>>
      OBVIOUS
    <3> QED
      BY <1>7, <3>1
  <2>2. none[1].pieces = <<>> /\ Len(none) = 1
    BY DEF Block
  <2> HIDE DEF text, uses, blocks, none
  <2>3. <<>> \o uses = uses
    BY <1>1, ConcatEmptySeq
  <2>4. blocks = none \/ blocks = uses
    BY <1>1, <1>7, <2>3
  <2>5. \A i \in DOMAIN blocks : blocks[i].type = "tool_use" \/ blocks[i].pieces = <<>>
    <3>1. CASE blocks = uses
      BY <1>5, <3>1
    <3>2. CASE blocks = none
      <4>1. DOMAIN blocks = 1..1
        BY <1>1, <2>2, <3>2, DomainIs
      <4> QED
        BY <2>2, <3>2, <4>1
    <3> QED
      BY <2>4, <3>1, <3>2
  <2>6. N = {}
    BY <2>5
  <2>7. Picked(blocks, {}) = <<>>
    BY OrderedNone DEF Picked
  <2>8. ContentsOf(blocks) = [i \in DOMAIN <<>> |-> <<>>[i].pieces]
    BY <2>6, <2>7 DEF ContentsOf
  <2>9. ContentsOf(blocks) = <<>>
    BY <2>8
  <2> QED
    BY <1>3, <1>4, <2>1, <2>9 DEF Carries, blocks
<1> QED
  BY <1>6, <1>7

\* Of any message but instructions, what is given of it.
LEMMA ConvertedCarries ==
  ASSUME NEW p, NEW m \in Spoken, ~IsSystem(m), NEW k \in Nat
  PROVE  Carries(p, m, Converted(p, m, k).content)
<1>1. m.role \in {"user", "assistant", "tool"}
  BY SpokenIs DEF IsSystem
<1>2. CASE m.role = "user"
  BY <1>2, UserCarries DEF Converted
<1>3. CASE m.role = "tool"
  BY <1>3, ResultCarries DEF Converted
<1>4. CASE m.role = "assistant"
  BY <1>4, AssistantCarries DEF Converted
<1> QED
  BY <1>1, <1>2, <1>3, <1>4

-----------------------------------------------------------------------------
(* Chat: the history.                                                      *)

HistoryFits(p, history, said) ==
  /\ history \in Seq(Spoken) /\ said \in Seq(Spoken \cup Replies) /\ Len(said) = Len(history)
  /\ \A k \in DOMAIN history : IsReply(said[k]) => said[k] \in Replies /\ history[k] = Told(WholeReply(p, said[k]))
  /\ TurnsFit(p, history, Messages(p, history))
  /\ BlocksFit(p, history, AllBlocks(Messages(p, history)))
  /\ SystemFits(history, SystemOf(p, history))

\* Nothing has been said.
LEMMA NoHistoryFits ==
  ASSUME NEW p
  PROVE  HistoryFits(p, <<>>, <<>>)
<1>1. /\ <<>> \in Seq(Spoken) /\ <<>> \in Seq(Spoken \cup Replies) /\ <<>> \in Seq(Turns) /\ <<>> \in Seq(ChatBlocks)
      /\ DOMAIN <<>> = {}
  OBVIOUS
<1>2. FlattenSeq(<<>>) = <<>>
  BY DEF FlattenSeq
<1>3. Messages(p, <<>>) = <<>>
  <2> DEFINE m == [role |-> "user", plain |-> TRUE, content |-> <<>>, calls |-> <<>>, id |-> ""]
  <2>1. <<>> \in Seq({m}) /\ m \in {m}
    OBVIOUS
  <2> QED
    BY <2>1, MessagesOneMore
<1>4. TurnsFit(p, <<>>, <<>>)
  BY <1>1 DEF TurnsFit, RolesFit, Alternate
<1>5. AllBlocks(<<>>) = <<>> /\ SystemOf(p, <<>>) = <<>>
  <2>1. AllBlocks(<<>>) = FlattenSeq([k \in {} |-> <<>>[k].content])
        /\ SystemOf(p, <<>>) = FlattenSeq([k \in {} |-> IF IsSystem(<<>>[k]) THEN SystemBlocks(p, <<>>[k], k) ELSE <<>>])
    BY <1>1 DEF AllBlocks, SystemOf
  <2>2. <<>> = [k \in {} |-> <<>>[k].content]
        /\ <<>> = [k \in {} |-> IF IsSystem(<<>>[k]) THEN SystemBlocks(p, <<>>[k], k) ELSE <<>>]
    OBVIOUS
  <2> QED
    BY <1>2, <2>1, <2>2
<1>6. BlocksFit(p, <<>>, <<>>)
  BY <1>1 DEF BlocksFit, InTurn, EachFound, CallsFound, ResultsFollow
<1>7. SystemFits(<<>>, <<>>)
  BY <1>1 DEF SystemFits, InTurn, TextsFound
<1> QED
  BY <1>1, <1>3, <1>4, <1>5, <1>6, <1>7 DEF HistoryFits

\* A message more.
LEMMA HistoryOneMore ==
  ASSUME NEW p, NEW history, NEW said, HistoryFits(p, history, said),
         NEW m \in Spoken, ResultOf(history, m),
         NEW s \in Spoken \cup Replies, IsReply(s) => s \in Replies /\ m = Told(WholeReply(p, s))
  PROVE  HistoryFits(p, Append(history, m), Append(said, s))
<1> DEFINE more == Append(history, m)
           after == Append(said, s)
           n == Len(history) + 1
           done == Messages(p, history)
           turn == Converted(p, m, n)
<1>1. /\ history \in Seq(Spoken) /\ said \in Seq(Spoken \cup Replies) /\ Len(said) = Len(history)
      /\ \A k \in DOMAIN history : IsReply(said[k]) => said[k] \in Replies /\ history[k] = Told(WholeReply(p, said[k]))
      /\ TurnsFit(p, history, done)
      /\ BlocksFit(p, history, AllBlocks(done))
      /\ SystemFits(history, SystemOf(p, history))
  BY DEF HistoryFits
<1>2. /\ more \in Seq(Spoken) /\ DOMAIN more = 1..n /\ more[n] = m /\ DOMAIN history = 1..Len(history)
      /\ \A k \in 1..Len(history) : more[k] = history[k] /\ k \in 1..n
      /\ Len(history) \in Nat /\ n \in Nat /\ Len(more) = n
      /\ \A k \in 1..n : k = n \/ k \in 1..Len(history)
  BY <1>1
<1>3. /\ after \in Seq(Spoken \cup Replies) /\ Len(after) = n /\ after[n] = s
      /\ \A k \in 1..Len(history) : after[k] = said[k]
  BY <1>1
<1>4. /\ Messages(p, more) = IF IsSystem(m) THEN done ELSE Merge(p, done, turn)
  BY <1>1, MessagesOneMore
<1>5. SystemFits(more, SystemOf(p, more))
  BY <1>1, SystemOneMore
<1>6. IsSystem(m) => BlocksFit(p, more, AllBlocks(done))
  BY <1>1, SystemAddsNone
<1>7. ~IsSystem(m) => BlocksFit(p, more, AllBlocks(done) \o turn.content)
  BY <1>1, OthersAddTheirs
<1> HIDE DEF more, after, done
<1>8. \A k \in DOMAIN more : IsReply(after[k]) => after[k] \in Replies /\ more[k] = Told(WholeReply(p, after[k]))
  <2> SUFFICES ASSUME NEW k \in 1..n, IsReply(after[k])
               PROVE  after[k] \in Replies /\ more[k] = Told(WholeReply(p, after[k]))
    BY <1>2
  <2>1. CASE k = n
    BY <1>2, <1>3, <2>1
  <2>2. CASE k # n
    <3>1. k \in 1..Len(history)
      BY <1>2, <2>2
    <3> QED
      BY <1>1, <1>2, <1>3, <3>1
  <2> QED
    BY <2>1, <2>2
<1>9. /\ done \in Seq(Turns) /\ RolesFit(done, more) /\ (Anthropic(p) => Alternate(done))
  <2>1. done \in Seq(Turns) /\ RolesFit(done, history) /\ (Anthropic(p) => Alternate(done))
    BY <1>1 DEF TurnsFit
  <2>2. \A k \in DOMAIN history : k \in DOMAIN more /\ RoleIn(more, k) = RoleIn(history, k)
    BY <1>2 DEF RoleIn
  <2>3. RolesFit(done, more)
    BY <2>1, <2>2 DEF RolesFit
  <2> QED
    BY <2>1, <2>3
<1>10. CASE IsSystem(m)
  <2>1. TurnsFit(p, more, done)
    BY <1>9 DEF TurnsFit
  <2>2. Messages(p, more) = done
    BY <1>4, <1>10
  <2>3. HistoryFits(p, more, after)
    BY <1>2, <1>3, <1>5, <1>6, <1>8, <1>10, <2>1, <2>2 DEF HistoryFits
  <2> QED
    BY <2>3 DEF more, after
<1>11. CASE ~IsSystem(m)
  <2>1. TurnFits(p, m, n, turn)
    BY <1>2, <1>11, ConvertedIs
  <2> HIDE DEF turn
  <2>2. turn \in Turns
    BY <2>1 DEF TurnFits
  <2>3. \A b \in DOMAIN turn.content :
          turn.content[b].from \in DOMAIN more /\ turn.role = RoleIn(more, turn.content[b].from)
    <3>1. \A b \in DOMAIN turn.content : turn.content[b].from = n
      BY <2>1 DEF TurnFits
    <3>2. n \in DOMAIN more /\ turn.role = RoleIn(more, n)
      BY <1>2, <2>1 DEF TurnFits, RoleIn
    <3> HIDE DEF n
    <3> QED
      BY <3>1, <3>2
  <2>4. /\ TurnsFit(p, more, Merge(p, done, turn))
        /\ AllBlocks(Merge(p, done, turn)) = AllBlocks(done) \o turn.content
    BY <1>9, <2>2, <2>3, MergedIs
  <2>5. Messages(p, more) = Merge(p, done, turn)
    BY <1>4, <1>11
  <2>6. HistoryFits(p, more, after)
    BY <1>2, <1>3, <1>5, <1>7, <1>8, <1>11, <2>4, <2>5 DEF HistoryFits
  <2> QED
    BY <2>6 DEF more, after
<1> QED
  BY <1>10, <1>11

\* So the request carries the conversation.
LEMMA RequestFits ==
  ASSUME NEW p, NEW history, NEW said, HistoryFits(p, history, said), NEW options
  PROVE  /\ RequestKeeps(p, history, said)
         /\ InstructionsKept(p, history, options)
         /\ ResultsAnswerCalls(p, history)
<1> DEFINE messages == Messages(p, history)
           blocks == AllBlocks(messages)
<1>1. /\ history \in Seq(Spoken) /\ TurnsFit(p, history, messages) /\ BlocksFit(p, history, blocks)
      /\ \A k \in DOMAIN history : IsReply(said[k]) => said[k] \in Replies /\ history[k] = Told(WholeReply(p, said[k]))
      /\ SystemFits(history, SystemOf(p, history))
  BY DEF HistoryFits
<1>2. InstructionsKept(p, history, options)
  BY <1>1, InstructionsAre
<1>3. ResultsAnswerCalls(p, history)
  <2> SUFFICES ASSUME NEW i \in DOMAIN blocks, blocks[i].type = "tool_result"
               PROVE  \E j \in 1..(i - 1) :
                        /\ blocks[j].type = "tool_use" /\ blocks[j].id = history[blocks[i].from].id
                        /\ blocks[j].id = blocks[i].id <=> (Anthropic(p) => blocks[j].id \in CleanIds)
    BY DEF ResultsAnswerCalls
  <2> HIDE DEF blocks, messages
  <2> DEFINE m == history[blocks[i].from]
  <2>1. blocks[i].id = ResultId(p, m)
    BY <1>1 DEF BlocksFit, ResultsFollow
  <2>2. PICK j \in 1..(i - 1) : blocks[j].type = "tool_use" /\ blocks[j].id = m.id
    BY <1>1 DEF BlocksFit, ResultsFollow
  <2> HIDE DEF m
  <2>3. m.id = ResultId(p, m) <=> (Anthropic(p) => m.id \in CleanIds)
    BY ChatAssumption DEF ResultId, Sanitize
  <2> QED
    BY <2>1, <2>2, <2>3 DEF m
<1> HIDE DEF messages, blocks
<1>4. \A i, j \in DOMAIN blocks : i < j => blocks[i].from <= blocks[j].from
  BY <1>1 DEF BlocksFit, InTurn
<1>5. \A i \in DOMAIN messages : \A b \in DOMAIN messages[i].content :
        messages[i].role = IF history[messages[i].content[b].from].role = "assistant" THEN "assistant" ELSE "user"
  BY <1>1 DEF TurnsFit, RolesFit, RoleIn
<1>6. Anthropic(p) => \A i \in DOMAIN messages : i > 1 => messages[i].role # messages[i - 1].role
  BY <1>1 DEF TurnsFit, Alternate
<1>7. ASSUME NEW k \in DOMAIN history
      PROVE  LET kept == From(blocks, k) IN
             CASE IsSystem(history[k]) -> kept = <<>>
               [] IsReply(said[k]) ->
                    TextOf(kept) = TextOf(said[k].blocks) /\ CallsOf(p, kept) = CallsOf(p, said[k].blocks)
               [] ~IsSystem(history[k]) /\ ~IsReply(said[k]) ->
                    ContentsOf(kept) = GivenOf(p, history[k]) /\ CallsOf(p, kept) = history[k].calls
  <2> DEFINE m == history[k]
             kept == From(blocks, k)
  <2>0. DOMAIN history = 1..Len(history) /\ Len(history) \in Nat
    BY <1>1, DomainIs
  <2>1. m \in Spoken /\ k \in Nat
    BY <1>1, <2>0, ElementOfSeq
  <2>2. kept = IF IsSystem(m) THEN <<>> ELSE Converted(p, m, k).content
    BY <1>1 DEF BlocksFit, EachFound
  <2>3. ASSUME IsReply(said[k])
        PROVE  ~IsSystem(m) /\ TextOf(kept) = TextOf(said[k].blocks) /\ CallsOf(p, kept) = CallsOf(p, said[k].blocks)
    <3>1. said[k] \in Replies /\ m = Told(WholeReply(p, said[k]))
      BY <1>1, <2>3
    <3>2. m.role = "assistant" /\ m.plain /\ m.content = TextOf(said[k].blocks) /\ m.calls = CallsOf(p, said[k].blocks)
      <4> DEFINE r == said[k]
      <4>1. r \in Replies /\ m = Told(WholeReply(p, r))
        BY <3>1
      <4> HIDE DEF r, m
      <4>2. m = [role |-> "assistant", plain |-> TRUE, content |-> TextOf(r.blocks),
                 calls |-> CallsOf(p, r.blocks), id |-> ""]
        BY <4>1, WholeIs
      <4>3. m.role = "assistant" /\ m.plain /\ m.content = TextOf(r.blocks) /\ m.calls = CallsOf(p, r.blocks)
        BY <4>2
      <4> QED
        BY <4>3 DEF r
    <3> HIDE DEF m
    <3>3. ~IsSystem(m)
      BY <3>2 DEF IsSystem
    <3>4. TurnFits(p, m, k, Converted(p, m, k))
      BY <2>1, <3>3, ConvertedIs
    <3>5. kept = AssistantBlocks(m, k)
      BY <2>2, <3>2, <3>3, <3>4 DEF TurnFits
    <3>6. TextOf(AssistantBlocks(m, k)) = m.content /\ CallsOf(p, AssistantBlocks(m, k)) = m.calls
      BY <2>1, <3>2, ToldBack
    <3> HIDE DEF kept
    <3> QED
      BY <3>2, <3>3, <3>5, <3>6
  <2>4. ASSUME ~IsSystem(m) PROVE ContentsOf(kept) = GivenOf(p, m) /\ CallsOf(p, kept) = m.calls
    <3> HIDE DEF m, kept
    <3>1. Carries(p, m, Converted(p, m, k).content)
      BY <2>1, <2>4, ConvertedCarries
    <3> QED
      BY <2>2, <2>4, <3>1 DEF Carries
  <2> HIDE DEF m, kept
  <2>5. CASE IsSystem(m)
    <3>1. ~IsReply(said[k]) /\ kept = <<>>
      BY <2>2, <2>3, <2>5
    <3> QED
      BY <2>5, <3>1 DEF m, kept
  <2>6. CASE ~IsSystem(m) /\ IsReply(said[k])
    BY <2>3, <2>6 DEF m, kept
  <2>7. CASE ~IsSystem(m) /\ ~IsReply(said[k])
    BY <2>4, <2>7 DEF m, kept
  <2> QED
    BY <2>5, <2>6, <2>7
<1>8. RequestKeeps(p, history, said)
  BY <1>4, <1>5, <1>6, <1>7 DEF RequestKeeps, messages, blocks
<1> QED
  BY <1>2, <1>3, <1>8

\* What the settings of the options offered promise.
LEMMA SettingsAre ==
  ASSUME NEW p, NEW options \in Options
  PROVE  SettingsFit(p, options)
<1>1. options.max \in Nat
  BY ChatAssumption
<1>2. Budget(options.effort) \in Nat
  BY DEF Budget
<1> DEFINE budget == Budget(options.effort)
           max == IF options.max = 0 THEN DefaultMaxTokens ELSE options.max
<1> SUFFICES ASSUME Anthropic(p)
             PROVE  /\ Settings(p, options).thinking < Settings(p, options).max
                    /\ options.choice = "none" => ~Settings(p, options).tools
  BY DEF SettingsFit
<1>3. /\ Settings(p, options).thinking = budget
      /\ Settings(p, options).max = IF max <= budget THEN budget + 1 ELSE max
      /\ Settings(p, options).tools = (options.tools /\ options.choice # "none")
  BY DEF Settings, MessagesSettings
<1>4. max \in Nat
  BY <1>1 DEF DefaultMaxTokens
<1> HIDE DEF budget, max
<1>5. budget \in Nat
  BY <1>2 DEF budget
<1>6. Settings(p, options).thinking < Settings(p, options).max
  BY <1>3, <1>4, <1>5
<1>7. options.choice = "none" => ~Settings(p, options).tools
  BY <1>3
<1> QED
  BY <1>6, <1>7

-----------------------------------------------------------------------------
(* Chat: a reply, event by event.                                          *)

First(s, n) == SubSeq(s, 1, n)

\* The first of a sequence, one more and all of them.
LEMMA FirstIs ==
  ASSUME NEW S, NEW s \in Seq(S)
  PROVE  /\ \A n \in Int : n < 1 => First(s, n) = <<>>
         /\ First(s, Len(s)) = s
         /\ \A n \in 1..Len(s) : First(s, n) = Append(First(s, n - 1), s[n])
         /\ \A n \in Int : n <= Len(s) => First(s, n) \in Seq(S)
<1>1. Len(s) \in Nat
  OBVIOUS
<1>2. \A n \in Int : n < 1 => First(s, n) = <<>>
  BY SubSeqEmpty DEF First
<1>3. First(s, Len(s)) = s
  BY SubSeqFull DEF First
<1>4. \A n \in Int : n <= Len(s) => First(s, n) \in Seq(S)
  <2> SUFFICES ASSUME NEW n \in Int, n <= Len(s) PROVE First(s, n) \in Seq(S)
    OBVIOUS
  <2>1. \A i \in 1..n : s[i] \in S
    <3> TAKE i \in 1..n
    <3>1. i \in 1..Len(s)
      BY <1>1
    <3> QED
      BY <3>1, ElementOfSeq
  <2> QED
    BY <2>1, SubSeqProperties DEF First
<1>5. \A n \in 1..Len(s) : First(s, n) = Append(First(s, n - 1), s[n])
  <2> TAKE n \in 1..Len(s)
  <2>1. 1 \in 1..Len(s) /\ n \in 1..Len(s) /\ n - 1 \in Int /\ n - 1 <= Len(s) /\ s[n] \in S
    BY <1>1, ElementOfSeq
  <2>2. First(s, n) = First(s, n - 1) \o <<s[n]>>
    BY <2>1, SubSeqRecursiveSecond DEF First
  <2>3. First(s, n - 1) \in Seq(S)
    BY <1>4, <2>1
  <2> QED
    BY <2>1, <2>2, <2>3, AppendIsConcat
<1> QED
  BY <1>2, <1>3, <1>4, <1>5

Words(block) == IF block.type = "text" THEN block.pieces ELSE <<>>

\* The text of a block more.
LEMMA TextOneMore ==
  ASSUME NEW blocks \in Seq(Said), NEW b \in Said
  PROVE  /\ TextOf(<<>>) = <<>>
         /\ TextOf(Append(blocks, b)) = TextOf(blocks) \o Words(b)
         /\ TextOf(blocks) \in Seq(Pieces) /\ Words(b) \in Seq(Pieces)
<1> DEFINE W(s) == [k \in DOMAIN s |-> Words(s[k])]
           n == Len(blocks)
           more == Append(blocks, b)
<1>1. \A x \in Said : Words(x) \in Seq(Pieces)
  <2> TAKE x \in Said
  <2>1. x.pieces \in Seq(Pieces)
    BY DEF Said
  <2>2. <<>> \in Seq(Pieces)
    OBVIOUS
  <2> QED
    BY <2>1, <2>2 DEF Words
<1>2. \A s : TextOf(s) = FlattenSeq(W(s))
  BY DEF TextOf, Words
<1>3. /\ n \in Nat /\ DOMAIN blocks = 1..n /\ DOMAIN more = 1..(n + 1) /\ more[n + 1] = b
      /\ \A k \in 1..n : more[k] = blocks[k] /\ blocks[k] \in Said
  OBVIOUS
<1>4. W(blocks) \in Seq(Seq(Pieces)) /\ Len(W(blocks)) = n /\ \A k \in 1..n : W(blocks)[k] = Words(blocks[k])
  BY <1>1, <1>3
<1>5. W(more) = Append(W(blocks), Words(b))
  <2> DEFINE a == W(more)
             c == Append(W(blocks), Words(b))
  <2>1. a = [k \in 1..(n + 1) |-> a[k]] /\ a[n + 1] = Words(b) /\ \A k \in 1..n : a[k] = Words(blocks[k])
    <3> HIDE DEF more
    <3> QED
      BY <1>3
  <2> HIDE DEF W, a, more
  <2>2. c \in Seq(Seq(Pieces)) /\ Len(c) = n + 1 /\ c[n + 1] = Words(b) /\ \A k \in 1..n : c[k] = Words(blocks[k])
    BY <1>1, <1>3, <1>4
  <2> HIDE DEF c
  <2>3. c = [k \in 1..(n + 1) |-> c[k]]
    BY <2>2
  <2>4. \A k \in 1..(n + 1) : a[k] = c[k]
    <3> TAKE k \in 1..(n + 1)
    <3>1. k = n + 1 \/ k \in 1..n
      BY <1>3
    <3> QED
      BY <2>1, <2>2, <3>1
  <2>5. a = c
    BY <2>1, <2>3, <2>4
  <2> QED
    BY <2>5 DEF a, c
<1>6. TextOf(<<>>) = <<>>
  <2>1. W(<<>>) = <<>>
    OBVIOUS
  <2>2. FlattenSeq(<<>>) = <<>>
    BY DEF FlattenSeq
  <2>3. TextOf(<<>>) = FlattenSeq(W(<<>>))
    BY <1>2
  <2> HIDE DEF W
  <2> QED
    BY <2>1, <2>2, <2>3
<1> HIDE DEF W, more
<1>7. TextOf(more) = TextOf(blocks) \o Words(b) /\ TextOf(blocks) \in Seq(Pieces)
  BY <1>1, <1>2, <1>4, <1>5, FlattenOneMore
<1> QED
  BY <1>1, <1>6, <1>7 DEF more

-----------------------------------------------------------------------------
(* What was told of a reply, before the event at piece q of block b.       *)

WholeBlocks(reply, b) == First(reply.blocks, IF b > Len(reply.blocks) THEN Len(reply.blocks) ELSE b - 1)

TextTold(reply, b, q) ==
  TextOf(WholeBlocks(reply, b))
    \o (IF b \in 1..Len(reply.blocks) /\ reply.blocks[b].type = "text" THEN First(reply.blocks[b].pieces, q - 1) ELSE <<>>)

Started(p, reply, b, q) ==
  {k \in 0..(Len(reply.blocks) - 1) : IsUse(p, reply.blocks[k + 1]) /\ (k + 1 < b \/ (k + 1 = b /\ q > 0))}

CallTold(reply, b, q, k) ==
  [id |-> reply.blocks[k + 1].id,
   args |-> IF k + 1 < b THEN reply.blocks[k + 1].pieces ELSE First(reply.blocks[k + 1].pieces, q - 1)]

CallsTold(p, reply, b, q) == [k \in Started(p, reply, b, q) |-> CallTold(reply, b, q, k)]

DeltaTold(reply, b, q) == b > Len(reply.blocks) + 1 \/ (b = Len(reply.blocks) + 1 /\ q = 1)
LastTold(reply, b) == b > Len(reply.blocks) + 1

SumAt(p, reply, b, q) ==
  [text |-> TextTold(reply, b, q), calls |-> CallsTold(p, reply, b, q),
   finish |-> IF DeltaTold(reply, b, q) THEN FinishReason(p, reply.stop) ELSE "none",
   prompt |-> IF (IF Anthropic(p) THEN b > 0 ELSE LastTold(reply, b)) THEN Prompt(p, reply) ELSE 0,
   completion |-> IF (IF Anthropic(p) THEN DeltaTold(reply, b, q) ELSE LastTold(reply, b)) THEN reply.output ELSE 0]

\* The text that was told.
TextFit(reply) ==
  /\ TextTold(reply, 0, 0) = <<>> /\ TextTold(reply, 1, 0) = <<>>
  /\ \A b \in 1..Len(reply.blocks) :
       /\ TextTold(reply, b, 1) = TextTold(reply, b, 0)
       /\ \A q \in 1..Len(reply.blocks[b].pieces) :
            TextTold(reply, b, q + 1) =
              IF reply.blocks[b].type = "text" THEN Append(TextTold(reply, b, q), reply.blocks[b].pieces[q])
              ELSE TextTold(reply, b, q)
       /\ TextTold(reply, b + 1, 0) = TextTold(reply, b, Len(reply.blocks[b].pieces) + 1)
  /\ \A b \in {Len(reply.blocks) + 1, Len(reply.blocks) + 2} : \A q \in Nat :
       TextTold(reply, b, q) = TextOf(reply.blocks)

\* So the text grows, event by event.
LEMMA TextSteps ==
  ASSUME NEW reply \in Replies
  PROVE  TextFit(reply)
<1> DEFINE blocks == reply.blocks
           n == Len(blocks)
           W(b) == TextOf(WholeBlocks(reply, b))
           Part(b, q) == IF b \in 1..n /\ blocks[b].type = "text" THEN First(blocks[b].pieces, q - 1) ELSE <<>>
<1>1. blocks \in Seq(Said) /\ n \in Nat
  <2>1. blocks \in Seq(Said)
    BY WholeIs
  <2> QED
    BY <2>1, DomainIs
<1>2. \A b, q : TextTold(reply, b, q) = W(b) \o Part(b, q)
  BY DEF TextTold
<1>3. \A b \in 1..n : blocks[b] \in Said /\ blocks[b].pieces \in Seq(Pieces) /\ Len(blocks[b].pieces) \in Nat
  <2> TAKE b \in 1..n
  <2>1. blocks[b] \in Said
    BY <1>1, ElementOfSeq
  <2>2. blocks[b].pieces \in Seq(Pieces)
    BY <2>1 DEF Said
  <2> QED
    BY <2>1, <2>2, DomainIs
<1>4. \A b : WholeBlocks(reply, b) = First(blocks, IF b > n THEN n ELSE b - 1)
  BY DEF WholeBlocks
<1>5. PICK e \in Said : TRUE
  <2>1. "text" \in {"text", "thinking", "tool_use", "server_tool_use", "other"} /\ "" \in CallIds \cup {""} /\ <<>> \in Seq(Pieces)
    OBVIOUS
  <2>2. [type |-> "text", from |-> 0, id |-> "", pieces |-> <<>>] \in Said
    BY <2>1 DEF Said
  <2> QED
    BY <2>2
<1>6. TextOf(<<>>) = <<>> /\ \A s \in Seq(Said) : TextOf(s) \in Seq(Pieces)
  <2>1. TextOf(<<>>) = <<>>
    <3>1. <<>> \in Seq(Said)
      OBVIOUS
    <3> QED
      BY <3>1, <1>5, TextOneMore
  <2>2. \A s \in Seq(Said) : TextOf(s) \in Seq(Pieces)
    BY <1>5, TextOneMore
  <2> QED
    BY <2>1, <2>2
<1>7. \A b \in 1..n : W(b + 1) = W(b) \o Words(blocks[b]) /\ W(b) \in Seq(Pieces)
  <2> TAKE b \in 1..n
  <2>1. WholeBlocks(reply, b + 1) = First(blocks, b) /\ WholeBlocks(reply, b) = First(blocks, b - 1)
    <3>1. (IF b + 1 > n THEN n ELSE (b + 1) - 1) = b /\ (IF b > n THEN n ELSE b - 1) = b - 1
      BY <1>1
    <3> QED
      BY <1>4, <3>1
  <2>2. First(blocks, b) = Append(First(blocks, b - 1), blocks[b])
    BY <1>1, FirstIs
  <2>3. First(blocks, b - 1) \in Seq(Said)
    <3>1. b - 1 \in Int /\ b - 1 <= n
      BY <1>1
    <3> QED
      BY <1>1, <3>1, FirstIs
  <2> QED
    BY <1>3, <1>6, <2>1, <2>2, <2>3, TextOneMore
<1>8. W(0) = <<>> /\ W(1) = <<>>
  <2>1. WholeBlocks(reply, 0) = First(blocks, 0 - 1) /\ WholeBlocks(reply, 1) = First(blocks, 0)
    <3>1. (IF 0 > n THEN n ELSE 0 - 1) = 0 - 1 /\ (IF 1 > n THEN n ELSE 1 - 1) = 0
      BY <1>1
    <3> QED
      BY <1>4, <3>1
  <2>2. 0 - 1 \in Int /\ 0 - 1 < 1 /\ 0 \in Int /\ 0 < 1
    OBVIOUS
  <2>3. First(blocks, 0 - 1) = <<>> /\ First(blocks, 0) = <<>>
    BY <1>1, <2>2, FirstIs
  <2> QED
    BY <1>6, <2>1, <2>3
<1>9. \A b \in {n + 1, n + 2} : W(b) = TextOf(blocks)
  <2> TAKE b \in {n + 1, n + 2}
  <2>1. b > n
    BY <1>1
  <2>2. WholeBlocks(reply, b) = First(blocks, n)
    BY <1>4, <2>1
  <2> QED
    BY <1>1, <2>2, FirstIs
<1> HIDE DEF W
<1>10. \A b \in 1..n : \A q \in Int : q < 2 => Part(b, q) = <<>>
  <2> SUFFICES ASSUME NEW b \in 1..n, NEW q \in Int, q < 2 PROVE Part(b, q) = <<>>
    OBVIOUS
  <2>1. q - 1 \in Int /\ q - 1 < 1
    OBVIOUS
  <2>2. First(blocks[b].pieces, q - 1) = <<>>
    BY <1>3, <2>1, FirstIs
  <2> QED
    BY <2>2
<1>11. \A b \in {0, n + 1, n + 2} : \A q \in Nat : Part(b, q) = <<>>
  <2> TAKE b \in {0, n + 1, n + 2}
  <2>1. b \notin 1..n
    BY <1>1
  <2> QED
    BY <2>1
<1>12. \A b \in 1..n : \A q \in 1..Len(blocks[b].pieces) :
         Part(b, q + 1) = IF blocks[b].type = "text" THEN Append(Part(b, q), blocks[b].pieces[q]) ELSE <<>>
  <2> TAKE b \in 1..n
  <2> DEFINE pieces == blocks[b].pieces
  <2> TAKE q \in 1..Len(blocks[b].pieces)
  <2>1. pieces \in Seq(Pieces)
    BY <1>3
  <2>2. (q + 1) - 1 = q
    BY <1>3
  <2>3. First(pieces, q) = Append(First(pieces, q - 1), pieces[q])
    BY <2>1, FirstIs
  <2> QED
    BY <2>2, <2>3
<1>13. \A b \in 1..n : Part(b, Len(blocks[b].pieces) + 1) = Words(blocks[b])
  <2> TAKE b \in 1..n
  <2>1. (Len(blocks[b].pieces) + 1) - 1 = Len(blocks[b].pieces)
    BY <1>3
  <2>2. First(blocks[b].pieces, Len(blocks[b].pieces)) = blocks[b].pieces
    BY <1>3, FirstIs
  <2> QED
    BY <2>1, <2>2 DEF Words
<1>14. \A b \in 1..n : \A q \in 1..Len(blocks[b].pieces) : Part(b, q) \in Seq(Pieces) /\ blocks[b].pieces[q] \in Pieces
  <2> TAKE b \in 1..n
  <2> TAKE q \in 1..Len(blocks[b].pieces)
  <2>1. q - 1 \in Int /\ q - 1 <= Len(blocks[b].pieces)
    BY <1>3
  <2>2. First(blocks[b].pieces, q - 1) \in Seq(Pieces) /\ <<>> \in Seq(Pieces)
    BY <1>3, <2>1, FirstIs
  <2>3. blocks[b].pieces[q] \in Pieces
    BY <1>3, ElementOfSeq
  <2> QED
    BY <2>2, <2>3
<1>15. \A s \in Seq(Pieces) : s \o <<>> = s
  BY ConcatEmptySeq
<1>16. TextOf(blocks) \in Seq(Pieces) /\ <<>> \in Seq(Pieces)
  BY <1>1, <1>6
<1> HIDE DEF Part, blocks, n
<1>17. TextTold(reply, 0, 0) = <<>> /\ TextTold(reply, 1, 0) = <<>>
  <2>1. Part(0, 0) = <<>>
    BY <1>11
  <2>2. Part(1, 0) = <<>>
    <3>1. 1 \in 1..n \/ 1 = n + 1
      BY <1>1
    <3> QED
      BY <1>10, <1>11, <3>1
  <2> QED
    BY <1>2, <1>8, <1>15, <1>16, <2>1, <2>2
<1>18. ASSUME NEW b \in 1..n
       PROVE  /\ TextTold(reply, b, 1) = TextTold(reply, b, 0)
              /\ \A q \in 1..Len(blocks[b].pieces) :
                   TextTold(reply, b, q + 1) =
                     IF blocks[b].type = "text" THEN Append(TextTold(reply, b, q), blocks[b].pieces[q])
                     ELSE TextTold(reply, b, q)
              /\ TextTold(reply, b + 1, 0) = TextTold(reply, b, Len(blocks[b].pieces) + 1)
  <2>1. TextTold(reply, b, 1) = TextTold(reply, b, 0)
    <3>1. Part(b, 1) = <<>> /\ Part(b, 0) = <<>>
      BY <1>10
    <3> QED
      BY <1>2, <3>1
  <2>2. ASSUME NEW q \in 1..Len(blocks[b].pieces)
        PROVE  TextTold(reply, b, q + 1) =
                     IF blocks[b].type = "text" THEN Append(TextTold(reply, b, q), blocks[b].pieces[q])
                     ELSE TextTold(reply, b, q)
    <3> DEFINE c == blocks[b].pieces[q]
    <3>1. Part(b, q) \in Seq(Pieces) /\ c \in Pieces /\ W(b) \in Seq(Pieces)
      BY <1>7, <1>14
    <3>2. CASE blocks[b].type = "text"
      <4>1. Part(b, q + 1) = Append(Part(b, q), c)
        BY <1>12, <3>2
      <4> HIDE DEF c
      <4>2. W(b) \o Append(Part(b, q), c) = Append(W(b) \o Part(b, q), c)
        <5>1. Append(Part(b, q), c) = Part(b, q) \o <<c>> /\ <<c>> \in Seq(Pieces)
          BY <3>1, AppendIsConcat
        <5>2. W(b) \o Part(b, q) \in Seq(Pieces)
          BY <3>1, ConcatProperties
        <5>3. W(b) \o (Part(b, q) \o <<c>>) = (W(b) \o Part(b, q)) \o <<c>>
          BY <3>1, <5>1, ConcatAssociative
        <5>4. Append(W(b) \o Part(b, q), c) = (W(b) \o Part(b, q)) \o <<c>>
          BY <3>1, <5>2, AppendIsConcat
        <5> QED
          BY <5>1, <5>3, <5>4
      <4> QED
        BY <1>2, <3>2, <4>1, <4>2 DEF c
    <3>3. CASE blocks[b].type # "text"
      <4>1. Part(b, q + 1) = <<>>
        BY <1>12, <3>3
      <4>2. Part(b, q) = <<>>
        BY <3>3 DEF Part
      <4> QED
        BY <1>2, <3>3, <4>1, <4>2
    <3> QED
      BY <3>2, <3>3
  <2>3. TextTold(reply, b + 1, 0) = TextTold(reply, b, Len(blocks[b].pieces) + 1)
    <3>1. Part(b + 1, 0) = <<>>
      <4>1. b + 1 \in 1..n \/ b + 1 = n + 1
        BY <1>1
      <4> QED
        BY <1>10, <1>11, <4>1
    <3>2. W(b + 1) = W(b) \o Words(blocks[b]) /\ W(b + 1) \in Seq(Pieces)
      <4>1. W(b + 1) = W(b) \o Words(blocks[b])
        BY <1>7
      <4>2. W(b + 1) \in Seq(Pieces)
        <5>1. b + 1 \in 1..n \/ b + 1 = n + 1
          BY <1>1
        <5> QED
          BY <1>7, <1>9, <1>16, <5>1
      <4> QED
        BY <4>1, <4>2
    <3> QED
      BY <1>2, <1>13, <1>15, <3>1, <3>2
  <2> QED
    BY <2>1, <2>2, <2>3
<1>19. \A b \in {n + 1, n + 2} : \A q \in Nat : TextTold(reply, b, q) = TextOf(blocks)
  <2> TAKE b \in {n + 1, n + 2}
  <2> TAKE q \in Nat
  <2>1. W(b) = TextOf(blocks) /\ Part(b, q) = <<>>
    BY <1>9, <1>11
  <2> QED
    BY <1>2, <1>15, <1>16, <2>1
<1> QED
  BY <1>17, <1>18, <1>19 DEF blocks, n, TextFit

\* The calls that were told.
CallsFit(p, reply) ==
  LET n == Len(reply.blocks)
      C(b, q) == CallsTold(p, reply, b, q)
  IN /\ C(0, 0) = [k \in {} |-> <<>>] /\ C(1, 0) = C(0, 0)
     /\ C(n + 1, 1) = C(n + 1, 0) /\ C(n + 2, 0) = C(n + 1, 0)
     /\ \A b \in 1..n :
          LET block == reply.blocks[b] IN
          /\ C(b, 1) = IF IsUse(p, block)
                       THEN [k \in DOMAIN C(b, 0) \cup {b - 1} |->
                               IF k = b - 1 THEN [id |-> block.id, args |-> <<>>] ELSE C(b, 0)[k]]
                       ELSE C(b, 0)
          /\ \A q \in 1..Len(block.pieces) :
               /\ b - 1 \in DOMAIN C(b, q) <=> IsUse(p, block)
               /\ C(b, q + 1) = IF IsUse(p, block)
                                THEN [C(b, q) EXCEPT ![b - 1].args = Append(@, block.pieces[q])] ELSE C(b, q)
          /\ C(b + 1, 0) = C(b, Len(block.pieces) + 1)

\* So the calls grow.
LEMMA CallsSteps ==
  ASSUME NEW p, NEW reply \in Replies
  PROVE  CallsFit(p, reply)
<1> DEFINE blocks == reply.blocks
           n == Len(blocks)
           C(b, q) == CallsTold(p, reply, b, q)
           D(b, q) == Started(p, reply, b, q)
           V(b, q, k) == CallTold(reply, b, q, k)
<1>1. blocks \in Seq(Said) /\ n \in Nat
  <2>1. blocks \in Seq(Said)
    BY WholeIs
  <2> QED
    BY <2>1, DomainIs
<1>2. \A b \in 1..n : blocks[b] \in Said /\ blocks[b].pieces \in Seq(Pieces) /\ Len(blocks[b].pieces) \in Nat
  <2> TAKE b \in 1..n
  <2>1. blocks[b] \in Said
    BY <1>1, ElementOfSeq
  <2>2. blocks[b].pieces \in Seq(Pieces)
    BY <2>1 DEF Said
  <2> QED
    BY <2>1, <2>2, DomainIs
<1>3. \A b, q : C(b, q) = [k \in D(b, q) |-> V(b, q, k)]
  BY DEF CallsTold
<1>4. \A b, q, k : k \in D(b, q) <=> k \in 0..(n - 1) /\ IsUse(p, blocks[k + 1]) /\ (k + 1 < b \/ (k + 1 = b /\ q > 0))
  BY DEF Started
<1>5. \A b, q, k : V(b, q, k) = [id |-> blocks[k + 1].id,
                                 args |-> IF k + 1 < b THEN blocks[k + 1].pieces ELSE First(blocks[k + 1].pieces, q - 1)]
  BY DEF CallTold
<1> HIDE DEF C, D, V, blocks, n
<1>6. ASSUME NEW b, NEW q, NEW c, NEW r, \A k \in 0..(n - 1) : k \in D(b, q) <=> k \in D(c, r),
             \A k \in 0..(n - 1) : k \in D(b, q) => V(b, q, k) = V(c, r, k)
      PROVE  C(b, q) = C(c, r)
  <2>1. D(b, q) = D(c, r)
    BY <1>4, <1>6
  <2>2. \A k \in D(b, q) : V(b, q, k) = V(c, r, k)
    BY <1>4, <1>6
  <2> QED
    BY <1>3, <2>1, <2>2
<1>7. C(0, 0) = [k \in {} |-> <<>>]
  <2>1. D(0, 0) = {}
    BY <1>1, <1>4
  <2> QED
    BY <1>3, <2>1
<1>8. C(1, 0) = C(0, 0)
  <2>1. \A k \in 0..(n - 1) : k \notin D(1, 0) /\ k \notin D(0, 0)
    BY <1>1, <1>4
  <2> QED
    BY <1>6, <2>1
<1>9. \A b \in {n + 1, n + 2} : \A q \in Nat : C(b, q) = C(n + 1, 0)
  <2> TAKE b \in {n + 1, n + 2}
  <2> TAKE q \in Nat
  <2>1. \A k \in 0..(n - 1) : k + 1 < b /\ k + 1 < n + 1
    BY <1>1
  <2>2. \A k \in 0..(n - 1) : k \in D(b, q) <=> k \in D(n + 1, 0)
    BY <1>4, <2>1
  <2>3. \A k \in 0..(n - 1) : V(b, q, k) = V(n + 1, 0, k)
    BY <1>5, <2>1
  <2> QED
    BY <1>6, <2>2, <2>3
<1>10. ASSUME NEW b \in 1..n
       PROVE  C(b, 1) = IF IsUse(p, blocks[b])
                        THEN [k \in DOMAIN C(b, 0) \cup {b - 1} |->
                                IF k = b - 1 THEN [id |-> blocks[b].id, args |-> <<>>] ELSE C(b, 0)[k]]
                        ELSE C(b, 0)
  <2>0. b - 1 \in 0..(n - 1) /\ (b - 1) + 1 = b /\ \A k \in 0..(n - 1) : k # b - 1 => k + 1 # b
    BY <1>1
  <2>1. \A k \in 0..(n - 1) : k # b - 1 => (k \in D(b, 1) <=> k \in D(b, 0))
    BY <1>4, <2>0
  <2>2. b - 1 \notin D(b, 0) /\ (b - 1 \in D(b, 1) <=> IsUse(p, blocks[b]))
    BY <1>1, <1>4, <2>0
  <2>3. \A k \in D(b, 0) : V(b, 1, k) = V(b, 0, k)
    <3> TAKE k \in D(b, 0)
    <3>1. k + 1 < b
      BY <1>4
    <3> QED
      BY <1>5, <3>1
  <2>4. V(b, 1, b - 1) = [id |-> blocks[b].id, args |-> <<>>]
    <3>1. First(blocks[b].pieces, 0) = <<>>
      BY <1>2, FirstIs
    <3>2. ~(b < b) /\ 1 - 1 = 0
      BY <1>1
    <3> QED
      BY <1>5, <2>0, <3>1, <3>2
  <2>5. CASE IsUse(p, blocks[b])
    <3>1. D(b, 1) = D(b, 0) \cup {b - 1}
      BY <1>4, <2>0, <2>1, <2>2, <2>5
    <3>2. \A k \in D(b, 0) : k # b - 1
      BY <2>2
    <3> QED
      BY <1>3, <2>3, <2>4, <2>5, <3>1, <3>2
  <2>6. CASE ~IsUse(p, blocks[b])
    <3>1. \A k \in 0..(n - 1) : k \in D(b, 1) <=> k \in D(b, 0)
      BY <2>1, <2>2, <2>6
    <3>2. C(b, 1) = C(b, 0)
      BY <1>6, <2>3, <3>1
    <3> QED
      BY <2>6, <3>2
  <2> QED
    BY <2>5, <2>6
<1>11. ASSUME NEW b \in 1..n, NEW q \in 1..Len(blocks[b].pieces)
       PROVE  /\ b - 1 \in DOMAIN C(b, q) <=> IsUse(p, blocks[b])
              /\ C(b, q + 1) = IF IsUse(p, blocks[b])
                               THEN [C(b, q) EXCEPT ![b - 1].args = Append(@, blocks[b].pieces[q])] ELSE C(b, q)
  <2>0. /\ b - 1 \in 0..(n - 1) /\ (b - 1) + 1 = b /\ \A k \in 0..(n - 1) : k # b - 1 => k + 1 # b
        /\ q > 0 /\ q + 1 > 0 /\ (q + 1) - 1 = q /\ ~(b < b)
    BY <1>1, <1>2
  <2>1. \A k \in 0..(n - 1) : k \in D(b, q + 1) <=> k \in D(b, q)
    BY <1>4, <2>0
  <2>2. b - 1 \in D(b, q) <=> IsUse(p, blocks[b])
    BY <1>4, <2>0
  <2>3. \A k \in D(b, q) : k # b - 1 => V(b, q + 1, k) = V(b, q, k)
    <3> TAKE k \in D(b, q)
    <3>1. k # b - 1 => k + 1 < b
      BY <1>4, <2>0
    <3> QED
      BY <1>5, <3>1
  <2>4. DOMAIN C(b, q) = D(b, q) /\ DOMAIN C(b, q + 1) = D(b, q)
    <3> DEFINE r == q + 1
    <3> HIDE DEF r
    <3>1. D(b, r) = D(b, q)
      <4>1. \A k : k \in D(b, r) <=> k \in D(b, q)
        BY <1>4, <2>1 DEF r
      <4> QED
        BY <4>1
    <3> QED
      BY <1>3, <3>1 DEF r
  <2>5. CASE IsUse(p, blocks[b])
    <3> DEFINE old == C(b, q)
               new == C(b, q + 1)
               c == blocks[b].pieces[q]
    <3>1. b - 1 \in D(b, q)
      BY <2>2, <2>5
    <3>2. /\ old[b - 1] = [id |-> blocks[b].id, args |-> First(blocks[b].pieces, q - 1)]
          /\ new[b - 1] = [id |-> blocks[b].id, args |-> First(blocks[b].pieces, q)]
      <4>1. old[b - 1] = V(b, q, b - 1) /\ new[b - 1] = V(b, q + 1, b - 1)
        BY <1>3, <2>4, <3>1
      <4> QED
        BY <1>5, <2>0, <4>1
    <3>3. First(blocks[b].pieces, q) = Append(First(blocks[b].pieces, q - 1), c)
      BY <1>2, FirstIs
    <3>4. \A k \in D(b, q) : k # b - 1 => new[k] = old[k]
      BY <1>3, <2>3, <2>4
    <3>5. old = [k \in D(b, q) |-> old[k]] /\ new = [k \in D(b, q) |-> new[k]]
      BY <1>3, <2>4
    <3> HIDE DEF old, new, c
    <3>6. new = [old EXCEPT ![b - 1].args = Append(@, c)]
      <4> DEFINE e == [old EXCEPT ![b - 1] = [old[b - 1] EXCEPT !.args = Append(@, c)]]
      <4>1. [old[b - 1] EXCEPT !.args = Append(@, c)] = new[b - 1]
        <5> DEFINE i == blocks[b].id
                   a == First(blocks[b].pieces, q - 1)
                   o == old[b - 1]
        <5>1. o = [id |-> i, args |-> a] /\ new[b - 1] = [id |-> i, args |-> Append(a, c)]
          BY <3>2, <3>3
        <5> HIDE DEF i, a, o
        <5>2. [o EXCEPT !.args = Append(@, c)] = new[b - 1]
          BY <5>1
        <5> QED
          BY <5>2 DEF o
      <4>2. e = [k \in D(b, q) |-> IF k = b - 1 THEN new[b - 1] ELSE old[k]]
        BY <3>1, <3>5, <4>1
      <4>3. \A k \in D(b, q) : new[k] = IF k = b - 1 THEN new[b - 1] ELSE old[k]
        BY <3>4
      <4>4. new = e
        <5> HIDE DEF e
        <5> QED
          BY <3>5, <4>2, <4>3
      <4>5. e = [old EXCEPT ![b - 1].args = Append(@, c)]
        OBVIOUS
      <4> QED
        BY <4>4, <4>5
    <3> QED
      BY <2>2, <2>4, <2>5, <3>6 DEF old, new, c
  <2>6. CASE ~IsUse(p, blocks[b])
    <3>1. \A k \in D(b, q) : V(b, q + 1, k) = V(b, q, k)
      BY <2>2, <2>3, <2>6
    <3>2. C(b, q + 1) = C(b, q)
      BY <1>6, <2>1, <3>1
    <3> QED
      BY <2>2, <2>4, <2>6, <3>2
  <2> QED
    BY <2>5, <2>6
<1>12. ASSUME NEW b \in 1..n
       PROVE  C(b + 1, 0) = C(b, Len(blocks[b].pieces) + 1)
  <2> DEFINE q == Len(blocks[b].pieces) + 1
  <2>0. q > 0 /\ q - 1 = Len(blocks[b].pieces)
    BY <1>2
  <2> HIDE DEF q
  <2>1. \A k \in 0..(n - 1) : k \in D(b + 1, 0) <=> k \in D(b, q)
    <3> TAKE k \in 0..(n - 1)
    <3>1. (k + 1 < b + 1 \/ (k + 1 = b + 1 /\ 0 > 0)) <=> (k + 1 < b \/ (k + 1 = b /\ q > 0))
      BY <1>1, <2>0
    <3> QED
      BY <1>4, <3>1
  <2>2. \A k \in D(b + 1, 0) : V(b + 1, 0, k) = V(b, q, k)
    <3> TAKE k \in D(b + 1, 0)
    <3>1. k \in 0..(n - 1) /\ k + 1 < b + 1
      BY <1>4
    <3>2. CASE k + 1 < b
      BY <1>5, <3>1, <3>2
    <3>3. CASE ~(k + 1 < b)
      <4>1. k + 1 = b
        BY <1>1, <3>1, <3>3
      <4>2. First(blocks[b].pieces, q - 1) = blocks[b].pieces
        BY <1>2, <2>0, FirstIs
      <4> QED
        BY <1>5, <3>1, <3>3, <4>1, <4>2
    <3> QED
      BY <3>2, <3>3
  <2>3. C(b + 1, 0) = C(b, q)
    BY <1>6, <2>1, <2>2
  <2> QED
    BY <2>3 DEF q
<1>13. C(n + 1, 1) = C(n + 1, 0) /\ C(n + 2, 0) = C(n + 1, 0)
  BY <1>9
<1> QED
  BY <1>7, <1>8, <1>10, <1>11, <1>12, <1>13 DEF C, blocks, n, CallsFit

\* Fields of a sum that change.
WithText(sum, x) == [sum EXCEPT !.text = x]
WithCalls(sum, x) == [sum EXCEPT !.calls = x]
WithFinish(sum, x) == [sum EXCEPT !.finish = x]
WithPrompt(sum, x) == [sum EXCEPT !.prompt = x]
WithCompletion(sum, x) == [sum EXCEPT !.completion = x]
WithEnd(sum, x, y) == WithCompletion(WithFinish(sum, x), y)
WithTokens(sum, x, y) == WithCompletion(WithPrompt(sum, x), y)

\* What each type of event adds.
EventAdds(p, sum, reply, i, id, piece) ==
  LET A(t) == AfterEvent(p, sum, Event(t, i, id, piece), reply) IN
  /\ A("message_start") = IF Anthropic(p) THEN WithPrompt(sum, Prompt(p, reply)) ELSE sum
  /\ A("message_delta") = IF Anthropic(p) THEN WithEnd(sum, FinishReason(p, reply.stop), reply.output)
                          ELSE WithFinish(sum, FinishReason(p, reply.stop))
  /\ A("last") = IF Anthropic(p) THEN sum ELSE WithTokens(sum, Prompt(p, reply), reply.output)
  /\ A("start") = IF piece = "tool_use" \/ (piece = "server_tool_use" /\ Anthropic(p)) THEN StartCall(sum, i, id) ELSE sum
  /\ A("text") = AddText(sum, piece)
  /\ \A t \in {"tool_use", "server_tool_use"} :
       A(t) = IF i \in DOMAIN sum.calls THEN AddArguments(sum, i, piece) ELSE sum
  /\ \A t \in {"thinking", "other", "stop"} : A(t) = sum

\* Each event, as the adapters read it.
LEMMA EventsAre ==
  ASSUME NEW p, NEW sum, NEW reply, NEW i, NEW id, NEW piece
  PROVE  EventAdds(p, sum, reply, i, id, piece)
<1> DEFINE A(t) == AfterEvent(p, sum, Event(t, i, id, piece), reply)
           B(t) == AfterBlockEvent(p, sum, Event(t, i, id, piece))
<1>1. /\ A("message_start") = IF Anthropic(p) THEN WithPrompt(sum, Prompt(p, reply)) ELSE B("message_start")
      /\ A("message_delta") = IF Anthropic(p) THEN WithEnd(sum, FinishReason(p, reply.stop), reply.output)
                              ELSE WithFinish(sum, FinishReason(p, reply.stop))
      /\ A("last") = IF Anthropic(p) THEN B("last") ELSE WithTokens(sum, Prompt(p, reply), reply.output)
  BY DEF AfterEvent, AfterMessagesEvent, AfterConverseEvent, Event, WithPrompt, WithEnd, WithFinish, WithCompletion, WithTokens
<1>2. \A t \in {"start", "text", "tool_use", "server_tool_use", "thinking", "other", "stop"} : A(t) = B(t)
  BY DEF AfterEvent, AfterMessagesEvent, AfterConverseEvent, Event
<1>3. B("start") = IF piece = "tool_use" \/ (piece = "server_tool_use" /\ Anthropic(p)) THEN StartCall(sum, i, id) ELSE sum
  BY DEF AfterBlockEvent, Event, IsUse, Block
<1>4. B("text") = AddText(sum, piece)
  BY DEF AfterBlockEvent, Event
<1>5. \A t \in {"tool_use", "server_tool_use"} : B(t) = IF i \in DOMAIN sum.calls THEN AddArguments(sum, i, piece) ELSE sum
  BY DEF AfterBlockEvent, Event
<1>6. \A t \in {"thinking", "other", "stop", "message_start", "last"} : B(t) = sum
  BY DEF AfterBlockEvent, Event
<1> HIDE DEF B
<1> QED
  BY <1>1, <1>2, <1>3, <1>4, <1>5, <1>6 DEF EventAdds

\* Where an event of a reply can be.
EventPlaced(reply, at) ==
  /\ at \in [block : 0..(Len(reply.blocks) + 2), piece : Nat]
  /\ at.block <= Len(reply.blocks) + 1 => at.piece <= LastPiece(reply, at.block)

SumOf(text, calls, finish, prompt, completion) ==
  [text |-> text, calls |-> calls, finish |-> finish, prompt |-> prompt, completion |-> completion]

\* Sums that differ in a field.
SumFields(t, c, f, m, o, x, y) ==
  LET sum == SumOf(t, c, f, m, o) IN
  /\ sum.text = t /\ sum.calls = c
  /\ WithText(sum, x) = SumOf(x, c, f, m, o) /\ WithCalls(sum, x) = SumOf(t, x, f, m, o)
  /\ WithFinish(sum, x) = SumOf(t, c, x, m, o) /\ WithPrompt(sum, x) = SumOf(t, c, f, x, o)
  /\ WithEnd(sum, x, y) = SumOf(t, c, x, m, y)
  /\ WithTokens(sum, x, y) = SumOf(t, c, f, x, y)

\* A field changes, the others stay.
LEMMA SumsAre ==
  ASSUME NEW t, NEW c, NEW f, NEW m, NEW o, NEW x, NEW y
  PROVE  SumFields(t, c, f, m, o, x, y)
<1> DEFINE sum == SumOf(t, c, f, m, o)
<1>1. sum.text = t /\ sum.calls = c
  BY DEF SumOf
<1>2. WithText(sum, x) = SumOf(x, c, f, m, o)
  BY DEF SumOf, WithText
<1>3. WithCalls(sum, x) = SumOf(t, x, f, m, o)
  BY DEF SumOf, WithCalls
<1>4. WithFinish(sum, x) = SumOf(t, c, x, m, o)
  BY DEF SumOf, WithFinish
<1>5. WithPrompt(sum, x) = SumOf(t, c, f, x, o)
  BY DEF SumOf, WithPrompt
<1>6. WithEnd(sum, x, y) = SumOf(t, c, x, m, y)
  <2>1. WithCompletion(SumOf(t, c, x, m, o), y) = SumOf(t, c, x, m, y)
    BY DEF SumOf, WithCompletion
  <2> QED
    BY <1>4, <2>1 DEF WithEnd
<1>7. WithTokens(sum, x, y) = SumOf(t, c, f, x, y)
  <2>1. WithCompletion(SumOf(t, c, f, x, o), y) = SumOf(t, c, f, x, y)
    BY DEF SumOf, WithCompletion
  <2> QED
    BY <1>5, <2>1 DEF WithTokens
<1> QED
  BY <1>1, <1>2, <1>3, <1>4, <1>5, <1>6, <1>7 DEF SumFields

\* An event leads from what was told before it to what was told after it.
LEMMA DeliverFits ==
  ASSUME NEW p, NEW reply \in Replies, NEW at, EventPlaced(reply, at), ~AllTold(reply, at)
  PROVE  /\ EventPlaced(reply, EventAfter(reply, at))
         /\ AfterEvent(p, SumAt(p, reply, at.block, at.piece), EventAt(reply, at), reply)
              = SumAt(p, reply, EventAfter(reply, at).block, EventAfter(reply, at).piece)
<1> DEFINE b == at.block
           q == at.piece
           blocks == reply.blocks
           n == Len(blocks)
           T(c, r) == TextTold(reply, c, r)
           C(c, r) == CallsTold(p, reply, c, r)
           S(c, r) == SumAt(p, reply, c, r)
           A(sum, e) == AfterEvent(p, sum, e, reply)
           finish == FinishReason(p, reply.stop)
           prompt == Prompt(p, reply)
           output == reply.output
           F(c, r) == IF DeltaTold(reply, c, r) THEN finish ELSE "none"
           P(c) == IF (IF Anthropic(p) THEN c > 0 ELSE LastTold(reply, c)) THEN prompt ELSE 0
           O(c, r) == IF (IF Anthropic(p) THEN DeltaTold(reply, c, r) ELSE LastTold(reply, c)) THEN output ELSE 0
<1>1. blocks \in Seq(Said) /\ n \in Nat /\ DOMAIN blocks = 1..n
  <2>1. blocks \in Seq(Said)
    BY WholeIs
  <2> QED
    BY <2>1, DomainIs
<1>2. at = [block |-> b, piece |-> q] /\ b \in 0..(n + 1) /\ q \in Nat /\ q <= LastPiece(reply, b)
  <2>1. at \in [block : 0..(n + 2), piece : Nat] /\ ~(b > n + 1)
    BY DEF EventPlaced, AllTold
  <2>2. at = [block |-> b, piece |-> q] /\ b \in 0..(n + 2) /\ q \in Nat
    BY <2>1
  <2>3. b \in 0..(n + 1) /\ b <= n + 1
    BY <1>1, <2>1, <2>2
  <2> QED
    BY <2>2, <2>3 DEF EventPlaced
<1>3. /\ LastPiece(reply, 0) = 0 /\ LastPiece(reply, n + 1) = 1
      /\ \A c \in 1..n : LastPiece(reply, c) = Len(blocks[c].pieces) + 1
  <2>1. 0 \notin DOMAIN blocks /\ n + 1 # 0 /\ n + 1 \notin DOMAIN blocks /\ n + 1 > n
    BY <1>1
  <2>2. \A c \in 1..n : c \in DOMAIN blocks /\ c # 0
    BY <1>1
  <2> QED
    BY <2>1, <2>2 DEF LastPiece
<1>4. \A c \in 1..n : blocks[c] \in Said /\ blocks[c].pieces \in Seq(Pieces) /\ Len(blocks[c].pieces) \in Nat
                      /\ DOMAIN blocks[c].pieces = 1..Len(blocks[c].pieces)
                      /\ blocks[c].type \in {"text", "thinking", "tool_use", "server_tool_use", "other"}
  <2> TAKE c \in 1..n
  <2>1. blocks[c] \in Said
    BY <1>1, ElementOfSeq
  <2>2. blocks[c].pieces \in Seq(Pieces) /\ blocks[c].type \in {"text", "thinking", "tool_use", "server_tool_use", "other"}
    BY <2>1 DEF Said
  <2> QED
    BY <2>1, <2>2, DomainIs
<1>5. \A c, r : S(c, r) = SumOf(T(c, r), C(c, r), F(c, r), P(c), O(c, r))
  BY DEF SumAt, SumOf
<1>6. EventAfter(reply, at) = IF q < LastPiece(reply, b) THEN [block |-> b, piece |-> q + 1] ELSE [block |-> b + 1, piece |-> 0]
  <2>1. [at EXCEPT !.piece = @ + 1] = [block |-> b, piece |-> q + 1]
    BY <1>2
  <2> QED
    BY <2>1 DEF EventAfter
<1>7. \A c, r : DeltaTold(reply, c, r) <=> c > n + 1 \/ (c = n + 1 /\ r = 1)
  BY DEF DeltaTold
<1>8. \A c : LastTold(reply, c) <=> c > n + 1
  BY DEF LastTold
<1> DEFINE Goal(c, r) == EventPlaced(reply, [block |-> c, piece |-> r]) /\ A(S(b, q), EventAt(reply, at)) = S(c, r)
<1>9. SUFFICES Goal(EventAfter(reply, at).block, EventAfter(reply, at).piece)
  <2>1. EventAfter(reply, at) = [block |-> EventAfter(reply, at).block, piece |-> EventAfter(reply, at).piece]
    BY <1>6
  <2> QED
    BY <2>1
<1>10. \A c \in 0..(n + 2) : \A r \in Nat :
         (c <= n + 1 => r <= LastPiece(reply, c)) => EventPlaced(reply, [block |-> c, piece |-> r])
  BY DEF EventPlaced
<1> HIDE DEF b, q, n, blocks, T, C, S, A
<1>16. TextFit(reply) /\ CallsFit(p, reply)
  BY TextSteps, CallsSteps
<1>11. CASE b = 0
  <2>1. q = 0 /\ ~(q < LastPiece(reply, b))
    BY <1>2, <1>3, <1>11
  <2>2. EventAfter(reply, at).block = 1 /\ EventAfter(reply, at).piece = 0
    BY <1>6, <1>11, <2>1
  <2>3. EventAt(reply, at) = Event("message_start", 0, "", "")
    <3>1. 0 \notin DOMAIN blocks /\ ~(0 > n)
      BY <1>1
    <3> QED
      BY <1>11, <3>1 DEF EventAt, b, n, blocks
  <2>4. T(1, 0) = T(0, 0) /\ C(1, 0) = C(0, 0)
    BY <1>16 DEF T, C, TextFit, CallsFit
  <2>5. ~DeltaTold(reply, 0, 0) /\ ~DeltaTold(reply, 1, 0) /\ ~LastTold(reply, 0) /\ ~LastTold(reply, 1) /\ 1 > 0 /\ ~(0 > 0)
    BY <1>1, <1>7, <1>8
  <2>6. S(1, 0) = SumOf(T(0, 0), C(0, 0), "none", IF Anthropic(p) THEN prompt ELSE 0, 0)
        /\ S(0, 0) = SumOf(T(0, 0), C(0, 0), "none", 0, 0)
    BY <1>5, <2>4, <2>5
  <2>7. A(S(0, 0), Event("message_start", 0, "", "")) = IF Anthropic(p) THEN WithPrompt(S(0, 0), prompt) ELSE S(0, 0)
    <3>1. EventAdds(p, S(0, 0), reply, 0, "", "")
      BY EventsAre
    <3> QED
      BY <3>1 DEF A, EventAdds
  <2>8. WithPrompt(SumOf(T(0, 0), C(0, 0), "none", 0, 0), prompt) = SumOf(T(0, 0), C(0, 0), "none", prompt, 0)
    <3>1. SumFields(T(0, 0), C(0, 0), "none", 0, 0, prompt, 0)
      BY SumsAre
    <3> QED
      BY <3>1 DEF SumFields
  <2>9. A(S(0, 0), Event("message_start", 0, "", "")) = S(1, 0)
    BY <2>6, <2>7, <2>8
  <2>10. EventPlaced(reply, [block |-> 1, piece |-> 0])
    <3>1. 1 \in 0..(n + 2) /\ 0 \in Nat /\ (1 \in 1..n \/ 1 = n + 1)
      BY <1>1
    <3>2. 0 <= LastPiece(reply, 1)
      BY <1>3, <1>4, <3>1
    <3> QED
      BY <1>10, <3>1, <3>2
  <2> QED
    BY <1>11, <2>1, <2>2, <2>3, <2>9, <2>10
<1>12. CASE b = n + 1 /\ q = 0
  <2>1. EventAfter(reply, at).block = n + 1 /\ EventAfter(reply, at).piece = 1
    BY <1>3, <1>6, <1>12
  <2>2. EventAt(reply, at) = Event("message_delta", 0, "", "")
    <3>1. b # 0 /\ b \notin DOMAIN blocks /\ b > n
      BY <1>1, <1>12
    <3> QED
      BY <1>12, <3>1 DEF EventAt, b, q, n, blocks
  <2>3. T(n + 1, 1) = T(n + 1, 0) /\ C(n + 1, 1) = C(n + 1, 0)
    BY <1>16 DEF T, C, TextFit, CallsFit, n, blocks
  <2>4. ~DeltaTold(reply, n + 1, 0) /\ DeltaTold(reply, n + 1, 1) /\ ~LastTold(reply, n + 1)
    BY <1>1, <1>7, <1>8
  <2> DEFINE t == T(n + 1, 0)
             c == C(n + 1, 0)
             m == P(n + 1)
             later == IF Anthropic(p) THEN output ELSE 0
  <2>5. S(n + 1, 1) = SumOf(t, c, finish, m, later) /\ S(n + 1, 0) = SumOf(t, c, "none", m, 0)
    BY <1>5, <2>3, <2>4
  <2> HIDE DEF t, c, m
  <2>6. A(S(n + 1, 0), Event("message_delta", 0, "", "")) =
          IF Anthropic(p) THEN WithEnd(S(n + 1, 0), finish, output)
          ELSE WithFinish(S(n + 1, 0), finish)
    <3>1. EventAdds(p, S(n + 1, 0), reply, 0, "", "")
      BY EventsAre
    <3> QED
      BY <3>1 DEF A, EventAdds
  <2>7. WithEnd(SumOf(t, c, "none", m, 0), finish, output) = SumOf(t, c, finish, m, output)
        /\ WithFinish(SumOf(t, c, "none", m, 0), finish) = SumOf(t, c, finish, m, 0)
    <3>1. SumFields(t, c, "none", m, 0, finish, output) /\ SumFields(t, c, "none", m, 0, finish, 0)
      BY SumsAre
    <3> QED
      BY <3>1 DEF SumFields
  <2>8. A(S(n + 1, 0), Event("message_delta", 0, "", "")) = S(n + 1, 1)
    BY <2>5, <2>6, <2>7
  <2>9. EventPlaced(reply, [block |-> n + 1, piece |-> 1])
    BY <1>1, <1>3, <1>10
  <2> QED
    BY <1>12, <2>1, <2>2, <2>8, <2>9
<1>13. CASE b = n + 1 /\ q # 0
  <2>1. q = 1 /\ EventAfter(reply, at).block = n + 2 /\ EventAfter(reply, at).piece = 0
    BY <1>1, <1>2, <1>3, <1>6, <1>13
  <2>2. EventAt(reply, at) = Event("last", 0, "", "")
    <3>1. b # 0 /\ b \notin DOMAIN blocks /\ b > n
      BY <1>1, <1>13
    <3> QED
      BY <1>13, <3>1 DEF EventAt, b, q, n, blocks
  <2>3. T(n + 2, 0) = T(n + 1, 1) /\ C(n + 2, 0) = C(n + 1, 1)
    BY <1>16 DEF T, C, TextFit, CallsFit, n, blocks
  <2>4. DeltaTold(reply, n + 1, 1) /\ DeltaTold(reply, n + 2, 0) /\ ~LastTold(reply, n + 1) /\ LastTold(reply, n + 2)
        /\ n + 1 > 0 /\ n + 2 > 0
    BY <1>1, <1>7, <1>8
  <2> DEFINE t == T(n + 1, 1)
             c == C(n + 1, 1)
             before == IF Anthropic(p) THEN prompt ELSE 0
             o == IF Anthropic(p) THEN output ELSE 0
  <2>5. S(n + 2, 0) = SumOf(t, c, finish, prompt, output) /\ S(n + 1, 1) = SumOf(t, c, finish, before, o)
    BY <1>5, <2>3, <2>4
  <2> HIDE DEF t, c
  <2>6. A(S(n + 1, 1), Event("last", 0, "", "")) =
          IF Anthropic(p) THEN S(n + 1, 1) ELSE WithTokens(S(n + 1, 1), prompt, output)
    <3>1. EventAdds(p, S(n + 1, 1), reply, 0, "", "")
      BY EventsAre
    <3> QED
      BY <3>1 DEF A, EventAdds
  <2>7. WithTokens(SumOf(t, c, finish, before, o), prompt, output) = SumOf(t, c, finish, prompt, output)
    <3>1. SumFields(t, c, finish, before, o, prompt, output)
      BY SumsAre
    <3> QED
      BY <3>1 DEF SumFields
  <2>8. A(S(n + 1, 1), Event("last", 0, "", "")) = S(n + 2, 0)
    BY <2>5, <2>6, <2>7
  <2>9. EventPlaced(reply, [block |-> n + 2, piece |-> 0])
    <3>1. n + 2 \in 0..(n + 2) /\ 0 \in Nat /\ ~(n + 2 <= n + 1)
      BY <1>1
    <3> QED
      BY <1>10, <3>1
  <2> QED
    BY <1>13, <2>1, <2>2, <2>8, <2>9
<1>14. CASE b \in 1..n
  <2> DEFINE block == blocks[b]
             index == b - 1
             pieces == block.pieces
             use == IsUse(p, block)
  <2>0. /\ b \in DOMAIN blocks /\ b # 0 /\ b > 0 /\ b + 1 > 0 /\ b <= n + 1 /\ b \in 0..(n + 2) /\ b + 1 \in 0..(n + 2)
        /\ q \in Nat /\ q + 1 \in Nat /\ q <= Len(pieces) + 1
        /\ LastPiece(reply, b) = Len(pieces) + 1 /\ Len(pieces) \in Nat /\ DOMAIN pieces = 1..Len(pieces)
        /\ pieces \in Seq(Pieces) /\ block.type \in {"text", "thinking", "tool_use", "server_tool_use", "other"}
    BY <1>1, <1>2, <1>3, <1>4, <1>14
  <2>1. /\ \A r : ~DeltaTold(reply, b, r)
        /\ ~DeltaTold(reply, b + 1, 0)
        /\ ~LastTold(reply, b) /\ ~LastTold(reply, b + 1)
    BY <1>1, <1>7, <1>8, <1>14
  <2> DEFINE m == IF Anthropic(p) THEN prompt ELSE 0
  <2>2. /\ \A r : S(b, r) = SumOf(T(b, r), C(b, r), "none", m, 0)
        /\ S(b + 1, 0) = SumOf(T(b + 1, 0), C(b + 1, 0), "none", m, 0)
    BY <1>5, <2>0, <2>1
  <2>3. /\ T(b, 1) = T(b, 0)
        /\ \A r \in 1..Len(pieces) :
             T(b, r + 1) = IF block.type = "text" THEN Append(T(b, r), pieces[r]) ELSE T(b, r)
        /\ T(b + 1, 0) = T(b, Len(pieces) + 1)
    BY <1>14, <1>16 DEF T, n, blocks, TextFit
  <2>4. /\ C(b, 1) = IF use THEN [k \in DOMAIN C(b, 0) \cup {index} |->
                                   IF k = index THEN [id |-> block.id, args |-> <<>>] ELSE C(b, 0)[k]]
                     ELSE C(b, 0)
        /\ \A r \in 1..Len(pieces) :
             /\ index \in DOMAIN C(b, r) <=> use
             /\ C(b, r + 1) = IF use THEN [C(b, r) EXCEPT ![index].args = Append(@, pieces[r])] ELSE C(b, r)
        /\ C(b + 1, 0) = C(b, Len(pieces) + 1)
    BY <1>14, <1>16 DEF C, n, blocks, CallsFit
  <2>5. use <=> block.type = "tool_use" \/ (block.type = "server_tool_use" /\ Anthropic(p))
    BY DEF IsUse
  <2> HIDE DEF m, use
  <2>6. CASE q = 0
    <3>1. EventAfter(reply, at).block = b /\ EventAfter(reply, at).piece = 1
      BY <1>6, <2>0, <2>6
    <3>2. EventAt(reply, at) = Event("start", index, block.id, block.type)
      <4>1. q \notin DOMAIN pieces /\ ~(q > Len(pieces)) /\ ~(b > n)
        BY <1>1, <1>14, <2>0, <2>6
      <4> QED
        BY <2>0, <2>6, <4>1 DEF EventAt, b, q, n, blocks
    <3>3. A(S(b, 0), Event("start", index, block.id, block.type)) = IF use THEN StartCall(S(b, 0), index, block.id) ELSE S(b, 0)
      <4>1. EventAdds(p, S(b, 0), reply, index, block.id, block.type)
        BY EventsAre
      <4> QED
        BY <2>5, <4>1 DEF A, EventAdds
    <3>4. ASSUME use PROVE StartCall(S(b, 0), index, block.id) = S(b, 1)
      <4> DEFINE old == C(b, 0)
                 t == T(b, 0)
                 added == [k \in DOMAIN old \cup {index} |-> IF k = index THEN [id |-> block.id, args |-> <<>>] ELSE old[k]]
      <4>1. S(b, 0) = SumOf(t, old, "none", m, 0) /\ S(b, 1) = SumOf(t, added, "none", m, 0)
        BY <2>2, <2>3, <2>4, <3>4
      <4>2. S(b, 0).calls = old
        <5>1. SumFields(t, old, "none", m, 0, 0, 0)
          BY SumsAre
        <5> QED
          BY <4>1, <5>1 DEF SumFields
      <4>3. StartCall(S(b, 0), index, block.id) = WithCalls(S(b, 0), added)
        BY <4>2 DEF StartCall, WithCalls
      <4> HIDE DEF added, t, old
      <4>4. WithCalls(SumOf(t, old, "none", m, 0), added) = SumOf(t, added, "none", m, 0)
        <5>1. SumFields(t, old, "none", m, 0, added, 0)
          BY SumsAre
        <5> QED
          BY <5>1 DEF SumFields
      <4> QED
        BY <4>1, <4>3, <4>4
    <3>5. ASSUME ~use PROVE S(b, 0) = S(b, 1)
      BY <2>2, <2>3, <2>4, <3>5
    <3>6. A(S(b, 0), Event("start", index, block.id, block.type)) = S(b, 1)
      BY <3>3, <3>4, <3>5
    <3>7. EventPlaced(reply, [block |-> b, piece |-> 1])
      <4>1. 1 <= Len(pieces) + 1
        BY <2>0
      <4> QED
        BY <1>10, <2>0, <4>1
    <3> QED
      BY <2>6, <3>1, <3>2, <3>6, <3>7
  <2>7. CASE q \in 1..Len(pieces)
    <3> DEFINE piece == pieces[q]
               t == T(b, q)
               old == C(b, q)
               e == Event(block.type, index, "", piece)
    <3>1. EventAfter(reply, at).block = b /\ EventAfter(reply, at).piece = q + 1
      BY <1>6, <2>0, <2>7
    <3>2. EventAt(reply, at) = e
      <4>1. q # 0 /\ q \in DOMAIN pieces /\ ~(q > Len(pieces)) /\ ~(b > n)
        BY <1>1, <1>14, <2>0, <2>7
      <4> QED
        BY <2>0, <4>1 DEF EventAt, b, q, n, blocks
    <3>3. S(b, q) = SumOf(t, old, "none", m, 0) /\ S(b, q + 1) = SumOf(T(b, q + 1), C(b, q + 1), "none", m, 0)
      BY <2>2
    <3>4. S(b, q).calls = old /\ S(b, q).text = t
      <4>1. SumFields(t, old, "none", m, 0, 0, 0)
        BY SumsAre
      <4> QED
        BY <3>3, <4>1 DEF SumFields
    <3>5. /\ T(b, q + 1) = IF block.type = "text" THEN Append(t, piece) ELSE t
          /\ index \in DOMAIN old <=> use
          /\ C(b, q + 1) = IF use THEN [old EXCEPT ![index].args = Append(@, piece)] ELSE old
      BY <2>3, <2>4, <2>7
    <3> HIDE DEF t, old, piece
    <3>6. ASSUME block.type = "text" PROVE A(S(b, q), e) = S(b, q + 1)
      <4>1. A(S(b, q), e) = AddText(S(b, q), piece)
        <5>1. EventAdds(p, S(b, q), reply, index, "", piece)
          BY EventsAre
        <5> QED
          BY <3>6, <5>1 DEF A, EventAdds
      <4>2. AddText(S(b, q), piece) = WithText(S(b, q), Append(t, piece))
        BY <3>4 DEF AddText, WithText
      <4>3. WithText(SumOf(t, old, "none", m, 0), Append(t, piece)) = SumOf(Append(t, piece), old, "none", m, 0)
        <5>1. SumFields(t, old, "none", m, 0, Append(t, piece), 0)
          BY SumsAre
        <5> QED
          BY <5>1 DEF SumFields
      <4>4. ~use
        BY <2>5, <3>6
      <4> QED
        BY <3>3, <3>5, <3>6, <4>1, <4>2, <4>3, <4>4
    <3>7. ASSUME block.type \in {"tool_use", "server_tool_use"} PROVE A(S(b, q), e) = S(b, q + 1)
      <4> DEFINE added == [old EXCEPT ![index].args = Append(@, piece)]
      <4>1. A(S(b, q), e) = IF index \in DOMAIN S(b, q).calls THEN AddArguments(S(b, q), index, piece) ELSE S(b, q)
        <5>1. EventAdds(p, S(b, q), reply, index, "", piece)
          BY EventsAre
        <5> QED
          BY <3>7, <5>1 DEF A, EventAdds
      <4>2. AddArguments(S(b, q), index, piece) = WithCalls(S(b, q), added)
        BY <3>4 DEF AddArguments, WithCalls
      <4>3. T(b, q + 1) = t /\ C(b, q + 1) = IF use THEN added ELSE old
        BY <3>5, <3>7
      <4> HIDE DEF added, e
      <4>4. WithCalls(SumOf(t, old, "none", m, 0), added) = SumOf(t, added, "none", m, 0)
        <5>1. SumFields(t, old, "none", m, 0, added, 0)
          BY SumsAre
        <5> QED
          BY <5>1 DEF SumFields
      <4>5. CASE use
        BY <3>3, <3>4, <3>5, <4>1, <4>2, <4>3, <4>4, <4>5
      <4>6. CASE ~use
        BY <3>3, <3>4, <3>5, <4>1, <4>3, <4>6
      <4> QED
        BY <4>5, <4>6
    <3>8. ASSUME block.type \in {"thinking", "other"} PROVE A(S(b, q), e) = S(b, q + 1)
      <4>1. A(S(b, q), e) = S(b, q)
        <5>1. EventAdds(p, S(b, q), reply, index, "", piece)
          BY EventsAre
        <5> QED
          BY <3>8, <5>1 DEF A, EventAdds
      <4>2. ~use /\ block.type # "text"
        BY <2>5, <3>8
      <4> QED
        BY <3>3, <3>5, <4>1, <4>2
    <3>9. A(S(b, q), e) = S(b, q + 1)
      <4> HIDE DEF e
      <4> QED
        BY <2>0, <3>6, <3>7, <3>8
    <3>10. EventPlaced(reply, [block |-> b, piece |-> q + 1])
      <4>1. q + 1 <= Len(pieces) + 1
        BY <2>0, <2>7
      <4> QED
        BY <1>10, <2>0, <4>1
    <3> HIDE DEF e
    <3> QED
      BY <3>1, <3>2, <3>9, <3>10
  <2>8. CASE q = Len(pieces) + 1
    <3>1. EventAfter(reply, at).block = b + 1 /\ EventAfter(reply, at).piece = 0
      BY <1>6, <2>0, <2>8
    <3>2. EventAt(reply, at) = Event("stop", index, "", "")
      <4>1. q # 0 /\ q \notin DOMAIN pieces /\ q > Len(pieces) /\ ~(b > n)
        BY <1>1, <1>14, <2>0, <2>8
      <4> QED
        BY <2>0, <4>1 DEF EventAt, b, q, n, blocks
    <3>3. A(S(b, q), Event("stop", index, "", "")) = S(b, q)
      <4>1. EventAdds(p, S(b, q), reply, index, "", "")
        BY EventsAre
      <4> QED
        BY <4>1 DEF A, EventAdds
    <3>4. S(b, q) = S(b + 1, 0)
      BY <2>2, <2>3, <2>4, <2>8
    <3>5. EventPlaced(reply, [block |-> b + 1, piece |-> 0])
      <4>1. b + 1 \in 1..n \/ b + 1 = n + 1
        BY <1>1, <1>14
      <4>2. 0 <= LastPiece(reply, b + 1) /\ 0 \in Nat
        BY <1>3, <1>4, <4>1
      <4> QED
        BY <1>10, <2>0, <4>2
    <3> QED
      BY <3>1, <3>2, <3>3, <3>4, <3>5
  <2>9. q = 0 \/ q \in 1..Len(pieces) \/ q = Len(pieces) + 1
    BY <2>0
  <2> QED
    BY <2>6, <2>7, <2>8, <2>9
<1>15. b = 0 \/ b \in 1..n \/ b = n + 1
  BY <1>1, <1>2
<1> QED
  BY <1>11, <1>12, <1>13, <1>14, <1>15

\* Before the first event nothing was told.
LEMMA StartFits ==
  ASSUME NEW p, NEW reply \in Replies
  PROVE  EventPlaced(reply, NoPlace) /\ SumAt(p, reply, NoPlace.block, NoPlace.piece) = NoChunks
<1>1. reply.blocks \in Seq(Said) /\ Len(reply.blocks) \in Nat /\ DOMAIN reply.blocks = 1..Len(reply.blocks)
  <2>1. reply.blocks \in Seq(Said)
    BY WholeIs
  <2> QED
    BY <2>1, DomainIs
<1>2. NoPlace = [block |-> 0, piece |-> 0] /\ NoPlace.block = 0 /\ NoPlace.piece = 0
  BY DEF NoPlace
<1>3. EventPlaced(reply, NoPlace)
  <2>1. LastPiece(reply, 0) = 0
    <3>1. 0 \notin DOMAIN reply.blocks /\ ~(0 > Len(reply.blocks))
      BY <1>1
    <3> QED
      BY <3>1 DEF LastPiece
  <2>2. 0 \in 0..(Len(reply.blocks) + 2)
    BY <1>1
  <2> QED
    BY <1>2, <2>1, <2>2 DEF EventPlaced
<1>4. TextTold(reply, 0, 0) = <<>>
  BY TextSteps DEF TextFit
<1>5. CallsTold(p, reply, 0, 0) = [k \in {} |-> <<>>]
  BY CallsSteps DEF CallsFit
<1>6. ~DeltaTold(reply, 0, 0) /\ ~LastTold(reply, 0) /\ ~(0 > 0)
  BY <1>1 DEF DeltaTold, LastTold
<1>7. SumAt(p, reply, 0, 0) = NoChunks
  BY <1>4, <1>5, <1>6 DEF SumAt, NoChunks
<1> QED
  BY <1>2, <1>3, <1>7

\* After the last event all was told: the text, and each call with all its arguments.
LEMMA SumsMean ==
  ASSUME NEW p, NEW reply \in Replies, NEW at, EventPlaced(reply, at), AllTold(reply, at)
  PROVE  Summed(SumAt(p, reply, at.block, at.piece), reply) = WholeReply(p, reply)
<1> DEFINE b == at.block
           q == at.piece
           blocks == reply.blocks
           n == Len(blocks)
           sum == SumAt(p, reply, b, q)
           N == {k \in DOMAIN blocks : IsUse(p, blocks[k])}
           uses == Uses(p, blocks)
           told == CallsTold(p, reply, b, q)
           o == InOrder(N)
<1>1. blocks \in Seq(Said) /\ n \in Nat /\ DOMAIN blocks = 1..n
  <2>1. blocks \in Seq(Said)
    BY WholeIs
  <2> QED
    BY <2>1, DomainIs
<1>2. b = n + 2 /\ q \in Nat
  <2>1. b \in 0..(n + 2) /\ q \in Nat /\ b > n + 1
    BY DEF EventPlaced, AllTold
  <2> QED
    BY <1>1, <2>1
<1>3. sum = SumOf(TextOf(blocks), told, FinishReason(p, reply.stop), Prompt(p, reply), reply.output)
  <2>1. TextTold(reply, b, q) = TextOf(blocks)
    BY <1>2, TextSteps DEF TextFit
  <2>2. DeltaTold(reply, b, q) /\ LastTold(reply, b) /\ b > 0
    BY <1>1, <1>2 DEF DeltaTold, LastTold
  <2> QED
    BY <2>1, <2>2 DEF SumAt, SumOf
<1>4. DOMAIN told = {k \in 0..(n - 1) : IsUse(p, blocks[k + 1])}
      /\ \A k \in DOMAIN told : told[k] = [id |-> blocks[k + 1].id, args |-> blocks[k + 1].pieces]
  <2>1. \A k \in 0..(n - 1) : k + 1 < b
    BY <1>1, <1>2
  <2>2. Started(p, reply, b, q) = {k \in 0..(n - 1) : IsUse(p, blocks[k + 1])}
    BY <2>1 DEF Started
  <2>3. \A k \in 0..(n - 1) : CallTold(reply, b, q, k) = [id |-> blocks[k + 1].id, args |-> blocks[k + 1].pieces]
    BY <2>1 DEF CallTold
  <2>4. DOMAIN told = Started(p, reply, b, q) /\ \A k \in Started(p, reply, b, q) : told[k] = CallTold(reply, b, q, k)
    BY DEF CallsTold
  <2> QED
    BY <2>2, <2>3, <2>4
<1>5. {k \in DOMAIN blocks : k - 1 \in DOMAIN told} = N
  <2>1. ASSUME NEW k \in 1..n PROVE k - 1 \in DOMAIN told <=> IsUse(p, blocks[k])
    <3>1. k - 1 \in 0..(n - 1) /\ (k - 1) + 1 = k
      BY <1>1
    <3> QED
      BY <1>4, <3>1
  <2> QED
    BY <1>1, <2>1
<1>6. N \in SUBSET (1..n)
  BY <1>1
<1>7. uses = Picked(blocks, N)
  BY DEF Uses
<1>8. \A k \in N : k - 1 \in DOMAIN told /\ told[k - 1] = [id |-> blocks[k].id, args |-> blocks[k].pieces]
  <2> TAKE k \in N
  <2>1. k - 1 \in DOMAIN told /\ k \in 1..n
    BY <1>5, <1>6
  <2>2. told[k - 1] = [id |-> blocks[(k - 1) + 1].id, args |-> blocks[(k - 1) + 1].pieces] /\ (k - 1) + 1 = k
    BY <1>4, <2>1
  <2> QED
    BY <2>1, <2>2
<1> HIDE DEF N, told, uses
<1>9. /\ uses \in Seq(Said) /\ Len(uses) = Cardinality(N) /\ Cardinality(N) \in Nat
      /\ \A k \in 1..Cardinality(N) : o[k] \in N /\ uses[k] = blocks[o[k]]
  BY <1>1, <1>6, <1>7, PickedIs
<1>10. DOMAIN uses = 1..Cardinality(N)
  BY <1>9, DomainIs
<1>11. DOMAIN o = 1..Cardinality(N)
  BY <1>1, <1>6, Ordered
<1> DEFINE made == [k \in DOMAIN o |-> told[o[k] - 1]]
<1>12. made = CallsOf(p, blocks)
  <2> DEFINE C(c) == [id |-> uses[c].id, args |-> uses[c].pieces]
  <2>1. CallsOf(p, blocks) = [c \in DOMAIN uses |-> C(c)]
    BY DEF CallsOf, uses
  <2>2. \A k \in 1..Cardinality(N) : told[o[k] - 1] = C(k)
    BY <1>8, <1>9
  <2> HIDE DEF C, o
  <2> QED
    BY <1>10, <1>11, <2>1, <2>2
<1> HIDE DEF o
<1>13. Summed(sum, reply) = WithCalls(sum, made)
  <2>1. sum.calls = told
    <3>1. SumFields(TextOf(blocks), told, FinishReason(p, reply.stop), Prompt(p, reply), reply.output, <<>>, <<>>)
      BY SumsAre
    <3> QED
      BY <1>3, <3>1 DEF SumFields
  <2>2. InOrder({k \in DOMAIN blocks : k - 1 \in DOMAIN sum.calls}) = o
    BY <1>5, <2>1 DEF o
  <2> HIDE DEF sum
  <2> QED
    BY <2>1, <2>2 DEF Summed, WithCalls
<1> HIDE DEF made, sum
<1>14. Summed(sum, reply) = SumOf(TextOf(blocks), made, FinishReason(p, reply.stop), Prompt(p, reply), reply.output)
  <2>1. SumFields(TextOf(blocks), told, FinishReason(p, reply.stop), Prompt(p, reply), reply.output, made, <<>>)
    BY SumsAre
  <2> QED
    BY <1>3, <1>13, <2>1 DEF SumFields
<1>15. WholeReply(p, reply) = SumOf(TextOf(blocks), CallsOf(p, blocks), FinishReason(p, reply.stop), Prompt(p, reply), reply.output)
  BY WholeIs DEF SumOf
<1> QED
  BY <1>12, <1>14, <1>15 DEF sum

-----------------------------------------------------------------------------
(* Chat: what holds of a conversation.                                     *)

\* A conversation: what was said, the options, and the reply being told.
Telling(p, reply, at, sum) ==
  reply \in Replies /\ EventPlaced(reply, at) /\ sum = SumAt(p, reply, at.block, at.piece)

ChatInv(c) ==
  /\ DOMAIN c = {"provider", "st", "history", "said", "options", "reply", "at", "sum"}
  /\ HistoryFits(c.provider, c.history, c.said)
  /\ c.options \in Options
  /\ c.st = "streaming" => Telling(c.provider, c.reply, c.at, c.sum)
  /\ c.st = "answered" /\ c.at # NoPlace => Summed(c.sum, c.reply) = WholeReply(c.provider, c.reply)

\* The conversation.
ChatFits == ChatInv(chat)

\* Such a conversation is faithful.
LEMMA ChatFitsIsFaithful == ChatFits => ChatFaithful
<1> SUFFICES ASSUME ChatFits PROVE ChatFaithful
  OBVIOUS
<1>1. HistoryFits(chat.provider, chat.history, chat.said) /\ chat.options \in Options /\ StreamMeansWhole
  BY DEF ChatFits, ChatInv, StreamMeansWhole
<1>2. /\ RequestKeeps(chat.provider, chat.history, chat.said)
      /\ InstructionsKept(chat.provider, chat.history, chat.options)
      /\ ResultsAnswerCalls(chat.provider, chat.history)
  BY <1>1, RequestFits
<1>3. SettingsFit(chat.provider, chat.options)
  BY <1>1, SettingsAre
<1> QED
  BY <1>1, <1>2, <1>3 DEF ChatFaithful

\* What a caller says can be spoken, and is no reply.
LEMMA SayingsAre ==
  ASSUME NEW history \in Seq(Spoken)
  PROVE  /\ \A m \in Sayings : m \in Spoken /\ ResultOf(history, m)
         /\ \A k \in DOMAIN history : \A m \in ResultsTo(history[k]) : m \in Spoken /\ ResultOf(history, m)
         /\ \A m \in Spoken : ~IsReply(m)
<1>1. ASSUME NEW m \in Sayings PROVE m \in Spoken /\ ResultOf(history, m)
  <2>1. m \in Caller({"user", "assistant", "system", "developer"}, {""})
    BY ChatAssumption
  <2>2. m \in Spoken
    BY <2>1 DEF Caller, Spoken
  <2>3. m.role # "tool"
    BY <2>1 DEF Caller
  <2> QED
    BY <2>2, <2>3 DEF ResultOf
<1>2. ASSUME NEW k \in DOMAIN history, NEW m \in ResultsTo(history[k])
      PROVE  m \in Spoken /\ ResultOf(history, m)
  <2> DEFINE TextFor(plain) == IF plain THEN <<"text">> ELSE <<"text", "document">>
             calls == history[k].calls
  <2>0. PICK called \in ToSet(calls), plain \in BOOLEAN : m = Message("tool", plain, TextFor(plain), <<>>, called.id)
    BY DEF ResultsTo
  <2> DEFINE text == TextFor(plain)
  <2>1. history[k] \in Spoken
    BY DomainIs, ElementOfSeq
  <2>2. calls \in Seq([id : CallIds \cup {""}, args : Seq(Pieces)])
    BY <2>1, SpokenIs
  <2>3. PICK i \in DOMAIN calls : called = calls[i]
    BY DEF ToSet
  <2>4. calls[i] \in [id : CallIds \cup {""}, args : Seq(Pieces)]
    BY <2>2, DomainIs, ElementOfSeq
  <2>5. called.id \in CallIds \cup {""}
    BY <2>3, <2>4
  <2>6. text \in Seq(Pieces) /\ <<>> \in Seq([id : CallIds \cup {""}, args : Seq(Pieces)])
    <3>1. "text" \in Pieces /\ "document" \in Pieces
      BY ChatAssumption
    <3>2. text \in Seq(Pieces)
      BY <3>1
    <3>3. <<>> \in Seq([id : CallIds \cup {""}, args : Seq(Pieces)])
      OBVIOUS
    <3> QED
      BY <3>2, <3>3
  <2>7. m \in Spoken
    <3>1. text \in Seq(Pieces)
      BY <2>6
    <3>2. m = [role |-> "tool", plain |-> plain, content |-> text, calls |-> <<>>, id |-> called.id]
      BY <2>0 DEF Message
    <3> HIDE DEF text
    <3> QED
      BY <2>5, <2>6, <3>1, <3>2 DEF Spoken, Caller
  <2>8. m.id = calls[i].id
    BY <2>0, <2>3 DEF Message
  <2> QED
    BY <2>7, <2>8 DEF ResultOf
<1>3. ASSUME NEW m \in Spoken PROVE ~IsReply(m)
  <2>1. DOMAIN m = {"role", "plain", "content", "calls", "id"}
    BY DEF Spoken, Caller
  <2> QED
    BY <2>1 DEF IsReply
<1> QED
  BY <1>1, <1>2, <1>3

\* The steps of a conversation.
LEMMA SayStays ==
  ASSUME ChatFits, Say
  PROVE  ChatFits'
<1> DEFINE c == chat
           d == chat'
<1>1. PICK m : /\ \/ m \in Sayings
                  \/ \E k \in DOMAIN c.history : m \in ResultsTo(c.history[k])
               /\ d = [c EXCEPT !.st = "open", !.history = Append(@, m), !.said = Append(@, m)]
  <2> DEFINE All == UNION {ResultsTo(message) : message \in ToSet(c.history)}
  <2>1. PICK m \in Sayings \cup All :
          d = [c EXCEPT !.st = "open", !.history = Append(@, m), !.said = Append(@, m)]
    BY DEF Say
  <2> HIDE DEF c, d
  <2>2. ASSUME m \in All
        PROVE  \E k \in DOMAIN c.history : m \in ResultsTo(c.history[k])
    <3>1. PICK message \in ToSet(c.history) : m \in ResultsTo(message)
      BY <2>2
    <3>2. PICK k \in DOMAIN c.history : message = c.history[k]
      BY <3>1 DEF ToSet
    <3> QED
      BY <3>1, <3>2
  <2> HIDE DEF All
  <2> QED
    BY Zenon, <2>1, <2>2
<1>2. ChatInv(c)
  BY DEF ChatFits
<1> HIDE DEF c, d
<1>3. /\ DOMAIN d = DOMAIN c /\ d.provider = c.provider /\ d.options = c.options /\ d.st = "open"
      /\ d.history = Append(c.history, m) /\ d.said = Append(c.said, m)
  BY <1>1, <1>2 DEF ChatInv
<1>4. c.history \in Seq(Spoken)
  BY <1>2 DEF ChatInv, HistoryFits
<1>5. m \in Spoken /\ ResultOf(c.history, m) /\ ~IsReply(m)
  BY <1>1, <1>4, SayingsAre
<1>6. HistoryFits(d.provider, d.history, d.said)
  BY <1>2, <1>3, <1>5, HistoryOneMore DEF ChatInv
<1>7. ChatInv(d)
  BY <1>2, <1>3, <1>6 DEF ChatInv
<1> QED
  BY <1>7 DEF ChatFits, d

\* Options are chosen among those offered.
LEMMA AskStays ==
  ASSUME ChatFits, Ask
  PROVE  ChatFits'
<1> DEFINE c == chat
           d == chat'
<1>1. PICK o \in Options :
        d = [c EXCEPT !.options = o, !.st = IF Anthropic(c.provider) /\ c.history = <<>> THEN "failed" ELSE "asked"]
  BY DEF Ask
<1>2. ChatInv(c)
  BY DEF ChatFits
<1> HIDE DEF c, d
<1>3. /\ DOMAIN d = DOMAIN c /\ d.provider = c.provider /\ d.options = o /\ d.st \in {"failed", "asked"}
      /\ d.history = c.history /\ d.said = c.said
  BY <1>1, <1>2 DEF ChatInv
<1>4. ChatInv(d)
  BY <1>2, <1>3 DEF ChatInv
<1> QED
  BY <1>4 DEF ChatFits, d

\* A reply, as it is told, is of the history.
LEMMA ToldStays ==
  ASSUME NEW p, NEW history, NEW said, HistoryFits(p, history, said), NEW reply \in Replies
  PROVE  HistoryFits(p, Append(history, Told(WholeReply(p, reply))), Append(said, reply))
<1> DEFINE m == Told(WholeReply(p, reply))
<1>1. m \in Spoken /\ m.role = "assistant"
  <2>1. m \in Spoken
    BY WholeIs
  <2>2. m.role = "assistant"
    BY DEF Told, Message
  <2> QED
    BY <2>1, <2>2
<1>2. ResultOf(history, m)
  BY <1>1 DEF ResultOf
<1>3. reply \in Spoken \cup Replies
  OBVIOUS
<1> QED
  BY <1>1, <1>2, <1>3, HistoryOneMore

\* A whole reply becomes part of the history.
LEMMA AnswerWholeStays ==
  ASSUME ChatFits, AnswerWhole
  PROVE  ChatFits'
<1> DEFINE c == chat
           d == chat'
<1>1. PICK reply \in Replies :
        d = [c EXCEPT !.st = "answered", !.reply = reply, !.at = NoPlace,
                      !.history = Append(@, Told(WholeReply(c.provider, reply))), !.said = Append(@, reply)]
  BY DEF AnswerWhole
<1>2. ChatInv(c)
  BY DEF ChatFits
<1> DEFINE m == Told(WholeReply(c.provider, reply))
<1> HIDE DEF c, d, m
<1>3. /\ DOMAIN d = DOMAIN c /\ d.provider = c.provider /\ d.options = c.options /\ d.st = "answered"
      /\ d.history = Append(c.history, m) /\ d.said = Append(c.said, reply) /\ d.at = NoPlace
  BY <1>1, <1>2 DEF ChatInv, m
<1>4. HistoryFits(d.provider, d.history, d.said)
  BY <1>2, <1>3, ToldStays DEF ChatInv, m
<1>5. ChatInv(d)
  BY <1>2, <1>3, <1>4 DEF ChatInv
<1> QED
  BY <1>5 DEF ChatFits, d

\* A stream starts with nothing told.
LEMMA AnswerStreamingStays ==
  ASSUME ChatFits, AnswerStreaming
  PROVE  ChatFits'
<1> DEFINE c == chat
           d == chat'
<1>1. PICK reply \in Replies :
        d = [c EXCEPT !.st = "streaming", !.reply = reply, !.at = NoPlace, !.sum = NoChunks]
  BY DEF AnswerStreaming
<1>2. ChatInv(c)
  BY DEF ChatFits
<1> HIDE DEF c, d
<1>3. /\ DOMAIN d = DOMAIN c /\ d.provider = c.provider /\ d.options = c.options /\ d.st = "streaming"
      /\ d.history = c.history /\ d.said = c.said /\ d.reply = reply /\ d.at = NoPlace /\ d.sum = NoChunks
  BY <1>1, <1>2 DEF ChatInv
<1>4. Telling(d.provider, d.reply, d.at, d.sum)
  BY <1>3, StartFits DEF Telling
<1>5. ChatInv(d)
  BY <1>2, <1>3, <1>4 DEF ChatInv
<1> QED
  BY <1>5 DEF ChatFits, d

\* An event is added to the sum.
LEMMA DeliverStays ==
  ASSUME ChatFits, Deliver
  PROVE  ChatFits'
<1> DEFINE c == chat
           d == chat'
           at == EventAfter(c.reply, c.at)
           sum == AfterEvent(c.provider, c.sum, EventAt(c.reply, c.at), c.reply)
<1>1. d = [c EXCEPT !.at = EventAfter(c.reply, @), !.sum = AfterEvent(c.provider, @, EventAt(c.reply, c.at), c.reply)]
      /\ c.st = "streaming" /\ ~AllTold(c.reply, c.at)
  BY DEF Deliver
<1>2. ChatInv(c)
  BY DEF ChatFits
<1> HIDE DEF c, d
<1>3. /\ DOMAIN d = DOMAIN c /\ d.provider = c.provider /\ d.options = c.options /\ d.st = "streaming"
      /\ d.history = c.history /\ d.said = c.said /\ d.reply = c.reply /\ d.at = at /\ d.sum = sum
  BY <1>1, <1>2 DEF ChatInv
<1>4. Telling(c.provider, c.reply, c.at, c.sum)
  BY <1>1, <1>2 DEF ChatInv
<1>5. Telling(c.provider, c.reply, at, sum)
  BY <1>1, <1>4, DeliverFits DEF Telling
<1> HIDE DEF at, sum
<1>6. ChatInv(d)
  BY <1>2, <1>3, <1>5 DEF ChatInv
<1> QED
  BY <1>6 DEF ChatFits, d

\* A stream that was told to its end becomes what the whole reply would have become.
LEMMA StreamEndsStays ==
  ASSUME ChatFits, StreamEnds
  PROVE  ChatFits'
<1> DEFINE c == chat
           d == chat'
<1>1. d = [c EXCEPT !.st = "answered", !.history = Append(@, Told(Summed(c.sum, c.reply))), !.said = Append(@, c.reply)]
      /\ c.st = "streaming" /\ AllTold(c.reply, c.at)
  BY DEF StreamEnds
<1>2. ChatInv(c)
  BY DEF ChatFits
<1> DEFINE m == Told(Summed(c.sum, c.reply))
<1> HIDE DEF c, d, m
<1>3. /\ DOMAIN d = DOMAIN c /\ d.provider = c.provider /\ d.options = c.options /\ d.st = "answered"
      /\ d.history = Append(c.history, m) /\ d.said = Append(c.said, c.reply)
      /\ d.reply = c.reply /\ d.at = c.at /\ d.sum = c.sum
  BY <1>1, <1>2 DEF ChatInv, m
<1>4. Telling(c.provider, c.reply, c.at, c.sum)
  BY <1>1, <1>2 DEF ChatInv
<1>5. Summed(c.sum, c.reply) = WholeReply(c.provider, c.reply)
  BY <1>1, <1>4, SumsMean DEF Telling
<1>6. HistoryFits(d.provider, d.history, d.said)
  BY <1>2, <1>3, <1>4, <1>5, ToldStays DEF ChatInv, m, Telling
<1>7. ChatInv(d)
  BY <1>2, <1>3, <1>5, <1>6 DEF ChatInv
<1> QED
  BY <1>7 DEF ChatFits, d

\* What was told of a stream that fails is not part of the history.
LEMMA StreamFailsStays ==
  ASSUME ChatFits, StreamFails
  PROVE  ChatFits'
<1> DEFINE c == chat
           d == chat'
<1>1. d = [c EXCEPT !.st = "failed"]
  BY DEF StreamFails
<1>2. ChatInv(c)
  BY DEF ChatFits
<1> HIDE DEF c, d
<1>3. /\ DOMAIN d = DOMAIN c /\ d.provider = c.provider /\ d.options = c.options /\ d.st = "failed"
      /\ d.history = c.history /\ d.said = c.said
  BY <1>1, <1>2 DEF ChatInv
<1>4. ChatInv(d)
  BY <1>2, <1>3 DEF ChatInv
<1> QED
  BY <1>4 DEF ChatFits, d

\* No step of a conversation makes it unfaithful.
LEMMA ChatStays == ChatFits /\ [ChatNext]_chat => ChatFits'
<1> SUFFICES ASSUME ChatFits, [ChatNext]_chat PROVE ChatFits'
  OBVIOUS
<1>1. CASE Say
  BY <1>1, SayStays
<1>2. CASE Ask
  BY <1>2, AskStays
<1>3. CASE AnswerWhole
  BY <1>3, AnswerWholeStays
<1>4. CASE AnswerStreaming
  BY <1>4, AnswerStreamingStays
<1>5. CASE Deliver
  BY <1>5, DeliverStays
<1>6. CASE StreamEnds
  BY <1>6, StreamEndsStays
<1>7. CASE StreamFails
  BY <1>7, StreamFailsStays
<1>8. CASE UNCHANGED chat
  BY <1>8 DEF ChatFits
<1> QED
  BY <1>1, <1>2, <1>3, <1>4, <1>5, <1>6, <1>7, <1>8 DEF ChatNext

\* A conversation begins with nothing said.
LEMMA ChatBegins == ASSUME NEW p PROVE ChatInv(NoChat(p))
<1> DEFINE o == CHOOSE o \in Options : TRUE
           c == NoChat(p)
<1>1. o \in Options
  BY ChatAssumption
<1>2. /\ DOMAIN c = {"provider", "st", "history", "said", "options", "reply", "at", "sum"}
      /\ c.provider = p /\ c.history = <<>> /\ c.said = <<>> /\ c.options = o /\ c.st = "open"
  BY DEF NoChat
<1> HIDE DEF o, c
<1>3. HistoryFits(c.provider, c.history, c.said)
  BY <1>2, NoHistoryFits
<1>4. ChatInv(c)
  BY <1>1, <1>2, <1>3 DEF ChatInv
<1> QED
  BY <1>4 DEF c

\* However a conversation goes, with whatever messages, replies, options and ids,
\* streamed or whole: each side is told what the other said.
THEOREM ChatAlwaysFaithful == ClientSafety => []ChatFaithful
<1>1. ClientInit => ChatFits
  <2> SUFFICES ASSUME ClientInit PROVE ChatFits
    OBVIOUS
  <2>1. \E p : chat = NoChat(p)
    BY DEF ClientInit, ChatInit
  <2> QED
    BY <2>1, ChatBegins DEF ChatFits
<1>2. [ClientNext]_clientVars => [ChatNext]_chat
  BY DEF ClientNext, clientVars, CallStep, SseStep, FramesStep, ChatStep, RegistryStep,
         RealtimeStep, GuardsStep, SpendingStep, SemanticStep
<1> QED
  BY <1>1, <1>2, ChatStays, ChatFitsIsFaithful, PTL DEF ClientSafety

=============================================================================
