--------------------------- MODULE DispatchProofs ---------------------------
(***************************************************************************)
(* What Dispatch and Discovery promise, for every number of deployments,   *)
(* calls, attempts and upstreams: proofs of the invariants and of the      *)
(* action property MCDispatch checks on three calls over two deployments.  *)
(*                                                                         *)
(* Four parts: facts about the operators (an argument by least             *)
(* counterexample stands for the induction they need), the strategies of   *)
(* Router with FallbackService, FallbackChainService and HedgeService, the *)
(* balance of the round robin, and DynamicRouter.                          *)
(***************************************************************************)
EXTENDS Dispatch, Discovery, FiniteSetTheorems, NaturalsInduction, TLAPS

-----------------------------------------------------------------------------
(* The operators.                                                          *)

\* A non-empty set of naturals has a least element; taken of the set of
\* counterexamples to a statement, this is how induction is used below.
LEMMA LeastNumber ==
  ASSUME NEW T \in SUBSET Nat, T # {}
  PROVE  \E m \in T : \A k \in T : m <= k
<1> DEFINE Below == OpToRel(<, Nat)
<1>1. \E m \in T : \A k \in T : <<k, m>> \notin Below
  BY NatLessThanWellFounded, WFMin
<1>2. \A k, m \in Nat : k < m => <<k, m>> \in Below
  BY DEF OpToRel
<1> HIDE DEF Below
<1>3. PICK m \in T : \A k \in T : <<k, m>> \notin Below
  BY <1>1
<1>4. \A k \in T : ~(k < m)
  BY <1>2, <1>3
<1>5. QED
  BY <1>4

\* Weight::from_f64 never yields a negative weight.
LEMMA WeightsAreNatural ==
  \A tenths \in Int : WeightOf(tenths) \in Nat
BY DEF WeightOf

\* The cumulated weights satisfy the recurrence that defines them: a function
\* that does exists, built one deployment after the other.
LEMMA CumulativeUnfolds ==
  \A i \in 0..N : Cumulative[i] = IF i = 0 THEN 0 ELSE Cumulative[i - 1] + WeightOf(RawWeights[i])
<1> DEFINE w(i) == WeightOf(RawWeights[i])
           Sums(f, n) == f = [i \in 0..n |-> IF i = 0 THEN 0 ELSE f[i - 1] + w(i)]
           Bad == {n \in 0..N : \A f : ~Sums(f, n)}
<1> USE CountsAssumption
<1>1. Bad = {}
  <2> SUFFICES ASSUME Bad # {} PROVE FALSE
    OBVIOUS
  <2>1. PICK n \in Bad : \A k \in Bad : n <= k
    <3>1. Bad \in SUBSET Nat
      OBVIOUS
    <3> HIDE DEF Bad
    <3> QED BY <3>1, LeastNumber
  <2>2. CASE n = 0
    <3>1. Sums([i \in 0..0 |-> 0], 0)
      OBVIOUS
    <3> QED BY <2>2, <3>1
  <2>3. CASE n > 0
    <3>1. n - 1 \in 0..N /\ n - 1 \notin Bad
      BY <2>1, <2>3
    <3>2. PICK f : Sums(f, n - 1)
      BY <3>1
    <3> DEFINE g == [i \in 0..n |-> IF i = n THEN f[n - 1] + w(n) ELSE f[i]]
    <3> HIDE DEF w
    <3>3. \A i \in 0..n : g[i] = IF i = 0 THEN 0 ELSE g[i - 1] + w(i)
      BY <2>3, <3>1, <3>2
    <3>4. Sums(g, n)
      BY <3>3
    <3> QED BY <3>4
  <2> QED BY <2>2, <2>3
<1>2. PICK f : Sums(f, N)
  BY <1>1
<1>3. Cumulative = CHOOSE f2 : f2 = [i \in 0..N |-> IF i = 0 THEN 0 ELSE f2[i - 1] + w(i)]
  BY DEF Cumulative
<1>4. Sums(Cumulative, N)
  BY <1>2, <1>3
<1> HIDE DEF w
<1>5. \A i \in 0..N : Cumulative[i] = IF i = 0 THEN 0 ELSE Cumulative[i - 1] + w(i)
  BY <1>4
<1> QED BY <1>5 DEF w

\* With as many weights as deployments, the cumulated weights are naturals.
LEMMA CumulativeIsNatural ==
  ASSUME Len(RawWeights) = N
  PROVE  \A i \in 0..N : Cumulative[i] \in Nat
<1> USE CountsAssumption
<1> DEFINE Bad == {i \in 0..N : Cumulative[i] \notin Nat}
<1>1. \A i \in Targets : WeightOf(RawWeights[i]) \in Nat
  <2>1. \A i \in Targets : RawWeights[i] \in Int
    BY WeightsAssumption DEF Targets
  <2> QED BY <2>1, WeightsAreNatural
<1>2. SUFFICES ASSUME Bad # {} PROVE FALSE
  OBVIOUS
<1>3. PICK i \in Bad : \A k \in Bad : i <= k
  <2>1. Bad \in SUBSET Nat
    OBVIOUS
  <2> HIDE DEF Bad
  <2> QED BY <1>2, <2>1, LeastNumber
<1>4. i # 0
  BY CumulativeUnfolds
<1>5. i - 1 \in 0..N /\ i \in Targets /\ Cumulative[i - 1] \in Nat
  BY <1>3, <1>4 DEF Targets
<1>6. Cumulative[i] = Cumulative[i - 1] + WeightOf(RawWeights[i])
  BY <1>4, CumulativeUnfolds
<1> QED BY <1>1, <1>5, <1>6

\* weighted_random_select finds a deployment, one of positive weight, whatever
\* the clock says: what Router::new refuses to build is enough for it.
LEMMA WeightedSelectFinds ==
  ASSUME Builds("weighted"), NEW nanos \in Nat
  PROVE  WeightedSelect(nanos) \in Targets /\ WeightOf(RawWeights[WeightedSelect(nanos)]) > 0
<1> USE CountsAssumption
<1>1. Len(RawWeights) = N /\ Cumulative[N] > 0
  BY DEF Builds
<1>2. \A i \in 0..N : Cumulative[i] \in Nat
  BY <1>1, CumulativeIsNatural
<1> DEFINE drawn == nanos % Cumulative[N]
<1>3. drawn \in Nat /\ drawn < Cumulative[N]
  <2>1. Cumulative[N] \in Nat
    BY <1>2
  <2> QED BY <1>1, <2>1
<1> DEFINE Above == {i \in 0..N : drawn < Cumulative[i]}
<1> HIDE DEF drawn
<1>4. PICK i \in Above : \A k \in Above : i <= k
  <2>1. Above \in SUBSET Nat /\ N \in Above
    BY <1>3
  <2> HIDE DEF Above
  <2> QED BY <2>1, LeastNumber
<1>5. Cumulative[0] = 0
  BY CumulativeUnfolds
<1>6. i \in Targets /\ drawn < Cumulative[i] /\ \A j \in 1..(i - 1) : drawn >= Cumulative[j]
  BY <1>2, <1>3, <1>4, <1>5 DEF Targets
<1> DEFINE Selected(t) == /\ drawn < Cumulative[t]
                          /\ \A j \in 1..(t - 1) : drawn >= Cumulative[j]
           t == WeightedSelect(nanos)
<1>7. t = CHOOSE u \in Targets : Selected(u)
  BY DEF WeightedSelect, drawn
<1>8. t \in Targets /\ Selected(t)
  BY <1>6, <1>7
<1> HIDE DEF t
<1>9. Cumulative[t - 1] <= drawn
  BY <1>2, <1>3, <1>5, <1>8 DEF Targets
<1>10. Cumulative[t] = Cumulative[t - 1] + WeightOf(RawWeights[t]) /\ Cumulative[t - 1] \in Nat
  BY <1>2, <1>8, CumulativeUnfolds DEF Targets
<1>11. WeightOf(RawWeights[t]) \in Nat
  <2>1. RawWeights[t] \in Int
    BY <1>1, <1>8, WeightsAssumption DEF Targets
  <2> QED BY <2>1, WeightsAreNatural
<1>12. WeightOf(RawWeights[t]) > 0
  BY <1>2, <1>3, <1>8, <1>9, <1>10, <1>11
<1> QED BY <1>8, <1>12 DEF t

\* The turn of the round robin is a deployment.
LEMMA TurnIsTarget ==
  ASSUME counter \in Nat
  PROVE  Turn \in Targets
BY CountsAssumption DEF Turn, Targets

\* LatencyBased finds a deployment, and one whose average no other undercuts.
LEMMA FastestFinds ==
  ASSUME metrics \in [Targets -> [ema : Nat, count : Nat]]
  PROVE  Fastest \in Targets /\ \A t \in Targets : metrics[Fastest].ema <= metrics[t].ema
<1> DEFINE emas == {metrics[t].ema : t \in Targets}
<1>1. emas \in SUBSET Nat
  OBVIOUS
<1>2. 1 \in Targets
  BY CountsAssumption DEF Targets
<1>3. PICK e \in emas : \A f \in emas : e <= f
  <2>1. emas # {}
    BY <1>2
  <2> HIDE DEF emas
  <2> QED BY <1>1, <2>1, LeastNumber
<1> DEFINE best == {t \in Targets : metrics[t].ema = e}
<1>4. PICK i \in best : \A j \in best : i <= j
  <2>1. best \in SUBSET Nat /\ best # {}
    BY <1>3 DEF Targets
  <2> HIDE DEF best
  <2> QED BY <2>1, LeastNumber
<1> DEFINE Wins(t) == \A j \in Targets : /\ metrics[t].ema <= metrics[j].ema
                                         /\ metrics[j].ema = metrics[t].ema => t <= j
<1>5. i \in Targets /\ Wins(i)
  BY <1>3, <1>4
<1>6. Fastest = CHOOSE t \in Targets : Wins(t)
  BY DEF Fastest
<1>7. Fastest \in Targets /\ Wins(Fastest)
  BY <1>5, <1>6
<1> QED BY <1>7

\* Whatever the three classifiers answer is a model or nothing.
LEMMA VerdictsAreModels ==
  ASSUME NEW p \in Prompts
  PROVE  CascadeVerdicts(p) \subseteq Models \cup {NoModel}
<1> DEFINE hits == {i \in DOMAIN KeywordRules : p \in KeywordRules[i].on}
<1>1. KeywordVerdict(p) \in Models \cup {NoModel}
  <2>1. CASE hits = {}
    BY <2>1 DEF KeywordVerdict
  <2>2. CASE hits # {}
    <3>1. PICK i \in hits : \A j \in hits : i <= j
      <4>1. hits \in SUBSET Nat
        BY RulesAssumption
      <4> HIDE DEF hits
      <4> QED BY <4>1, <2>2, LeastNumber
    <3> DEFINE first == CHOOSE k \in hits : \A j \in hits : k <= j
    <3>2. first \in hits
      BY <3>1
    <3>3. KeywordVerdict(p) = KeywordRules[first].model
      BY <2>2 DEF KeywordVerdict
    <3> HIDE DEF first
    <3> DEFINE Rule == [on : SUBSET Prompts, model : Models]
    <3>4. KeywordRules[first] \in Rule
      <4>1. KeywordRules \in Seq(Rule)
        BY RulesAssumption
      <4> HIDE DEF Rule
      <4> QED BY <3>2, <4>1
    <3> QED BY <3>3, <3>4
  <2> QED BY <2>1, <2>2
<1> QED BY <1>1 DEF CascadeVerdicts, EmbeddingVerdicts, LlmVerdicts

\* The time a call is followed for is a natural number of ticks.
LEMMA HorizonIsNatural ==
  /\ HedgeAttempts \in Nat \ {0}
  /\ Horizon \in Nat
  /\ \A n \in 0..Horizon : Older(n) \in 0..Horizon
<1>1. HedgeAttempts \in Nat \ {0}
  BY CountsAssumption DEF HedgeAttempts
<1>2. \A a, b \in Nat : a * b \in Nat
  OBVIOUS
<1>3. DelayFor(HedgeAttempts) \in Nat
  BY <1>1, <1>2, CountsAssumption DEF DelayFor
<1>4. Horizon \in Nat
  BY <1>3, CountsAssumption DEF Horizon
<1> QED BY <1>1, <1>4 DEF Older

-----------------------------------------------------------------------------
(* Router, FallbackService, FallbackChainService and HedgeService: the      *)
(* inductive invariant.  Strategies never change, so what holds of a call   *)
(* is stated of a strategy s and a record q, without a variable.           *)

RacedBy(s) == s = "hedge" /\ HedgeAttempts > 1
Ended == Results \cup {"panic"}

\* The shape of a call: a plan that is all deployments the strategy may choose,
\* made at call() (by the first poll, for a classifier), an attempt for each.
Shaped(s, q) ==
  /\ q \in Request
  /\ q.st \notin {"idle", "called", "classifying", "dropped"} => DOMAIN q.att = DOMAIN q.plan
  /\ q.st = "idle" => q.plan = <<>>
  /\ q.st = "called" /\ s # "semantic" => q.plan # <<>>
  /\ q.st = "classifying" => s = "semantic"
  /\ q.st \in {"idle", "called", "classifying"} => q.order = <<>> /\ q.read = 0
  /\ s = "hedge" /\ q.st \notin {"idle", "dropped"} => Len(q.plan) = HedgeAttempts
  /\ s = "weighted" => \A k \in DOMAIN q.plan : WeightOf(RawWeights[q.plan[k]]) > 0

\* A walk has one attempt running: transient errors before, nothing after.
Steps(q, k) ==
  /\ q.att[k] = "running"
  /\ \A j \in 1..(k - 1) : q.att[j] = "transient"
  /\ \A j \in DOMAIN q.att : j > k => q.att[j] = "none"
Walked(q) ==
  LET made == {k \in DOMAIN q.att : q.att[k] # "none"} IN
  /\ \A k \in made : \A j \in 1..(k - 1) : q.att[j] = "transient"
  /\ q.st = "done" => /\ made = 1..q.answer
                      /\ q.att[q.answer] = "transient" => q.answer = Len(q.plan)
Walks(s, q) ==
  /\ q.st = "walking" => ~RacedBy(s) /\ \E k \in DOMAIN q.att : Steps(q, k)
  /\ q.st = "done" /\ ~RacedBy(s) => Walked(q)

\* A race lists attempts that have ended; those read so far have failed.
Running(q) ==
  /\ q.read <= Len(q.order)
  /\ \A i \in DOMAIN q.order : q.order[i] \in DOMAIN q.att /\ q.att[q.order[i]] \in Ended
  /\ \A i \in 1..q.read : q.att[q.order[i]] \in Failures
Raced(q) ==
  /\ \A k \in DOMAIN q.att : q.att[k] \notin {"running", "sleeping"}
  /\ q.st = "done" =>
       /\ q.answer = q.order[q.read]
       /\ \A i \in 1..(q.read - 1) : q.att[q.order[i]] \in Failures
       /\ q.att[q.answer] # "ok" => q.read = HedgeAttempts
Runs(s, q) ==
  /\ q.st = "racing" => RacedBy(s) /\ Running(q)
  /\ q.st \in {"done", "dropped"} /\ RacedBy(s) => Raced(q)

Fits(s, q) == Shaped(s, q) /\ Walks(s, q) /\ Runs(s, q)

\* What the calls share; a deployment without a sample has average 0.
SharedFits ==
  /\ strategy \in Strategies /\ Builds(strategy)
  /\ counter \in Nat
  /\ metrics \in [Targets -> [ema : Nat, count : Nat]]
  /\ \A t \in Targets : metrics[t].count = 0 => metrics[t].ema = 0
  /\ verdicts \in [Prompts -> [model : Models \cup {NoModel}, age : 0..Horizon]]

CallsFit ==
  /\ req = [r \in Requests |-> req[r]]
  /\ \A r \in Requests : Fits(strategy, req[r])

DispatchInv == SharedFits /\ CallsFit

\* What the invariant is for: it implies the properties of the runs.
LEMMA InvariantIsEnough ==
  ASSUME DispatchInv
  PROVE  NoStrayTarget /\ WalkOutcome /\ HedgeOutcome
<1> USE DEF DispatchInv, SharedFits, CallsFit, Fits
<1>1. \A r \in Requests : Shaped(strategy, req[r])
  OBVIOUS
<1>2. req \in [Requests -> Request]
  BY <1>1 DEF Shaped
<1>3. TypeOK
  BY <1>1, <1>2 DEF Shaped, TypeOK
<1>4. \A r \in Requests : req[r].plan \in Seq(Targets)
  BY <1>2 DEF Request
<1>5. NoStrayTarget
  BY <1>1, <1>3, <1>4 DEF NoStrayTarget, Shaped
<1>6. Races <=> RacedBy(strategy)
  BY DEF Races, RacedBy
<1>7. WalkOutcome
  <2> SUFFICES ASSUME NEW r \in Requests, req[r].st \in {"walking", "done"}, ~Races
               PROVE  Walked(req[r])
    BY DEF WalkOutcome, Walked
  <2>1. CASE req[r].st = "done"
    BY <1>6, <2>1 DEF Walks
  <2>2. CASE req[r].st = "walking"
    <3>1. PICK k \in DOMAIN req[r].att : Steps(req[r], k)
      BY <2>2 DEF Walks
    <3>2. req[r].att \in Seq(Statuses)
      BY <1>2 DEF Request
    <3> QED BY <2>2, <3>1, <3>2 DEF Walked, Steps
  <2> QED BY <2>1, <2>2
<1>8. HedgeOutcome
  BY <1>6 DEF HedgeOutcome, Runs, Raced
<1> QED BY <1>5, <1>7, <1>8

\* A step that replaces the record of one call leaves the others as they fit.
LEMMA OneCallMoves ==
  ASSUME CallsFit, NEW r \in Requests, NEW q, Fits(strategy, q),
         req' = [req EXCEPT ![r] = q], strategy' = strategy
  PROVE  CallsFit'
<1>1. \A s \in Requests : req'[s] = IF s = r THEN q ELSE req[s]
  BY DEF CallsFit
<1>2. req' = [s \in Requests |-> req'[s]]
  BY DEF CallsFit
<1>3. \A s \in Requests : Fits(strategy, req'[s])
  BY <1>1 DEF CallsFit
<1> QED BY <1>2, <1>3 DEF CallsFit

\* The first poll starts attempt 1 of a plan, alone or with the hedges asleep.
LEMMA StartedFits ==
  ASSUME NEW q \in Request, q.order = <<>>, q.read = 0,
         NEW plan \in Seq(Targets), plan # <<>>,
         strategy = "hedge" => Len(plan) = HedgeAttempts,
         strategy = "weighted" => \A k \in DOMAIN plan : WeightOf(RawWeights[plan[k]]) > 0
  PROVE  Fits(strategy, Started(q, plan))
<1> DEFINE p == Started(q, plan)
           att == [k \in DOMAIN plan |-> IF k = 1 THEN "running" ELSE IF Races THEN "sleeping" ELSE "none"]
<1>1. Len(plan) \in Nat \ {0} /\ DOMAIN plan = 1..Len(plan)
  OBVIOUS
<1>2. att \in Seq(Statuses)
  <2>1. att \in [1..Len(plan) -> Statuses]
    BY <1>1 DEF Statuses
  <2> QED BY <1>1, <2>1
<1>3. \A k \in DOMAIN plan : (CASE k = 1 -> "running" [] k > 1 /\ Races -> "sleeping" [] OTHER -> "none") = att[k]
  BY <1>1
<1>4. p = [q EXCEPT !.st = IF Races THEN "racing" ELSE "walking", !.plan = plan, !.elapsed = 0, !.att = att]
  BY <1>3 DEF Started
<1>5. 0 \in 0..Horizon
  BY HorizonIsNatural
<1> HIDE DEF att
<1>6. /\ p \in Request
      /\ p.st = (IF Races THEN "racing" ELSE "walking")
      /\ p.plan = plan /\ p.att = att /\ p.order = <<>> /\ p.read = 0
  BY <1>2, <1>4, <1>5 DEF Request
<1> HIDE DEF p
<1>7. DOMAIN att = DOMAIN plan /\ att[1] = "running"
  BY <1>1 DEF att
<1>8. Shaped(strategy, p)
  BY <1>6, <1>7 DEF Shaped
<1>9. Races <=> RacedBy(strategy)
  BY DEF Races, RacedBy
<1>10. Walks(strategy, p)
  <2>1. CASE ~Races
    <3>1. Steps(p, 1)
      BY <1>1, <1>6, <1>7, <2>1 DEF Steps, att
    <3>2. 1 \in DOMAIN p.att
      BY <1>1, <1>6, <1>7
    <3> QED BY <1>6, <1>9, <2>1, <3>1, <3>2 DEF Walks
  <2>2. CASE Races
    BY <1>6, <2>2 DEF Walks
  <2> QED BY <2>1, <2>2
<1>11. Runs(strategy, p)
  BY <1>6, <1>9 DEF Runs, Running
<1> QED BY <1>8, <1>10, <1>11 DEF Fits, p

\* Aborting the attempts of a call touches only those that have not ended.
LEMMA AbortedAttempts ==
  ASSUME NEW att \in Seq(Statuses)
  PROVE  /\ Aborted(att) \in Seq(Statuses) /\ DOMAIN Aborted(att) = DOMAIN att
         /\ \A k \in DOMAIN att : /\ Aborted(att)[k] \notin {"running", "sleeping"}
                                  /\ att[k] \notin {"running", "sleeping"} => Aborted(att)[k] = att[k]
<1>1. Aborted(att) \in [1..Len(att) -> Statuses]
  BY DEF Aborted, Statuses
<1>2. Len(att) \in Nat /\ DOMAIN att = 1..Len(att)
  OBVIOUS
<1> QED BY <1>1, <1>2 DEF Aborted, Statuses

\* The initial state: no call, no sample, no verdict.
LEMMA InitFits ==
  ASSUME Init
  PROVE  DispatchInv
<1> DEFINE p == CHOOSE p \in Prompts : TRUE
<1>1. p \in Prompts
  BY RequestsAssumption
<1> HIDE DEF p
<1>2. 0 \in 0..Horizon
  BY HorizonIsNatural
<1>3. NewRequest(p) \in Request
  BY <1>1, <1>2 DEF NewRequest, Request
<1>4. \A s : Fits(s, NewRequest(p))
  BY <1>3 DEF Fits, Shaped, Walks, Runs, NewRequest
<1>5. req = [r \in Requests |-> NewRequest(p)]
  BY DEF Init, p
<1>6. CallsFit
  BY <1>4, <1>5 DEF CallsFit
<1>7. SharedFits
  BY <1>2 DEF Init, SharedFits
<1> QED BY <1>6, <1>7 DEF DispatchInv

\* call(): a plan of deployments is made.
LEMMA PlanFits ==
  ASSUME CallsFit, NEW r \in Requests, req[r].st = "idle",
         strategy # "semantic", strategy' = strategy,
         NEW plan \in Seq(Targets), plan # <<>>, Goes(r, plan),
         strategy = "hedge" => Len(plan) = HedgeAttempts,
         strategy = "weighted" => \A k \in DOMAIN plan : WeightOf(RawWeights[plan[k]]) > 0
  PROVE  CallsFit'
<1> DEFINE q == [req[r] EXCEPT !.st = "called", !.plan = plan]
<1>1. req[r] \in Request /\ Shaped(strategy, req[r])
  BY DEF CallsFit, Fits, Shaped
<1>2. /\ q \in Request /\ q.st = "called" /\ q.plan = plan
      /\ q.order = req[r].order /\ q.read = req[r].read
  BY <1>1 DEF Request
<1>3. req' = [req EXCEPT ![r] = q]
  BY DEF Goes, CallsFit
<1> HIDE DEF q
<1>4. Fits(strategy, q)
  BY <1>1, <1>2 DEF Fits, Shaped, Walks, Runs
<1> QED BY <1>3, <1>4, OneCallMoves

(* A call is planned by its strategy.                                         *)
LEMMA CallKeeps ==
  ASSUME DispatchInv, NEW r \in Requests, Call(r)
  PROVE  DispatchInv'
<1> USE DEF DispatchInv
<1>1. req[r].st = "idle" /\ strategy' = strategy /\ UNCHANGED <<metrics, verdicts>>
  BY DEF Call
<1>2. SUFFICES counter' \in Nat /\ CallsFit'
  BY <1>1 DEF SharedFits
<1>3. CASE CallInOrder(r)
  <2> DEFINE n == InOrder[strategy]
             plan == [k \in 1..n |-> k]
  <2>1. strategy \in {"fallback", "cost", "chain", "pair"} /\ n \in 1..N
    <3>1. strategy \in {"fallback", "cost", "chain", "pair"}
      BY <1>3 DEF CallInOrder, InOrder
    <3>2. n = IF strategy = "pair" THEN 2 ELSE N
      BY <3>1 DEF InOrder
    <3> QED BY <3>1, <3>2, CountsAssumption, PairAssumption DEF SharedFits
  <2>2. Goes(r, plan) /\ counter' = counter
    BY <1>3 DEF CallInOrder
  <2> HIDE DEF n
  <2>3. plan \in Seq(Targets) /\ plan # <<>>
    <3>1. plan \in [1..n -> Targets] /\ n \in Nat
      BY <2>1, CountsAssumption DEF Targets
    <3>2. 1 \in DOMAIN plan
      BY <2>1
    <3> QED BY <3>1, <3>2
  <2> HIDE DEF plan
  <2> QED BY <1>1, <2>1, <2>2, <2>3, PlanFits DEF SharedFits
<1>4. CASE CallRoundRobin(r)
  <2>1. Turn \in Targets
    BY TurnIsTarget DEF SharedFits
  <2>2. <<Turn>> \in Seq(Targets) /\ <<Turn>> # <<>>
    BY <2>1
  <2>3. strategy = "round_robin" /\ Goes(r, <<Turn>>) /\ counter' = counter + 1
    BY <1>4 DEF CallRoundRobin
  <2>4. CallsFit'
    BY <1>1, <2>2, <2>3, PlanFits
  <2>5. counter \in Nat
    BY DEF SharedFits
  <2> QED BY <2>3, <2>4, <2>5
<1>5. CASE CallLatencyBased(r)
  <2>1. Fastest \in Targets
    BY FastestFinds DEF SharedFits
  <2>2. <<Fastest>> \in Seq(Targets) /\ <<Fastest>> # <<>>
    BY <2>1
  <2> QED BY <1>1, <1>5, <2>2, PlanFits DEF SharedFits, CallLatencyBased
<1>6. CASE CallWeighted(r)
  <2>1. PICK nanos \in 0..(Nanos - 1) : Goes(r, <<WeightedSelect(nanos)>>)
    BY <1>6 DEF CallWeighted
  <2>2. strategy = "weighted" /\ counter' = counter
    BY <1>6 DEF CallWeighted
  <2> DEFINE t == WeightedSelect(nanos)
  <2>3. t \in Targets /\ WeightOf(RawWeights[t]) > 0
    BY <2>2, WeightedSelectFinds, CountsAssumption DEF SharedFits
  <2>4. Goes(r, <<t>>)
    BY <2>1
  <2> HIDE DEF t
  <2>5. <<t>> \in Seq(Targets) /\ <<t>> # <<>> /\ \A k \in DOMAIN <<t>> : <<t>>[k] = t
    BY <2>3
  <2>6. \A k \in DOMAIN <<t>> : WeightOf(RawWeights[<<t>>[k]]) > 0
    BY <2>3, <2>5
  <2> QED BY <1>1, <2>2, <2>4, <2>5, <2>6, PlanFits DEF SharedFits
<1>7. CASE CallSemantic(r)
  <2>1. PICK p \in Prompts : req' = [req EXCEPT ![r].st = "called", ![r].prompt = p]
    BY <1>7 DEF CallSemantic
  <2> DEFINE q == [req[r] EXCEPT !.st = "called", !.prompt = p]
  <2>2. req[r] \in Request /\ Shaped(strategy, req[r])
    BY DEF CallsFit, Fits, Shaped
  <2>3. /\ q \in Request /\ q.st = "called"
        /\ q.order = req[r].order /\ q.read = req[r].read
    BY <2>2 DEF Request
  <2>4. req' = [req EXCEPT ![r] = q]
    BY <2>1 DEF CallsFit
  <2> HIDE DEF q
  <2>5. strategy = "semantic" /\ counter' = counter
    BY <1>7 DEF CallSemantic
  <2>6. Fits(strategy, q)
    BY <1>1, <2>2, <2>3, <2>5 DEF Fits, Shaped, Walks, Runs
  <2> QED BY <1>1, <2>4, <2>5, <2>6, OneCallMoves DEF SharedFits
<1>8. CASE CallHedged(r)
  <2> DEFINE plan == [k \in 1..HedgeAttempts |-> 1]
  <2>1. Goes(r, plan) /\ counter' = counter /\ strategy = "hedge"
    BY <1>8 DEF CallHedged
  <2>2. plan \in Seq(Targets) /\ plan # <<>> /\ Len(plan) = HedgeAttempts
    <3>1. plan \in [1..HedgeAttempts -> Targets] /\ HedgeAttempts \in Nat \ {0}
      BY HorizonIsNatural, CountsAssumption DEF Targets
    <3>2. 1 \in DOMAIN plan
      BY <3>1
    <3> QED BY <3>1, <3>2
  <2> HIDE DEF plan
  <2> QED BY <1>1, <2>1, <2>2, PlanFits DEF SharedFits
<1> QED BY <1>3, <1>4, <1>5, <1>6, <1>7, <1>8 DEF Call

(* The first poll starts the plan made in call().                             *)
LEMMA FirstPollKeeps ==
  ASSUME DispatchInv, NEW r \in Requests, FirstPoll(r)
  PROVE  DispatchInv'
<1> USE DEF DispatchInv
<1> DEFINE q == req[r]
<1>1. q.st = "called" /\ strategy # "semantic" /\ UNCHANGED <<strategy, counter, metrics, verdicts>>
  BY DEF FirstPoll
<1>2. q \in Request /\ Shaped(strategy, q)
  BY DEF CallsFit, Fits, Shaped
<1>3. req' = [req EXCEPT ![r] = Started(q, q.plan)]
  BY DEF FirstPoll, CallsFit
<1> HIDE DEF q
<1>4. Fits(strategy, Started(q, q.plan))
  <2>1. q.plan \in Seq(Targets)
    BY <1>2 DEF Request
  <2> QED BY <1>1, <1>2, <2>1, StartedFits DEF Shaped
<1>5. CallsFit'
  BY <1>1, <1>3, <1>4, OneCallMoves
<1> QED BY <1>1, <1>5 DEF SharedFits

\* A verdict, whatever it is, sends the call to a deployment that exists.
LEMMA RouteFits ==
  ASSUME SharedFits, CallsFit, NEW r \in Requests, req[r].st \in {"called", "classifying"},
         strategy = "semantic", strategy' = strategy,
         NEW m \in Models \cup {NoModel}, RouteTo(r, m)
  PROVE  CallsFit' /\ counter' \in Nat
<1> DEFINE q == req[r]
           t == IF m \in 0..(N - 1) THEN m + 1 ELSE Turn
<1>1. q \in Request /\ q.order = <<>> /\ q.read = 0
  BY DEF CallsFit, Fits, Shaped
<1>2. req' = [req EXCEPT ![r] = Started(q, <<t>>)]
  BY DEF RouteTo, CallsFit
<1>3. counter \in Nat /\ Turn \in Targets
  BY TurnIsTarget DEF SharedFits
<1>4. counter' \in Nat
  BY <1>3 DEF RouteTo
<1>5. t \in Targets
  BY <1>3, CountsAssumption DEF Targets
<1> HIDE DEF q, t
<1>6. <<t>> \in Seq(Targets) /\ <<t>> # <<>>
  BY <1>5
<1>7. Fits(strategy, Started(q, <<t>>))
  BY <1>1, <1>6, StartedFits
<1> QED BY <1>2, <1>4, <1>7, OneCallMoves

(* A remembered verdict names a deployment that is there, or the default.     *)
LEMMA VerdictHitKeeps ==
  ASSUME DispatchInv, NEW r \in Requests, VerdictHit(r)
  PROVE  DispatchInv'
<1> DEFINE m == verdicts[req[r].prompt].model
<1>1. /\ req[r].st = "called" /\ strategy = "semantic" /\ RouteTo(r, m)
      /\ UNCHANGED <<strategy, metrics, verdicts>>
  BY DEF VerdictHit
<1>2. req[r].prompt \in Prompts
  BY DEF DispatchInv, CallsFit, Fits, Shaped, Request
<1>3. m \in Models \cup {NoModel}
  BY <1>2 DEF DispatchInv, SharedFits
<1> HIDE DEF m
<1>4. CallsFit' /\ counter' \in Nat
  BY <1>1, <1>3, RouteFits DEF DispatchInv
<1> QED BY <1>1, <1>4 DEF DispatchInv, SharedFits

(* Without a remembered verdict the classifier is asked.                      *)
LEMMA VerdictMissKeeps ==
  ASSUME DispatchInv, NEW r \in Requests, VerdictMiss(r)
  PROVE  DispatchInv'
<1> DEFINE q == [req[r] EXCEPT !.st = "classifying"]
<1>1. /\ req[r].st = "called" /\ strategy = "semantic"
      /\ UNCHANGED <<strategy, counter, metrics, verdicts>>
  BY DEF VerdictMiss
<1>2. req[r] \in Request /\ Shaped(strategy, req[r])
  BY DEF DispatchInv, CallsFit, Fits, Shaped
<1>3. req' = [req EXCEPT ![r] = q]
  BY DEF VerdictMiss, DispatchInv, CallsFit
<1>4. /\ q \in Request /\ q.st = "classifying"
      /\ q.order = req[r].order /\ q.read = req[r].read
  BY <1>2 DEF Request
<1> HIDE DEF q
<1>5. Fits(strategy, q)
  BY <1>1, <1>2, <1>4 DEF Fits, Shaped, Walks, Runs
<1>6. CallsFit'
  BY <1>1, <1>3, <1>5, OneCallMoves DEF DispatchInv
<1> QED BY <1>1, <1>6 DEF DispatchInv, SharedFits

(* Whatever index the classifier names, the call goes to a deployment.        *)
LEMMA ClassifyKeeps ==
  ASSUME DispatchInv, NEW r \in Requests, Classify(r)
  PROVE  DispatchInv'
<1> DEFINE p == req[r].prompt
<1>1. p \in Prompts
  BY DEF DispatchInv, CallsFit, Fits, Shaped, Request
<1>2. PICK m \in CascadeVerdicts(p) :
        /\ verdicts' = IF m = NoModel THEN verdicts ELSE [verdicts EXCEPT ![p] = [model |-> m, age |-> 0]]
        /\ RouteTo(r, m)
  BY DEF Classify
<1>3. req[r].st = "classifying" /\ UNCHANGED <<strategy, metrics>>
  BY DEF Classify
<1> HIDE DEF p
<1>4. m \in Models \cup {NoModel}
  BY <1>1, <1>2, VerdictsAreModels
<1>5. strategy = "semantic"
  BY <1>3 DEF DispatchInv, CallsFit, Fits, Shaped
<1>6. CallsFit' /\ counter' \in Nat
  BY <1>2, <1>3, <1>4, <1>5, RouteFits DEF DispatchInv
<1>7. 0 \in 0..Horizon
  BY HorizonIsNatural
<1>8. verdicts' \in [Prompts -> [model : Models \cup {NoModel}, age : 0..Horizon]]
  BY <1>1, <1>2, <1>4, <1>7 DEF DispatchInv, SharedFits
<1> QED BY <1>3, <1>6, <1>8 DEF DispatchInv, SharedFits

\* A latency sample keeps the averages natural and counts itself.
LEMMA SampleFits ==
  ASSUME NEW m \in [ema : Nat, count : Nat], NEW ticks \in Nat
  PROVE  /\ RecordLatency(m, ticks) \in [ema : Nat, count : Nat]
         /\ RecordLatency(m, ticks).count > 0
<1>1. \A a, b \in Nat : (300 * a + 7 * b) \div 10 \in Nat /\ 100 * a \in Nat
  OBVIOUS
<1>2. m.ema \in Nat /\ m.count \in Nat
  OBVIOUS
<1>3. 3 * 100 * ticks + 7 * m.ema = 300 * ticks + 7 * m.ema
  BY <1>2
<1> QED BY <1>1, <1>2, <1>3 DEF RecordLatency

\* Attempt k of a walk ends: the next one starts after a transient error, else
\* the call is answered with everything before k a transient error.
LEMMA WalkFits ==
  ASSUME NEW s, NEW q, Fits(s, q), q.st = "walking",
         NEW k \in DOMAIN q.att, q.att[k] = "running", NEW res \in Results
  PROVE  LET seen == [q EXCEPT !.att[k] = res] IN
         Fits(s, IF res = "transient" /\ k < Len(seen.plan)
                 THEN [seen EXCEPT !.att[k + 1] = "running"]
                 ELSE Answered(seen, k))
<1> DEFINE seen == [q EXCEPT !.att[k] = res]
           moves == res = "transient" /\ k < Len(seen.plan)
           on == [seen EXCEPT !.att[k + 1] = "running"]
           ended == Answered(seen, k)
<1>1. q \in Request /\ Shaped(s, q) /\ ~RacedBy(s) /\ DOMAIN q.att = DOMAIN q.plan
  BY DEF Fits, Shaped, Walks
<1>2. /\ q.att \in Seq(Statuses) /\ q.plan \in Seq(Targets) /\ k \in 1..Len(q.att)
      /\ DOMAIN q.att = 1..Len(q.att) /\ Len(q.att) = Len(q.plan) /\ Len(q.plan) \in Nat
  BY <1>1 DEF Request
<1>3. Steps(q, k)
  <2>1. PICK j \in DOMAIN q.att : Steps(q, j)
    BY DEF Fits, Walks
  <2>2. j = k
    BY <1>2, <2>1 DEF Steps
  <2> QED BY <2>1, <2>2
<1> DEFINE att == [q.att EXCEPT ![k] = res]
<1>4. att \in Seq(Statuses) /\ DOMAIN att = DOMAIN q.att /\ Len(att) = Len(q.att)
  BY <1>2 DEF Statuses
<1>5. \A j \in DOMAIN att : att[j] = IF j = k THEN res ELSE q.att[j]
  BY <1>2
<1>6. /\ seen \in Request /\ seen.att = att /\ seen.plan = q.plan /\ seen.st = q.st
      /\ seen.order = q.order /\ seen.read = q.read
  BY <1>1, <1>4 DEF Request
<1> HIDE DEF seen
<1>7. CASE moves
  <2> DEFINE next == [att EXCEPT ![k + 1] = "running"]
  <2>1. k + 1 \in 1..Len(q.att)
    BY <1>2, <1>6, <1>7
  <2>2. next \in Seq(Statuses) /\ DOMAIN next = DOMAIN q.att
    BY <1>4, <2>1 DEF Statuses
  <2>3. \A j \in DOMAIN q.att :
          next[j] = IF j = k + 1 THEN "running" ELSE IF j = k THEN "transient" ELSE q.att[j]
    BY <1>2, <1>4, <1>5, <1>7, <2>1
  <2>4. on \in Request /\ on.att = next /\ on.plan = q.plan /\ on.st = "walking"
    BY <1>6, <2>2 DEF Request
  <2> HIDE DEF on, next, att
  <2>5. Steps(on, k + 1)
    <3>1. next[k + 1] = "running" /\ \A j \in DOMAIN q.att : j > k + 1 => next[j] = "none"
      BY <1>2, <1>3, <2>1, <2>3 DEF Steps
    <3>2. \A j \in 1..k : next[j] = "transient"
      BY <1>2, <1>3, <2>1, <2>3 DEF Steps
    <3>3. (k + 1) - 1 = k
      BY <1>2
    <3> QED BY <2>2, <2>4, <3>1, <3>2, <3>3 DEF Steps
  <2>6. Walks(s, on)
    BY <1>1, <1>2, <2>1, <2>2, <2>4, <2>5 DEF Walks
  <2>7. Shaped(s, on) /\ Runs(s, on)
    BY <1>1, <2>2, <2>4 DEF Shaped, Runs
  <2> QED BY <1>7, <2>6, <2>7 DEF Fits, seen, on
<1>8. CASE ~moves
  <2> DEFINE final == Aborted(att)
  <2>1. final \in Seq(Statuses) /\ DOMAIN final = DOMAIN att
    BY <1>4, AbortedAttempts
  <2>2. \A j \in DOMAIN att : att[j] \notin {"running", "sleeping"}
    BY <1>2, <1>3, <1>4, <1>5 DEF Steps, Results
  <2>3. \A j \in DOMAIN att : final[j] = att[j]
    BY <1>4, <2>2, AbortedAttempts
  <2>4. /\ ended \in Request /\ ended.st = "done" /\ ended.plan = q.plan
        /\ ended.att = final /\ ended.answer = k
    <3>1. ended = [seen EXCEPT !.st = "done", !.answer = k, !.att = final]
      BY <1>6 DEF Answered
    <3>2. k \in Nat
      BY <1>2
    <3> HIDE DEF ended, final
    <3> QED BY <1>6, <2>1, <3>1, <3>2 DEF Request
  <2> HIDE DEF ended, final, att
  <2>5. \A j \in DOMAIN q.att : final[j] = IF j = k THEN res ELSE q.att[j]
    BY <1>4, <1>5, <2>3
  <2>6. res # "none"
    BY DEF Results
  <2>7. \A j \in DOMAIN q.att : final[j] # "none" <=> j \in 1..k
    BY <1>2, <1>3, <2>5, <2>6 DEF Steps
  <2>8. \A j \in 1..(k - 1) : final[j] = "transient"
    BY <1>2, <1>3, <2>5 DEF Steps
  <2>9. res = "transient" => k = Len(q.plan)
    BY <1>2, <1>6, <1>8
  <2>10. {j \in DOMAIN final : final[j] # "none"} = 1..k
    BY <1>2, <1>4, <2>1, <2>7
  <2>11. Walked(ended)
    BY <1>2, <2>4, <2>5, <2>8, <2>9, <2>10 DEF Walked
  <2>12. DOMAIN final = DOMAIN q.plan
    BY <1>1, <1>4, <2>1
  <2>13. Shaped(s, ended)
    BY <1>1, <2>4, <2>12 DEF Shaped
  <2>14. Walks(s, ended) /\ Runs(s, ended)
    BY <1>1, <2>4, <2>11 DEF Walks, Runs
  <2> QED BY <1>8, <2>13, <2>14 DEF Fits, seen, ended
<1> QED BY <1>7, <1>8

(* A step of an attempt made one after the other.                             *)
LEMMA WalkKeeps ==
  ASSUME DispatchInv, NEW r \in Requests, NEW k \in DOMAIN req[r].att, Walk(r, k)
  PROVE  DispatchInv'
<1> DEFINE q == req[r]
           seen(res) == [q EXCEPT !.att[k] = res]
           after(res) == IF res = "transient" /\ k < Len(seen(res).plan)
                         THEN [seen(res) EXCEPT !.att[k + 1] = "running"]
                         ELSE Answered(seen(res), k)
<1>1. q.st = "walking" /\ q.att[k] = "running" /\ UNCHANGED <<strategy, counter, verdicts>>
  BY DEF Walk
<1>2. PICK res \in Results : req' = [req EXCEPT ![r] = after(res)]
  BY DEF Walk, DispatchInv, CallsFit
<1>3. Fits(strategy, q)
  BY DEF DispatchInv, CallsFit
<1>4. k \in DOMAIN q.att
  OBVIOUS
<1> HIDE DEF q
<1>5. Fits(strategy, after(res))
  BY <1>1, <1>3, <1>4, WalkFits
<1>6. CallsFit'
  <2> HIDE DEF after
  <2> QED BY <1>1, <1>2, <1>5, OneCallMoves DEF DispatchInv
<1>7. /\ metrics' \in [Targets -> [ema : Nat, count : Nat]]
      /\ \A t \in Targets : metrics'[t].count = 0 => metrics'[t].ema = 0
  <2>1. CASE strategy = "latency"
    <3> DEFINE t == q.plan[k]
               m == RecordLatency(metrics[t], q.elapsed)
    <3>1. q \in Request /\ k \in DOMAIN q.plan
      BY <1>1, <1>3, <1>4 DEF Fits, Shaped
    <3>2. t \in Targets /\ q.elapsed \in Nat
      BY <3>1, HorizonIsNatural DEF Request
    <3>3. metrics' = [metrics EXCEPT ![t] = m]
      BY <2>1 DEF Walk, q
    <3> HIDE DEF t
    <3>4. m \in [ema : Nat, count : Nat] /\ m.count > 0
      BY <3>2, SampleFits DEF DispatchInv, SharedFits
    <3> HIDE DEF m
    <3> QED BY <3>2, <3>3, <3>4 DEF DispatchInv, SharedFits
  <2>2. CASE strategy # "latency"
    BY <2>2 DEF Walk, DispatchInv, SharedFits
  <2> QED BY <2>1, <2>2
<1> QED BY <1>1, <1>6, <1>7 DEF DispatchInv, SharedFits

\* A hedge's sleep ends: its attempt runs, nothing that has ended changes.
LEMMA LaunchKeeps ==
  ASSUME DispatchInv, NEW r \in Requests, NEW k \in DOMAIN req[r].att, Launch(r, k)
  PROVE  DispatchInv'
<1> DEFINE q == req[r]
           att == [q.att EXCEPT ![k] = "running"]
           p == [q EXCEPT !.att = att]
<1>1. q.st = "racing" /\ q.att[k] = "sleeping" /\ UNCHANGED <<strategy, counter, metrics, verdicts>>
  BY DEF Launch
<1>2. Fits(strategy, q) /\ q \in Request /\ Shaped(strategy, q) /\ k \in DOMAIN q.att
  BY DEF DispatchInv, CallsFit, Fits, Shaped
<1>3. req' = [req EXCEPT ![r] = p]
  BY DEF Launch, DispatchInv, CallsFit
<1> HIDE DEF q
<1>4. /\ att \in Seq(Statuses) /\ DOMAIN att = DOMAIN q.att
      /\ \A j \in DOMAIN q.att : att[j] = IF j = k THEN "running" ELSE q.att[j]
  BY <1>2 DEF Request, Statuses
<1> HIDE DEF att
<1>5. /\ p \in Request /\ p.att = att /\ p.st = "racing" /\ p.plan = q.plan
      /\ p.order = q.order /\ p.read = q.read
  BY <1>1, <1>2, <1>4 DEF Request
<1> HIDE DEF p
<1>6. RacedBy(strategy) /\ Running(q)
  BY <1>1, <1>2 DEF Fits, Runs
<1>7. \A i \in DOMAIN q.order : att[q.order[i]] = q.att[q.order[i]] /\ q.order[i] \in DOMAIN att
  BY <1>1, <1>4, <1>6 DEF Running, Ended, Results
<1>8. q.order \in Seq(Nat) /\ q.read \in Nat
  BY <1>2 DEF Request
<1>9. Running(p)
  BY <1>5, <1>6, <1>7, <1>8 DEF Running
<1>10. Fits(strategy, p)
  BY <1>1, <1>2, <1>4, <1>5, <1>6, <1>9 DEF Fits, Shaped, Walks, Runs
<1>11. CallsFit'
  BY <1>1, <1>3, <1>10, OneCallMoves DEF DispatchInv
<1> QED BY <1>1, <1>11 DEF DispatchInv, SharedFits

\* A spawned attempt ends and takes its place in the order of the results.
LEMMA TaskEndsKeeps ==
  ASSUME DispatchInv, NEW r \in Requests, NEW k \in DOMAIN req[r].att, TaskEnds(r, k)
  PROVE  DispatchInv'
<1> DEFINE q == req[r]
<1>1. q.st = "racing" /\ q.att[k] = "running" /\ UNCHANGED <<strategy, counter, metrics, verdicts>>
  BY DEF TaskEnds
<1>2. Fits(strategy, q) /\ q \in Request /\ Shaped(strategy, q) /\ k \in DOMAIN q.att
  BY DEF DispatchInv, CallsFit, Fits, Shaped
<1>3. PICK res \in Ended : req' = [req EXCEPT ![r].att[k] = res, ![r].order = Append(@, k)]
  BY DEF TaskEnds, Ended
<1> DEFINE att == [q.att EXCEPT ![k] = res]
           order == Append(q.order, k)
           p == [q EXCEPT !.att = att, !.order = order]
<1>4. req' = [req EXCEPT ![r] = p]
  BY <1>3 DEF DispatchInv, CallsFit
<1> HIDE DEF q
<1>5. /\ att \in Seq(Statuses) /\ DOMAIN att = DOMAIN q.att
      /\ \A j \in DOMAIN q.att : att[j] = IF j = k THEN res ELSE q.att[j]
  BY <1>2, <1>3 DEF Request, Statuses, Ended
<1>6. q.att \in Seq(Statuses) /\ k \in Nat /\ q.order \in Seq(Nat) /\ q.read \in Nat
  BY <1>2 DEF Request
<1>7. /\ order \in Seq(Nat) /\ Len(order) = Len(q.order) + 1
      /\ \A i \in DOMAIN order : order[i] = IF i \in DOMAIN q.order THEN q.order[i] ELSE k
  BY <1>6
<1> HIDE DEF att, order
<1>8. /\ p \in Request /\ p.att = att /\ p.st = "racing" /\ p.plan = q.plan
      /\ p.order = order /\ p.read = q.read
  BY <1>1, <1>2, <1>5, <1>7 DEF Request
<1> HIDE DEF p
<1>9. RacedBy(strategy) /\ Running(q)
  BY <1>1, <1>2 DEF Fits, Runs
<1>10. \A i \in DOMAIN q.order : q.order[i] # k
  BY <1>1, <1>9 DEF Running, Ended, Results
<1>11. \A i \in DOMAIN order : order[i] \in DOMAIN att /\ att[order[i]] \in Ended
  BY <1>2, <1>3, <1>5, <1>7, <1>9, <1>10 DEF Running
<1>12. \A i \in 1..q.read : i \in DOMAIN q.order
  BY <1>6, <1>9 DEF Running
<1>13. \A i \in 1..q.read : att[order[i]] \in Failures
  <2> SUFFICES ASSUME NEW i \in 1..q.read PROVE att[order[i]] \in Failures
    OBVIOUS
  <2>1. i \in DOMAIN q.order /\ i \in DOMAIN order
    BY <1>6, <1>7, <1>12
  <2>2. order[i] = q.order[i] /\ q.order[i] \in DOMAIN q.att /\ q.order[i] # k
    BY <1>7, <1>9, <1>10, <2>1 DEF Running
  <2>3. q.att[q.order[i]] \in Failures
    BY <1>9 DEF Running
  <2> QED BY <1>5, <2>2, <2>3
<1>14. q.read <= Len(order)
  BY <1>6, <1>7, <1>9 DEF Running
<1>15. Running(p)
  BY <1>8, <1>11, <1>13, <1>14 DEF Running
<1>16. Fits(strategy, p)
  BY <1>1, <1>2, <1>5, <1>8, <1>9, <1>15 DEF Fits, Shaped, Walks, Runs
<1>17. CallsFit'
  BY <1>1, <1>4, <1>16, OneCallMoves DEF DispatchInv
<1> QED BY <1>1, <1>17 DEF DispatchInv, SharedFits

\* join_next: a result is read; a success or the last one answers the call.
LEMMA JoinNextKeeps ==
  ASSUME DispatchInv, NEW r \in Requests, JoinNext(r)
  PROVE  DispatchInv'
<1> DEFINE q == req[r]
           k == q.order[q.read + 1]
           p == [q EXCEPT !.read = @ + 1]
           final == Aborted(q.att)
           d == [p EXCEPT !.st = "done", !.answer = k, !.att = final]
           ends == p.att[k] = "ok" \/ p.read = Len(p.plan)
<1>1. q.st = "racing" /\ q.read < Len(q.order) /\ UNCHANGED <<strategy, counter, metrics, verdicts>>
  BY DEF JoinNext
<1>2. Fits(strategy, q) /\ q \in Request /\ Shaped(strategy, q)
  BY DEF DispatchInv, CallsFit, Fits, Shaped
<1>3. req' = [req EXCEPT ![r] = IF ends THEN d ELSE p]
  BY DEF JoinNext, Answered, DispatchInv, CallsFit
<1> HIDE DEF q
<1>4. RacedBy(strategy) /\ Running(q) /\ DOMAIN q.att = DOMAIN q.plan /\ Len(q.plan) = HedgeAttempts
  BY <1>1, <1>2 DEF Fits, Runs, RacedBy, Shaped
<1>5. q.att \in Seq(Statuses) /\ q.order \in Seq(Nat) /\ q.read \in Nat
  BY <1>2 DEF Request
<1>6. /\ p \in Request /\ p.st = "racing" /\ p.plan = q.plan /\ p.att = q.att
      /\ p.order = q.order /\ p.read = q.read + 1
  <2> DEFINE n == q.read + 1
  <2>1. n \in Nat /\ p = [q EXCEPT !.read = n]
    BY <1>5
  <2> HIDE DEF n, p
  <2>2. /\ p \in Request /\ p.st = "racing" /\ p.plan = q.plan /\ p.att = q.att
        /\ p.order = q.order /\ p.read = n
    BY <1>1, <1>2, <2>1 DEF Request
  <2> QED BY <2>2 DEF n
<1>7. q.read + 1 \in DOMAIN q.order /\ k \in Nat /\ k \in DOMAIN q.att /\ q.att[k] \in Ended
  BY <1>1, <1>4, <1>5 DEF Running
<1> HIDE DEF p
<1>8. CASE ~ends
  <2>1. q.att[k] \in Failures
    BY <1>6, <1>7, <1>8 DEF Ended, Results, Failures
  <2>2. \A i \in 1..p.read : p.att[p.order[i]] \in Failures
    BY <1>4, <1>5, <1>6, <2>1 DEF Running
  <2>3. Running(p)
    BY <1>1, <1>4, <1>5, <1>6, <2>2 DEF Running
  <2>4. Fits(strategy, p)
    BY <1>2, <1>4, <1>6, <2>3 DEF Fits, Shaped, Walks, Runs
  <2> QED BY <1>1, <1>3, <1>8, <2>4, OneCallMoves DEF DispatchInv, SharedFits
<1>9. CASE ends
  <2>1. /\ final \in Seq(Statuses) /\ DOMAIN final = DOMAIN q.att
        /\ \A j \in DOMAIN q.att : /\ final[j] \notin {"running", "sleeping"}
                                   /\ q.att[j] \in Ended => final[j] = q.att[j]
    BY <1>5, AbortedAttempts DEF Ended, Results
  <2> HIDE DEF final, k
  <2>2. /\ d \in Request /\ d.st = "done" /\ d.plan = q.plan /\ d.att = final
        /\ d.answer = k /\ d.order = q.order /\ d.read = q.read + 1
    BY <1>6, <1>7, <2>1 DEF Request
  <2> HIDE DEF d
  <2>3. d.answer = d.order[d.read]
    BY <2>2 DEF k
  <2>4. \A i \in 1..(d.read - 1) : d.att[d.order[i]] \in Failures
    <3> SUFFICES ASSUME NEW i \in 1..q.read PROVE final[q.order[i]] \in Failures
      BY <1>5, <2>2
    <3>1. q.att[q.order[i]] \in Failures /\ i \in DOMAIN q.order
      BY <1>4, <1>5 DEF Running
    <3>2. q.order[i] \in DOMAIN q.att /\ q.att[q.order[i]] \in Ended
      BY <1>4, <3>1 DEF Running
    <3> QED BY <2>1, <3>1, <3>2
  <2>5. d.att[d.answer] # "ok" => d.read = HedgeAttempts
    BY <1>4, <1>6, <1>7, <1>9, <2>1, <2>2
  <2>6. Raced(d)
    BY <2>1, <2>2, <2>3, <2>4, <2>5 DEF Raced
  <2>7. Fits(strategy, d)
    BY <1>2, <1>4, <2>1, <2>2, <2>6 DEF Fits, Shaped, Walks, Runs
  <2> QED BY <1>1, <1>3, <1>9, <2>7, OneCallMoves DEF DispatchInv, SharedFits
<1> QED BY <1>8, <1>9

\* The caller drops the future: nothing goes on running.
LEMMA DropKeeps ==
  ASSUME DispatchInv, NEW r \in Requests, Drop(r)
  PROVE  DispatchInv'
<1> DEFINE q == req[r]
           final == Aborted(q.att)
           d == [q EXCEPT !.st = "dropped", !.att = final]
<1>1. q.st # "idle" /\ UNCHANGED <<strategy, counter, metrics, verdicts>>
  BY DEF Drop
<1>2. q \in Request /\ Shaped(strategy, q)
  BY DEF DispatchInv, CallsFit, Fits, Shaped
<1>3. req' = [req EXCEPT ![r] = d]
  BY DEF Drop, DispatchInv, CallsFit
<1> HIDE DEF q
<1>4. /\ final \in Seq(Statuses) /\ DOMAIN final = DOMAIN q.att
      /\ \A j \in DOMAIN q.att : final[j] \notin {"running", "sleeping"}
  BY <1>2, AbortedAttempts DEF Request
<1> HIDE DEF final
<1>5. /\ d \in Request /\ d.st = "dropped" /\ d.plan = q.plan /\ d.att = final
  BY <1>2, <1>4 DEF Request
<1> HIDE DEF d
<1>6. Raced(d)
  BY <1>4, <1>5 DEF Raced
<1>7. Fits(strategy, d)
  BY <1>2, <1>5, <1>6 DEF Fits, Shaped, Walks, Runs
<1>8. CallsFit'
  BY <1>1, <1>3, <1>7, OneCallMoves DEF DispatchInv
<1> QED BY <1>1, <1>8 DEF DispatchInv, SharedFits

\* Time passes for the verdicts or for the calls under way.
LEMMA TickKeeps ==
  ASSUME DispatchInv, Tick
  PROVE  DispatchInv'
<1>1. UNCHANGED <<strategy, counter, metrics>>
  BY DEF Tick
<1>2. CASE strategy = "semantic" /\ verdicts' = [p \in Prompts |-> [verdicts[p] EXCEPT !.age = Older(@)]]
           /\ req' = req
  <2>1. verdicts' \in [Prompts -> [model : Models \cup {NoModel}, age : 0..Horizon]]
    BY <1>2, HorizonIsNatural DEF DispatchInv, SharedFits
  <2> QED BY <1>1, <1>2, <2>1 DEF DispatchInv, SharedFits, CallsFit
<1>3. CASE req' = [r \in Requests |-> IF req[r].st \in {"walking", "racing"}
                                      THEN [req[r] EXCEPT !.elapsed = Older(@)] ELSE req[r]]
           /\ verdicts' = verdicts
  <2>1. ASSUME NEW s, NEW q, Fits(s, q)
        PROVE  Fits(s, [q EXCEPT !.elapsed = Older(@)])
    <3> DEFINE p == [q EXCEPT !.elapsed = Older(@)]
    <3>1. q \in Request
      BY <2>1 DEF Fits, Shaped
    <3>2. /\ p \in Request /\ p.st = q.st /\ p.plan = q.plan /\ p.att = q.att
          /\ p.order = q.order /\ p.read = q.read /\ p.answer = q.answer
      BY <3>1, HorizonIsNatural DEF Request
    <3> HIDE DEF p
    <3>3. Shaped(s, p)
      BY <2>1, <3>2 DEF Fits, Shaped
    <3>4. Walks(s, p)
      BY <2>1, <3>2 DEF Fits, Walks, Walked, Steps
    <3>5. Runs(s, p)
      BY <2>1, <3>2 DEF Fits, Runs, Running, Raced
    <3> QED BY <3>3, <3>4, <3>5 DEF Fits, p
  <2>2. \A r \in Requests : Fits(strategy, req'[r])
    BY <1>3, <2>1 DEF DispatchInv, CallsFit
  <2>3. req' = [r \in Requests |-> req'[r]]
    BY <1>3
  <2> QED BY <1>1, <1>3, <2>2, <2>3 DEF DispatchInv, SharedFits, CallsFit
<1> QED BY <1>2, <1>3 DEF Tick

(* Every action keeps the invariant.                                          *)
LEMMA NextKeeps ==
  ASSUME DispatchInv, [Next]_vars
  PROVE  DispatchInv'
<1>1. CASE Tick
  BY <1>1, TickKeeps
<1>2. ASSUME NEW r \in Requests, Call(r) PROVE DispatchInv'
  BY <1>2, CallKeeps
<1>3. ASSUME NEW r \in Requests, Proceeds(r) PROVE DispatchInv'
  BY <1>3, FirstPollKeeps, VerdictHitKeeps, VerdictMissKeeps, ClassifyKeeps, JoinNextKeeps,
     WalkKeeps, LaunchKeeps, TaskEndsKeeps DEF Proceeds
<1>4. ASSUME NEW r \in Requests, Drop(r) PROVE DispatchInv'
  BY <1>4, DropKeeps
<1>5. CASE UNCHANGED vars
  BY <1>5 DEF vars, DispatchInv, SharedFits, CallsFit
<1> QED BY <1>1, <1>2, <1>3, <1>4, <1>5 DEF Next

(* DispatchInv is an invariant of Dispatch.                                   *)
LEMMA Invariant == Spec => []DispatchInv
<1>1. Init => DispatchInv
  BY InitFits
<1>2. DispatchInv /\ [Next]_vars => DispatchInv'
  BY NextKeeps
<1> QED BY <1>1, <1>2, PTL DEF Spec

\* No call goes to a deployment that does not exist or has weight 0: not by a
\* stale or foreign verdict, not at any value of the clock, for any weights
\* Router::new accepts.
THEOREM NoCallGoesAstray == Spec => []NoStrayTarget
<1>1. DispatchInv => NoStrayTarget
  BY InvariantIsEnough
<1> QED BY <1>1, Invariant, PTL

\* A walk stops at the first answer that is no transient error and tries every
\* service before it returns one, for chains of any length.
THEOREM WalksEndRight == Spec => []WalkOutcome
<1>1. DispatchInv => WalkOutcome
  BY InvariantIsEnough
<1> QED BY <1>1, Invariant, PTL

\* A hedged call returns the first success and fails only when all its attempts
\* have failed; nothing it spawned outlives it, for any number of attempts.
THEOREM HedgesEndRight == Spec => []HedgeOutcome
<1>1. DispatchInv => HedgeOutcome
  BY InvariantIsEnough
<1> QED BY <1>1, Invariant, PTL

\* The call whose state moves from idle to called is the one that was made.
LEMMA OnlyCallCalls ==
  ASSUME DispatchInv, [Next]_vars, NEW r \in Requests,
         req[r].st = "idle", req'[r].st = "called"
  PROVE  Call(r)
<1> USE DEF DispatchInv, CallsFit
<1>1. ~UNCHANGED vars /\ ~Tick
  BY DEF vars, Tick
<1>2. PICK s \in Requests : Call(s) \/ Proceeds(s) \/ Drop(s)
  BY <1>1 DEF Next
<1>3. CASE s = r
  BY <1>2, <1>3 DEF Proceeds, FirstPoll, VerdictHit, VerdictMiss, Classify, Walk, Launch, TaskEnds,
                    JoinNext, Drop
<1>4. CASE s # r
  <2>1. Call(s) => req'[r] = req[r]
    BY <1>4 DEF Call, CallInOrder, CallRoundRobin, CallLatencyBased, CallWeighted, CallSemantic,
                CallHedged, Goes
  <2>2. Proceeds(s) => req'[r] = req[r]
    BY <1>4 DEF Proceeds, FirstPoll, VerdictHit, VerdictMiss, Classify, RouteTo, Walk, Launch,
                TaskEnds, JoinNext
  <2>3. Drop(s) => req'[r] = req[r]
    BY <1>4 DEF Drop
  <2> QED BY <1>2, <2>1, <2>2, <2>3
<1> QED BY <1>3, <1>4

\* LatencyBased measures every deployment before it prefers one, however many
\* there are and however the samples of overlapping calls arrive.
THEOREM EveryDeploymentIsMeasured == Spec => LatencyExplores
<1> DEFINE Explores(r) ==
      strategy = "latency" /\ req[r].st = "idle" /\ req'[r].st = "called" =>
        (metrics[req'[r].plan[1]].ema > 0 => \A t \in Targets : metrics[t].count > 0)
<1>1. ASSUME DispatchInv, [Next]_vars, NEW r \in Requests
      PROVE  Explores(r)
  <2> SUFFICES ASSUME strategy = "latency", req[r].st = "idle", req'[r].st = "called",
                      metrics[req'[r].plan[1]].ema > 0, NEW t \in Targets
               PROVE  metrics[t].count > 0
    OBVIOUS
  <2>1. Call(r)
    BY <1>1, OnlyCallCalls
  <2>2. CallLatencyBased(r)
    BY <2>1 DEF Call, CallInOrder, InOrder, CallRoundRobin, CallWeighted, CallSemantic, CallHedged
  <2>3. req'[r].plan = <<Fastest>>
    <3>1. req[r] \in Request /\ req = [s \in Requests |-> req[s]]
      BY <1>1 DEF DispatchInv, CallsFit, Fits, Shaped
    <3> QED BY <2>2, <3>1 DEF CallLatencyBased, Goes, Request
  <2>4. metrics \in [Targets -> [ema : Nat, count : Nat]]
    BY <1>1 DEF DispatchInv, SharedFits
  <2>5. Fastest \in Targets /\ metrics[Fastest].ema <= metrics[t].ema
    BY <2>4, FastestFinds
  <2>6. metrics[t].count # 0
    BY <1>1, <2>3, <2>4, <2>5 DEF DispatchInv, SharedFits
  <2> QED BY <2>4, <2>6
<1>2. DispatchInv /\ [Next]_vars => \A r \in Requests : Explores(r)
  BY <1>1
<1> QED BY <1>2, Invariant, PTL DEF Spec, LatencyExplores

-----------------------------------------------------------------------------
(* The balance of the round robin.                                         *)

\* A number is determined by its quotient, and its remainder by any quotient.
LEMMA Division ==
  ASSUME NEW c \in Nat
  PROVE  c = N * (c \div N) + (c % N) /\ c % N \in 0..(N - 1) /\ c \div N \in Int
BY CountsAssumption

(* The remainder, as the prover's arithmetic needs it.                        *)
LEMMA Remainder ==
  ASSUME NEW c \in Nat, NEW d \in Int, NEW k \in 0..(N - 1), c = N * d + k
  PROVE  c % N = k
BY CountsAssumption

\* The turn moves on by one and comes round after N calls.
LEMMA NextTurn ==
  ASSUME NEW c \in Nat
  PROVE  (c + 1) % N = IF c % N = N - 1 THEN 0 ELSE (c % N) + 1
<1> USE CountsAssumption
<1> DEFINE d == c \div N
           k == c % N
<1>1. d \in Int /\ k \in 0..(N - 1) /\ c = N * d + k
  BY Division
<1> HIDE DEF d, k
<1>2. CASE k = N - 1
  <2>1. N * (d + 1) = N * d + N
    BY <1>1
  <2>2. c + 1 = N * (d + 1) + 0 /\ d + 1 \in Int /\ 0 \in 0..(N - 1) /\ c + 1 \in Nat
    BY <1>1, <1>2, <2>1
  <2>3. (c + 1) % N = 0
    BY <2>2, Remainder
  <2> QED BY <1>2, <2>3 DEF k
<1>3. CASE k # N - 1
  <2>1. c + 1 = N * d + (k + 1) /\ k + 1 \in 0..(N - 1) /\ c + 1 \in Nat
    BY <1>1, <1>3
  <2>2. (c + 1) % N = k + 1
    BY <1>1, <2>1, Remainder
  <2> QED BY <1>3, <2>2 DEF k
<1> QED BY <1>2, <1>3

\* The deployments before the turn have had one call more than the others.
Sent(t) == {r \in Requests : req[r].plan = <<t>>}
Balanced ==
  strategy = "round_robin" =>
    \E turns \in Nat : \A t \in Targets :
      Cardinality(Sent(t)) = IF t <= counter % N THEN turns + 1 ELSE turns

(* Finitely many calls have gone to one deployment.                           *)
LEMMA SentIsFinite ==
  \A t : IsFiniteSet(Sent(t)) /\ Cardinality(Sent(t)) \in Nat
<1> SUFFICES ASSUME NEW t PROVE IsFiniteSet(Sent(t)) /\ Cardinality(Sent(t)) \in Nat
  OBVIOUS
<1>1. Sent(t) \in SUBSET Requests
  BY DEF Sent
<1>2. IsFiniteSet(Sent(t))
  BY <1>1, RequestsAssumption, FS_Subset
<1> QED BY <1>2, FS_CardinalityType

\* Only call() makes a plan while the round robin is at work.
LEMMA PlansStay ==
  ASSUME DispatchInv, strategy = "round_robin", [Next]_vars,
         \A r \in Requests : ~Call(r)
  PROVE  counter' = counter /\ \A r \in Requests : req'[r].plan = req[r].plan
<1> USE DEF DispatchInv, CallsFit
<1>1. \A r \in Requests : req[r] \in Request
  BY DEF Fits, Shaped
<1>2. CASE Tick \/ UNCHANGED vars
  BY <1>2 DEF Tick, vars
<1>3. ASSUME NEW r \in Requests, Proceeds(r)
      PROVE  counter' = counter /\ \A s \in Requests : req'[s].plan = req[s].plan
  <2>1. ~Classify(r) /\ ~VerdictHit(r) /\ ~VerdictMiss(r)
    BY DEF Classify, VerdictHit, VerdictMiss, Fits, Shaped
  <2>2. CASE FirstPoll(r)
    BY <1>1, <2>2 DEF FirstPoll, Started, Request
  <2>3. CASE JoinNext(r)
    BY <1>1, <2>3 DEF JoinNext, Answered, Request
  <2>4. ASSUME NEW k \in DOMAIN req[r].att, Walk(r, k) \/ Launch(r, k) \/ TaskEnds(r, k)
        PROVE  counter' = counter /\ \A s \in Requests : req'[s].plan = req[s].plan
    <3>1. CASE Walk(r, k)
      <4> DEFINE seen(res) == [req[r] EXCEPT !.att[k] = res]
      <4>1. PICK res \in Results :
              req' = [req EXCEPT ![r] = IF res = "transient" /\ k < Len(seen(res).plan)
                                        THEN [seen(res) EXCEPT !.att[k + 1] = "running"]
                                        ELSE Answered(seen(res), k)]
        BY <3>1 DEF Walk
      <4>2. seen(res).plan = req[r].plan
        BY <1>1 DEF Request
      <4>3. req'[r].plan = req[r].plan
        BY <1>1, <4>1, <4>2 DEF Answered, Request
      <4>4. \A s \in Requests : s # r => req'[s] = req[s]
        BY <4>1
      <4> QED BY <3>1, <4>3, <4>4 DEF Walk
    <3>2. CASE Launch(r, k)
      BY <1>1, <3>2 DEF Launch, Request
    <3>3. CASE TaskEnds(r, k)
      BY <1>1, <3>3 DEF TaskEnds, Request
    <3> QED BY <2>4, <3>1, <3>2, <3>3
  <2> QED BY <1>3, <2>1, <2>2, <2>3, <2>4 DEF Proceeds
<1>4. ASSUME NEW r \in Requests, Drop(r)
      PROVE  counter' = counter /\ \A s \in Requests : req'[s].plan = req[s].plan
  BY <1>1, <1>4 DEF Drop, Request
<1> QED BY <1>2, <1>3, <1>4 DEF Next

(* One more call goes to the deployment whose turn it is, and to no other.    *)
LEMMA BalanceKept ==
  ASSUME DispatchInv, Balanced, [Next]_vars
  PROVE  Balanced'
<1> USE CountsAssumption
<1>1. strategy' = strategy
  BY DEF Next, vars, Tick, Call, Proceeds, FirstPoll, VerdictHit, VerdictMiss, Classify, JoinNext,
         Walk, Launch, TaskEnds, Drop
<1> SUFFICES ASSUME strategy = "round_robin" PROVE Balanced'
  BY <1>1 DEF Balanced
<1>2. PICK turns \in Nat : \A t \in Targets :
        Cardinality(Sent(t)) = IF t <= counter % N THEN turns + 1 ELSE turns
  BY DEF Balanced
<1>3. counter \in Nat /\ counter % N \in 0..(N - 1)
  BY Division DEF DispatchInv, SharedFits
<1>4. CASE \A r \in Requests : ~Call(r)
  <2>1. counter' = counter /\ \A t : Sent(t)' = Sent(t)
    BY <1>4, PlansStay DEF Sent
  <2> QED BY <1>1, <1>2, <2>1 DEF Balanced
<1>5. ASSUME NEW r \in Requests, Call(r)
      PROVE  Balanced'
  <2>1. counter' = counter + 1 /\ req[r].st = "idle" /\ Goes(r, <<Turn>>)
    BY <1>5 DEF Call, CallInOrder, InOrder, CallRoundRobin, CallLatencyBased, CallWeighted,
                CallSemantic, CallHedged
  <2>2. req[r].plan = <<>> /\ req[r] \in Request
    BY <2>1 DEF DispatchInv, CallsFit, Fits, Shaped
  <2>3. \A s \in Requests : req'[s].plan = IF s = r THEN <<Turn>> ELSE req[s].plan
    BY <2>1, <2>2 DEF Goes, DispatchInv, CallsFit, Request
  <2>4. \A t \in Targets : Sent(t)' = IF t = Turn THEN Sent(t) \cup {r} ELSE Sent(t)
    <3> SUFFICES ASSUME NEW t \in Targets
                 PROVE  Sent(t)' = IF t = Turn THEN Sent(t) \cup {r} ELSE Sent(t)
      OBVIOUS
    <3>1. Sent(t)' = {s \in Requests : req'[s].plan = <<t>>}
      BY DEF Sent
    <3>2. <<Turn>> = <<t>> <=> t = Turn
      OBVIOUS
    <3> HIDE DEF Targets
    <3> QED BY <2>2, <2>3, <3>1, <3>2 DEF Sent
  <2>5. r \notin Sent(Turn)
    <3>1. <<Turn>> # <<>>
      OBVIOUS
    <3> QED BY <2>2, <3>1 DEF Sent
  <2>6. \A t \in Targets : Cardinality(Sent(t))' =
                             IF t = Turn THEN Cardinality(Sent(t)) + 1 ELSE Cardinality(Sent(t))
    <3> SUFFICES ASSUME NEW t \in Targets
                 PROVE  Cardinality(Sent(t))' =
                          IF t = Turn THEN Cardinality(Sent(t)) + 1 ELSE Cardinality(Sent(t))
      OBVIOUS
    <3>1. IsFiniteSet(Sent(t))
      BY SentIsFinite
    <3>2. Cardinality(Sent(t) \cup {r}) =
            IF r \in Sent(t) THEN Cardinality(Sent(t)) ELSE Cardinality(Sent(t)) + 1
      BY <3>1, FS_AddElement
    <3> QED BY <2>4, <2>5, <3>2
  <2>7. Turn = (counter % N) + 1
    BY DEF Turn
  <2>8. (counter + 1) % N = IF counter % N = N - 1 THEN 0 ELSE (counter % N) + 1
    BY <1>3, NextTurn
  <2> DEFINE k == counter % N
  <2>9. counter' % N = IF k = N - 1 THEN 0 ELSE k + 1
    BY <2>1, <2>8
  <2>10. k \in 0..(N - 1) /\ Turn = k + 1
    BY <1>3, <2>7
  <2>11. \A t \in Targets : Cardinality(Sent(t)) = IF t <= k THEN turns + 1 ELSE turns
    BY <1>2
  <2> HIDE DEF k
  <2>12. \A t \in Targets : Cardinality(Sent(t))' = IF t <= k + 1 THEN turns + 1 ELSE turns
    BY <2>6, <2>10, <2>11 DEF Targets
  <2>13. CASE k = N - 1
    <3>1. turns + 1 \in Nat
      BY <1>2
    <3>2. \A t \in Targets : t <= k + 1 /\ ~(t <= 0)
      BY <2>13 DEF Targets
    <3>3. \A t \in Targets :
            Cardinality(Sent(t))' = IF t <= counter' % N THEN (turns + 1) + 1 ELSE turns + 1
      BY <2>9, <2>12, <2>13, <3>2
    <3> QED BY <3>1, <3>3 DEF Balanced
  <2>14. CASE k # N - 1
    <3>1. \A t \in Targets :
            Cardinality(Sent(t))' = IF t <= counter' % N THEN turns + 1 ELSE turns
      BY <2>9, <2>12, <2>14
    <3> QED BY <1>2, <3>1 DEF Balanced
  <2> QED BY <2>13, <2>14
<1> QED BY <1>4, <1>5

\* The calls of any number of clones, overlapping, dropped or failing, are
\* spread over any number of deployments with a difference of one at most.
THEOREM RoundRobinIsFair == Spec => []RoundRobinBalanced
<1>1. Init => Balanced
  <2> SUFFICES ASSUME Init PROVE \A t \in Targets : Cardinality(Sent(t)) = IF t <= counter % N THEN 0 + 1 ELSE 0
    BY DEF Balanced
  <2>1. 0 % N = 0
    BY CountsAssumption
  <2>2. counter % N = 0
    BY <2>1 DEF Init
  <2>3. \A t \in Targets : Sent(t) = {}
    BY DEF Init, NewRequest, Sent
  <2> QED BY <2>2, <2>3, FS_EmptySet, CountsAssumption DEF Targets
<1>2. DispatchInv /\ Balanced /\ [Next]_vars => Balanced'
  BY BalanceKept
<1>3. Balanced => RoundRobinBalanced
  <2> SUFFICES ASSUME Balanced, strategy = "round_robin", NEW t \in Targets, NEW u \in Targets
               PROVE  Cardinality(Sent(t)) - Cardinality(Sent(u)) <= 1
    BY DEF RoundRobinBalanced, Sent
  <2>1. PICK turns \in Nat : \A v \in Targets :
          Cardinality(Sent(v)) = IF v <= counter % N THEN turns + 1 ELSE turns
    BY DEF Balanced
  <2> QED BY <2>1
<1> QED BY <1>1, <1>2, <1>3, Invariant, PTL DEF Spec

-----------------------------------------------------------------------------
(* DynamicRouter.                                                          *)

Holds(s, i) == \E n \in DOMAIN s : s[n] = i
KeysDiffer(s) == \A m, n \in DOMAIN s : s[m].key = s[n].key => m = n

RouterTyped ==
  /\ ready \in Seq(Instances) /\ pending \subseteq Instances /\ offered \subseteq Keys
  /\ inserted \in [Keys -> 0..MaxInserts]
  /\ called \in [Callers -> {"idle", "calling", "refused", "done"}]
  /\ serving \in [Callers -> SUBSET Instances]
  /\ \A c \in Callers : called[c] = "idle" => serving[c] = {}

\* An instance that waits is the newest of its key, unless the newest failed:
\* so nothing that becomes ready later can displace a newer one that works.
NewestWaits == \A j \in pending : j = Current(j.key) \/ Current(j.key) \in failed

RouterInv == RouterTyped /\ ConcurrencyHeld /\ OfferedReachable /\ RemovedGone /\ NewestWaits

\* swap_remove takes one instance out and keeps every other.
LEMMA SwapRemoveTakesOne ==
  ASSUME NEW s \in Seq(Instances), KeysDiffer(s), NEW n \in DOMAIN s
  PROVE  /\ SwapRemove(s, n) \in Seq(Instances) /\ KeysDiffer(SwapRemove(s, n))
         /\ \A i : Holds(SwapRemove(s, n), i) <=> Holds(s, i) /\ i # s[n]
<1> DEFINE len == Len(s)
           t == [m \in 1..(len - 1) |-> IF m = n THEN s[len] ELSE s[m]]
<1>1. /\ len \in Nat \ {0} /\ DOMAIN s = 1..len /\ n \in 1..len
      /\ \A m \in 1..len : s[m] \in Instances
  OBVIOUS
<1>2. SwapRemove(s, n) = t
  BY DEF SwapRemove
<1> HIDE DEF len
<1>3. t \in Seq(Instances)
  <2>1. t \in [1..(len - 1) -> Instances] /\ len - 1 \in Nat
    BY <1>1
  <2> HIDE DEF t
  <2> QED BY <2>1
<1>4. DOMAIN t = 1..(len - 1) /\ \A m \in 1..(len - 1) : t[m] = IF m = n THEN s[len] ELSE s[m]
  OBVIOUS
<1> HIDE DEF t
<1>5. \A m \in DOMAIN t : \E k \in 1..len : k # n /\ t[m] = s[k] /\ k = IF m = n THEN len ELSE m
  BY <1>1, <1>4
<1>6. KeysDiffer(t)
  BY <1>1, <1>4, <1>5 DEF KeysDiffer
<1>7. \A m, k \in 1..len : s[m] = s[k] => m = k
  BY <1>1 DEF KeysDiffer
<1>8. \A i : Holds(t, i) => Holds(s, i) /\ i # s[n]
  BY <1>1, <1>5, <1>7 DEF Holds
<1>9. ASSUME NEW i, Holds(s, i), i # s[n]
      PROVE  Holds(t, i)
  <2>1. PICK k \in 1..len : s[k] = i
    BY <1>1, <1>9 DEF Holds
  <2>2. CASE k = len
    <3>1. n \in 1..(len - 1) /\ t[n] = i
      BY <1>1, <1>4, <1>9, <2>1, <2>2
    <3> QED BY <1>4, <3>1 DEF Holds
  <2>3. CASE k # len
    <3>1. k \in 1..(len - 1) /\ k # n
      BY <1>1, <1>9, <2>1, <2>3
    <3>2. t[k] = i
      BY <1>4, <2>1, <3>1
    <3> QED BY <1>4, <3>1, <3>2 DEF Holds
  <2> QED BY <2>2, <2>3
<1> QED BY <1>2, <1>3, <1>6, <1>8, <1>9

\* What the ready sequence is asked, in terms of its members.
LEMMA ReadyMembers ==
  ASSUME ready \in Seq(Instances)
  PROVE  /\ \A i : IsReady(i) <=> Holds(ready, i)
         /\ \A i : IsReady(i) => i \in Instances
         /\ RemovedGone <=> /\ \A i : IsReady(i) => i.key \in offered
                            /\ \A i \in pending : i.key \in offered
                            /\ KeysDiffer(ready)
                            /\ \A i, j \in pending : i.key = j.key => i = j
<1>1. \A n \in DOMAIN ready : ready[n] \in Instances
  OBVIOUS
<1> QED BY <1>1 DEF IsReady, Holds, RemovedGone, KeysDiffer

\* The calls in flight are finitely many; they change with serving alone.
LEMMA BusyIsNatural ==
  \A i : Busy(i) \in Nat /\ IsFiniteSet({c \in Callers : i \in serving[c]})
<1> SUFFICES ASSUME NEW i
             PROVE  Busy(i) \in Nat /\ IsFiniteSet({c \in Callers : i \in serving[c]})
  OBVIOUS
<1> DEFINE S == {c \in Callers : i \in serving[c]}
<1>1. S \in SUBSET Callers
  OBVIOUS
<1>2. IsFiniteSet(S)
  BY <1>1, RouterAssumption, FS_Subset
<1> QED BY <1>2, FS_CardinalityType DEF Busy

(* What an upstream admits is a natural number.                               *)
LEMMA LimitIsNatural ==
  \A key : LimitOf(key) \in Nat
BY RouterAssumption DEF LimitOf

(* Nothing has been inserted at the start.                                    *)
LEMMA RouterInitFits ==
  ASSUME RouterInit
  PROVE  RouterInv
<1> USE RouterAssumption
<1>1. RouterTyped
  BY DEF RouterInit, RouterTyped
<1>2. ConcurrencyHeld
  <2> SUFFICES ASSUME NEW i \in Instances
               PROVE  Busy(i) + (IF IsReady(i) THEN 1 ELSE 0) <= LimitOf(i.key)
    BY DEF ConcurrencyHeld
  <2>1. {c \in Callers : i \in serving[c]} = {}
    BY DEF RouterInit
  <2>2. Busy(i) = 0
    BY <2>1, FS_EmptySet DEF Busy
  <2>3. ~IsReady(i)
    BY DEF RouterInit, IsReady
  <2> QED BY <2>2, <2>3, LimitIsNatural
<1>3. OfferedReachable /\ RemovedGone /\ NewestWaits
  BY DEF RouterInit, OfferedReachable, RemovedGone, NewestWaits
<1> QED BY <1>1, <1>2, <1>3 DEF RouterInv

(* Discovery inserts an upstream, perhaps in place of one of the same key.    *)
LEMMA InsertKeeps ==
  ASSUME RouterInv, NEW key \in Keys, Insert(key)
  PROVE  RouterInv'
<1> USE RouterAssumption DEF RouterInv
<1> DEFINE new == [key |-> key, gen |-> inserted[key] + 1]
<1>1. /\ inserted[key] < MaxInserts /\ inserted' = [inserted EXCEPT ![key] = @ + 1]
      /\ pending' = {i \in pending : i.key # key} \cup {new}
      /\ offered' = offered \cup {key} /\ UNCHANGED <<ready, failed, called, serving>>
  BY DEF Insert
<1>2. new \in Instances /\ new.key = key
  BY <1>1 DEF RouterTyped, Instances
<1>3. RouterTyped'
  BY <1>1, <1>2 DEF RouterTyped
<1>4. \A k \in Keys : Current(k)' = IF k = key THEN new ELSE Current(k)
  BY <1>1 DEF Current, RouterTyped
<1> HIDE DEF new
<1>5. \A i : IsReady(i)' = IsReady(i) /\ Busy(i)' = Busy(i)
  BY <1>1 DEF IsReady, Busy
<1>6. ConcurrencyHeld'
  BY <1>5 DEF ConcurrencyHeld
<1>7. OfferedReachable'
  <2> SUFFICES ASSUME NEW k \in offered'
               PROVE  (IsReady(Current(k)) \/ Current(k) \in pending \/ Current(k) \in failed)'
    BY DEF OfferedReachable
  <2>1. CASE k = key
    BY <1>1, <1>4, <2>1
  <2>2. CASE k # key
    <3>1. k \in offered /\ k \in Keys
      BY <1>1, <2>2 DEF RouterTyped
    <3>2. Current(k)' = Current(k) /\ Current(k).key = k
      BY <1>4, <2>2, <3>1 DEF Current
    <3>3. IsReady(Current(k)) \/ Current(k) \in pending \/ Current(k) \in failed
      BY <3>1 DEF OfferedReachable
    <3>4. IsReady(Current(k))' <=> IsReady(Current(k))
      BY <1>1, <3>2 DEF IsReady
    <3> QED BY <1>1, <2>2, <3>2, <3>3, <3>4
  <2> QED BY <2>1, <2>2
<1>8. RemovedGone'
  BY <1>1, <1>2 DEF RemovedGone
<1>9. NewestWaits'
  BY <1>1, <1>2, <1>4 DEF NewestWaits, RouterTyped, Instances
<1> QED BY <1>3, <1>6, <1>7, <1>8, <1>9

(* Discovery removes an upstream, ready or pending.                           *)
LEMMA RemoveKeeps ==
  ASSUME RouterInv, NEW key \in Keys, Remove(key)
  PROVE  RouterInv'
<1> USE RouterAssumption DEF RouterInv
<1> DEFINE has == \E n \in DOMAIN ready : ready[n].key = key
           at == CHOOSE n \in DOMAIN ready : ready[n].key = key
<1>1. /\ key \in offered /\ offered' = offered \ {key}
      /\ pending' = {i \in pending : i.key # key}
      /\ ready' = (IF has THEN SwapRemove(ready, at) ELSE ready)
      /\ UNCHANGED <<inserted, failed, called, serving>>
  BY DEF Remove
<1>2. has => at \in DOMAIN ready /\ ready[at].key = key
  OBVIOUS
<1>3. ready \in Seq(Instances) /\ KeysDiffer(ready)
  BY ReadyMembers DEF RouterTyped
<1>4. \A i : IsReady(i) /\ i.key = key <=> has /\ i = ready[at]
  BY <1>2, <1>3 DEF IsReady, KeysDiffer
<1> HIDE DEF has, at
<1>5. /\ ready' \in Seq(Instances) /\ KeysDiffer(ready')
      /\ \A i : Holds(ready', i) <=> IsReady(i) /\ i.key # key
  BY <1>1, <1>2, <1>3, <1>4, SwapRemoveTakesOne, ReadyMembers
<1>6. \A i : IsReady(i)' <=> IsReady(i) /\ i.key # key
  BY <1>5 DEF IsReady, Holds
<1>7. RouterTyped'
  BY <1>1, <1>5 DEF RouterTyped
<1>8. \A i : Busy(i)' = Busy(i) /\ Busy(i) \in Nat
  BY <1>1, BusyIsNatural DEF Busy
<1>9. \A k : Current(k)' = Current(k) /\ Current(k).key = k
  BY <1>1 DEF Current
<1>10. ConcurrencyHeld'
  BY <1>6, <1>8, LimitIsNatural DEF ConcurrencyHeld
<1>11. OfferedReachable'
  BY <1>1, <1>6, <1>9 DEF OfferedReachable
<1>12. RemovedGone'
  <2>1. /\ \A i : Holds(ready', i) => i.key \in offered'
        /\ \A i \in pending' : i.key \in offered'
        /\ \A i, j \in pending' : i.key = j.key => i = j
    BY <1>1, <1>3, <1>5, ReadyMembers DEF RemovedGone, RouterTyped
  <2>2. \A n \in DOMAIN ready' : Holds(ready', ready'[n])
    BY DEF Holds
  <2>3. \A n \in DOMAIN ready' : ready'[n].key \in offered'
    BY <2>1, <2>2
  <2> QED BY <1>5, <2>1, <2>3 DEF RemovedGone, KeysDiffer
<1>13. NewestWaits'
  BY <1>1, <1>9 DEF NewestWaits
<1> QED BY <1>7, <1>10, <1>11, <1>12, <1>13

(* A pending instance gets ready, in place of the ready one of its key.       *)
LEMMA BecomesReadyKeeps ==
  ASSUME RouterInv, NEW i \in Instances, BecomesReady(i)
  PROVE  RouterInv'
<1> USE DEF RouterInv
<1> DEFINE has == \E n \in DOMAIN ready : ready[n].key = i.key
           put == [n \in DOMAIN ready |-> IF ready[n].key = i.key THEN i ELSE ready[n]]
<1>1. /\ i \in pending /\ Busy(i) < LimitOf(i.key) /\ pending' = pending \ {i}
      /\ ready' = (IF has THEN put ELSE Append(ready, i))
      /\ UNCHANGED <<inserted, offered, failed, called, serving>>
  BY DEF BecomesReady
<1>2. ready \in Seq(Instances) /\ KeysDiffer(ready) /\ \A n \in DOMAIN ready : ready[n] \in Instances
  BY ReadyMembers DEF RouterTyped
<1>3. /\ ready' \in Seq(Instances) /\ KeysDiffer(ready')
      /\ \A j : Holds(ready', j) <=> j = i \/ (IsReady(j) /\ j.key # i.key)
  <2>1. CASE has
    <3>1. /\ put \in Seq(Instances) /\ DOMAIN put = DOMAIN ready
          /\ \A n \in DOMAIN ready : put[n] = IF ready[n].key = i.key THEN i ELSE ready[n]
      BY <1>2
    <3>2. PICK m \in DOMAIN ready : ready[m].key = i.key
      BY <2>1
    <3> HIDE DEF put, has
    <3>3. \A n \in DOMAIN ready : put[n].key = ready[n].key
      BY <3>1
    <3>4. KeysDiffer(put)
      BY <1>2, <3>1, <3>3 DEF KeysDiffer
    <3>5. \A j : Holds(put, j) => j = i \/ (IsReady(j) /\ j.key # i.key)
      BY <3>1 DEF Holds, IsReady
    <3>6. \A j : j = i \/ (IsReady(j) /\ j.key # i.key) => Holds(put, j)
      BY <3>1, <3>2 DEF Holds, IsReady
    <3>7. ready' = put
      BY <1>1, <2>1
    <3> QED BY <3>1, <3>4, <3>5, <3>6, <3>7
  <2>2. CASE ~has
    <3> DEFINE more == Append(ready, i)
    <3>1. /\ more \in Seq(Instances) /\ DOMAIN more = 1..(Len(ready) + 1) /\ Len(ready) \in Nat
          /\ DOMAIN ready = 1..Len(ready) /\ more[Len(ready) + 1] = i
          /\ \A n \in DOMAIN ready : more[n] = ready[n]
      BY <1>2
    <3>2. \A n \in DOMAIN ready : ready[n].key # i.key
      BY <2>2
    <3> HIDE DEF more, has
    <3>3. KeysDiffer(more)
      BY <1>2, <3>1, <3>2 DEF KeysDiffer
    <3>4. \A j : Holds(more, j) <=> j = i \/ IsReady(j)
      BY <3>1 DEF Holds, IsReady
    <3>5. \A j : IsReady(j) => j.key # i.key
      BY <3>2 DEF IsReady
    <3>6. ready' = more
      BY <1>1, <2>2 DEF more
    <3> QED BY <3>1, <3>3, <3>4, <3>5, <3>6
  <2> QED BY <2>1, <2>2
<1> HIDE DEF has, put
<1>4. RouterTyped'
  BY <1>1, <1>3 DEF RouterTyped
<1>5. \A j : IsReady(j)' <=> j = i \/ (IsReady(j) /\ j.key # i.key)
  BY <1>3 DEF IsReady, Holds
<1>6. \A j : Busy(j)' = Busy(j) /\ Busy(j) \in Nat
  BY <1>1, BusyIsNatural DEF Busy
<1>7. ConcurrencyHeld'
  BY <1>1, <1>5, <1>6, LimitIsNatural DEF ConcurrencyHeld
<1>8. \A k : Current(k)' = Current(k) /\ Current(k).key = k
  BY <1>1 DEF Current
<1>9. OfferedReachable'
  <2> SUFFICES ASSUME NEW k \in offered
               PROVE  (IsReady(Current(k)) \/ Current(k) \in pending \/ Current(k) \in failed)'
    BY <1>1 DEF OfferedReachable
  <2>1. IsReady(Current(k)) \/ Current(k) \in pending \/ Current(k) \in failed
    BY DEF OfferedReachable
  <2>2. IsReady(Current(k))' <=> Current(k) = i \/ (IsReady(Current(k)) /\ k # i.key)
    BY <1>5, <1>8
  <2>3. k = i.key => i = Current(k) \/ Current(k) \in failed
    BY <1>1 DEF NewestWaits
  <2> QED BY <1>1, <1>8, <2>1, <2>2, <2>3
<1>10. RemovedGone'
  <2>1. i.key \in offered /\ \A j : IsReady(j) => j.key \in offered
    BY <1>1, <1>2, ReadyMembers DEF RemovedGone
  <2>2. \A n \in DOMAIN ready' : Holds(ready', ready'[n])
    BY DEF Holds
  <2>3. \A n \in DOMAIN ready' : ready'[n].key \in offered
    BY <1>3, <2>1, <2>2
  <2> QED BY <1>1, <1>3, <2>3 DEF RemovedGone, KeysDiffer
<1>11. NewestWaits'
  BY <1>1, <1>8 DEF NewestWaits
<1> QED BY <1>4, <1>7, <1>9, <1>10, <1>11

(* A pending instance that fails is dropped.                                  *)
LEMMA FailsToGetReadyKeeps ==
  ASSUME RouterInv, NEW i \in Instances, FailsToGetReady(i)
  PROVE  RouterInv'
<1> USE DEF RouterInv
<1>1. /\ i \in pending /\ pending' = pending \ {i} /\ failed' = failed \cup {i}
      /\ UNCHANGED <<ready, inserted, offered, called, serving>>
  BY DEF FailsToGetReady
<1>2. RouterTyped' /\ ConcurrencyHeld' /\ RemovedGone'
  BY <1>1 DEF RouterTyped, ConcurrencyHeld, RemovedGone, IsReady, Busy
<1>3. OfferedReachable' /\ NewestWaits'
  BY <1>1 DEF OfferedReachable, NewestWaits, Current, IsReady
<1> QED BY <1>2, <1>3

(* A call takes a ready instance's permit; the instance is pending again.     *)
LEMMA CallReadyKeeps ==
  ASSUME RouterInv, NEW c \in Callers, CallReady(c)
  PROVE  RouterInv'
<1> USE DEF RouterInv
<1> DEFINE i == Head(ready)
           waits == \E j \in pending : j.key = i.key
<1>1. /\ called[c] = "idle" /\ ready # <<>>
      /\ called' = [called EXCEPT ![c] = "calling"] /\ serving' = [serving EXCEPT ![c] = {i}]
      /\ ready' = SwapRemove(ready, 1)
      /\ pending' = (IF waits THEN pending ELSE pending \cup {i})
      /\ UNCHANGED <<inserted, offered, failed>>
  BY DEF CallReady
<1>2. ready \in Seq(Instances) /\ KeysDiffer(ready)
  BY ReadyMembers DEF RouterTyped
<1>3. 1 \in DOMAIN ready /\ i = ready[1] /\ i \in Instances
  BY <1>1, <1>2
<1> HIDE DEF i
<1>4. /\ ready' \in Seq(Instances) /\ KeysDiffer(ready')
      /\ \A j : Holds(ready', j) <=> IsReady(j) /\ j # i
  BY <1>1, <1>2, <1>3, SwapRemoveTakesOne, ReadyMembers
<1>5. IsReady(i) /\ \A j : IsReady(j) /\ j.key = i.key => j = i
  BY <1>2, <1>3 DEF IsReady, KeysDiffer
<1>6. \A j : IsReady(j)' <=> IsReady(j) /\ j # i
  BY <1>4 DEF IsReady, Holds
<1>7. RouterTyped'
  <2>1. waits \/ ~waits
    OBVIOUS
  <2> HIDE DEF waits
  <2>2. pending' \subseteq Instances
    BY <1>1, <1>3, <2>1 DEF RouterTyped
  <2> QED BY <1>1, <1>3, <1>4, <2>2 DEF RouterTyped
<1>8. ConcurrencyHeld'
  <2> SUFFICES ASSUME NEW j \in Instances
               PROVE  (Busy(j) + (IF IsReady(j) THEN 1 ELSE 0) <= LimitOf(j.key))'
    BY DEF ConcurrencyHeld
  <2> DEFINE S == {d \in Callers : j \in serving[d]}
  <2>1. IsFiniteSet(S) /\ Busy(j) \in Nat /\ Busy(j) = Cardinality(S)
    BY BusyIsNatural DEF Busy
  <2>2. Busy(j) + (IF IsReady(j) THEN 1 ELSE 0) <= LimitOf(j.key)
    BY DEF ConcurrencyHeld
  <2>3. serving[c] = {}
    BY <1>1 DEF RouterTyped
  <2>4. {d \in Callers : j \in serving'[d]} = IF j = i THEN S \cup {c} ELSE S
    BY <1>1, <2>3 DEF RouterTyped
  <2>5. c \notin S
    BY <2>3
  <2> HIDE DEF S
  <2>6. Busy(j)' = IF j = i THEN Busy(j) + 1 ELSE Busy(j)
    BY <2>1, <2>4, <2>5, FS_AddElement DEF Busy
  <2>7. IsReady(j)' <=> IsReady(j) /\ j # i
    BY <1>6
  <2> QED BY <1>5, <2>1, <2>2, <2>6, <2>7, LimitIsNatural
<1>9. \A k : Current(k)' = Current(k) /\ Current(k).key = k
  BY <1>1 DEF Current
<1>10. \A k \in offered : IsReady(Current(k)) \/ Current(k) \in pending \/ Current(k) \in failed
  BY DEF OfferedReachable
<1>11. OfferedReachable'
  <2> SUFFICES ASSUME NEW k \in offered
               PROVE  (IsReady(Current(k)) \/ Current(k) \in pending \/ Current(k) \in failed)'
    BY <1>1 DEF OfferedReachable
  <2>1. IsReady(Current(k))' <=> IsReady(Current(k)) /\ Current(k) # i
    BY <1>6, <1>9
  <2>2. Current(k) = i => i \in pending' \/ Current(k) \in failed
    BY <1>1, <1>9 DEF NewestWaits
  <2>3. pending \subseteq pending'
    BY <1>1
  <2> QED BY <1>1, <1>9, <1>10, <2>1, <2>2, <2>3
<1>12. i.key \in offered
  BY <1>2, <1>5, ReadyMembers
<1>13. RemovedGone'
  <2>1. \A n \in DOMAIN ready' : Holds(ready', ready'[n])
    BY DEF Holds
  <2>2. \A n \in DOMAIN ready' : ready'[n].key \in offered
    BY <1>2, <1>4, <2>1, ReadyMembers
  <2>3. /\ \A j \in pending' : j.key \in offered
        /\ \A j, k \in pending' : j.key = k.key => j = k
    BY <1>1, <1>12 DEF RemovedGone
  <2> QED BY <1>1, <1>4, <2>2, <2>3 DEF RemovedGone, KeysDiffer
<1>14. NewestWaits'
  <2>1. ~waits => i = Current(i.key) \/ Current(i.key) \in failed
    BY <1>5, <1>9, <1>10, <1>12
  <2>2. \A j \in pending' : j = Current(j.key) \/ Current(j.key) \in failed
    <3> HIDE DEF waits
    <3> QED BY <1>1, <2>1 DEF NewestWaits
  <2> QED BY <1>1, <1>9, <2>2 DEF NewestWaits
<1> QED BY <1>7, <1>8, <1>11, <1>13, <1>14

(* A call that ends gives its permit back.                                    *)
LEMMA FinishKeeps ==
  ASSUME RouterInv, NEW c \in Callers, Finish(c)
  PROVE  RouterInv'
<1> USE DEF RouterInv
<1>1. /\ called' = [called EXCEPT ![c] = "done"] /\ serving' = [serving EXCEPT ![c] = {}]
      /\ UNCHANGED <<ready, pending, inserted, offered, failed>>
  BY DEF Finish
<1>2. RouterTyped' /\ OfferedReachable' /\ RemovedGone' /\ NewestWaits'
  BY <1>1 DEF RouterTyped, OfferedReachable, RemovedGone, NewestWaits, IsReady, Current
<1>3. ConcurrencyHeld'
  <2> SUFFICES ASSUME NEW j \in Instances
               PROVE  (Busy(j) + (IF IsReady(j) THEN 1 ELSE 0) <= LimitOf(j.key))'
    BY DEF ConcurrencyHeld
  <2> DEFINE S == {d \in Callers : j \in serving[d]}
             T == {d \in Callers : j \in serving'[d]}
  <2>1. IsFiniteSet(S) /\ Busy(j) \in Nat /\ Busy(j) = Cardinality(S)
    BY BusyIsNatural DEF Busy
  <2>2. T \in SUBSET S
    BY <1>1 DEF RouterTyped
  <2>3. Busy(j)' = Cardinality(T)
    BY DEF Busy
  <2> HIDE DEF S, T
  <2>4. IsFiniteSet(T) /\ Cardinality(T) <= Cardinality(S)
    BY <2>1, <2>2, FS_Subset
  <2>5. Cardinality(T) \in Nat
    BY <2>4, FS_CardinalityType
  <2>6. Busy(j) + (IF IsReady(j) THEN 1 ELSE 0) <= LimitOf(j.key)
    BY DEF ConcurrencyHeld
  <2>7. IsReady(j)' <=> IsReady(j)
    BY <1>1 DEF IsReady
  <2> QED BY <2>1, <2>3, <2>4, <2>5, <2>6, <2>7, LimitIsNatural
<1> QED BY <1>2, <1>3

\* DynamicRouter: however calls, insertions, removals and failures overlap, no
\* upstream has more calls than its limit, a removed one is gone, and an
\* offered one stays reachable, for any number of upstreams and calls.
THEOREM DynamicRouterIsSafe == RouterSpec => []DynamicRouterSafe
<1>1. RouterInit => RouterInv
  BY RouterInitFits
<1>2. RouterInv /\ [RouterNext]_routerVars => RouterInv'
  <2> SUFFICES ASSUME RouterInv, [RouterNext]_routerVars PROVE RouterInv'
    OBVIOUS
  <2>1. ASSUME NEW c \in Callers, Refuse(c) PROVE RouterInv'
    BY <2>1 DEF Refuse, RouterInv, RouterTyped, ConcurrencyHeld, OfferedReachable, RemovedGone,
                NewestWaits, IsReady, Busy, Current
  <2>2. CASE UNCHANGED routerVars
    BY <2>2 DEF routerVars, RouterInv, RouterTyped, ConcurrencyHeld, OfferedReachable, RemovedGone,
                NewestWaits, IsReady, Busy, Current
  <2> QED BY <2>1, <2>2, InsertKeeps, RemoveKeeps, BecomesReadyKeeps, FailsToGetReadyKeeps,
             CallReadyKeeps, FinishKeeps DEF RouterNext
<1>3. RouterInv => DynamicRouterSafe
  BY DEF RouterInv, DynamicRouterSafe
<1> QED BY <1>1, <1>2, <1>3, PTL DEF RouterSpec
=============================================================================
