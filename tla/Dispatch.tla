------------------------------ MODULE Dispatch ------------------------------
(***************************************************************************)
(* How one request reaches one or several of N equivalent services: the    *)
(* strategies of Router (tower/router.rs), the pair of FallbackService     *)
(* (tower/fallback.rs), FallbackChainService (tower/fallback_chain.rs), and *)
(* HedgeService (tower/hedge.rs), with the semantic classifiers of         *)
(* tower/route_classify.rs and their verdict cache.                        *)
(*                                                                         *)
(* All of them come down to a PLAN, the services a call will try, and to   *)
(* the ATTEMPTS made along it: one after the other (a walk) or side by     *)
(* side (a race).  The calls share the router's counter, its latency       *)
(* averages and the verdict cache.  The service behind an attempt may      *)
(* answer, fail with a transient or a terminal error, or (in a spawned     *)
(* task) panic, after any time; the caller may drop its future at any time. *)
(***************************************************************************)
EXTENDS Integers, Sequences, FiniteSets

CONSTANTS
  Requests,       \* the calls made, through any number of clones of the service
  N,              \* number of deployments, of services of the chain
  Strategies,     \* the services that are built, one per behaviour
  RawWeights,     \* [1..N -> weight given to Weight::from_f64, in tenths]
  Nanos,          \* subsec_nanos() is below this (10^9 in the code)
  MaxAttempts,    \* attempts asked of FixedDelayHedge::new
  Delay,          \* its delay, in ticks
  Prompts,        \* what the verdict cache tells apart: prompt and system prompt
  Models,         \* what a classifier may name: an index, or a number >= N
                  \* for a name that parses to no index
  KeywordRules,   \* sequence of [on |-> set of prompts, model |-> model]
  NoModel,        \* a classifier's None
  Ttl             \* age up to which a verdict is served

ASSUME CountsAssumption ==
  /\ N \in Nat \ {0} /\ Nanos \in Nat \ {0}
  /\ MaxAttempts \in Nat /\ Delay \in Nat /\ Ttl \in Nat
ASSUME ModelsAssumption == Models \subseteq Nat /\ NoModel \notin Models
ASSUME RulesAssumption == KeywordRules \in Seq([on : SUBSET Prompts, model : Models])
ASSUME WeightsAssumption == RawWeights \in Seq(Int)
ASSUME RequestsAssumption == IsFiniteSet(Requests) /\ Prompts # {}
ASSUME PairAssumption == "pair" \in Strategies => N >= 2   \* FallbackService has two

VARIABLES
  strategy,       \* the service under test; it never changes
  counter,        \* Router.counter, shared by the clones
  metrics,        \* RouterState.metrics: [ema, count] of every deployment
  verdicts,       \* ClassifierVerdictCache.cache: prompt -> [model, age]
  req             \* the calls, see Request

vars == <<strategy, counter, metrics, verdicts, req>>

Targets == 1..N

\* Weight::from_f64 of a number of tenths; infinities and NaN are left out.
WeightOf(tenths) == IF tenths < 0 THEN 0 ELSE (tenths + 5) \div 10

\* The largest threshold below which the deployments 1..i are selected.
Cumulative[i \in 0..N] == IF i = 0 THEN 0 ELSE Cumulative[i - 1] + WeightOf(RawWeights[i])

\* Router::new: what it refuses to build.
Builds(s) == s = "weighted" => Len(RawWeights) = N /\ Cumulative[N] > 0

\* weighted_random_select: the first deployment whose cumulated weight
\* exceeds the clock's nanoseconds modulo the total.
WeightedSelect(nanos) ==
  CHOOSE i \in Targets : /\ nanos % Cumulative[N] < Cumulative[i]
                         /\ \A j \in 1..(i - 1) : nanos % Cumulative[N] >= Cumulative[j]

\* FixedDelayHedge::new raises the number of attempts to one.
HedgeAttempts == IF MaxAttempts < 1 THEN 1 ELSE MaxAttempts

\* FixedDelayHedge::delay_for_attempt.
DelayFor(attempt) == Delay * (attempt - 1)

Horizon == IF Ttl + 1 > DelayFor(HedgeAttempts) THEN Ttl + 1 ELSE DelayFor(HedgeAttempts)

-----------------------------------------------------------------------------
(* The latency averages.  Latencies are ticks, averages hundredths of one:  *)
(* exact for the two smoothed samples the instances take.                  *)

\* DeploymentMetrics::record_latency.
RecordLatency(m, ticks) ==
  [ema |-> IF m.count = 0 THEN 100 * ticks ELSE (3 * 100 * ticks + 7 * m.ema) \div 10,
   count |-> m.count + 1]

\* A deployment without a sample counts as the slowest.
FastestMeasured ==
  CHOOSE i \in Targets :
    \A j \in Targets : /\ metrics[i].count > 0 \/ metrics[j].count = 0
                       /\ metrics[j].count > 0 /\ metrics[i].count > 0 => metrics[i].ema <= metrics[j].ema

\* The deployment LatencyBased picks: the first of those with the smallest
\* average, where one without a sample has 0.
Fastest ==
  CHOOSE i \in Targets :
    \A j \in Targets : /\ metrics[i].ema <= metrics[j].ema
                       /\ metrics[j].ema = metrics[i].ema => i <= j

-----------------------------------------------------------------------------
(* The classifiers.                                                        *)

\* KeywordClassifier::classify: the first rule whose pattern matches.
KeywordVerdict(p) ==
  LET hits == {i \in DOMAIN KeywordRules : p \in KeywordRules[i].on} IN
  IF hits = {} THEN NoModel
  ELSE KeywordRules[CHOOSE i \in hits : \A j \in hits : i <= j].model

\* EmbeddingSimilarityClassifier::classify: the vectors come from a provider,
\* so any prototype's model may win; an error or a low score defers.
EmbeddingVerdicts == Models \cup {NoModel}

\* LlmClassifier::classify keeps an answer only if it names an offered model.
LlmVerdicts == {m \in Models : m < N} \cup {NoModel}

\* CascadeClassifier::classify over the three: the first verdict counts.
CascadeVerdicts(p) ==
  IF KeywordVerdict(p) # NoModel THEN {KeywordVerdict(p)}
  ELSE (EmbeddingVerdicts \ {NoModel}) \cup LlmVerdicts

\* ClassifierVerdictCache::get_cached: an expired entry stays but is not served.
Cached(p) == verdicts[p].model # NoModel /\ verdicts[p].age <= Ttl

-----------------------------------------------------------------------------
(* A call.  att[k] is the state of attempt k of the plan; order lists the   *)
(* attempts of a race as their tasks end, read counts those hedge_race has  *)
(* taken with join_next; answer is the attempt the caller got.             *)

Results == {"ok", "transient", "terminal"}
Failures == {"transient", "terminal", "panic"}
Statuses == {"none", "sleeping", "running", "aborted"} \cup Results \cup {"panic"}

Request ==
  [st : {"idle", "called", "classifying", "walking", "racing", "done", "dropped"},
   plan : Seq(Targets), att : Seq(Statuses), order : Seq(Nat), read : Nat,
   answer : Nat, elapsed : 0..Horizon, prompt : Prompts]

NewRequest(p) ==
  [st |-> "idle", plan |-> <<>>, att |-> <<>>, order |-> <<>>, read |-> 0,
   answer |-> 0, elapsed |-> 0, prompt |-> p]

Races == strategy = "hedge" /\ HedgeAttempts > 1

\* The first poll: the walk starts its first attempt; the race spawns all of
\* them, the hedges asleep until their delay.
Started(q, plan) ==
  [q EXCEPT !.st = IF Races THEN "racing" ELSE "walking",
            !.plan = plan,
            !.elapsed = 0,
            !.att = [k \in DOMAIN plan |-> CASE k = 1 -> "running"
                                             [] k > 1 /\ Races -> "sleeping"
                                             [] OTHER -> "none"]]

\* The call ends with the result of attempt k; abort_all, or the drop of the
\* JoinSet or of the future, stops every other attempt.
Aborted(att) == [k \in DOMAIN att |-> IF att[k] \in {"running", "sleeping"} THEN "aborted" ELSE att[k]]
Answered(q, k) == [q EXCEPT !.st = "done", !.answer = k, !.att = Aborted(@)]

Init ==
  /\ strategy \in {s \in Strategies : Builds(s)}
  /\ counter = 0
  /\ metrics = [t \in Targets |-> [ema |-> 0, count |-> 0]]
  /\ verdicts = [p \in Prompts |-> [model |-> NoModel, age |-> 0]]
  /\ req = [r \in Requests |-> NewRequest(CHOOSE p \in Prompts : TRUE)]

-----------------------------------------------------------------------------
(* call(): what is decided before the future is first polled.              *)

\* The deployment whose turn it is.
Turn == (counter % N) + 1

Goes(r, plan) == req' = [req EXCEPT ![r].st = "called", ![r].plan = plan]

\* The strategies that try every service in order: Fallback, CostBased, the
\* chain, and the pair of a primary and its fallback.
InOrder == [fallback |-> N, cost |-> N, chain |-> N, pair |-> 2]

CallInOrder(r) ==
  /\ strategy \in DOMAIN InOrder
  /\ Goes(r, [k \in 1..InOrder[strategy] |-> k])
  /\ UNCHANGED counter

\* The counter is not shared by the clones.
CallRoundRobinUnshared(r) ==
  /\ strategy = "round_robin"
  /\ Goes(r, <<Turn>>)
  /\ counter' \in {counter, counter + 1}

CallRoundRobin(r) ==
  /\ strategy = "round_robin"
  /\ Goes(r, <<Turn>>)
  /\ counter' = counter + 1

CallLatencyBased(r) ==
  /\ strategy = "latency"
  /\ Goes(r, <<Fastest>>)
  /\ UNCHANGED counter

CallWeighted(r) ==
  /\ strategy = "weighted"
  /\ \E nanos \in 0..(Nanos - 1) : Goes(r, <<WeightedSelect(nanos)>>)
  /\ UNCHANGED counter

CallSemantic(r) ==
  /\ strategy = "semantic"
  /\ \E p \in Prompts : req' = [req EXCEPT ![r].st = "called", ![r].prompt = p]
  /\ UNCHANGED counter

\* Every attempt of a hedged call goes to a clone of the one inner service.
CallHedged(r) ==
  /\ strategy = "hedge"
  /\ Goes(r, [k \in 1..HedgeAttempts |-> 1])
  /\ UNCHANGED counter

\* Bound: calls that share no state of the service are made one at a time.
Sharing == {"round_robin", "latency", "semantic"}

Call(r) ==
  /\ req[r].st = "idle"
  /\ strategy \in Sharing \/ \A other \in Requests : req[other].st = "idle"
  /\ \/ CallInOrder(r) \/ CallRoundRobin(r) \/ CallLatencyBased(r)
     \/ CallWeighted(r) \/ CallSemantic(r) \/ CallHedged(r)
  /\ UNCHANGED <<strategy, metrics, verdicts>>

-----------------------------------------------------------------------------
(* The future.                                                             *)

FirstPoll(r) ==
  /\ req[r].st = "called" /\ strategy # "semantic"
  /\ req' = [req EXCEPT ![r] = Started(@, @.plan)]
  /\ UNCHANGED <<strategy, counter, metrics, verdicts>>

\* The index a classifier names is not checked against the deployments.
RouteToUnchecked(r, m) ==
  LET known == m # NoModel IN
  /\ req' = [req EXCEPT ![r] = Started(@, <<IF known THEN m + 1 ELSE Turn>>)]
  /\ counter' = IF known THEN counter ELSE counter + 1

\* A verdict that is no index below N falls back to the round robin.
RouteTo(r, m) ==
  LET known == m \in 0..(N - 1) IN
  /\ req' = [req EXCEPT ![r] = Started(@, <<IF known THEN m + 1 ELSE Turn>>)]
  /\ counter' = IF known THEN counter ELSE counter + 1

VerdictHit(r) ==
  /\ req[r].st = "called" /\ strategy = "semantic"
  /\ Cached(req[r].prompt)
  /\ RouteTo(r, verdicts[req[r].prompt].model)
  /\ UNCHANGED <<strategy, metrics, verdicts>>

VerdictMiss(r) ==
  /\ req[r].st = "called" /\ strategy = "semantic"
  /\ ~Cached(req[r].prompt)
  /\ req' = [req EXCEPT ![r].st = "classifying"]
  /\ UNCHANGED <<strategy, counter, metrics, verdicts>>

\* The inner classifier answers, some awaits later; put_cached overwrites
\* what another call may have put meanwhile.
Classify(r) ==
  /\ req[r].st = "classifying"
  /\ \E m \in CascadeVerdicts(req[r].prompt) :
       /\ verdicts' = IF m = NoModel THEN verdicts
                      ELSE [verdicts EXCEPT ![req[r].prompt] = [model |-> m, age |-> 0]]
       /\ RouteTo(r, m)
  /\ UNCHANGED <<strategy, metrics>>

\* A terminal error moves the walk on.
WalkOn(r, k) ==
  /\ req[r].st = "walking" /\ req[r].att[k] = "running"
  /\ \E res \in Results :
       LET seen == [req[r] EXCEPT !.att[k] = res] IN
       req' = [req EXCEPT ![r] =
         IF res # "ok" /\ k < Len(seen.plan)
         THEN [seen EXCEPT !.att[k + 1] = "running"]
         ELSE Answered(seen, k)]
  /\ metrics' = IF strategy = "latency"
                THEN [metrics EXCEPT ![req[r].plan[k]] = RecordLatency(@, req[r].elapsed)]
                ELSE metrics
  /\ UNCHANGED <<strategy, counter, verdicts>>

\* Attempt k of a walk ends.  A success or a terminal error ends the walk, a
\* transient error moves it on; only the last transient error is returned.
\* The error may come from the service's poll_ready as well.
Walk(r, k) ==
  /\ req[r].st = "walking" /\ req[r].att[k] = "running"
  /\ \E res \in Results :
       LET seen == [req[r] EXCEPT !.att[k] = res] IN
       req' = [req EXCEPT ![r] =
         IF res = "transient" /\ k < Len(seen.plan)
         THEN [seen EXCEPT !.att[k + 1] = "running"]
         ELSE Answered(seen, k)]
  /\ metrics' = IF strategy = "latency"
                THEN [metrics EXCEPT ![req[r].plan[k]] = RecordLatency(@, req[r].elapsed)]
                ELSE metrics
  /\ UNCHANGED <<strategy, counter, verdicts>>

\* A hedge is launched only while an earlier attempt still runs, although the
\* race waits for it.
LaunchBehind(r, k) ==
  /\ req[r].st = "racing" /\ req[r].att[k] = "sleeping"
  /\ req[r].elapsed >= DelayFor(k)
  /\ \E j \in 1..(k - 1) : req[r].att[j] = "running"
  /\ req' = [req EXCEPT ![r].att[k] = "running"]
  /\ UNCHANGED <<strategy, counter, metrics, verdicts>>

\* A hedge's sleep is over: it waits for its service and calls it.
Launch(r, k) ==
  /\ req[r].st = "racing" /\ req[r].att[k] = "sleeping"
  /\ req[r].elapsed >= DelayFor(k)
  /\ req' = [req EXCEPT ![r].att[k] = "running"]
  /\ UNCHANGED <<strategy, counter, metrics, verdicts>>

\* A spawned attempt ends, on a runtime thread of its own.
TaskEnds(r, k) ==
  /\ req[r].st = "racing" /\ req[r].att[k] = "running"
  /\ \E res \in Results \cup {"panic"} :
       req' = [req EXCEPT ![r].att[k] = res, ![r].order = Append(@, k)]
  /\ UNCHANGED <<strategy, counter, metrics, verdicts>>

\* A terminal error ends the race while other attempts still run.
JoinFirst(r) ==
  /\ req[r].st = "racing" /\ req[r].read < Len(req[r].order)
  /\ LET k == req[r].order[req[r].read + 1]
         q == [req[r] EXCEPT !.read = @ + 1]
     IN req' = [req EXCEPT ![r] =
          IF q.att[k] \in {"ok", "terminal"} \/ q.read = Len(q.plan) THEN Answered(q, k) ELSE q]
  /\ UNCHANGED <<strategy, counter, metrics, verdicts>>

\* join_next: a success answers the call; an error is kept, and returned when
\* it was the last.
JoinNext(r) ==
  /\ req[r].st = "racing" /\ req[r].read < Len(req[r].order)
  /\ LET k == req[r].order[req[r].read + 1]
         q == [req[r] EXCEPT !.read = @ + 1]
     IN req' = [req EXCEPT ![r] =
          IF q.att[k] = "ok" \/ q.read = Len(q.plan) THEN Answered(q, k) ELSE q]
  /\ UNCHANGED <<strategy, counter, metrics, verdicts>>

\* The caller drops the future, polled or not: LatencyBased records nothing.
Drop(r) ==
  /\ req[r].st \in {"called", "classifying", "walking", "racing"}
  /\ req' = [req EXCEPT ![r].st = "dropped", ![r].att = Aborted(@)]
  /\ UNCHANGED <<strategy, counter, metrics, verdicts>>

\* A tick ages what the strategy looks at: the verdicts, or the call's time
\* under way.  Ages saturate where they no longer change any decision.
Older(n) == IF n < Horizon THEN n + 1 ELSE n
Tick ==
  /\ \E r \in Requests : req[r].st \notin {"idle", "done", "dropped"}
  /\ \/ /\ strategy = "semantic"
        /\ verdicts' = [p \in Prompts |-> [verdicts[p] EXCEPT !.age = Older(@)]]
        /\ UNCHANGED req
     \/ /\ strategy \in {"latency", "hedge"}
        /\ req' = [r \in Requests |-> IF req[r].st \in {"walking", "racing"}
                                      THEN [req[r] EXCEPT !.elapsed = Older(@)] ELSE req[r]]
        /\ UNCHANGED verdicts
  /\ UNCHANGED <<strategy, counter, metrics>>

Proceeds(r) ==
  \/ FirstPoll(r) \/ VerdictHit(r) \/ VerdictMiss(r) \/ Classify(r) \/ JoinNext(r)
  \/ \E k \in DOMAIN req[r].att : Walk(r, k) \/ Launch(r, k) \/ TaskEnds(r, k)

Next == Tick \/ \E r \in Requests : Call(r) \/ Proceeds(r) \/ Drop(r)

Fairness == WF_vars(Tick) /\ \A r \in Requests : WF_vars(Proceeds(r))

Spec == Init /\ [][Next]_vars
FairSpec == Spec /\ Fairness

-----------------------------------------------------------------------------
(* Properties.                                                             *)

\* Types: the shared state and every call keep their shape.
TypeOK ==
  /\ strategy \in Strategies
  /\ counter \in Nat
  /\ metrics \in [Targets -> [ema : Nat, count : Nat]]
  /\ verdicts \in [Prompts -> [model : Models \cup {NoModel}, age : 0..Horizon]]
  /\ req \in [Requests -> Request]
  /\ \A r \in Requests : req[r].st \notin {"idle", "called", "classifying", "dropped"} =>
       DOMAIN req[r].att = DOMAIN req[r].plan

\* No call goes to a deployment that does not exist, or to one of weight 0:
\* deployments[idx] of Router::call would panic, whatever the classifier, the
\* verdict cache (which other routers may share) or the clock says.
NoStrayTarget ==
  /\ TypeOK
  /\ \A r \in Requests : \A k \in DOMAIN req[r].plan :
       /\ req[r].plan[k] \in Targets
       /\ strategy = "weighted" => WeightOf(RawWeights[req[r].plan[k]]) > 0

\* Round robin: however the calls of the clones overlap, are dropped or fail,
\* two deployments never differ by more than one call.
RoundRobinBalanced ==
  strategy = "round_robin" =>
    LET Share(t) == Cardinality({r \in Requests : req[r].plan = <<t>>}) IN
    \A t, u \in Targets : Share(t) - Share(u) <= 1

\* A walk (Fallback, CostBased, chain, pair) made its attempts in order, each
\* after a transient error of the one before, and answers with its last one:
\* an error is transient only when no service was left to try.
WalkOutcome ==
  \A r \in Requests :
    (req[r].st \in {"walking", "done"} /\ ~Races) =>
      LET att == req[r].att
          made == {k \in DOMAIN att : att[k] # "none"}
      IN /\ \A k \in made : \A j \in 1..(k - 1) : att[j] = "transient"
         /\ req[r].st = "done" =>
              /\ made = 1..req[r].answer
              /\ att[req[r].answer] = "transient" => req[r].answer = Len(req[r].plan)

\* A hedged call is answered by the first of its attempts to succeed, and fails
\* only when every attempt has been made and has failed; then its error is
\* that of the last to end.  No attempt outlives the call.
HedgeOutcome ==
  \A r \in Requests : Races /\ req[r].st \in {"done", "dropped"} =>
    LET q == req[r] IN
    /\ \A k \in DOMAIN q.att : q.att[k] \notin {"running", "sleeping"}
    /\ q.st = "done" =>
         /\ q.answer = q.order[q.read]
         /\ \A i \in 1..(q.read - 1) : q.att[q.order[i]] \in Failures
         /\ q.att[q.answer] # "ok" => q.read = HedgeAttempts

\* LatencyBased sends no call to a deployment whose average is positive while
\* another has never answered: every deployment gets measured.
LatencyExplores ==
  [][\A r \in Requests :
       strategy = "latency" /\ req[r].st = "idle" /\ req'[r].st = "called" =>
         (metrics[req'[r].plan[1]].ema > 0 => \A t \in Targets : metrics[t].count > 0)]_vars

\* Every call ends, answered or dropped, if its attempts end: no walk, race or
\* classification waits for something that does not come.
EveryCallEnds ==
  \A r \in Requests : req[r].st = "called" ~> req[r].st \in {"done", "dropped"}
=============================================================================
