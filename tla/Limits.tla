------------------------------- MODULE Limits -------------------------------
(***************************************************************************)
(* The budget (src/src/tower/budget.rs, BudgetService with hard            *)
(* enforcement) around the per-model rate limit                            *)
(* (src/src/tower/rate_limit.rs), in the order in which ManagedClient      *)
(* stacks them.  Both check a request when it starts and charge it when    *)
(* its response arrives.                                                   *)
(*                                                                         *)
(* Requests run on several threads.  Each atomic counter access and each   *)
(* use of a locked rate entry is one step; other threads go on in between. *)
(* BudgetState::reset() runs at any time, in steps of its own.             *)
(*                                                                         *)
(* Money is counted in the millionths BudgetState stores.  What a response *)
(* costs is any amount: prices come from a registry that is refreshed      *)
(* while requests run.  Time is the age of a window, which is compared     *)
(* with Window only and saturates there; a model without an entry is one   *)
(* whose window has expired.                                               *)
(***************************************************************************)
EXTENDS Integers, FiniteSets

CONSTANTS
    Requests,       \* requests in flight, reused for ever
    Models,
    GlobalLimit,    \* BudgetConfig.global_limit
    ModelLimit,     \* BudgetConfig.model_limits: a function of some models
    Rpm, Tpm,       \* RateLimitConfig.rpm and tpm
    Window,         \* RateLimitConfig.window, in ticks
    MaxCost,        \* the most one response costs
    MaxTokens,      \* the most tokens one response uses
    NoModel

ASSUME LimitsAssumption ==
    /\ GlobalLimit \in Nat /\ Rpm \in Nat /\ Tpm \in Nat /\ Window \in Nat
    /\ DOMAIN ModelLimit \subseteq Models
    /\ \A m \in DOMAIN ModelLimit : ModelLimit[m] \in Nat
ASSUME UsageAssumption == MaxCost \in Nat \ {0} /\ MaxTokens \in Nat \ {0}
ASSUME RequestsAssumption == IsFiniteSet(Requests) /\ Requests # {}
ASSUME NoModelAssumption == NoModel \notin Models

VARIABLES
    globalSpend,    \* BudgetState.global_spend
    modelSpend,     \* BudgetState.model_spend, 0 where the map has no entry
    clearing,       \* a reset() has still to clear model_spend
    rate,           \* ModelRateState of every model
    pc,             \* where each request is
    model,          \* the model of each request under way
    cost,           \* the cost a request is about to record
    watch           \* history: what an observer has counted, see Observe

budgetVars == <<globalSpend, modelSpend, clearing>>
requestVars == <<pc, model, cost>>
vars == <<budgetVars, rate, requestVars, watch>>

RateState == [requests : 0..Rpm, tokens : Nat, age : 0..Window]

TypeOK ==
    /\ globalSpend \in Nat
    /\ modelSpend \in [Models -> Nat]
    /\ clearing \in BOOLEAN
    /\ rate \in [Models -> RateState]
    /\ pc \in [Requests -> {"idle", "model", "rate", "running", "global", "spend"}]
    /\ model \in [Requests -> Models \cup {NoModel}]
    /\ \A r \in Requests : model[r] = NoModel <=> pc[r] = "idle"
    /\ cost \in [Requests -> 0..MaxCost]
    /\ watch \in [model : Models, age : 0..Window, admitted : Nat]

NewWatch == [model : Models, age : {0}, admitted : {0}]

Init ==
    /\ globalSpend = 0
    /\ modelSpend = [m \in Models |-> 0]
    /\ clearing = FALSE
    /\ rate = [m \in Models |-> [requests |-> 0, tokens |-> 0, age |-> Window]]
    /\ pc = [r \in Requests |-> "idle"]
    /\ model = [r \in Requests |-> NoModel]
    /\ cost = [r \in Requests |-> 0]
    /\ watch \in NewWatch

Goes(r, from, to) ==
    /\ pc[r] = from
    /\ pc' = [pc EXCEPT ![r] = to]
    /\ UNCHANGED model

Ends(r, from) ==
    /\ pc[r] = from
    /\ pc' = [pc EXCEPT ![r] = "idle"]
    /\ model' = [model EXCEPT ![r] = NoModel]

----------------------------------------------------------------------------
(* The rate limit: what a thread does while it holds a model's entry.      *)

FreshKeepingStart(m) ==
    IF rate[m].age >= Window
    THEN [rate[m] EXCEPT !.requests = 0, !.tokens = 0]
    ELSE rate[m]

\* The entry after maybe_reset().
Fresh(m) ==
    IF rate[m].age >= Window
    THEN [requests |-> 0, tokens |-> 0, age |-> 0]
    ELSE rate[m]

AcceptableAtTpm(entry) == entry.requests < Rpm /\ entry.tokens <= Tpm

Acceptable(entry) == entry.requests < Rpm /\ entry.tokens < Tpm

----------------------------------------------------------------------------
(* History: an observer of any model starts at any tick and counts the     *)
(* requests the rate limit lets through until a window length has passed.  *)

Observe(m) ==
    watch' = IF m = watch.model /\ watch.age < Window
             THEN [watch EXCEPT !.admitted = @ + 1]
             ELSE watch

----------------------------------------------------------------------------
(* A request's call(): both checks of the budget, then the rate limit.     *)

\* check_budget(), the global half.  A request that is rejected here or by
\* CheckModel leaves no trace and is not a step.
CheckGlobal(r, m) ==
    /\ pc[r] = "idle"
    /\ globalSpend < GlobalLimit
    /\ pc' = [pc EXCEPT ![r] = "model"]
    /\ model' = [model EXCEPT ![r] = m]
    /\ UNCHANGED <<budgetVars, rate, cost, watch>>

AtModelLimit(m) ==
    m \in DOMAIN ModelLimit => modelSpend[m] <= ModelLimit[m]

BelowModelLimit(m) == m \in DOMAIN ModelLimit => modelSpend[m] < ModelLimit[m]

\* check_budget(), the model's half.
CheckModel(r) ==
    /\ \/ BelowModelLimit(model[r]) /\ Goes(r, "model", "rate")
       \/ ~BelowModelLimit(model[r]) /\ Ends(r, "model")
    /\ UNCHANGED <<budgetVars, rate, cost, watch>>

\* ModelRateLimitService::call(), under the entry's lock.
Admit(r) ==
    LET m == model[r]
        entry == Fresh(m)
    IN  /\ Goes(r, "rate", "running")
        /\ Acceptable(entry)
        /\ rate' = [rate EXCEPT ![m] = [entry EXCEPT !.requests = @ + 1]]
        /\ Observe(m)
        /\ UNCHANGED <<budgetVars, cost>>

\* The same, answering RateLimited; the window may have been renewed.
Refuse(r) ==
    LET m == model[r]
    IN  /\ Ends(r, "rate")
        /\ ~Acceptable(Fresh(m))
        /\ rate' = [rate EXCEPT ![m] = Fresh(m)]
        /\ UNCHANGED <<budgetVars, cost, watch>>

----------------------------------------------------------------------------
(* The end of a request.                                                   *)

\* It fails, is dropped, or its response has no usage (streams have none):
\* nothing is charged and nothing given back.
EndUncharged(r) ==
    /\ Ends(r, "running")
    /\ UNCHANGED <<budgetVars, rate, cost, watch>>

\* The tokens of the response are charged to the window of now; then the
\* budget prices them, or knows no price and records nothing.
Charge(r, tokens) ==
    LET m == model[r]
    IN  /\ \/ \E c \in 0..MaxCost :
                 Goes(r, "running", "global") /\ cost' = [cost EXCEPT ![r] = c]
           \/ Ends(r, "running") /\ UNCHANGED cost
        /\ rate' = [rate EXCEPT ![m] = [Fresh(m) EXCEPT !.tokens = @ + tokens]]
        /\ UNCHANGED <<budgetVars, watch>>

\* BudgetState::record(), the global counter.
RecordGlobal(r) ==
    /\ Goes(r, "global", "spend")
    /\ globalSpend' = globalSpend + cost[r]
    /\ UNCHANGED <<modelSpend, clearing, rate, cost, watch>>

\* BudgetState::record(), the model's counter.
RecordModel(r) ==
    /\ Ends(r, "spend")
    /\ modelSpend' = [modelSpend EXCEPT ![model[r]] = @ + cost[r]]
    /\ cost' = [cost EXCEPT ![r] = 0]
    /\ UNCHANGED <<globalSpend, clearing, rate, watch>>

----------------------------------------------------------------------------
(* BudgetState::reset(), and time.                                         *)

ResetGlobal ==
    /\ globalSpend' = 0
    /\ clearing' = TRUE
    /\ UNCHANGED <<modelSpend, rate, requestVars, watch>>

\* clear() empties the map shard by shard; that no step sees two models'
\* spend makes it one step.
ResetModels ==
    /\ clearing
    /\ clearing' = FALSE
    /\ modelSpend' = [m \in Models |-> 0]
    /\ UNCHANGED <<globalSpend, rate, requestVars, watch>>

Older(age) == IF age < Window THEN age + 1 ELSE age

Tick ==
    /\ rate' = [m \in Models |-> [rate[m] EXCEPT !.age = Older(@)]]
    /\ watch' \in {[watch EXCEPT !.age = Older(@)]} \cup NewWatch
    /\ UNCHANGED <<budgetVars, requestVars>>

RequestStep(r) ==
    \/ \E m \in Models : CheckGlobal(r, m)
    \/ CheckModel(r)
    \/ Admit(r) \/ Refuse(r)
    \/ EndUncharged(r)
    \/ \E tokens \in 0..MaxTokens : Charge(r, tokens)
    \/ RecordGlobal(r) \/ RecordModel(r)

Next ==
    \/ \E r \in Requests : RequestStep(r)
    \/ ResetGlobal
    \/ ResetModels
    \/ Tick

Spec == Init /\ [][Next]_vars

----------------------------------------------------------------------------
(* Properties.                                                             *)

\* What N requests that passed a check against a limit may still add.
Excess(limit, most) == limit - 1 + Cardinality(Requests) * most

\* Hard enforcement checks what has been recorded, not what is in flight,
\* and the global and the model's check read different moments.  Still, a
\* budget is exceeded by at most what the requests in flight cost: resets
\* and late records cannot add up to more.
OverspendBounded ==
    /\ GlobalLimit > 0 => globalSpend <= Excess(GlobalLimit, MaxCost)
    /\ \A m \in DOMAIN ModelLimit :
          ModelLimit[m] > 0 => modelSpend[m] <= Excess(ModelLimit[m], MaxCost)

\* Tokens are charged when the response arrives, perhaps to a later window
\* than the one that admitted the request: a window holds at most what the
\* requests in flight, of whatever window, may bring.
TokensBounded ==
    Tpm > 0 => \A m \in Models : rate[m].tokens <= Excess(Tpm, MaxTokens)

\* Windows start at the first request after an expiry, so an interval as
\* long as a window meets at most two of them: wherever it starts, no more
\* than 2 * rpm requests of a model go through in it.
SlidingRpm ==
    watch.age < Window => watch.admitted <= 2 * Rpm

=============================================================================
