---------------------------- MODULE LimitsProofs ----------------------------
(***************************************************************************)
(* The bounds of Limits for any number of requests and models, any limits, *)
(* window, costs and token counts; and of SpendWindow: no spend is lost    *)
(* and the counter does not wrap, for any number of threads, any window    *)
(* and any amounts, as long as no call lasts a whole window.               *)
(***************************************************************************)
EXTENDS Limits, SpendWindow, FiniteSetTheorems, TLAPS

USE LimitsAssumption, UsageAssumption, NoModelAssumption
    DEF LimitsAssumption, UsageAssumption, NoModelAssumption

LEMMA LimitsInit == Init => TypeOK
<1> SUFFICES ASSUME Init PROVE TypeOK
  OBVIOUS
<1>1. [requests |-> 0, tokens |-> 0, age |-> Window] \in RateState
  BY DEF RateState
<1>2. watch \in [model : Models, age : 0..Window, admitted : Nat]
  BY DEF Init, NewWatch
<1>3. rate \in [Models -> RateState]
  BY <1>1 DEF Init
<1>4. cost \in [Requests -> 0..MaxCost] /\ modelSpend \in [Models -> Nat]
  BY DEF Init
<1>5. /\ model \in [Requests -> Models \cup {NoModel}]
      /\ \A r \in Requests : model[r] = NoModel <=> pc[r] = "idle"
  BY DEF Init
<1> QED
  BY <1>2, <1>3, <1>4, <1>5 DEF Init, TypeOK

\* A rate entry stays one through a renewal of its window.
LEMMA FreshType ==
    ASSUME TypeOK, NEW m \in Models
    PROVE  /\ Fresh(m) \in RateState
           /\ \/ Fresh(m) = rate[m] /\ rate[m].age < Window
              \/ /\ rate[m].age >= Window
                 /\ Fresh(m).requests = 0 /\ Fresh(m).tokens = 0 /\ Fresh(m).age = 0
<1>1. rate[m] \in RateState
  BY DEF TypeOK
<1> DEFINE renewed == [requests |-> 0, tokens |-> 0, age |-> 0]
<1>2. /\ renewed \in RateState
      /\ renewed.requests = 0 /\ renewed.tokens = 0 /\ renewed.age = 0
  BY DEF RateState
<1>3. CASE rate[m].age >= Window
  <2>1. Fresh(m) = renewed
    BY <1>3 DEF Fresh
  <2> HIDE DEF renewed
  <2> QED
    BY <1>2, <1>3, <2>1
<1>4. CASE ~(rate[m].age >= Window)
  BY <1>1, <1>4 DEF Fresh, RateState
<1> QED
  BY <1>3, <1>4

LEMMA LimitsTypeStep == TypeOK /\ [Next]_vars => TypeOK'
<1> SUFFICES ASSUME TypeOK, [Next]_vars PROVE TypeOK'
  OBVIOUS
<1> USE DEF TypeOK, budgetVars, requestVars
<1>1. ASSUME NEW r \in Requests, NEW m \in Models, CheckGlobal(r, m) PROVE TypeOK'
  BY <1>1 DEF CheckGlobal
<1>2. ASSUME NEW r \in Requests, CheckModel(r) PROVE TypeOK'
  BY <1>2 DEF CheckModel, Goes, Ends
<1>3. ASSUME NEW r \in Requests, Admit(r) PROVE TypeOK'
  <2>1. model[r] \in Models
    BY <1>3 DEF Admit, Goes
  <2> DEFINE entry == Fresh(model[r])
  <2>2. entry \in RateState /\ entry.requests < Rpm
    BY <1>3, <2>1, FreshType DEF Admit, Acceptable
  <2>3. [entry EXCEPT !.requests = @ + 1] \in RateState
    BY <2>2 DEF RateState
  <2>4. rate' \in [Models -> RateState]
    BY <1>3, <2>3 DEF Admit
  <2>5. watch' \in [model : Models, age : 0..Window, admitted : Nat]
    BY <1>3 DEF Admit, Observe
  <2> QED
    BY <1>3, <2>4, <2>5 DEF Admit, Goes
<1>4. ASSUME NEW r \in Requests, Refuse(r) PROVE TypeOK'
  <2>1. model[r] \in Models
    BY <1>4 DEF Refuse, Ends
  <2> QED
    BY <1>4, <2>1, FreshType DEF Refuse, Ends
<1>5. ASSUME NEW r \in Requests, EndUncharged(r) PROVE TypeOK'
  BY <1>5 DEF EndUncharged, Ends
<1>6. ASSUME NEW r \in Requests, NEW tokens \in 0..MaxTokens, Charge(r, tokens)
      PROVE TypeOK'
  <2>1. model[r] \in Models
    BY <1>6 DEF Charge, Goes, Ends
  <2>2. [Fresh(model[r]) EXCEPT !.tokens = @ + tokens] \in RateState
    BY <2>1, FreshType DEF RateState
  <2>3. rate' \in [Models -> RateState]
    BY <1>6, <2>2 DEF Charge
  <2>4. CASE Ends(r, "running") /\ UNCHANGED cost
    BY <1>6, <2>3, <2>4 DEF Charge, Ends
  <2>5. ASSUME NEW c \in 0..MaxCost,
               Goes(r, "running", "global"), cost' = [cost EXCEPT ![r] = c]
        PROVE TypeOK'
    BY <1>6, <2>3, <2>5 DEF Charge, Goes
  <2> QED
    BY <1>6, <2>4, <2>5 DEF Charge
<1>7. ASSUME NEW r \in Requests, RecordGlobal(r) PROVE TypeOK'
  BY <1>7 DEF RecordGlobal, Goes
<1>8. ASSUME NEW r \in Requests, RecordModel(r) PROVE TypeOK'
  BY <1>8 DEF RecordModel, Ends
<1>9. CASE ResetGlobal
  BY <1>9 DEF ResetGlobal
<1>10. CASE ResetModels
  <2>1. modelSpend' \in [Models -> Nat]
    BY <1>10 DEF ResetModels
  <2> QED
    BY <1>10, <2>1 DEF ResetModels
<1>11. CASE Tick
  <2>1. \A age \in 0..Window : Older(age) \in 0..Window
    BY DEF Older
  <2>2. ASSUME NEW m \in Models
        PROVE  [rate[m] EXCEPT !.age = Older(@)] \in RateState
    BY <2>1 DEF RateState
  <2>3. rate' \in [Models -> RateState]
    BY <1>11, <2>2 DEF Tick
  <2>4. watch' \in [model : Models, age : 0..Window, admitted : Nat]
    BY <1>11, <2>1 DEF Tick, NewWatch
  <2> QED
    BY <1>11, <2>3, <2>4 DEF Tick
<1>12. CASE UNCHANGED vars
  BY <1>12 DEF vars
<1> QED
  BY <1>1, <1>2, <1>3, <1>4, <1>5, <1>6, <1>7, <1>8, <1>9, <1>10, <1>11, <1>12
  DEF Next, RequestStep

\* The types, among them that no window admits more than rpm requests
\* (RateState), hold in every reachable state.
THEOREM LimitsTypes == Spec => []TypeOK
  BY LimitsInit, LimitsTypeStep, PTL DEF Spec

(***************************************************************************)
(* Requests in flight against a limit.  A counter that is checked before a *)
(* request joins a set, and grows by at most `most` when it leaves it, is  *)
(* bounded together with what the members of the set may still add.        *)
(***************************************************************************)
Room(spent, flying, limit, most) ==
    spent + Cardinality(flying) * most <= Excess(limit, most)

LEMMA CountRequests ==
    ASSUME NEW S \in SUBSET Requests
    PROVE  Cardinality(S) \in Nat /\ Cardinality(S) <= Cardinality(Requests)
  BY RequestsAssumption, FS_Subset, FS_CardinalityType DEF RequestsAssumption

LEMMA RoomBounds ==
    ASSUME NEW S \in SUBSET Requests, NEW spent \in Nat, NEW limit \in Nat,
           NEW most \in Nat, Room(spent, S, limit, most)
    PROVE  spent <= Excess(limit, most)
<1>1. Cardinality(S) * most \in Nat
  BY CountRequests
<1>2. Excess(limit, most) \in Int
  BY CountRequests DEF Excess
<1> QED
  BY <1>1, <1>2 DEF Room

LEMMA RoomWhenBelow ==
    ASSUME NEW S \in SUBSET Requests, NEW spent \in Nat, NEW limit \in Nat,
           NEW most \in Nat, spent < limit
    PROVE  Room(spent, S, limit, most)
<1> DEFINE n == Cardinality(S)
           N == Cardinality(Requests)
<1>1. n \in Nat /\ N \in Nat /\ n <= N
  BY CountRequests
<1> HIDE DEF n, N
<1>2. n * most <= N * most /\ n * most \in Nat /\ N * most \in Nat
  BY <1>1
<1>3. spent + n * most <= limit - 1 + N * most
  BY <1>2
<1> QED
  BY <1>3 DEF Room, Excess, n, N

LEMMA RoomShrinks ==
    ASSUME NEW S \in SUBSET Requests, NEW T \in SUBSET S, NEW spent \in Nat,
           NEW limit \in Nat, NEW most \in Nat, Room(spent, S, limit, most),
           NEW less \in Nat, less <= spent
    PROVE  Room(less, T, limit, most)
<1> DEFINE s == Cardinality(S)
           t == Cardinality(T)
<1>1. s \in Nat /\ t \in Nat /\ t <= s
  BY RequestsAssumption, FS_Subset, FS_CardinalityType DEF RequestsAssumption
<1>2. Excess(limit, most) \in Int
  BY CountRequests DEF Excess
<1> HIDE DEF s, t
<1>3. t * most <= s * most /\ t * most \in Nat /\ s * most \in Nat
  BY <1>1
<1>4. spent + s * most <= Excess(limit, most)
  BY DEF Room, s
<1>5. less + t * most <= Excess(limit, most)
  BY <1>2, <1>3, <1>4
<1> QED
  BY <1>5 DEF Room, t

LEMMA RoomLeave ==
    ASSUME NEW S \in SUBSET Requests, NEW r \in S, NEW spent \in Nat,
           NEW limit \in Nat, NEW most \in Nat, Room(spent, S, limit, most),
           NEW more \in 0..most, NEW less \in Nat, less <= spent
    PROVE  Room(less + more, S \ {r}, limit, most)
<1> DEFINE s == Cardinality(S)
           t == Cardinality(S \ {r})
<1>1. s \in Nat /\ t \in Nat /\ t = s - 1
  BY RequestsAssumption, FS_Subset, FS_CardinalityType, FS_RemoveElement
  DEF RequestsAssumption
<1>2. Excess(limit, most) \in Int
  BY CountRequests DEF Excess
<1> HIDE DEF s, t
<1>3. t * most = s * most - most /\ s * most \in Int
  BY <1>1
<1>4. spent + s * most <= Excess(limit, most)
  BY DEF Room, s
<1>5. less + more + t * most <= Excess(limit, most)
  BY <1>2, <1>3, <1>4
<1> QED
  BY <1>5 DEF Room, t

(***************************************************************************)
(* The budget.  Room for the requests that passed a check and have not     *)
(* recorded yet is what makes OverspendBounded inductive.                  *)
(***************************************************************************)
Committed == {r \in Requests : pc[r] \in {"model", "rate", "running", "global"}}

CommittedTo(m) ==
    {r \in Requests :
        model[r] = m /\ pc[r] \in {"rate", "running", "global", "spend"}}

GlobalRoom ==
    GlobalLimit > 0 => Room(globalSpend, Committed, GlobalLimit, MaxCost)

ModelRoom ==
    \A m \in DOMAIN ModelLimit :
        ModelLimit[m] > 0 =>
            Room(modelSpend[m], CommittedTo(m), ModelLimit[m], MaxCost)

LEMMA GlobalRoomStep == TypeOK /\ GlobalRoom /\ [Next]_vars => GlobalRoom'
<1> SUFFICES ASSUME TypeOK, GlobalRoom, [Next]_vars, GlobalLimit > 0
             PROVE  Room(globalSpend', Committed', GlobalLimit, MaxCost)
  BY DEF GlobalRoom, Room, Excess
<1> USE DEF TypeOK
<1>0. Room(globalSpend, Committed, GlobalLimit, MaxCost)
  BY DEF GlobalRoom
<1>a. Committed \in SUBSET Requests /\ Committed' \in SUBSET Requests
  BY DEF Committed
<1> DEFINE Shrinks == Committed' \subseteq Committed /\ globalSpend' \in {globalSpend, 0}
<1>1. ASSUME Shrinks PROVE Room(globalSpend', Committed', GlobalLimit, MaxCost)
  BY <1>0, <1>a, <1>1, RoomShrinks
<1>2. ASSUME NEW r \in Requests, NEW m \in Models, CheckGlobal(r, m)
      PROVE  Room(globalSpend', Committed', GlobalLimit, MaxCost)
  <2>1. globalSpend < GlobalLimit /\ globalSpend' = globalSpend
    BY <1>2 DEF CheckGlobal, budgetVars
  <2> QED
    BY <2>1, <1>a, RoomWhenBelow
<1>3. ASSUME NEW r \in Requests, RecordGlobal(r)
      PROVE  Room(globalSpend', Committed', GlobalLimit, MaxCost)
  <2>1. Committed' = Committed \ {r} /\ r \in Committed
    BY <1>3 DEF RecordGlobal, Goes, Committed
  <2>2. globalSpend' = globalSpend + cost[r] /\ cost[r] \in 0..MaxCost
    BY <1>3 DEF RecordGlobal
  <2> QED
    BY <1>0, <1>a, <2>1, <2>2, RoomLeave
<1>4. ASSUME NEW r \in Requests,
             CheckModel(r) \/ Admit(r) \/ Refuse(r) \/ EndUncharged(r) \/ RecordModel(r)
      PROVE  Shrinks
  BY <1>4 DEF CheckModel, Admit, Refuse, EndUncharged, RecordModel, Goes, Ends,
              Committed, budgetVars
<1>5. ASSUME NEW r \in Requests, NEW tokens \in 0..MaxTokens, Charge(r, tokens)
      PROVE  Shrinks
  BY <1>5 DEF Charge, Goes, Ends, Committed, budgetVars
<1>6. ASSUME ResetGlobal \/ ResetModels \/ Tick \/ UNCHANGED vars PROVE Shrinks
  BY <1>6 DEF ResetGlobal, ResetModels, Tick, Committed, budgetVars, requestVars, vars
<1> HIDE DEF Shrinks
<1> QED
  BY <1>1, <1>2, <1>3, <1>4, <1>5, <1>6 DEF Next, RequestStep

LEMMA ModelRoomStep == TypeOK /\ ModelRoom /\ [Next]_vars => ModelRoom'
<1> SUFFICES ASSUME TypeOK, ModelRoom, [Next]_vars,
                    NEW m \in DOMAIN ModelLimit, ModelLimit[m] > 0
             PROVE  Room(modelSpend'[m], CommittedTo(m)', ModelLimit[m], MaxCost)
  BY DEF ModelRoom, Room, Excess
<1> USE DEF TypeOK
<1> DEFINE Goal == Room(modelSpend'[m], CommittedTo(m)', ModelLimit[m], MaxCost)
           Shrinks == /\ CommittedTo(m)' \subseteq CommittedTo(m)
                      /\ modelSpend'[m] \in {modelSpend[m], 0}
<1>0. /\ Room(modelSpend[m], CommittedTo(m), ModelLimit[m], MaxCost)
      /\ m \in Models /\ modelSpend[m] \in Nat /\ ModelLimit[m] \in Nat
  BY DEF ModelRoom
<1>a. CommittedTo(m) \in SUBSET Requests /\ CommittedTo(m)' \in SUBSET Requests
  BY DEF CommittedTo
<1>1. ASSUME Shrinks PROVE Goal
  BY <1>0, <1>a, <1>1, RoomShrinks
<1>2. ASSUME NEW r \in Requests, CheckModel(r) PROVE Goal
  <2>1. CASE model[r] = m /\ BelowModelLimit(m)
    BY <1>0, <1>2, <1>a, <2>1, RoomWhenBelow DEF CheckModel, BelowModelLimit, budgetVars
  <2>2. CASE model[r] # m \/ ~BelowModelLimit(model[r])
    <3>1. Shrinks
      BY <1>2, <2>2 DEF CheckModel, Goes, Ends, CommittedTo, budgetVars
    <3> QED
      BY <1>1, <3>1
  <2> QED
    BY <2>1, <2>2
<1>3. ASSUME NEW r \in Requests, RecordModel(r) PROVE Goal
  <2>1. CASE model[r] = m
    <3>1. CommittedTo(m)' = CommittedTo(m) \ {r} /\ r \in CommittedTo(m)
      BY <1>3, <2>1 DEF RecordModel, Ends, CommittedTo
    <3>2. modelSpend'[m] = modelSpend[m] + cost[r] /\ cost[r] \in 0..MaxCost
      BY <1>0, <1>3, <2>1 DEF RecordModel
    <3> QED
      BY <1>0, <1>a, <3>1, <3>2, RoomLeave
  <2>2. CASE model[r] # m
    <3>1. Shrinks
      BY <1>0, <1>3, <2>2 DEF RecordModel, Ends, CommittedTo
    <3> QED
      BY <1>1, <3>1
  <2> QED
    BY <2>1, <2>2
<1>4. ASSUME NEW r \in Requests, NEW n \in Models, CheckGlobal(r, n) PROVE Shrinks
  BY <1>4 DEF CheckGlobal, CommittedTo, budgetVars
<1>5. ASSUME NEW r \in Requests,
             Admit(r) \/ Refuse(r) \/ EndUncharged(r) \/ RecordGlobal(r)
      PROVE  Shrinks
  BY <1>5 DEF Admit, Refuse, EndUncharged, RecordGlobal, Goes, Ends, CommittedTo,
              budgetVars
<1>6. ASSUME NEW r \in Requests, NEW tokens \in 0..MaxTokens, Charge(r, tokens)
      PROVE  Shrinks
  BY <1>6 DEF Charge, Goes, Ends, CommittedTo, budgetVars
<1>7. ASSUME ResetGlobal \/ ResetModels \/ Tick \/ UNCHANGED vars PROVE Shrinks
  BY <1>0, <1>7 DEF ResetGlobal, ResetModels, Tick, CommittedTo, budgetVars, requestVars,
                    vars
<1> HIDE DEF Goal, Shrinks
<1> QED
  BY <1>1, <1>2, <1>3, <1>4, <1>5, <1>6, <1>7 DEF Next, RequestStep, Goal

\* Hard enforcement bounds what is spent: the limit, less one, and what N
\* requests cost, whatever the interleaving of checks, records and resets.
THEOREM SpendIsBounded == Spec => []OverspendBounded
<1>1. ASSUME TypeOK, GlobalRoom, ModelRoom PROVE OverspendBounded
  <2>1. ASSUME GlobalLimit > 0 PROVE globalSpend <= Excess(GlobalLimit, MaxCost)
    BY <1>1, <2>1, RoomBounds DEF GlobalRoom, TypeOK, Committed
  <2>2. ASSUME NEW m \in DOMAIN ModelLimit, ModelLimit[m] > 0
        PROVE  modelSpend[m] <= Excess(ModelLimit[m], MaxCost)
    BY <1>1, <2>2, RoomBounds DEF ModelRoom, TypeOK, CommittedTo
  <2> QED
    BY <2>1, <2>2 DEF OverspendBounded
<1>2. Init => GlobalRoom /\ ModelRoom
  BY RoomWhenBelow DEF Init, GlobalRoom, ModelRoom, Committed, CommittedTo
<1> QED
  BY <1>1, <1>2, LimitsTypes, GlobalRoomStep, ModelRoomStep, PTL DEF Spec

(***************************************************************************)
(* The rate limit.                                                         *)
(***************************************************************************)
Running(m) == {r \in Requests : model[r] = m /\ pc[r] = "running"}

TokenRoom ==
    Tpm > 0 => \A m \in Models : Room(rate[m].tokens, Running(m), Tpm, MaxTokens)

LEMMA TokenRoomStep == TypeOK /\ TypeOK' /\ TokenRoom /\ [Next]_vars => TokenRoom'
<1> SUFFICES ASSUME TypeOK, TypeOK', TokenRoom, [Next]_vars, NEW m \in Models, Tpm > 0
             PROVE  Room(rate'[m].tokens, Running(m)', Tpm, MaxTokens)
  BY DEF TokenRoom, Room, Excess
<1> DEFINE Goal == Room(rate'[m].tokens, Running(m)', Tpm, MaxTokens)
           Shrinks == /\ Running(m)' \subseteq Running(m)
                      /\ rate'[m].tokens <= rate[m].tokens
<1>0. /\ Room(rate[m].tokens, Running(m), Tpm, MaxTokens)
      /\ rate[m].tokens \in Nat /\ rate'[m].tokens \in Nat
  BY DEF TokenRoom, TypeOK, RateState
<1>a. Running(m) \in SUBSET Requests /\ Running(m)' \in SUBSET Requests
  BY DEF Running
<1>f. Fresh(m) \in RateState /\ Fresh(m).tokens \in Nat
      /\ Fresh(m).tokens <= rate[m].tokens
  BY <1>0, FreshType DEF RateState
<1> USE DEF TypeOK
<1>1. ASSUME Shrinks PROVE Goal
  BY <1>0, <1>a, <1>1, RoomShrinks
<1>2. ASSUME NEW r \in Requests, Admit(r) PROVE Goal
  <2>1. CASE model[r] = m
    <3>1. rate'[m].tokens < Tpm
      BY <1>2, <1>f, <2>1 DEF Admit, Acceptable, RateState
    <3> QED
      BY <1>0, <1>a, <3>1, RoomWhenBelow
  <2>2. CASE model[r] # m
    <3>1. Shrinks
      BY <1>0, <1>2, <2>2 DEF Admit, Goes, Running
    <3> QED
      BY <1>1, <3>1
  <2> QED
    BY <2>1, <2>2
<1>3. ASSUME NEW r \in Requests, NEW tokens \in 0..MaxTokens, Charge(r, tokens)
      PROVE  Goal
  <2>1. CASE model[r] = m
    <3>0. Goes(r, "running", "global") \/ Ends(r, "running")
      BY <1>3 DEF Charge
    <3>1. Running(m)' = Running(m) \ {r} /\ r \in Running(m)
      BY <2>1, <3>0 DEF Goes, Ends, Running
    <3>2. rate'[m].tokens = Fresh(m).tokens + tokens
      BY <1>3, <1>f, <2>1 DEF Charge, RateState
    <3>3. Room(Fresh(m).tokens + tokens, Running(m) \ {r}, Tpm, MaxTokens)
      BY <1>0, <1>a, <1>f, <3>1, RoomLeave
    <3> QED
      BY <3>1, <3>2, <3>3
  <2>2. CASE model[r] # m
    <3>1. Shrinks
      BY <1>0, <1>3, <2>2 DEF Charge, Goes, Ends, Running
    <3> QED
      BY <1>1, <3>1
  <2> QED
    BY <2>1, <2>2
<1>4. ASSUME NEW r \in Requests, NEW n \in Models, CheckGlobal(r, n) PROVE Shrinks
  BY <1>0, <1>4 DEF CheckGlobal, Running
<1>5. ASSUME NEW r \in Requests,
             CheckModel(r) \/ EndUncharged(r) \/ RecordGlobal(r) \/ RecordModel(r)
      PROVE  Shrinks
  BY <1>0, <1>5 DEF CheckModel, EndUncharged, RecordGlobal, RecordModel, Goes, Ends,
                    Running
<1>6. ASSUME NEW r \in Requests, Refuse(r) PROVE Shrinks
  <2>1. rate'[m] \in {rate[m], Fresh(m)}
    BY <1>6 DEF Refuse
  <2> QED
    BY <1>0, <1>f, <1>6, <2>1 DEF Refuse, Ends, Running
<1>7. ASSUME ResetGlobal \/ ResetModels \/ UNCHANGED vars PROVE Shrinks
  BY <1>0, <1>7 DEF ResetGlobal, ResetModels, Running, requestVars, vars
<1>8. ASSUME Tick PROVE Shrinks
  <2>1. rate'[m] = [rate[m] EXCEPT !.age = Older(@)] /\ rate[m] \in RateState
    BY <1>8 DEF Tick
  <2>2. rate'[m].tokens = rate[m].tokens
    BY <2>1 DEF RateState
  <2> QED
    BY <1>0, <1>8, <2>2 DEF Tick, Running, requestVars
<1> HIDE DEF Goal, Shrinks
<1> QED
  BY <1>1, <1>2, <1>3, <1>4, <1>5, <1>6, <1>7, <1>8 DEF Next, RequestStep, Goal

\* The tokens charged to a window are bounded although responses are
\* charged to a later window than the one that admitted their request.
THEOREM TokensAreBounded == Spec => []TokensBounded
<1>1. ASSUME TypeOK, TokenRoom PROVE TokensBounded
  <2> SUFFICES ASSUME Tpm > 0, NEW m \in Models
               PROVE  rate[m].tokens <= Excess(Tpm, MaxTokens)
    BY DEF TokensBounded
  <2>1. Running(m) \in SUBSET Requests /\ rate[m].tokens \in Nat
    BY <1>1 DEF TypeOK, RateState, Running
  <2> QED
    BY <1>1, <2>1, RoomBounds DEF TokenRoom
<1>2. Init => TokenRoom
  BY RoomWhenBelow DEF Init, TokenRoom, Running
<1> QED
  BY <1>1, <1>2, LimitsTypes, TokenRoomStep, PTL DEF Spec

\* What the observer counted since it started: at most what the current
\* window admitted or, if the window is younger than the observation, that
\* and a full window before it.
Watched ==
    LET entry == rate[watch.model]
    IN  watch.age < Window =>
            \/ watch.admitted <= entry.requests
            \/ watch.admitted <= Rpm + entry.requests /\ entry.age <= watch.age

LEMMA WatchedStep == TypeOK /\ TypeOK' /\ Watched /\ [Next]_vars => Watched'
<1> SUFFICES ASSUME TypeOK, TypeOK', Watched, [Next]_vars PROVE Watched'
  OBVIOUS
<1> DEFINE w == watch.model
<1>0. /\ w \in Models /\ watch.age \in 0..Window /\ watch.admitted \in Nat
      /\ rate[w] \in RateState /\ Fresh(w) \in RateState
  BY FreshType DEF TypeOK
<1>1. ASSUME watch' = watch, rate'[w] = rate[w] PROVE Watched'
  BY <1>1 DEF Watched
<1>2. ASSUME watch' = watch, rate'[w] = Fresh(w) PROVE Watched'
  BY <1>0, <1>2, FreshType DEF Watched, RateState
<1>3. ASSUME NEW r \in Requests, Admit(r) PROVE Watched'
  <2>1. CASE model[r] # w
    <3>1. watch' = watch /\ rate'[w] = rate[w]
      BY <1>0, <1>3, <2>1 DEF Admit, Observe, TypeOK
    <3> QED
      BY <1>1, <3>1
  <2>2. CASE model[r] = w
    <3> DEFINE entry == Fresh(w)
    <3>1. rate'[w] = [entry EXCEPT !.requests = @ + 1] /\ entry.requests < Rpm
      BY <1>0, <1>3, <2>2 DEF Admit, Acceptable, TypeOK
    <3>2. rate'[w].requests = entry.requests + 1 /\ rate'[w].age = entry.age
      BY <1>0, <3>1 DEF RateState
    <3>3. CASE watch.age < Window
      <4>1. /\ watch'.model = w /\ watch'.age = watch.age
            /\ watch'.admitted = watch.admitted + 1
        BY <1>0, <1>3, <2>2, <3>3 DEF Admit, Observe, TypeOK
      <4> QED
        BY <1>0, <3>2, <3>3, <4>1, FreshType DEF Watched, RateState
    <3>4. CASE ~(watch.age < Window)
      BY <1>3, <2>2, <3>4 DEF Admit, Observe, Watched
    <3> QED
      BY <3>3, <3>4
  <2> QED
    BY <2>1, <2>2
<1>4. ASSUME NEW r \in Requests, Refuse(r) PROVE Watched'
  BY <1>0, <1>1, <1>2, <1>4 DEF Refuse, TypeOK
<1>5. ASSUME NEW r \in Requests, NEW tokens \in 0..MaxTokens, Charge(r, tokens)
      PROVE  Watched'
  <2>1. watch' = watch
    BY <1>5 DEF Charge
  <2>2. CASE model[r] # w
    BY <1>0, <1>1, <1>5, <2>1, <2>2 DEF Charge, TypeOK
  <2>3. CASE model[r] = w
    <3>1. rate'[w] = [Fresh(w) EXCEPT !.tokens = @ + tokens]
      BY <1>0, <1>5, <2>3 DEF Charge, TypeOK
    <3>2. rate'[w].requests = Fresh(w).requests /\ rate'[w].age = Fresh(w).age
      BY <1>0, <3>1 DEF RateState
    <3> QED
      BY <1>0, <2>1, <3>2, FreshType DEF Watched, RateState
  <2> QED
    BY <2>2, <2>3
<1>6. ASSUME Tick PROVE Watched'
  <2>1. CASE watch' \in NewWatch
    <3>1. watch'.admitted = 0 /\ watch'.model \in Models
      BY <2>1 DEF NewWatch
    <3>2. rate'[watch'.model].requests \in Nat
      BY <3>1 DEF TypeOK, RateState
    <3> QED
      BY <3>1, <3>2 DEF Watched
  <2>2. CASE watch' = [watch EXCEPT !.age = Older(@)]
    <3>1. /\ watch'.model = w /\ watch'.age = Older(watch.age)
          /\ watch'.admitted = watch.admitted
      BY <2>2 DEF TypeOK
    <3>2. rate'[w] = [rate[w] EXCEPT !.age = Older(@)]
      BY <1>0, <1>6 DEF Tick, TypeOK
    <3>3. rate'[w].requests = rate[w].requests /\ rate'[w].age = Older(rate[w].age)
      BY <1>0, <3>2 DEF RateState
    <3> QED
      BY <1>0, <3>1, <3>3 DEF Watched, Older, RateState
  <2> QED
    BY <1>6, <2>1, <2>2 DEF Tick
<1>7. ASSUME NEW r \in Requests, NEW m \in Models, CheckGlobal(r, m)
      PROVE  watch' = watch /\ rate' = rate
  BY <1>7 DEF CheckGlobal
<1>8. ASSUME NEW r \in Requests,
             CheckModel(r) \/ EndUncharged(r) \/ RecordGlobal(r) \/ RecordModel(r)
      PROVE  watch' = watch /\ rate' = rate
  BY <1>8 DEF CheckModel, EndUncharged, RecordGlobal, RecordModel
<1>9. ASSUME ResetGlobal \/ ResetModels \/ UNCHANGED vars
      PROVE  watch' = watch /\ rate' = rate
  BY <1>9 DEF ResetGlobal, ResetModels, vars
<1> QED
  BY <1>1, <1>3, <1>4, <1>5, <1>6, <1>7, <1>8, <1>9 DEF Next, RequestStep

\* Wherever an interval of a window's length starts, at most twice rpm
\* requests of a model go through in it.
THEOREM RpmSlides == Spec => []SlidingRpm
<1>1. ASSUME TypeOK, Watched PROVE SlidingRpm
  <2>1. /\ watch.admitted \in Nat /\ watch.age \in 0..Window
        /\ rate[watch.model].requests \in 0..Rpm
    BY <1>1 DEF TypeOK, RateState
  <2> QED
    BY <1>1, <2>1 DEF Watched, SlidingRpm
<1>2. Init => Watched
  <2> SUFFICES ASSUME Init PROVE watch.admitted <= rate[watch.model].requests
    BY DEF Watched
  <2>1. watch.admitted = 0 /\ watch.model \in Models
    BY DEF Init, NewWatch
  <2>2. rate[watch.model].requests = 0
    BY <2>1 DEF Init
  <2> QED
    BY <2>1, <2>2
<1> QED
  BY <1>1, <1>2, LimitsTypes, WatchedStep, PTL DEF Spec

----------------------------------------------------------------------------
(* The spending window.                                                    *)

USE StallAssumption, AmountsAssumption DEF StallAssumption, AmountsAssumption

(***************************************************************************)
(* The start of the window only grows, so the compare-and-swap succeeds    *)
(* for one thread per window (Renewals); and as long as that thread has    *)
(* not subtracted, the window is younger than WindowSecs for every caller  *)
(* (Timely), so that nobody else gets as far as reading a start to swap.   *)
(* Hence what it subtracts is still in the counter (Covered).              *)
(***************************************************************************)
Timely ==
    /\ start <= clock
    /\ \A t \in Threads :
          /\ now[t] <= clock
          /\ at[t] # "idle" => clock <= now[t] + MaxStall

Renewals ==
    /\ \A t \in Threads :
          /\ at[t] \in {"loadOld", "swap"} =>
                loaded[t] <= start /\ loaded[t] + WindowSecs <= now[t]
          /\ at[t] = "subtract" => start = now[t]
    /\ \A t, u \in Threads : at[t] = "subtract" /\ at[u] = "subtract" => t = u

Covered ==
    \A t \in Threads :
        /\ at[t] = "subtract" => old[t] + fresh <= spend
        /\ at[t] = "swap" /\ loaded[t] = start => old[t] <= spend

WindowInv == WindowTypeOK /\ Timely /\ Renewals /\ Covered /\ NoSpendLost

LEMMA InvInitially == WindowInit => WindowInv
  BY DEF WindowInit, WindowInv, WindowTypeOK, Timely, Renewals, Covered, NoSpendLost

\* While a thread may renew the window, nobody is still subtracting.
LEMMA RenewalsDoNotOverlap ==
    ASSUME WindowInv, NEW t \in Threads, NEW u \in Threads,
           at[t] \in {"loadOld", "swap"}, loaded[t] = start
    PROVE  at[u] # "subtract"
<1> SUFFICES ASSUME at[u] = "subtract" PROVE FALSE
  OBVIOUS
<1>1. start + WindowSecs <= now[t] /\ start = now[u]
  BY DEF WindowInv, Renewals
<1>2. now[t] <= clock /\ clock <= now[u] + MaxStall
  BY DEF WindowInv, Timely
<1> QED
  BY <1>1, <1>2 DEF WindowInv, WindowTypeOK

LEMMA WindowStep == WindowInv /\ [WindowNext]_windowVars => WindowInv'
<1> SUFFICES ASSUME WindowInv, [WindowNext]_windowVars PROVE WindowInv'
  OBVIOUS
<1> USE DEF WindowInv, WindowTypeOK, Timely, Renewals, Covered, NoSpendLost, Moves,
            entryVars, localVars
<1>1. ASSUME NEW t \in Threads, NEW a \in Amounts, Begin(t, a) PROVE WindowInv'
  BY <1>1 DEF Begin
<1>2. ASSUME NEW t \in Threads, LoadStart(t) PROVE WindowInv'
  BY <1>2 DEF LoadStart, Expired
<1>3. ASSUME NEW t \in Threads, LoadOld(t) PROVE WindowInv'
  BY <1>3 DEF LoadOld
<1>4. ASSUME NEW t \in Threads, Swap(t) PROVE WindowInv'
  <2>1. CASE start # loaded[t]
    BY <1>4, <2>1 DEF Swap
  <2>2. CASE start = loaded[t]
    <3>1. /\ at[t] = "swap" /\ at' = [at EXCEPT ![t] = "subtract"]
          /\ start' = now[t] /\ fresh' = 0
          /\ UNCHANGED <<spend, clock, now, amount, loaded, old>>
      BY <1>4, <2>2 DEF Swap
    <3>2. \A u \in Threads : at[u] # "subtract"
      BY <2>2, <3>1, RenewalsDoNotOverlap
    <3>3. start < start' /\ old[t] <= spend
      BY <2>2, <3>1
    <3>4. Timely'
      BY <3>1
    <3>5. Renewals'
      BY <3>1, <3>2, <3>3
    <3>6. Covered' /\ NoSpendLost' /\ WindowTypeOK'
      BY <3>1, <3>2, <3>3
    <3> QED
      BY <3>4, <3>5, <3>6
  <2> QED
    BY <2>1, <2>2
<1>5. ASSUME NEW t \in Threads, Subtract(t) PROVE WindowInv'
  <2>1. \A u \in Threads : at[u] \in {"loadOld", "swap"} => loaded[u] # start
    BY <1>5, RenewalsDoNotOverlap DEF Subtract
  <2>2. old[t] + fresh <= spend
    BY <1>5 DEF Subtract
  <2>3. WindowTypeOK' /\ Timely' /\ NoSpendLost'
    BY <1>5, <2>2 DEF Subtract
  <2>4. Renewals'
    BY <1>5 DEF Subtract
  <2>5. Covered'
    BY <1>5, <2>1 DEF Subtract
  <2> QED
    BY <2>3, <2>4, <2>5
<1>6. ASSUME NEW t \in Threads, Finish(t) PROVE WindowInv'
  BY <1>6 DEF Finish
<1>7. CASE WindowTick
  BY <1>7 DEF WindowTick
<1>8. CASE UNCHANGED windowVars
  BY <1>8 DEF windowVars
<1> QED
  BY <1>1, <1>2, <1>3, <1>4, <1>5, <1>6, <1>7, <1>8 DEF WindowNext, ThreadStep

\* Every amount added since the window was renewed is in the counter.
THEOREM SpendIsKept == WindowSpec => []NoSpendLost
<1>1. WindowInv => NoSpendLost
  BY DEF WindowInv
<1> QED
  BY <1>1, InvInitially, WindowStep, PTL DEF WindowSpec

\* In particular the subtraction never takes the counter below zero.
THEOREM CounterDoesNotWrap == WindowSpec => []WindowTypeOK
<1>1. WindowInv => WindowTypeOK
  BY DEF WindowInv
<1> QED
  BY <1>1, InvInitially, WindowStep, PTL DEF WindowSpec

=============================================================================
