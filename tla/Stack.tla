------------------------------- MODULE Stack --------------------------------
(***************************************************************************)
(* The middleware a ManagedClient puts in front of a provider              *)
(* (client/managed.rs), and the layers an application adds to it: which    *)
(* requests reach the provider, what the hooks and the usage sink are told, *)
(* and when a service that failed is tried again.                          *)
(*                                                                         *)
(* From the outside in: guardrails (tower/guardrail.rs), hooks with a usage *)
(* sink (tower/hook.rs), budget, rate limit, cooldown (tower/cooldown.rs),  *)
(* health check (tower/health.rs), cache, and the client itself            *)
(* (tower/service.rs).  Every layer down to the cooldown makes its inner   *)
(* future in call(), at once, and polls it later, behind awaits of its own; *)
(* the cooldown makes it when it is polled.                                *)
(***************************************************************************)
EXTENDS Integers, Sequences, FiniteSets

CONSTANTS
  Requests,       \* slots for requests: a slot is used again and again
  Configs,        \* the stacks that are built: sets of layers
  NumHooks,       \* hooks registered
  Duration,       \* of a cooldown, in ticks
  Interval,       \* between two health probes, in ticks
  UnhealthyAfter, \* HealthCheckConfig.unhealthy_threshold
  HealthyAfter,   \* HealthCheckConfig.healthy_threshold
  KindsOf,        \* [Requests -> kinds of the requests made in a slot]
  NoCooldown      \* cooldown_start is None

ASSUME StackAssumption ==
  /\ NumHooks \in Nat \ {0} /\ Duration \in Nat \ {0} /\ Interval \in Nat
  /\ UnhealthyAfter \in Nat \ {0} /\ HealthyAfter \in Nat \ {0}
  /\ NoCooldown \notin Nat

\* What ManagedClient sends through its stack, and what it hands to the client
\* at once: raw exchanges, files, batches and responses.
Managed ==
  {"Chat", "ChatStream", "Embed", "ImageGenerate", "Speech", "Transcribe", "Moderate", "Rerank",
   "Search", "Ocr", "ListModels"}
Direct == {"Raw", "File", "Batch", "Response"}

ASSUME KindsAssumption == \A r \in Requests : KindsOf[r] \subseteq Managed \cup Direct

\* What the layers tell apart of a kind: the responses an Output guardrail sees,
\* those the cache stores.
Checked == {"Chat", "Embed", "ListModels"}
Cacheable == {"Chat", "Embed"}

VARIABLES
  layers,         \* the stack; it never changes
  cooling,        \* CooldownState: age of cooldown_start, or NoCooldown
  healthy,        \* what requests read: HealthCheckService.healthy
  streak,         \* ProviderHealthState: consecutive [failures, successes]
  probe,          \* the probe task: [st, age of its sleep]
  alive,          \* the client has not been dropped
  upstream,       \* the provider: up, down, or up but refusing the probe
  cached,         \* the cache holds an answer
  req             \* the requests, see NewRequest

\* It answers requests and the probe; it answers requests, but the probe with an
\* error (ListModels refused, a probed URL that is neither 2xx nor 3xx); neither.
Upstreams == {"up", "refusing", "down"}

vars == <<layers, cooling, healthy, streak, probe, alive, upstream, cached, req>>

Has(layer) == layer \in layers

\* HealthCheckLayer marks by the last probe, PerProviderHealthCheck by streaks.
MarksUnhealthyAfter == IF Has("provider_health") THEN UnhealthyAfter ELSE 1
MarksHealthyAfter == IF Has("provider_health") THEN HealthyAfter ELSE 1
HasHealth == Has("health") \/ Has("provider_health")

\* st: how far it is; verdict: of the layers that decide eagerly; refused: by a
\* hook; inner: what the stack below the hooks answered; events: for the sink.
NewRequest ==
  [kind |-> "Chat", st |-> "idle", hook |-> 1, verdict |-> "pass", refused |-> FALSE,
   sent |-> FALSE, armed |-> FALSE, inner |-> "none", events |-> <<>>]

Init ==
  /\ layers \in Configs
  /\ cooling = NoCooldown
  /\ healthy = TRUE /\ streak = [bad |-> 0, good |-> 0]
  /\ probe = [st |-> IF HasHealth THEN "asleep" ELSE "ended", age |-> 0]
  /\ alive = TRUE /\ upstream \in Upstreams /\ cached = FALSE
  /\ req = [r \in Requests |-> NewRequest]

-----------------------------------------------------------------------------
(* Where a request goes next: absent layers are skipped.                   *)

Leaves(q, result) ==
  IF Has("guardrail") /\ result = "ok" /\ q.kind \in Checked
  THEN [q EXCEPT !.st = "output"] ELSE [q EXCEPT !.st = "done"]

\* The stack below the hooks has answered.
LeavesInner(q, result) ==
  IF Has("hooks") THEN [q EXCEPT !.st = "on_response", !.inner = result]
  ELSE Leaves([q EXCEPT !.inner = result], result)

\* CooldownService sees the answer of what it wraps.
LeavesCooldown(q, result) ==
  IF Has("cooldown") /\ result \in {"transient", "timeout"}
  THEN [q EXCEPT !.st = "tripping", !.inner = result]
  ELSE LeavesInner(q, result)

\* The guard of the usage sink is armed when the last hook has let it pass.
EntersInner(q) == [q EXCEPT !.st = "inner", !.armed = Has("sink")]

EntersHooks(q) == IF Has("hooks") THEN [q EXCEPT !.st = "on_request"] ELSE [q EXCEPT !.st = "inner"]

-----------------------------------------------------------------------------
(* call(), as far as it is eager.                                          *)

\* ManagedClient: the stack is cloned; it is called at the first poll.
Create(r) ==
  /\ alive /\ req[r].st \in {"idle", "done", "dropped"}
  /\ \E kind \in KindsOf[r] : req' = [req EXCEPT ![r] = [NewRequest EXCEPT !.kind = kind, !.st = "created"]]
  /\ UNCHANGED <<layers, cooling, healthy, streak, probe, alive, upstream, cached>>

\* What call() decides at once, before any hook runs: the budget, the rate
\* limit, and (without a cooldown above it) the health.  Limits says when the
\* first two refuse; here they may at any time.
EagerVerdicts ==
  {IF HasHealth /\ ~Has("cooldown") /\ ~healthy THEN "unhealthy" ELSE "pass"}
    \cup {"refuse" : layer \in layers \cap {"budget", "rate"}}

\* No stack was built, or the call does not go through it.
Bypasses(q) == layers = {} \/ q.kind \in Direct

Start(r) ==
  /\ req[r].st = "created"
  /\ \/ /\ Bypasses(req[r])
        /\ req' = [req EXCEPT ![r].st = "provider", ![r].sent = TRUE]
     \/ /\ ~Bypasses(req[r])
        /\ \E v \in EagerVerdicts :
             LET q == [req[r] EXCEPT !.verdict = v] IN
             req' = [req EXCEPT ![r] = IF Has("guardrail") THEN [q EXCEPT !.st = "input"] ELSE EntersHooks(q)]
  /\ UNCHANGED <<layers, cooling, healthy, streak, probe, alive, upstream, cached>>

-----------------------------------------------------------------------------
(* The way in.                                                             *)

\* GuardrailRegistry::run_stage(Input): a block ends the request, a mutation
\* is not applied.
CheckInput(r) ==
  /\ req[r].st = "input"
  /\ \E blocked \in BOOLEAN :
       req' = [req EXCEPT ![r] = IF blocked
                                 THEN [@ EXCEPT !.st = "done", !.refused = TRUE]
                                 ELSE EntersHooks(@)]
  /\ UNCHANGED <<layers, cooling, healthy, streak, probe, alive, upstream, cached>>

\* A refusal is remembered, and the other hooks are asked all the same.
OnRequestOn(r) ==
  /\ req[r].st = "on_request"
  /\ \E refused \in BOOLEAN :
       LET q == [req[r] EXCEPT !.refused = @ \/ refused, !.hook = @ + 1] IN
       req' = [req EXCEPT ![r] = IF q.hook <= NumHooks THEN q ELSE EntersInner(q)]
  /\ UNCHANGED <<layers, cooling, healthy, streak, probe, alive, upstream, cached>>

\* One hook's on_request: Ok, an error of its own, or a panic.  A refusal is
\* returned at once: no other hook, no event.
OnRequest(r) ==
  /\ req[r].st = "on_request"
  /\ \E refused \in BOOLEAN :
       LET q == [req[r] EXCEPT !.refused = refused] IN
       req' = [req EXCEPT ![r] =
         CASE refused -> Leaves(q, "refused")
           [] ~refused /\ q.hook < NumHooks -> [q EXCEPT !.hook = @ + 1]
           [] OTHER -> EntersInner([q EXCEPT !.hook = @ + 1])]
  /\ UNCHANGED <<layers, cooling, healthy, streak, probe, alive, upstream, cached>>

\* HealthCheckService::call, then CacheService: an answer, or the provider.
CallsHealth(q) ==
  IF q.verdict = "unhealthy" \/ (HasHealth /\ Has("cooldown") /\ ~healthy)
  THEN {LeavesCooldown(q, "transient")}
  ELSE {[q EXCEPT !.st = "provider", !.sent = TRUE]}
         \cup (IF Has("cache") /\ cached /\ q.kind \in Cacheable THEN {LeavesInner(q, "ok")} ELSE {})

\* The inner future is polled.  CooldownService first looks at its state; one
\* that is over must be cleared under the write lock.
PollInner(r) ==
  /\ req[r].st = "inner"
  /\ \/ req[r].verdict = "refuse" /\ req' = [req EXCEPT ![r] = LeavesInner(@, "terminal")]
     \/ /\ req[r].verdict # "refuse"
        /\ cooling = NoCooldown
        /\ \E q \in CallsHealth(req[r]) : req' = [req EXCEPT ![r] = q]
     \/ /\ req[r].verdict # "refuse" /\ cooling # NoCooldown
        /\ req' = [req EXCEPT ![r] = IF cooling < Duration THEN LeavesInner(@, "transient")
                                     ELSE [@ EXCEPT !.st = "clearing"]]
  /\ UNCHANGED <<layers, cooling, healthy, streak, probe, alive, upstream, cached>>

\* It clears what it finds.
ClearedUnchecked == NoCooldown

\* With the write lock it looks again: the cooldown may be a new one.
Cleared == IF cooling # NoCooldown /\ cooling >= Duration THEN NoCooldown ELSE cooling

ClearCooldown(r) ==
  /\ req[r].st = "clearing"
  /\ cooling' = Cleared
  /\ \E q \in CallsHealth(req[r]) : req' = [req EXCEPT ![r] = q]
  /\ UNCHANGED <<layers, healthy, streak, probe, alive, upstream, cached>>

-----------------------------------------------------------------------------
(* The provider, and the way out.                                          *)

Answers == IF upstream # "down" THEN {"ok", "terminal"} ELSE {"transient", "timeout"}

\* LlmService::call; a stream is collected whole, so that it fails with its
\* first bad chunk.
ProviderAnswers(r) ==
  /\ req[r].st = "provider"
  /\ \E a \in Answers :
       /\ req' = [req EXCEPT ![r] = IF Bypasses(@) THEN [@ EXCEPT !.st = "done"] ELSE LeavesCooldown(@, a)]
       /\ cached' = (cached \/ (Has("cache") /\ a = "ok" /\ req[r].kind \in Cacheable))
  /\ UNCHANGED <<layers, cooling, healthy, streak, probe, alive, upstream>>

\* A transient error starts a cooldown, or starts it again.
Trip(r) ==
  /\ req[r].st = "tripping"
  /\ cooling' = 0
  /\ req' = [req EXCEPT ![r] = LeavesInner(@, @.inner)]
  /\ UNCHANGED <<layers, healthy, streak, probe, alive, upstream, cached>>

EventOf(result) ==
  CASE result = "ok" -> "success" [] result = "timeout" -> "timed_out" [] OTHER -> "error"

\* The guard stays armed after the event.
OnResponseArmed(r) ==
  /\ req[r].st = "on_response"
  /\ LET q == req[r]
         told == [q EXCEPT !.events = IF Has("sink") THEN Append(@, EventOf(q.inner)) ELSE @]
     IN req' = [req EXCEPT ![r] = Leaves(told, q.inner)]
  /\ UNCHANGED <<layers, cooling, healthy, streak, probe, alive, upstream, cached>>

\* on_response or on_error of every hook (a panic is only logged), then the
\* event, and the answer goes out.
OnResponse(r) ==
  /\ req[r].st = "on_response"
  /\ LET q == req[r]
         told == [q EXCEPT !.armed = FALSE,
                           !.events = IF Has("sink") THEN Append(@, EventOf(q.inner)) ELSE @]
     IN req' = [req EXCEPT ![r] = Leaves(told, q.inner)]
  /\ UNCHANGED <<layers, cooling, healthy, streak, probe, alive, upstream, cached>>

\* run_stage(Output): a block turns the answer into a refusal, although the
\* provider was paid and the hooks were told of a success.
CheckOutput(r) ==
  /\ req[r].st = "output"
  /\ \E blocked \in BOOLEAN : req' = [req EXCEPT ![r].st = "done", ![r].refused = blocked]
  /\ UNCHANGED <<layers, cooling, healthy, streak, probe, alive, upstream, cached>>

\* The caller drops the future: an armed guard tells the sink.
Drop(r) ==
  /\ req[r].st \notin {"idle", "done", "dropped"}
  /\ req' = [req EXCEPT ![r].st = "dropped", ![r].armed = FALSE,
                        ![r].events = IF req[r].armed THEN Append(@, "cancelled") ELSE @]
  /\ UNCHANGED <<layers, cooling, healthy, streak, probe, alive, upstream, cached>>

-----------------------------------------------------------------------------
(* The probe task, the provider, time.                                     *)

\* The sleep is over: the task ends if no client is left, or probes.
Wake ==
  /\ probe.st = "asleep" /\ probe.age >= Interval
  /\ probe' = [probe EXCEPT !.st = IF alive THEN "probing" ELSE "ended"]
  /\ UNCHANGED <<layers, cooling, healthy, streak, alive, upstream, cached, req>>

Capped(n, bound) == IF n < bound THEN n ELSE bound

\* The probe goes through the marked service: it fails while the mark is unhealthy.
RecordBehindMark ==
  /\ probe.st = "probing"
  /\ probe' = [st |-> "asleep", age |-> 0]
  /\ streak' = IF upstream = "up" /\ healthy THEN [bad |-> 0, good |-> Capped(streak.good + 1, MarksHealthyAfter)]
               ELSE [bad |-> Capped(streak.bad + 1, MarksUnhealthyAfter), good |-> 0]
  /\ healthy' = CASE streak'.good = MarksHealthyAfter -> TRUE
                  [] streak'.bad = MarksUnhealthyAfter -> FALSE
                  [] OTHER -> healthy
  /\ UNCHANGED <<layers, cooling, alive, upstream, cached, req>>

\* The probe ends: any error, and any answer but success, counts against the
\* provider.  ProviderHealthState::record; counters saturate at their thresholds.
Record ==
  /\ probe.st = "probing"
  /\ probe' = [st |-> "asleep", age |-> 0]
  /\ streak' = IF upstream = "up" THEN [bad |-> 0, good |-> Capped(streak.good + 1, MarksHealthyAfter)]
               ELSE [bad |-> Capped(streak.bad + 1, MarksUnhealthyAfter), good |-> 0]
  /\ healthy' = CASE streak'.good = MarksHealthyAfter -> TRUE
                  [] streak'.bad = MarksUnhealthyAfter -> FALSE
                  [] OTHER -> healthy
  /\ UNCHANGED <<layers, cooling, alive, upstream, cached, req>>

Tick ==
  /\ cooling' = IF cooling = NoCooldown THEN cooling ELSE Capped(cooling + 1, Duration)
  /\ probe' = IF probe.st = "asleep" THEN [probe EXCEPT !.age = Capped(@ + 1, Interval)] ELSE probe
  /\ <<cooling', probe'>> # <<cooling, probe>>
  /\ UNCHANGED <<layers, healthy, streak, alive, upstream, cached, req>>

ProviderChanges ==
  /\ \E u \in Upstreams \ {upstream} : upstream' = u
  /\ UNCHANGED <<layers, cooling, healthy, streak, probe, alive, cached, req>>

\* The last clone of the client goes, and no request holds one.
DropClient ==
  /\ alive /\ \A r \in Requests : req[r].st \in {"idle", "done", "dropped"}
  /\ alive' = FALSE
  /\ UNCHANGED <<layers, cooling, healthy, streak, probe, upstream, cached, req>>

Proceeds(r) ==
  \/ Start(r) \/ CheckInput(r) \/ OnRequest(r) \/ PollInner(r) \/ ClearCooldown(r)
  \/ ProviderAnswers(r) \/ Trip(r) \/ OnResponse(r) \/ CheckOutput(r)

Next ==
  \/ \E r \in Requests : Create(r) \/ Proceeds(r) \/ Drop(r)
  \/ Wake \/ Record \/ Tick \/ ProviderChanges \/ DropClient

Fairness ==
  /\ WF_vars(Tick) /\ WF_vars(Wake) /\ WF_vars(Record)
  /\ \A r \in Requests : WF_vars(Proceeds(r))

Spec == Init /\ [][Next]_vars
FairSpec == Spec /\ Fairness

-----------------------------------------------------------------------------
(* Properties.                                                             *)

\* A request that a guardrail, a hook (by an error or a panic), the budget, the
\* rate limit or an eager health check turned down never reaches the provider,
\* although its inner future was made before any of them was asked.
RefusedNotSent ==
  \A r \in Requests : req[r].sent =>
    /\ req[r].verdict = "pass"
    /\ req[r].refused => req[r].st = "done" /\ req[r].inner = "ok"

\* A request all hooks let pass is reported to the usage sink exactly once when
\* it ends, whether answered or dropped, with what the stack answered; one they
\* turned down is not reported.
UsageReportedOnce ==
  \A r \in Requests : Has("sink") /\ req[r].st \in {"output", "done", "dropped"} =>
    LET q == req[r] IN
    IF q.hook <= NumHooks THEN q.events = <<>>
    ELSE \/ q.events = <<EventOf(q.inner)>>
         \/ q.st = "dropped" /\ q.events = <<"cancelled">>

\* A cooldown lasts: whoever saw the end of the one before cannot clear it, none
\* that looks at it now goes through, and so the only requests sent to the provider
\* in spite of it are those that had found the one before over when it began
\* (between the two locks, cooldown.rs:88), and those no layer sees.
CooldownKept ==
  [][cooling # NoCooldown /\ cooling < Duration =>
       /\ cooling' # NoCooldown
       /\ \A r \in Requests :
            /\ req'[r].st = "clearing" => req[r].st = "clearing"
            /\ ~req[r].sent /\ req'[r].sent => req[r].st = "clearing" \/ Bypasses(req[r])]_vars

CooldownOver == cooling = NoCooldown \/ cooling = Duration

\* Once the provider stays up and answers the probe, the stack stops refusing for
\* good: the mark becomes healthy and every cooldown ends without another; without
\* a health check it is enough that it answers requests.  One that refuses the
\* probe is turned away for good, however well it answers requests (health.rs:79,
\* 297).  And once no client is left, the probe task ends.
ServedAgain ==
  /\ <>[](upstream = "up" /\ alive) => <>[](healthy /\ CooldownOver)
  /\ ~HasHealth /\ <>[](upstream # "down") => <>[]CooldownOver
  /\ HasHealth /\ <>[](upstream = "refusing" /\ alive) => <>[]~healthy
  /\ ~alive ~> probe.st = "ended"
=============================================================================
