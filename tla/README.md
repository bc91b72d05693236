# hillm: a verification project in TLA+

hillm is a Rust client for LLM providers: a `ManagedClient` in front of
HTTP codecs, and a set of Tower layers (cache, singleflight, circuit breaker,
idempotency, limits, routing, ...) that applications stack around it. A layer
is cloned for every request and runs on any number of tasks and threads; what
its clones share (atomics, `DashMap`s, locks) is the state of the system. The
modules here model that state and the requests that interleave on it.

Paths below are relative to `src/src`.

## Inventory

| component | state | operations | hard behaviours | correct when |
|---|---|---|---|---|
| circuit breaker `tower/circuit.rs` | state, failure and opening counters, open_since, the probe flag | `call`, first poll, success, failures, drop | state read at creation and used at first poll; late results; dropped probes; atomics on threads | the probe flag is accounted for, half-open waits for the backoff, Closed means below the threshold |
| singleflight `tower/cache_singleflight.rs` | map key -> sender | join, complete, guard drop, recv | join between send and remove; leader cancelled | one inner call per key, every follower answered |
| idempotency `tower/idempotency.rs` | map key -> body hash, response, age | get, try_insert, store_response, remove | four awaits per request; TTL passes during the call; cancellation | one execution per key, replays match the body, no key blocked for ever |
| response cache `tower/cache.rs` | map hash -> entry, eviction queue | get, put, set_ttl, remove | stale keys in the queue; put and set_ttl apart; collisions | a bounded map that never invents; evicts the oldest |
| negative cache `tower/cache_negative.rs` | the shared store | put of an error | shares and fills the response cache's store | does not break the store |
| cache policy, keys `tower/cache_policy.rs`, `tower/hash.rs` | none | decide, key_for | - | - |
| semantic tier, vector stores `vectorstore/` | vectors by hash | search, update | vectors and answers are read apart; answers expire, hashes collide | a hit answers a request of the same or a similar text |
| rate limits `tower/rate_limit.rs` | request and token counts per window | admit, charge | charge after the window turned; reset by two plain stores | admissions per window bounded; no spend lost |
| budgets `tower/budget.rs`, `tower/cost.rs` | spend per dimension, window start | check, record, reset | check and record apart; compare-and-swap reset | overspend bounded by requests in flight; no wrap |
| router `tower/router.rs`, `route_classify.rs` | round-robin counter, latency averages, verdict cache; ready and pending upstreams | select, record, classify; insert, remove, push back | stale averages; verdicts of another router; calls and discovery overlap | no call to what is not there; fair shares; the unmeasured are not passed over |
| fallback, chain `tower/fallback.rs`, `fallback_chain.rs` | none across requests | attempts in order | which errors continue; cancellation | first success wins, each target tried once |
| hedge `tower/hedge.rs` | none across requests | racing attempts | late answers, panics, cancelled losers | a success is never lost to another's error |
| cooldown `tower/cooldown.rs`, health `tower/health.rs` | time of cooling, health flags | gate, trip, probe | the cooldown's two locks; flags read while probes write them | none clears another's cooldown; requests resume after it |
| hooks, guardrails `tower/hook.rs`, `tower/guardrail.rs`, `guardrail/` | registered chain | before and after | inner future created before the hooks | a rejected request does not reach upstream |
| managed client `client/managed.rs` | the stack | build, call, bypass | order of the layers; inner futures made before anyone is asked | a refused request is not sent; usage is told once |
| client and its methods `client/` | none | prepare, send, poll a batch | a poll has retries and waits of its own | the wait ends within its bound |
| HTTP, retry `http/request.rs`, `http/retry.rs` | attempt number | send, back off | retryable or not, Retry-After | at most max_retries + 1 attempts |
| SSE, event streams `sse.rs`, `http/stream.rs`, `http/eventstream.rs` | buffer, flags | decode, finish, poll | chunk boundaries, size bound, end of stream | events do not depend on the chunking |
| provider registry `provider/mod.rs`, `provider/custom.rs` | global snapshot, custom list | register, detect, refresh | overlapping refreshes | the newest data stays |
| chat codecs `provider/anthropic`, `provider/bedrock` | the stream so far | convert requests and replies | merged roles, parts without a counterpart, ids, replies whole or event by event | the provider gets its own text and calls back, and of the caller's messages exactly what can be carried |
| realtime `realtime/` | none | inbound, outbound | relays in a row | an event arrives as it was read |
| outbound policy `provider/outbound_policy.rs` | the policy | validate, resolve | the policy is copied, the lookup awaited, the copy checked | a guarded client reaches what the policy admitted when the lookup began |
| other codecs, types, tenants, observability | little or none | translation, lookup | - | - |

Interactions: a layer calls the next one through `Service::call`, and some
(circuit, singleflight, idempotency) create the inner future only when they
are polled, while others (cache, negative cache, hooks, guardrails, limits)
create it in `call`. CacheService and NegativeCacheService share an
`Arc<dyn CacheStore>`. Errors travel outward; `HiLlmError::is_transient`
(`error.rs`) decides what the breaker counts and what the negative cache
keeps. A dropped future is how every timeout and every cancellation reaches a
layer, so each model has the drop of a request at each of its awaits.

## Modules

| module | models | runs |
|---|---|---|
| `Circuit`, `CircuitProofs` | `tower/circuit.rs` | `circuit`, `circuit_leak` |
| `Singleflight`, proved in `DedupProofs` | `tower/cache_singleflight.rs` | `dedup`, `singleflight_closed` |
| `Idempotency`, proved in `DedupProofs` | `tower/idempotency.rs` | `dedup`, `idempotency_replay` |
| `Cache` with `CacheMap` as its abstract specification, `CacheProofs` | `tower/cache.rs`, `tower/cache_negative.rs` | `cache`, `cache_oldest` |
| `Limits`, `LimitsProofs` | `tower/budget.rs` around `tower/rate_limit.rs` | `limits` |
| `SpendWindow`, proved in `LimitsProofs` | `tower/budget.rs`: WindowEntry | `limits` |
| `Dispatch`, `DispatchProofs` | `tower/router.rs`, `route_classify.rs`, `fallback.rs`, `fallback_chain.rs`, `hedge.rs` | `dispatch` |
| `Discovery`, proved in `DispatchProofs` | `tower/router.rs`: DynamicRouter | `dispatch` |
| `Stack`, `StackProofs` | `client/managed.rs` with `tower/guardrail.rs`, `hook.rs`, `cooldown.rs`, `health.rs`, `service.rs` | `stack` |
| `Client`, which composes the parts below, `ClientProofs` | | `client` |
| `Transport` | `client/impls/*`, `client/mod.rs`, `http/request.rs`, `http/retry.rs`, `error.rs` | `client` |
| `Sse`, `Frames`; `Positions`: a set of numbers in order | `sse.rs`, `http/eventstream.rs` | `client` |
| `Chat`, `ChatProofs` | `provider/anthropic/compat*.rs`, `provider/bedrock/mod.rs` | `client` |
| `Registry` | `provider/mod.rs`, `custom.rs`, `outbound_policy.rs`, `client/mod.rs` | `client`, `client_policy` |
| `Realtime` | `realtime/` | `client` |
| `Guards` | `guardrail/` | `client` |
| `Spending` | `tower/budget.rs`: the ledger; `tower/rate_limit.rs`: the cost limit | `client` |
| `Semantic` | `tower/cache.rs`: CacheService; `tower/hash.rs`, `cache_policy.rs`, `vectorstore/memory.rs` | `client` |

`MC*` modules extend a component for TLC; their `.cfg` files give the
constants. The layers' models have `Requests`, a set of slots: but for
`Dispatch` and `Discovery`, which make each call once, a slot is reused by
request after request, so a run covers any number of requests of which that
many are in flight. `dedup`, `limits`, `dispatch` and `client` check several modules that
share no state in one run: a behaviour is one of one part while the others rest,
so that what holds of each part alone holds of the run and the other way round.

Each module ends its alternatives with operators that no action uses
(`RecordSuccessKeepingSlot`, `InsertUnchecked`, ...): variants of the
definition after them with a plausible mistake. Replacing the definition by its
variant makes the property named in `PROJECT.json` fail, which shows that the
property depends on that part of the code.

### Circuit

`state`, `failures`, `openAge`, `openCount` and `slot` are CircuitInner's
atomics and open_since. `slot` says more than the boolean it stands for: who
took the flag, or that its taker is gone (`Leaked`). `pc` and `seen` are the
locals of a request. A request is created (`Call`, which reads the state), is
polled (`AdmitClosed`, `AdmitProbe`, `Reject`: `should_allow`) and ends
(`Succeed`, `FailTransient`, `FailPermanent`, `Cancel`). Policy methods are
single steps, which is what tasks of one thread can observe.
`failures` and `openCount` saturate where their value no longer matters.

* `SlotAccounted`, `ClosedBelowThreshold`, `HalfOpenAfterBackoff` hold
  although results of requests admitted in an earlier state arrive at any time.
* `OnlyStaleCallerLeaks` and the violated `SlotFreed`: the only way to lose the
  probe flag is a request created while Closed that takes it at its first poll.
  The counterexample ends with the breaker HalfOpen and rejecting for ever.
* `OpenEnds`, under `FairSpec`: clients keep calling, a created future is
  polled again and again (strongly fair, since it may also be dropped), and an
  inner call ends because the HTTP client has a timeout. How it ends is not fair.

Bounds: three slots (a probe, a stale request and a bystander), threshold 2,
backoffs 1, 2 and the cap 3, reached by two openings.

### Singleflight

`inFlight` is the map; a sender is named by its leader. `flight` and `mail` are
a follower's receiver. `Send` and `Close` are the two halves of `complete`,
between which another thread may join; `LeaderDropped` is the guard's drop.
Fairness: inner calls end or are dropped, a thread goes on between `Send` and
`Close`, a follower with mail is polled.

* `OneInnerCallPerKey`, `MapNamesLeaders`, `FollowerHasLeader`,
  `FollowersAnswered` hold.
* `ClosedMeansNothingSent` is violated: a follower that joins between send and
  remove gets the Closed error although the leader has sent its result.

Bounds: three requests give a leader with two followers or leaders of two keys;
requests interact only through their own key.

### Idempotency

`entryBody`, `response` and `age` are the entry under each key. A request is
`get`, `insert`, `recheck`, `reread`, `calling`: one step per store operation.
`late` is a history variable: the keys for which an execution outlived its
entry or went on without one, after which the code promises nothing.

* `OneExecutionPerKey` and `StoredUnderOwnBody` hold for the other keys.
* `InFlightEnds`: only time is fair, so a dropped or hung execution blocks its
  key for one TTL at most.
* `ReplayMatchesBody` is violated in two ways the code allows: the last get
  compares no body, and a late execution stores its response under the entry
  of another body.

Bounds: one key (keys do not interact), two bodies, three requests (an owner, a
late owner and a reader), TTL of one tick.

### Cache and CacheMap

`entries` and `order` are InnerCache's map and queue. `Insert` is the whole of
`insert()`: the key leaves the queue if it has an entry, keys are evicted from
the front while the map is full, the key joins the back. The number of keys
evicted is described (the least number after which the loop ends) instead of
computed. `Miss` includes the removal of an expired entry. `SetTTL` acts on
whatever entry is there. The negative layer's put (`FailStored`) is part of a
failing request's step and uses a text no key strategy produces.

`CacheMap` states the promise: a write makes exactly its own value readable,
at most one other key is forgotten for it and none while there is room.

* `LiveKeysOrdered`: an entry is never out of the reach of eviction.
* `KeepsPromise`: every step of Cache is a step of CacheMap or a stutter.
* `EvictsOldest` is violated: a stale key in the queue evicts the entry that
  was written last.

Bounds: two entries and three keys make puts evict; `MaxOrder` = 4 leaves room
for two stale keys; `MaxAge` is one more than the longest TTL. Symmetry over
requests, keys and bodies is sound: no property names one and none is a
liveness property.

### Limits

`globalSpend` and `modelSpend` are BudgetState, `rate` the entries of the rate
limit. A request is checked (`CheckGlobal`, `CheckModel`, one step per counter
read), passes the rate limit (`Admit`, `Refuse`), runs, and is charged from
the inside out: tokens (`Charge`), then the two counters (`RecordGlobal`,
`RecordModel`). `ResetGlobal` and `ResetModels` are `reset()`, at any time.
Threads interleave between all of these; while a request is in one of its
calls it cannot be dropped, so only `running` can end without a charge. Soft
enforcement is left out: it only logs. `watch` is a history variable: an
observer that starts anywhere and counts admissions for a window's length.

* `OverspendBounded`: a hard budget is exceeded, by at most what N requests cost.
* `TokensBounded`: the same for the tokens of a window, which also pays for
  requests that earlier windows admitted.
* `SlidingRpm`: 2 * rpm requests in any interval of a window's length.

Bounds: two requests can both pass a check before either records; two models
have counters of their own under one global limit; Window = 2 lets an observer
overlap two windows. The counters need no bound: the properties bound them.

### SpendWindow

One action per atomic operation of `spend_usd` and `add`: `LoadStart`,
`LoadOld`, `Swap` (compare_exchange), `Subtract`, `Finish` (fetch_add, or the
last load of a reader). `fresh` is a history variable: what was added since
the last renewal. `NoSpendLost`: it is always in the counter.
The timing assumption is that a call sees at most MaxStall seconds begin, with
MaxStall < WindowSecs; it is what the code needs, since a thread that stalls
between its swap and its subtraction for a whole window subtracts what the
next renewal has subtracted too. The atomics are taken in one order that all
threads agree on: `spend_usd` uses acquire and release on both.

Bounds: three threads (one renews, one loses the swap, one adds), two renewals
(MaxClock), and no add() begins above MaxSpend.

### Dispatch and Discovery

A call gets a plan (`CallRoundRobin`, `CallLatencyBased`, `CallWeighted`, ... as
`strategy` says) and attempts along it, as a walk (fallbacks, chain, pair: an
attempt after the transient error of the one before) or a race (hedge: spawned
tasks that sleep, answer, fail or panic, joined as they end). `counter`,
`metrics` and `verdicts` are what the clones of a router share. A caller may
drop its future at any time. `Discovery` is DynamicRouter over tower's
ReadyCache and ConcurrencyLimit: `ready`, `pending` and the permits of every
instance, while upstreams are inserted, replaced and removed.

* `NoStrayTarget`: no strategy, verdict or rounding of weights names a
  deployment that is not there or has no weight.
* `RoundRobinBalanced`, `LatencyExplores`: shares differ by one call at most,
  and nobody who was never measured is passed over for a measured one.
* `WalkOutcome`, `HedgeOutcome`: which attempts are made, and whose answer or
  error the caller gets; no attempt outlives a hedged call.
* `DynamicRouterSafe`: limits hold, what is offered stays reachable although
  calls hand instances back late, and what was removed does not come back.
* `EveryCallEnds`, under weak fairness of the calls' steps and of time: the
  attempts end because the HTTP client has a timeout.

Bounds: three calls over two deployments, three attempts of a race; weights that
round to 0; a classifier that names an index out of range; two upstreams with a
limit of one and of two, each inserted twice.

### Stack

One request's way in and out through guardrails, hooks, budget, rate limit,
cooldown, health check and cache to the provider, with the layers of `layers`
and past the others. What a layer decides in `call` is part of `Start`, since
every layer above the cooldown makes its inner future there; what it decides when
polled is a step of its own: `CheckInput`, `OnRequest` per hook, `PollInner` and
`ClearCooldown` (the cooldown's two locks), `ProviderAnswers`, `Trip`,
`OnResponse`, `CheckOutput`. `Drop` ends a request at any of them. `Wake` and
`Record` are the probe task, which keeps running while a client lives.

* `RefusedNotSent`: whoever is turned down by any layer is not sent.
* `UsageReportedOnce`: one event per admitted request, answered or dropped.
* `CooldownKept`: the end of one cooldown never clears the next, and a request
  that looks at one does not go through. A request that has found one over and
  waits for the write lock does, even if a new one has begun meanwhile: it leaves
  that one alone and does not look again. It and what bypasses the layer are the
  only ones that are sent in spite of a cooldown.
* `ServedAgain`: if the provider stays up and answers the probe, the mark becomes
  healthy and stays, and cooldowns end; without a health layer it is enough that
  it answers requests. One that refuses the probe (`upstream = "refusing"`: an
  error for ListModels, a probed URL that answers neither 2xx nor 3xx) is turned
  away for good, although it would serve requests. The probe task ends with the
  last client. Fair are time, the probe task and the steps of requests that are
  polled, not their making.

The usage sink's drop guard tells its event on a tokio runtime (`hook.rs:294`); a
future that is dropped outside of one is not modelled.

Bounds: two requests, one of a kind the cache or the guardrails do not touch;
four sets of layers; streaks of two probes; a cooldown and an interval of one tick.

### Client

`ClientSafety` is what may happen; `ClientSpec` adds weak fairness of
`Proceeding`: an answer comes or reqwest's timeout ends it, and tokio's timers
fire.

`Transport`: every method of the client is a record of its sender (which verbs
retry, how the answer is read) and its checks. `Begin`, `Validate`,
`ResolveAuth`, `Send` or `Lose`, `Backoff`, `Decode` are the steps of one call;
`BeginWait`, `Polled`, `Repoll` those of `wait_for_batch`, each poll being a call.
`RetriesEndRight`: a request is only sent again after a status that says so,
never after a lost answer, and the caller gets what the last answer means.
`WaitEnds`: a wait with a timeout ends, and later than the timeout by at most an
interval and the longest poll. Credentials are resolved in no time
(`client/mod.rs:667`), so a slow credential provider comes on top of that bound.
Bounds: a status of every class, two retries, Retry-After below and above its cap,
waits whose intervals grow and shrink.

`Sse`: texts of symbols cut anywhere. `SseSound` compares what the decoder
has given with the events of the text read at once, at every point, at a clean
end, and after an error. Bounds: all texts of up to four symbols and four longer
ones; a buffer of five. `Frames`: `FramesSound` says the same of the AWS
frames, which are given by where they end; a frame whose length is out of range
is reported at every poll for ever, as in the code. Bounds: all pairs of frames of every kind, and one that fills the
buffer.

`Chat`: a conversation grows by what the caller says and what the provider
replies, over Anthropic or Bedrock. `ChatFaithful` has five parts.

* `StreamMeansWhole`: a streamed reply means what it would have meant whole.
* `RequestKeeps`: the converted request is in the conversation's order and under
  its roles. A provider is given back the text and the calls of its own replies. Of a
  message of the caller it is given its calls and exactly the contents `GivenOf`
  names, neither more nor less: a string whole; of a user's parts the texts, images
  and documents; of a result in parts the texts and images for Anthropic and nothing
  for Bedrock; of an assistant's parts nothing. What is not named there is lost
  without an error: audio, parts of results (`bedrock/mod.rs:312`), parts of
  assistants (`bedrock/mod.rs:281`, `compat_convert.rs:614`).
* `InstructionsKept`: it carries the texts of every instruction.
* `ResultsAnswerCalls`: a result comes after its call, and under the call's id in
  the request unless that id does not fit Anthropic's alphabet, since only the ids
  of results are made to fit (`compat_convert.rs:657`, not `:626`).
* `SettingsFit`: the settings fit together.

`at` is the place of the next event of the reply that is streamed. Bounds:
histories of three messages with parts of every kind the code tells apart, ids
that fit and one that does not, replies with gaps between tool calls and every
class of stop reason.

`Registry`: fetches and refreshes of the snapshot, custom providers that are
registered while clients are built in two looks, and the policy. A connection is
two steps, as `GuardedResolver::resolve` is: `BeginLookup` copies the policy,
`Connect` checks the addresses with the copy. `turns` counts the changes of the
policy. `RegistrySound`: an automatic fetch never steps back, what a name stands
for does not depend on the order of registration, a client is bound to what was
asked but in the two cases the code leaves open, and a guarded client reaches a
private address under a policy only if the policy was changed since the lookup of
that very connection began. `PolicyVisibleAtOnce`, what the resolver's
documentation says without that exception, is violated (`client_policy`): a policy
that is set while a lookup is awaited does not count for its connection. Bounds:
two fetchers, one builder, two edits of the registered providers and three changes
with those of the policy, four configurations of which two share a name.

`Realtime`: `RelayFaithful` over three relays of every message type, bare and
with all fields; the reset of limits that is not told may move, nothing else.
The field names are one table for both directions, as they are the same in the
code's two functions, so that what can go wrong here are statuses, kinds of
content, limits and times; a misspelt field is a matter for the code's tests.
The numbers of a `u32` and the minute are small constants, and times in
milliseconds survive being written as seconds, as times of our days do in an f64.

`Guards`: the registry and one run of a stage with registrations in between.
`DecisionSound`: the first block wins; of several mutations, be they redactions or
the payload a CEL expression puts in place of any (`CelAction::Mutate`), only the
last is in force, as the code has it: what the others redacted is back. Bounds: two
guardrails at a time out of ten, every built-in and both actions of an expression
among them.

`Spending`: windows (`windows`: age and amount) that requests are checked
against (`Check`), charged to (`Record`) or not (`EndUncharged`), with a hedge
between (`Hedge`: should_hedge on a snapshot), `ResetLedger` and time. `watch` is
an observer of one window's length. `SpendingBounded`: a window holds at most its
limit and what was in flight, an interval two such amounts, and more when
timestamps lag by two ticks or more, since a window may then begin in the past
(`Met`); and a hedge made alone reaches no limit should_hedge looked at. The layer reads a
window in one step, as on one thread; `SpendWindow` has the atomics of the
ledger's, and the two plain stores of the cost limit's are not taken apart.
What is bounded here and in `Limits` are recorded micro-dollars: an answer that
costs less than half of one is recorded as 0 (`budget.rs:516`), so any number of
those passes every limit.
Bounds: two requests, windows of one and two ticks, lags of none and two.

`Semantic`: `answers` and `vectors` by hash, and requests that look for their
own text (`LookExact`), embed and search (`Search`), fetch what was found
(`LookFound`), ask the provider and store both (`Put`, `UpdateVector`), while
answers expire or are evicted (`Vanish`; their order is in `Cache`). `AnswersFit`:
an exact hit has the same text, a semantic hit a similar one, a bypassed request
none from the cache, and the answers that are kept are filed under their own
hashes (of the vectors nothing is said). Two things the model shows as they are: the policy is given
no metadata, so that StandardCachePolicy's "no-store" never bypasses anything
here; and tools and response format are no part of a text. Bounds: two requests,
six contents of two hashes, three strategies.

## Proofs

The theorems hold for every number of requests, keys, deployments and bodies and
for every value of the numeric constants, under the named assumptions of the
modules. Most of these say only that numbers are naturals, that sentinels are
not members of the sets they stand beside, and that requests are finitely many.
Those that say more, and why the code justifies them:

* `SpendWindow`: a call is shorter than a window (see there).
* `Dispatch`: `RulesAssumption`: rules and targets name deployments or are the
  sentinels of `new()`; `WeightsAssumption`: weights are naturals, as `u32` are;
  `PairAssumption`: a fallback pair has two services, since its type has two
  fields.
* `Discovery`: `RouterAssumption`: limits are naturals; they may be 0.
* `Semantic`: there are contents.
* `Transport`: `TransportAssumption`: there is a wait configuration, and its
  durations are naturals.
* `Frames`: `FramesAssumption`: a frame ends `MinFrame` bytes or more after the
  one before it, which is what MIN_FRAME_SIZE says of a length in range, and
  frames of any other length are never taken.
* `Guards`: `GuardsAssumption`: every guardrail is one of the built-in kinds or
  CEL, and there are payloads.
* `Spending`: `SpendingAssumption`: there are requests, and ledgers or limits;
  windows last some time, limits are naturals and on windows there are, and a
  request is charged to a window once, as it has one model, tenant, user and key.
* `Sse`: `SseAssumption`: texts are made of the symbols the decoder tells apart.
* `Realtime`: `RelayAssumption`: lists are lists and numbers naturals, which is
  what `as_array` and `as_u64` take of a message; no reset lies before 1970.
* `Chat`: `ChatAssumption`: messages, replies and options have the fields and types
  of the code's, texts and documents are among the parts, the empty id and "_" are
  among those that fit Anthropic's alphabet, only assistants make calls, and the
  caller says nothing in a tool's name but the result of a call.
* `Registry`: `RegistryAssumption`: a request asks for one of the API types, an
  enumeration in the code, or for none.

The bounds that TLC needs (MaxClock, MaxSpend, MaxOrder, MaxAge) are arbitrary
in the theorems.

* `CircuitProofs`: `BreakerCorrect` is the inductive conjunction of the types
  and the three invariants; they are inductive together because a half-open
  round and its slot exist only while state is HalfOpen. `LeakNeedsStaleCaller`
  proves the action property.
* `DedupProofs`: `FlightInv` = types, `MapNamesLeaders` and `FollowerHasLeader`. A
  follower subscribes to what the map names, so the third needs the second.
  `OneInnerCallPerKey` follows: two leaders of a key would both be the map's value.
  Of idempotency keys, `OneExecutionPerKey` is not inductive. `StoreInv` adds
  that an execution's entry is present, unexpired, of its own body and without
  a response, so a second `try_insert` must fail as long as it runs.
* `CacheProofs`: `CacheInv` = `LiveKeysOrdered` and the capacity. `Without`, the
  queue after `retain`, is shown to hold the same keys but one, for every queue;
  `EvictionsAreFew`: evicting from the front ends before the queue does, and with
  one key less than the capacity, because every entry is in the queue. With both,
  a put forgets at most one other key and none while there is room, which is the
  refinement of `CacheMap` (`StoreImplementsMap`): every step of the store maps
  to a step of the map or to a stutter, whatever stale keys the queue has.
* `LimitsProofs`: a counter is bounded together with what the requests that
  passed its check may still add (`Room`); its four lemmas about cardinalities
  serve the global budget, each model's budget and the tokens. `RpmSlides`
  rests on `Watched`: an observer has counted no more than the current window
  admitted or, if that window is younger than the observation, a full window
  more; an observer that meets a third window has watched too long.
  Of `SpendWindow`: the start only grows and, by the timing assumption,
  nobody finds a window expired before the thread that renewed it has
  subtracted, so there is one subtraction at a time and it is covered.
* `DispatchProofs`: `DispatchInv` says of each call, and of nothing else it
  shares, that it `Fits` the strategy: its plan names deployments (`Shaped`), its
  attempts are the plan's first ones with only the last unfinished (`Walks`), or
  a race whose attempts run until one succeeds (`Runs`). Calls touch each other
  only through the counter, the averages and the verdicts, of which it says that
  an average without a count is 0. `RoundRobinIsFair` needs the stronger
  `Balanced`: since the last full round the deployments before the turn had one
  call more than the others. That the weighted choice always finds a deployment
  is an argument about the least deployment whose cumulative weight exceeds the
  draw. For DynamicRouter, `RouterInv` adds that a pending instance is the newest
  of its key (`NewestWaits`) unless the newest one failed, so that an instance
  which gets ready late never replaces a newer one.
* `StackProofs`: `StackInv` adds to the types where a request may be with what
  it knows: before the provider nothing is sent, and the usage guard is armed
  exactly between the hooks and the first report (`Guarded`). `RefusedNotSent`
  and `UsageReportedOnce` follow from it, `CooldownKept` from the types alone:
  the second look under the write lock is all it takes for no cooldown to be
  cleared early, and the first one for none but those between the locks to be sent.
* `ClientProofs`, a section for each of eight parts, `Chat` being the ninth. Each is an invariant of its
  part alone, since the steps of the others leave its variables as they are.
  `AnswersAlwaysFit`, for any hash and any similarity: `TierInv` adds
  what a request knows before it is answered (`Placed`: it has a key, what it
  found is similar, what it writes answers itself) and that the store files an
  answer under its own text (`Filed`), which is what get() compares; nothing is
  said of an answer that is looked up by hash and may be gone, so that no step
  between the search and the lookup can break it.
  `RetriesAlwaysEndRight`: `CallInv` says of a call at every step that all its
  answers but the last were worth a retry (`Logged`), and of one that is over what
  its last answer means (`Ended`). `WaitAlwaysBounded` bounds the clock of
  `wait_for_batch` by what the poll under way may have taken so far (`Spent`,
  `OnTime`): every attempt and backoff at its slowest.
  `FramesAlwaysSound`: the buffer begins with the next frame (`Aligned`) or what
  was left over has been reported (`Forgotten`), and the chunks given are those
  of the frames before the next (`Given`).
  `DecisionAlwaysSound`: a run in the middle has asked the first guardrails and
  keeps what the last of them that mutates said (`Going`, `Passed`), or was
  stopped by the first that blocks (`Stopped`), whatever is registered meanwhile.
  What the last mutation's payload holds is then read off its check alone.
  `RegistryAlwaysSound`: names of custom providers differ (`NamesDiffer`), from
  which it follows that no order matters; a client that looks for the second time
  has found nothing the first time, or what is registered has changed since
  (`LooksAgain`). The second look is bound to the default type of what it finds;
  that this is the type asked for needs that the first look failed. A lookup under
  way holds a copy of the policy with its turn, and as long as the turn is the same
  the copy is the policy; so whoever reaches a private address while a policy holds
  has a copy of another turn.
  `SpendingAlwaysBounded`: a window's amount is bounded together with what the
  copies in flight may still add (`Held`), a copy counting twice as long as it may
  yet be hedged. A renewal empties a window and nobody in flight with it; that
  this fits again needs that nobody is hedged where there is no room for two
  (`Roomy`). An observer has counted no more than the windows that have ended
  since it began, each at its most, and the one there is (`WindowsEnded`); each
  takes a length off the time it has watched, lag and all, which bounds them.
  `RelayAlwaysFaithful`: an event that was read from a message has a shape
  (`ReadsAs`) such that writing and reading it gives it back (`ReadAgain`): its
  parts are of kinds that are kept (`ContentAgain`), its numbers those of a `u32`
  (`LimitsAgain`). The parts that are kept are numbered by how many come before
  them; that each number is taken (`EachPlaceIsTaken`) is a minimal counterexample.
  `SseAlwaysSound`: `SseInv` says that the bytes kept are the unfinished line of
  the text so far (`Residue`), the event begun is what the lines since the last
  one tell, and the events given and waiting are those of the text (`SseOpen`).
  That a chunk keeps it so goes byte by byte (`DecodesOneMore`, `DecodesAll`): a
  byte makes the unfinished line longer or a line of it (`LinesGrow`), and a line
  more does to what the lines tell at once (`EventTold`, `EventsOf`) what it does to
  the decoder's state (`FollowsOneMore`). Once a line is no UTF-8 nothing but the
  error follows, so the chunk's cut does not matter there either.
* `ChatProofs`: `ChatAlwaysFaithful`, for messages, replies and conversations of any
  length. `ChatFits` describes a conversation in two halves. What a request carries
  is described message by message (`HistoryFits`): the blocks that come from a
  message are those it is converted to on its own (`EachFound`), they come in turn
  (`InTurn`), stand under the message's role (`RolesFit`), and a call is found before
  its result (`ResultsFollow`). What such a block holds is settled by one message's
  conversion (`ConvertedCarries`, from a lemma per role): exactly what `GivenOf`
  names, and its calls. A message more is converted, merged or appended, and
  leaves the blocks of the others where they were (`HistoryOneMore`, on
  `SystemAddsNone` and `OthersAddTheirs`). What was told of a reply is described
  event by event (`SumAt`: the text, the calls and the ends before the event at a
  place): nothing before the first (`StartFits`), each event leads from one such sum
  to the next (`DeliverFits`), and after the last the sum is the whole reply
  (`SumsMean`). That the provider gets its own text and calls back (`ToldBack`) joins
  the halves: a reply enters the history as a message an assistant may speak
  (`WholeIs`). TLC checks `ChatFits`' consequences on the run's instance; the
  invariant itself was checked there before it was proved.

Recursive functions and induction: the induction theorems of the library cannot
be instantiated here, but that a nonempty set of naturals has a least element can
(`LeastNumber`, from the well-foundedness of the naturals). The inductions above
are minimal counterexamples, and the recursive functions (`Without`, the
cumulative weights, `TakeLines`, `JoinedData`, `Messages`, the library's
`FlattenSeq`) are shown to exist and to satisfy their equations that way. They are
written with IF: of a recursive function whose body is a CASE, tlapm 1.4.5 gives its
provers a translation that is wrong, and proves what does not hold. `JoinedData` was
written so; it and the proof that rests on it (`JoinsOneMore`) have been redone.

SelectSeq and the folds have no facts the prover knows: where a definition needs
no sequence, a set of positions says the same (`DecisionSound`, `FramesSound`,
`Detect`, the windows `Spending` looks at, and the parts and limits of
`Realtime`), and where it needs one, the numbers of a set in their order
(`InOrder` and `Picked` of `Positions`, whose facts are `Ordered`, `OrderedMore` and
`PickedIs`). `Chat` has no SelectSeq and no fold left for this reason.

Proving found places where the model was wrong or could not be reasoned about:
several CASE expressions whose guards overlapped, which TLC takes from the top
although TLA+ leaves the choice open (in `Stack`, `Guards`, `Registry`, `Sse`,
`Transport`; their guards now exclude each other), assumptions that
`Dispatch`, `Guards`, `Registry` and `Transport` had used without a name, and a
bound stated strictly that a wait with no time at all reaches (`WaitBounded`).
`Spending` had bounded an interval by three windows whatever the lag: it can meet
one more for each length that timestamps lag by. It had also left windows with a
limit of nothing out, of which more can be said: nobody passes.

Only model-checked: the liveness properties (fairness is beyond the prover) and the
violations. Every invariant and every action property a passing run checks is a
theorem, too. The type invariant of `Circuit` is proved and, since the proof says
more than a run could, no longer among the run's properties.

## Not modelled, and why

See `components` and `hazards` in `PROJECT.json`.

* Types, tokenizer, metrics, tracing, usage records: data definitions and output
  nothing reads back.
* The OpenAI codecs, which pass a body on, and the codecs of Responses and of
  native Messages, whose conversions keep no state.
* OpenDAL stores, HTTP connections, TLS, etcd: I/O, external where a module needs
  them. Tenants: a map behind a lock and a reader of etcd.
* Builder and configuration files: they fill in the configuration a client is
  built from and are done before anything runs.
* Several threads inside one method of the circuit breaker, of the cost limit's
  windows or of the ledger's reset(); windows shorter than a second.

## Plan

`CircuitThreads`: the policy's methods at the grain of their atomic operations,
against `Circuit`; the cost limit's windows at theirs.
