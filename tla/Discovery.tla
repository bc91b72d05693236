----------------------------- MODULE Discovery ------------------------------
(***************************************************************************)
(* DynamicRouter (tower/router.rs): upstreams come and go through a        *)
(* discovery stream, each insertion wrapped in a ConcurrencyLimit of its   *)
(* own, and calls go to the head of the ready ones.                        *)
(*                                                                         *)
(* ReadyCache and ConcurrencyLimit are tower's: a pushed service is pending *)
(* until its poll_ready succeeds (here: until it holds a permit), a key has *)
(* at most one pending and one ready instance, a call takes the instance   *)
(* out of the ready ones by swapping the last one into its place.          *)
(***************************************************************************)
EXTENDS Integers, Sequences, FiniteSets

CONSTANTS
  Keys,           \* upstream names
  Limits,         \* provider_configs: a function of some of the keys
  DefaultLimit,   \* DEFAULT_CONCURRENCY_LIMIT
  Callers,        \* the calls made
  MaxInserts      \* bound: insertions of each key

ASSUME RouterAssumption ==
  /\ MaxInserts \in Nat /\ IsFiniteSet(Callers)
  /\ DefaultLimit \in Nat /\ \A key \in DOMAIN Limits : Limits[key] \in Nat

VARIABLES
  ready,          \* ReadyCache.ready: a sequence of instances
  pending,        \* ReadyCache.pending: a set of instances
  inserted,       \* insertions so far, by key
  offered,        \* keys inserted and not removed since
  failed,         \* instances whose poll_ready failed
  called,         \* what became of each call
  serving         \* the instance each call is in flight on: a set, empty or not

routerVars == <<ready, pending, inserted, offered, failed, called, serving>>

\* An insertion makes an instance of its own, with a semaphore of its own.
Instances == [key : Keys, gen : 1..MaxInserts]
Current(key) == [key |-> key, gen |-> inserted[key]]
LimitOf(key) == IF key \in DOMAIN Limits THEN Limits[key] ELSE DefaultLimit
IsReady(i) == \E n \in DOMAIN ready : ready[n] = i
Busy(i) == Cardinality({c \in Callers : i \in serving[c]})

RouterInit ==
  /\ ready = <<>> /\ pending = {} /\ failed = {} /\ offered = {}
  /\ inserted = [key \in Keys |-> 0]
  /\ called = [c \in Callers |-> "idle"]
  /\ serving = [c \in Callers |-> {}]

\* IndexMap::swap_remove.
SwapRemove(s, n) ==
  [m \in 1..(Len(s) - 1) |-> IF m = n THEN s[Len(s)] ELSE s[m]]

\* update_from_discover, Change::Insert: the older instance stays ready until
\* the new one is; an older pending one is cancelled.
Insert(key) ==
  /\ inserted[key] < MaxInserts
  /\ inserted' = [inserted EXCEPT ![key] = @ + 1]
  /\ pending' = {i \in pending : i.key # key} \cup {[key |-> key, gen |-> inserted[key] + 1]}
  /\ offered' = offered \cup {key}
  /\ UNCHANGED <<ready, failed, called, serving>>

\* Change::Remove: evict takes the key out of both sets; its calls go on.
Remove(key) ==
  /\ key \in offered
  /\ offered' = offered \ {key}
  /\ pending' = {i \in pending : i.key # key}
  /\ ready' = IF \E n \in DOMAIN ready : ready[n].key = key
              THEN SwapRemove(ready, CHOOSE n \in DOMAIN ready : ready[n].key = key)
              ELSE ready
  /\ UNCHANGED <<inserted, failed, called, serving>>

\* poll_pending: an instance that gets a permit becomes ready, in the place
\* of the ready instance of its key if there is one.
BecomesReady(i) ==
  /\ i \in pending
  /\ Busy(i) < LimitOf(i.key)
  /\ pending' = pending \ {i}
  /\ ready' = IF \E n \in DOMAIN ready : ready[n].key = i.key
              THEN [n \in DOMAIN ready |-> IF ready[n].key = i.key THEN i ELSE ready[n]]
              ELSE Append(ready, i)
  /\ UNCHANGED <<inserted, offered, failed, called, serving>>

\* poll_pending: an instance whose poll_ready fails is dropped; poll_ready
\* discards the error.
FailsToGetReady(i) ==
  /\ i \in pending
  /\ pending' = pending \ {i}
  /\ failed' = failed \cup {i}
  /\ UNCHANGED <<ready, inserted, offered, called, serving>>

\* The called instance always goes back to the pending ones.
CallReadyPushesBack(c) ==
  /\ called[c] = "idle" /\ ready # <<>>
  /\ LET i == Head(ready) IN
     /\ called' = [called EXCEPT ![c] = "calling"]
     /\ serving' = [serving EXCEPT ![c] = {i}]
     /\ ready' = SwapRemove(ready, 1)
     /\ pending' = {j \in pending : j.key # i.key} \cup {i}
  /\ UNCHANGED <<inserted, offered, failed>>

\* call: call_ready_index(0); the instance goes back to the pending ones
\* unless a newer one of its key is there.
CallReady(c) ==
  /\ called[c] = "idle" /\ ready # <<>>
  /\ LET i == Head(ready) IN
     /\ called' = [called EXCEPT ![c] = "calling"]
     /\ serving' = [serving EXCEPT ![c] = {i}]
     /\ ready' = SwapRemove(ready, 1)
     /\ pending' = IF \E j \in pending : j.key = i.key THEN pending ELSE pending \cup {i}
  /\ UNCHANGED <<inserted, offered, failed>>

\* call with nothing ready (code 2002), or an error of the discovery stream
\* in poll_ready (code 2001): both a server error 503.
Refuse(c) ==
  /\ called[c] = "idle"
  /\ called' = [called EXCEPT ![c] = "refused"]
  /\ UNCHANGED <<ready, pending, inserted, offered, failed, serving>>

\* The future of ConcurrencyLimit ends, or is dropped: its permit is free.
Finish(c) ==
  /\ called[c] = "calling"
  /\ called' = [called EXCEPT ![c] = "done"]
  /\ serving' = [serving EXCEPT ![c] = {}]
  /\ UNCHANGED <<ready, pending, inserted, offered, failed>>

RouterNext ==
  \/ \E key \in Keys : Insert(key) \/ Remove(key)
  \/ \E i \in Instances : BecomesReady(i) \/ FailsToGetReady(i)
  \/ \E c \in Callers : CallReady(c) \/ Refuse(c) \/ Finish(c)

RouterSpec == RouterInit /\ [][RouterNext]_routerVars

-----------------------------------------------------------------------------
(* Properties.                                                             *)

\* An instance never has more calls in flight than its limit, the permit a
\* ready one holds included.  (Instances of one key have a limit each.)
ConcurrencyHeld ==
  \A i \in Instances : Busy(i) + (IF IsReady(i) THEN 1 ELSE 0) <= LimitOf(i.key)

\* An upstream the discovery offers stays reachable: whatever calls, removals
\* and insertions overlap, its newest instance is ready or pending unless its
\* own poll_ready has failed.
OfferedReachable ==
  \A key \in offered :
    IsReady(Current(key)) \/ Current(key) \in pending \/ Current(key) \in failed

\* A key that was removed has no instance a call could still be sent to, and
\* no key has two ready or two pending ones.
RemovedGone ==
  /\ \A n \in DOMAIN ready : ready[n].key \in offered
  /\ \A i \in pending : i.key \in offered
  /\ \A m, n \in DOMAIN ready : ready[m].key = ready[n].key => m = n
  /\ \A i, j \in pending : i.key = j.key => i = j

\* DynamicRouter::update_from_discover, poll_ready and call together.
DynamicRouterSafe == ConcurrencyHeld /\ OfferedReachable /\ RemovedGone
=============================================================================
