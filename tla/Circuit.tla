------------------------------- MODULE Circuit -------------------------------
(***************************************************************************)
(* The circuit breaker of src/src/tower/circuit.rs: the policy             *)
(* ExponentialBackoffCircuit and the requests that pass through            *)
(* CircuitService.                                                         *)
(*                                                                         *)
(* A request lives through three steps that other requests interleave      *)
(* with: call() reads the state and builds the future, the first poll asks *)
(* should_allow(), and the inner call ends some time later with a success, *)
(* a transient error, any other error, or by the future being dropped.     *)
(* Between two awaits the policy's methods run without suspension, so each *)
(* of them is one step here (the interleavings of a current_thread         *)
(* runtime).                                                               *)
(*                                                                         *)
(* Two counters are abstracted exactly: failures is only compared with     *)
(* FailureThreshold and openCount only feeds a backoff that stops growing, *)
(* so both saturate.  Time is the age of open_since, which is compared     *)
(* with backoffs of at most MaxBackoff and saturates there.                *)
(***************************************************************************)
EXTENDS Integers

CONSTANTS
    Requests,           \* slots for requests in flight, reused for ever
    FailureThreshold,   \* failure_threshold
    BaseBackoff,        \* base_backoff, in ticks
    MaxBackoff,         \* max_backoff, in ticks
    MaxOpenCount        \* the count from which the backoff stays capped

ASSUME ThresholdAssumption == FailureThreshold \in Nat
ASSUME BackoffAssumption ==
    BaseBackoff \in Nat /\ MaxBackoff \in Nat /\ MaxOpenCount \in Nat

VARIABLES
    state,      \* CircuitInner.state
    failures,   \* consecutive_failures, saturating at FailureThreshold
    openAge,    \* now - open_since, or NotOpened while open_since is None
    openCount,  \* open_count, saturating at MaxOpenCount
    pc,         \* where each request is
    seen,       \* the state each request read in call()
    slot        \* probe_in_flight: Free, or who took it

policyVars == <<state, failures, openAge, openCount, slot>>
vars == <<state, failures, openAge, openCount, pc, seen, slot>>

Free == "Free"          \* probe_in_flight = false
Leaked == "Leaked"      \* probe_in_flight = true and its taker is gone
NotOpened == -1

ASSUME RequestsAssumption == {Free, Leaked} \cap Requests = {}

CircuitState == {"Closed", "Open", "HalfOpen"}

TypeOK ==
    /\ state \in CircuitState
    /\ failures \in 0..FailureThreshold
    /\ openAge \in NotOpened..MaxBackoff
    /\ openCount \in 0..MaxOpenCount
    /\ pc \in [Requests -> {"idle", "created", "running"}]
    /\ seen \in [Requests -> CircuitState]
    /\ slot \in Requests \cup {Free, Leaked}

Init ==
    /\ state = "Closed"
    /\ failures = 0
    /\ openAge = NotOpened
    /\ openCount = 0
    /\ pc = [r \in Requests |-> "idle"]
    /\ seen = [r \in Requests |-> "Closed"]
    /\ slot = Free

----------------------------------------------------------------------------
(* The policy.                                                             *)

\* Counting up to where nothing in the model tells the counts apart.
NextUpTo(n, cap) == IF n < cap THEN n + 1 ELSE cap

\* current_backoff: base * 2^open_count, capped.
Backoff(count) ==
    LET doubled == BaseBackoff * 2^count
    IN  IF doubled \in 0..MaxBackoff THEN doubled ELSE MaxBackoff

BackoffElapsedUndoubled == openAge # NotOpened /\ openAge >= BaseBackoff
BackoffElapsed == openAge # NotOpened /\ openAge >= Backoff(openCount)

\* A half-open round is on, or maybe_half_open() starts one.
ProbeTime == state = "HalfOpen" \/ (state = "Open" /\ BackoffElapsed)

FreeSlot == slot' = Free

\* The slot when r goes without freeing it.
KeepSlot(r) == slot' = IF slot = r THEN Leaked ELSE slot

RecordSuccessKeepingSlot ==
    /\ failures' = 0
    /\ state' = "Closed"
    /\ UNCHANGED <<openAge, openCount, slot>>

RecordSuccessKeepingFailures ==
    /\ state' = "Closed"
    /\ FreeSlot
    /\ UNCHANGED <<failures, openAge, openCount>>

RecordSuccess ==
    /\ failures' = 0
    /\ state' = "Closed"
    /\ FreeSlot
    /\ UNCHANGED <<openAge, openCount>>

ShouldOpen ==
    /\ state # "Open"
    /\ failures' >= FailureThreshold \/ state = "HalfOpen"

RecordFailureUnstamped(r) ==
    /\ failures' = NextUpTo(failures, FailureThreshold)
    /\ \/ /\ ShouldOpen
          /\ state' = "Open"
          /\ openCount' = NextUpTo(openCount, MaxOpenCount)
          /\ FreeSlot
          /\ UNCHANGED openAge
       \/ /\ ~ShouldOpen
          /\ KeepSlot(r)
          /\ UNCHANGED <<state, openAge, openCount>>

RecordFailure(r) ==
    /\ failures' = NextUpTo(failures, FailureThreshold)
    /\ \/ /\ ShouldOpen
          /\ state' = "Open"
          /\ openAge' = 0
          /\ openCount' = NextUpTo(openCount, MaxOpenCount)
          /\ FreeSlot
       \/ /\ ~ShouldOpen
          /\ KeepSlot(r)
          /\ UNCHANGED <<state, openAge, openCount>>

ReleaseProbeSlot == FreeSlot /\ UNCHANGED <<state, failures, openAge, openCount>>

----------------------------------------------------------------------------
(* The requests.                                                           *)

MovesTo(r, from, to) == pc[r] = from /\ pc' = [pc EXCEPT ![r] = to]

\* The future ends or is dropped.
Ends(r, from) == MovesTo(r, from, "idle") /\ seen' = [seen EXCEPT ![r] = "Closed"]

\* is_probe: the request believes it is a probe because of what call() saw.
IsProbe(r) == seen[r] # "Closed"

\* CircuitService::call up to the returned future.
Call(r) ==
    /\ MovesTo(r, "idle", "created")
    /\ seen' = [seen EXCEPT ![r] = state]
    /\ UNCHANGED policyVars

\* The future is dropped before its first poll.
DropUnpolled(r) == Ends(r, "created") /\ UNCHANGED policyVars

\* First poll, should_allow() = true in the Closed state.
AdmitClosed(r) ==
    /\ state = "Closed"
    /\ MovesTo(r, "created", "running")
    /\ UNCHANGED <<seen, policyVars>>

\* First poll, should_allow() = true by taking the probe slot.
AdmitProbe(r) ==
    /\ ProbeTime
    /\ slot = Free
    /\ state' = "HalfOpen"
    /\ slot' = r
    /\ MovesTo(r, "created", "running")
    /\ UNCHANGED <<failures, openAge, openCount, seen>>

\* First poll, should_allow() = false: 503, with maybe_half_open()'s store.
Reject(r) ==
    /\ \/ state = "Open" /\ ~BackoffElapsed /\ UNCHANGED state
       \/ ProbeTime /\ slot # Free /\ state' = "HalfOpen"
    /\ Ends(r, "created")
    /\ UNCHANGED <<failures, openAge, openCount, slot>>

Succeed(r) == Ends(r, "running") /\ RecordSuccess

FailTransient(r) == Ends(r, "running") /\ RecordFailure(r)

\* Only a request that believes it is a probe gives the slot back.
GiveSlotBack(r) ==
    \/ IsProbe(r) /\ ReleaseProbeSlot
    \/ ~IsProbe(r) /\ KeepSlot(r) /\ UNCHANGED <<state, failures, openAge, openCount>>

\* A non-transient error.
FailPermanent(r) == Ends(r, "running") /\ GiveSlotBack(r)

CancelUnguarded(r) ==
    /\ Ends(r, "running")
    /\ KeepSlot(r)
    /\ UNCHANGED <<state, failures, openAge, openCount>>

\* The running future is dropped, with its ProbeGuard.
Cancel(r) == Ends(r, "running") /\ GiveSlotBack(r)

\* Time passes.
Tick ==
    /\ openAge # NotOpened
    /\ openAge < MaxBackoff
    /\ openAge' = openAge + 1
    /\ UNCHANGED <<state, failures, openCount, pc, seen, slot>>

Poll(r) == AdmitClosed(r) \/ AdmitProbe(r) \/ Reject(r)
Finish(r) == Succeed(r) \/ FailTransient(r) \/ FailPermanent(r) \/ Cancel(r)

Next ==
    \/ \E r \in Requests :
          Call(r) \/ DropUnpolled(r) \/ Poll(r) \/ Finish(r)
    \/ Tick

Spec == Init /\ [][Next]_vars

(***************************************************************************)
(* Clients keep calling, a created future is polled or dropped, and the    *)
(* inner call ends (the HTTP client has a request timeout).  How it ends   *)
(* is not fair: an upstream may fail for ever.                             *)
(***************************************************************************)
Fairness ==
    /\ WF_vars(Tick)
    /\ \A r \in Requests :
          WF_vars(Call(r)) /\ SF_vars(Poll(r)) /\ WF_vars(Finish(r))

FairSpec == Spec /\ Fairness

----------------------------------------------------------------------------
(* Properties.                                                             *)

\* The probe slot is taken only during a half-open round, and then by a
\* request that is still in flight, unless it leaked: no stale slot survives
\* the closing or the opening of the breaker.
SlotAccounted ==
    slot # Free =>
        /\ state = "HalfOpen"
        /\ slot = Leaked \/ pc[slot] = "running"

\* The breaker never sits Closed with its failure threshold reached: failures
\* that arrive late, while it is Open, do not survive the closing.
ClosedBelowThreshold == state = "Closed" /\ failures > 0 => failures < FailureThreshold

\* A half-open round begins only when the backoff of the latest opening has
\* passed, whichever requests were in flight when the breaker tripped.
HalfOpenAfterBackoff ==
    /\ state = "HalfOpen" => openAge >= Backoff(openCount)
    /\ state # "Closed" => openAge # NotOpened

\* A request that knows it is a probe never takes the slot with it, whether
\* it succeeds, fails or is cancelled: only a request that was created while
\* the breaker was Closed and polled later can leak the slot.
OnlyStaleCallerLeaks ==
    [][slot' = Leaked /\ slot # Leaked => ~IsProbe(slot)]_vars

\* An open breaker does not stay open while clients keep calling.
OpenEnds == state = "Open" ~> state # "Open"

\* The comment in record_success: "Release the probe slot so a future
\* HalfOpen round can happen": the slot always becomes free again.
SlotFreed == slot # Free ~> slot = Free

=============================================================================
