---------------------------- MODULE CircuitProofs ----------------------------
(***************************************************************************)
(* Safety of the circuit breaker for any number of requests, any           *)
(* threshold and any backoffs.                                             *)
(***************************************************************************)
EXTENDS Circuit, TLAPS

USE ThresholdAssumption, BackoffAssumption, RequestsAssumption
    DEF ThresholdAssumption, BackoffAssumption, RequestsAssumption

\* The capped backoff is a number of ticks of at most MaxBackoff.
LEMMA BackoffRange == \A n \in Nat : Backoff(n) \in 0..MaxBackoff
  BY DEF Backoff

\* Every variable keeps its type: the saturating counters stay in range.
THEOREM TypeCorrect == Spec => []TypeOK
<1>1. Init => TypeOK
  BY DEF Init, TypeOK, CircuitState, NotOpened
<1>2. TypeOK /\ [Next]_vars => TypeOK'
  <2> SUFFICES ASSUME TypeOK, [Next]_vars PROVE TypeOK'
    OBVIOUS
  <2> USE DEF TypeOK, CircuitState, NotOpened, Free, Leaked, MovesTo, Ends
  <2>1. ASSUME NEW r \in Requests, Call(r) \/ DropUnpolled(r) PROVE TypeOK'
    BY <2>1 DEF Call, DropUnpolled, policyVars
  <2>2. ASSUME NEW r \in Requests, Poll(r) PROVE TypeOK'
    BY <2>2 DEF Poll, AdmitClosed, AdmitProbe, Reject, policyVars
  <2>3. ASSUME NEW r \in Requests, Succeed(r) PROVE TypeOK'
    BY <2>3 DEF Succeed, RecordSuccess, FreeSlot
  <2>4. ASSUME NEW r \in Requests, FailTransient(r) PROVE TypeOK'
    BY <2>4 DEF FailTransient, RecordFailure, NextUpTo, FreeSlot, KeepSlot
  <2>5. ASSUME NEW r \in Requests, FailPermanent(r) \/ Cancel(r) PROVE TypeOK'
    BY <2>5 DEF FailPermanent, Cancel, GiveSlotBack, ReleaseProbeSlot, FreeSlot, KeepSlot
  <2>6. CASE Tick
    BY <2>6 DEF Tick
  <2>7. CASE UNCHANGED vars
    BY <2>7 DEF vars
  <2>8. QED
    BY <2>1, <2>2, <2>3, <2>4, <2>5, <2>6, <2>7 DEF Next, Finish
<1>3. QED
  BY <1>1, <1>2, PTL DEF Spec

----------------------------------------------------------------------------
(***************************************************************************)
(* The three invariants are inductive together: a failure of the request   *)
(* that holds the slot must find the breaker HalfOpen, or it would walk    *)
(* away with the slot, and that is what SlotAccounted says.                *)
(***************************************************************************)
BreakerInv ==
    /\ TypeOK
    /\ SlotAccounted
    /\ ClosedBelowThreshold
    /\ HalfOpenAfterBackoff

LEMMA BreakerInit == Init => BreakerInv
  BY DEF Init, BreakerInv, TypeOK, CircuitState, NotOpened, SlotAccounted,
         ClosedBelowThreshold, HalfOpenAfterBackoff

LEMMA BreakerStep == TypeOK' /\ BreakerInv /\ [Next]_vars => BreakerInv'
<1> SUFFICES ASSUME TypeOK', BreakerInv, [Next]_vars PROVE BreakerInv'
  OBVIOUS
<1> USE DEF BreakerInv, TypeOK, CircuitState, NotOpened
<1>a. Backoff(openCount) \in 0..MaxBackoff
  BY BackoffRange
<1>1. SlotAccounted'
  <2> USE DEF SlotAccounted, Free, Leaked, MovesTo, Ends
  <2>1. ASSUME NEW r \in Requests, Call(r) \/ DropUnpolled(r) PROVE SlotAccounted'
    BY <2>1 DEF Call, DropUnpolled, policyVars
  <2>2. ASSUME NEW r \in Requests, Poll(r) PROVE SlotAccounted'
    BY <2>2 DEF Poll, AdmitClosed, AdmitProbe, Reject, ProbeTime, policyVars
  <2>3. ASSUME NEW r \in Requests, Succeed(r) PROVE SlotAccounted'
    BY <2>3 DEF Succeed, RecordSuccess, FreeSlot
  <2>4. ASSUME NEW r \in Requests, FailTransient(r) PROVE SlotAccounted'
    BY <2>4 DEF FailTransient, RecordFailure, FreeSlot, KeepSlot
  <2>5. ASSUME NEW r \in Requests, FailPermanent(r) \/ Cancel(r)
        PROVE SlotAccounted'
    BY <2>5 DEF FailPermanent, Cancel, GiveSlotBack, ReleaseProbeSlot, FreeSlot, KeepSlot
  <2>6. CASE Tick
    BY <2>6 DEF Tick
  <2>7. CASE UNCHANGED vars
    BY <2>7 DEF vars
  <2>8. QED
    BY <2>1, <2>2, <2>3, <2>4, <2>5, <2>6, <2>7 DEF Next, Finish
<1>2. ClosedBelowThreshold' /\ HalfOpenAfterBackoff'
  <2> USE <1>a DEF ClosedBelowThreshold, HalfOpenAfterBackoff
  <2> DEFINE Goal == ClosedBelowThreshold' /\ HalfOpenAfterBackoff'
  <2>1. ASSUME NEW r \in Requests, Call(r) \/ DropUnpolled(r) PROVE Goal
    BY <2>1 DEF Call, DropUnpolled, policyVars
  <2>2. ASSUME NEW r \in Requests, Poll(r) PROVE Goal
    <3>1. CASE AdmitClosed(r)
      BY <3>1 DEF AdmitClosed, policyVars
    <3>2. CASE AdmitProbe(r)
      BY <3>2 DEF AdmitProbe, ProbeTime, BackoffElapsed
    <3>3. CASE Reject(r)
      BY <3>3 DEF Reject, ProbeTime, BackoffElapsed
    <3>4. QED
      BY <2>2, <3>1, <3>2, <3>3 DEF Poll
  <2>3. ASSUME NEW r \in Requests, Succeed(r) PROVE Goal
    BY <2>3 DEF Succeed, RecordSuccess
  <2>4. ASSUME NEW r \in Requests, FailTransient(r) PROVE Goal
    BY <2>4 DEF FailTransient, RecordFailure, ShouldOpen
  <2>5. ASSUME NEW r \in Requests, FailPermanent(r) \/ Cancel(r) PROVE Goal
    BY <2>5 DEF FailPermanent, Cancel, GiveSlotBack, ReleaseProbeSlot
  <2>6. CASE Tick
    BY <2>6 DEF Tick
  <2>7. CASE UNCHANGED vars
    BY <2>7 DEF vars
  <2>8. QED
    BY <2>1, <2>2, <2>3, <2>4, <2>5, <2>6, <2>7 DEF Next, Finish
<1>3. QED
  BY <1>1, <1>2

\* The breaker's bookkeeping holds in every reachable state.
THEOREM BreakerCorrect == Spec => []BreakerInv
<1>1. Init => BreakerInv
  BY BreakerInit
<1>2. TypeOK' /\ BreakerInv /\ [Next]_vars => BreakerInv'
  BY BreakerStep
<1>3. QED
  BY <1>1, <1>2, TypeCorrect, PTL DEF Spec

\* The probe slot is free, held by a request in flight, or leaked; it is
\* never taken outside a half-open round.
THEOREM SlotIsAccounted == Spec => []SlotAccounted
  BY BreakerCorrect, PTL DEF BreakerInv

\* The breaker is never Closed with its threshold reached.
THEOREM ClosedMeansBelowThreshold == Spec => []ClosedBelowThreshold
  BY BreakerCorrect, PTL DEF BreakerInv

\* A half-open round begins only after the latest opening's full backoff.
THEOREM HalfOpenWaits == Spec => []HalfOpenAfterBackoff
  BY BreakerCorrect, PTL DEF BreakerInv

\* Only a request created while the breaker was Closed can leak the slot.
THEOREM LeakNeedsStaleCaller == Spec => OnlyStaleCallerLeaks
<1>1. BreakerInv /\ [Next]_vars
        => [slot' = Leaked /\ slot # Leaked => ~IsProbe(slot)]_vars
  <2> SUFFICES ASSUME BreakerInv, Next, slot' = Leaked, slot # Leaked
               PROVE ~IsProbe(slot)
    BY DEF vars
  <2> USE DEF BreakerInv, TypeOK, Free, Leaked
  <2>1. ASSUME NEW r \in Requests, Call(r) \/ DropUnpolled(r) \/ Poll(r)
        PROVE FALSE
    BY <2>1 DEF Call, DropUnpolled, Poll, AdmitClosed, AdmitProbe, Reject, policyVars
  <2>2. ASSUME NEW r \in Requests, Succeed(r) PROVE FALSE
    BY <2>2 DEF Succeed, RecordSuccess, FreeSlot
  <2>3. ASSUME NEW r \in Requests, FailTransient(r) PROVE FALSE
    BY <2>3 DEF FailTransient, RecordFailure, ShouldOpen, FreeSlot, KeepSlot,
                SlotAccounted
  <2>4. ASSUME NEW r \in Requests, FailPermanent(r) \/ Cancel(r)
        PROVE ~IsProbe(slot)
    BY <2>4 DEF FailPermanent, Cancel, GiveSlotBack, ReleaseProbeSlot, FreeSlot, KeepSlot
  <2>5. CASE Tick
    BY <2>5 DEF Tick
  <2>6. QED
    BY <2>1, <2>2, <2>3, <2>4, <2>5 DEF Next, Finish
<1>2. QED
  BY <1>1, BreakerCorrect, PTL DEF Spec, OnlyStaleCallerLeaks

=============================================================================
