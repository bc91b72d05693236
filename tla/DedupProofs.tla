------------------------------ MODULE DedupProofs ------------------------------
(***************************************************************************)
(* What is done once for several requests: safety of singleflight for any  *)
(* number of requests and keys, and of idempotency keys for any number of  *)
(* requests, keys and bodies and any TTL.                                  *)
(***************************************************************************)
EXTENDS Singleflight, Idempotency, FiniteSetTheorems, TLAPS

USE RequestsAssumption DEF RequestsAssumption

(***************************************************************************)
(* What ties the map to the requests.  MapNamesLeaders alone is inductive  *)
(* over the types; FollowerHasLeader needs it, because a follower          *)
(* subscribes to whatever the map names.                                   *)
(***************************************************************************)
FlightInv == TypeOK /\ MapNamesLeaders /\ FollowerHasLeader

LEMMA FlightInit == Init => FlightInv
  BY DEF Init, FlightInv, TypeOK, MapNamesLeaders, FollowerHasLeader, NoFlight, NoMail, Mail

LEMMA TypeStep == TypeOK /\ [Next]_vars => TypeOK'
<1> SUFFICES ASSUME TypeOK, [Next]_vars PROVE TypeOK'
  OBVIOUS
<1> USE DEF TypeOK, Mail, MovesTo
<1>1. ASSUME NEW r \in Requests, NEW k \in Keys, Call(r, k) PROVE TypeOK'
  BY <1>1 DEF Call
<1>2. ASSUME NEW r \in Requests, DropUnpolled(r) PROVE TypeOK'
  BY <1>2 DEF DropUnpolled
<1>3. ASSUME NEW r \in Requests, Join(r) PROVE TypeOK'
  BY <1>3 DEF Join, JoinLeader, JoinFollower
<1>4. ASSUME NEW r \in Requests, NEW answer \in Answer, Send(r, answer) PROVE TypeOK'
  BY <1>4 DEF Send, Deliver, Shared
<1>5. ASSUME NEW r \in Requests, LeaderDropped(r) \/ Close(r) PROVE TypeOK'
  BY <1>5 DEF LeaderDropped, Close, RemoveKey, Deliver
<1>6. ASSUME NEW r \in Requests, LeavesChannel(r) PROVE TypeOK'
  BY <1>6 DEF LeavesChannel
<1>7. CASE UNCHANGED vars
  BY <1>7 DEF vars
<1>8. QED
  BY <1>1, <1>2, <1>3, <1>4, <1>5, <1>6, <1>7
     DEF Next, LeaderEnds, Receive, FollowerDropped

LEMMA MapStep == TypeOK /\ TypeOK' /\ MapNamesLeaders /\ [Next]_vars => MapNamesLeaders'
<1> SUFFICES ASSUME TypeOK, TypeOK', MapNamesLeaders, [Next]_vars
             PROVE MapNamesLeaders'
  OBVIOUS
<1> USE DEF TypeOK, MapNamesLeaders, MovesTo
<1>1. ASSUME NEW r \in Requests, NEW k \in Keys, Call(r, k) PROVE MapNamesLeaders'
  BY <1>1 DEF Call
<1>2. ASSUME NEW r \in Requests, DropUnpolled(r) PROVE MapNamesLeaders'
  BY <1>2 DEF DropUnpolled
<1>3. ASSUME NEW r \in Requests, JoinLeader(r) PROVE MapNamesLeaders'
  BY <1>3 DEF JoinLeader
<1>4. ASSUME NEW r \in Requests, JoinFollower(r) PROVE MapNamesLeaders'
  BY <1>4 DEF JoinFollower
<1>5. ASSUME NEW r \in Requests, NEW answer \in Answer, Send(r, answer)
      PROVE MapNamesLeaders'
  BY <1>5 DEF Send
<1>6. ASSUME NEW r \in Requests, LeaderDropped(r) \/ Close(r) PROVE MapNamesLeaders'
  BY <1>6 DEF LeaderDropped, Close, RemoveKey
<1>7. ASSUME NEW r \in Requests, LeavesChannel(r) PROVE MapNamesLeaders'
  BY <1>7 DEF LeavesChannel
<1>8. CASE UNCHANGED vars
  BY <1>8 DEF vars
<1>9. QED
  BY <1>1, <1>2, <1>3, <1>4, <1>5, <1>6, <1>7, <1>8
     DEF Next, Join, LeaderEnds, Receive, FollowerDropped

LEMMA FollowerStep ==
  TypeOK /\ TypeOK' /\ MapNamesLeaders /\ FollowerHasLeader /\ [Next]_vars
    => FollowerHasLeader'
<1> SUFFICES ASSUME TypeOK, TypeOK', MapNamesLeaders, FollowerHasLeader, [Next]_vars
             PROVE FollowerHasLeader'
  OBVIOUS
<1> USE DEF TypeOK, FollowerHasLeader, MovesTo
<1>1. ASSUME NEW r \in Requests, NEW k \in Keys, Call(r, k) PROVE FollowerHasLeader'
  BY <1>1 DEF Call
<1>2. ASSUME NEW r \in Requests, DropUnpolled(r) PROVE FollowerHasLeader'
  BY <1>2 DEF DropUnpolled
<1>3. ASSUME NEW r \in Requests, JoinLeader(r) PROVE FollowerHasLeader'
  BY <1>3 DEF JoinLeader
<1>4. ASSUME NEW r \in Requests, JoinFollower(r) PROVE FollowerHasLeader'
  BY <1>4 DEF JoinFollower, MapNamesLeaders
<1>5. ASSUME NEW r \in Requests, NEW answer \in Answer, Send(r, answer)
      PROVE FollowerHasLeader'
  BY <1>5 DEF Send, Deliver, Pending
<1>6. ASSUME NEW r \in Requests, LeaderDropped(r) \/ Close(r) PROVE FollowerHasLeader'
  BY <1>6 DEF LeaderDropped, Close, Deliver, Pending, NoMail
<1>7. ASSUME NEW r \in Requests, LeavesChannel(r) PROVE FollowerHasLeader'
  BY <1>7 DEF LeavesChannel
<1>8. CASE UNCHANGED vars
  BY <1>8 DEF vars
<1>9. QED
  BY <1>1, <1>2, <1>3, <1>4, <1>5, <1>6, <1>7, <1>8
     DEF Next, Join, LeaderEnds, Receive, FollowerDropped

\* The types, the map and the followers stay consistent in every state.
THEOREM FlightsConsistent == Spec => []FlightInv
<1>1. Init => FlightInv
  BY FlightInit
<1>2. FlightInv /\ [Next]_vars => FlightInv'
  BY TypeStep, MapStep, FollowerStep DEF FlightInv
<1>3. QED
  BY <1>1, <1>2, PTL DEF Spec

\* The map names exactly the leaders that have not left it.
THEOREM MapIsExact == Spec => []MapNamesLeaders
  BY FlightsConsistent, PTL DEF FlightInv

\* No follower is left waiting on a channel without a live leader.
THEOREM NoOrphanedFollower == Spec => []FollowerHasLeader
  BY FlightsConsistent, PTL DEF FlightInv

\* At most one inner call per key: two leaders of a key would both be what
\* the map names under it.
THEOREM NoDuplicateInnerCall == Spec => []OneInnerCallPerKey
<1>1. FlightInv => OneInnerCallPerKey
  <2> SUFFICES ASSUME FlightInv, NEW k \in Keys
               PROVE Cardinality(InnerCalls(k)) <= 1
    BY DEF OneInnerCallPerKey
  <2>1. \A r \in InnerCalls(k) : inFlight[k] = r
    BY DEF FlightInv, MapNamesLeaders, InnerCalls
  <2>2. CASE InnerCalls(k) = {}
    BY <2>2, FS_EmptySet
  <2>3. CASE InnerCalls(k) # {}
    <3>1. InnerCalls(k) = {inFlight[k]}
      BY <2>1, <2>3
    <3>2. QED
      BY <3>1, FS_Singleton
  <2>4. QED
    BY <2>2, <2>3
<1>2. QED
  BY <1>1, FlightsConsistent, PTL

-----------------------------------------------------------------------------
(* Idempotency keys.                                                       *)

USE TTLAssumption, NamesAssumption DEF TTLAssumption, NamesAssumption

(***************************************************************************)
(* OneExecutionPerKey is not inductive: that a second try_insert() fails   *)
(* rests on the entry of the first execution being there, unexpired and    *)
(* its own, for as long as it runs.                                        *)
(***************************************************************************)
OwnsEntry(r) ==
    /\ Present(keyOf[r])
    /\ entryBody[keyOf[r]] = body[r]
    /\ response[keyOf[r]] = NoResponse

ExecutionsOwnEntries ==
    \A r \in KeyedRequests :
        phase[r] = "calling" /\ keyOf[r] \notin late =>
            /\ OwnsEntry(r)
            /\ \A q \in KeyedRequests : phase[q] = "calling" /\ keyOf[q] = keyOf[r] => q = r

StoreInv == IdempotencyTypeOK /\ ExecutionsOwnEntries /\ StoredUnderOwnBody

LEMMA StoreInit == IdempotencyInit => StoreInv
  BY DEF IdempotencyInit, StoreInv, IdempotencyTypeOK, ExecutionsOwnEntries, StoredUnderOwnBody

LEMMA IdempotencyTypeStep == IdempotencyTypeOK /\ [IdempotencyNext]_idempotencyVars => IdempotencyTypeOK'
<1> SUFFICES ASSUME IdempotencyTypeOK, [IdempotencyNext]_idempotencyVars PROVE IdempotencyTypeOK'
  OBVIOUS
<1> USE DEF IdempotencyTypeOK, PhaseMoves, entryVars
<1>1. ASSUME NEW r \in KeyedRequests, NEW k \in IdempotencyKeys, NEW b \in Bodies, Begin(r, k, b)
      PROVE IdempotencyTypeOK'
  BY <1>1 DEF Begin
<1>2. ASSUME NEW r \in KeyedRequests, Get(r) \/ InsertFails(r) \/ Recheck(r) PROVE IdempotencyTypeOK'
  BY <1>2 DEF Get, InsertFails, Recheck
<1>3. ASSUME NEW r \in KeyedRequests, Insert(r) PROVE IdempotencyTypeOK'
  BY <1>3 DEF Insert, InsertEntry
<1>4. ASSUME NEW r \in KeyedRequests, Reread(r) PROVE IdempotencyTypeOK'
  BY <1>4 DEF Reread, RereadFinds, RereadMisses
<1>5. ASSUME NEW r \in KeyedRequests, Succeed(r) PROVE IdempotencyTypeOK'
  BY <1>5 DEF Succeed, StoreResponse
<1>6. ASSUME NEW r \in KeyedRequests, Fail(r) \/ Cancel(r) PROVE IdempotencyTypeOK'
  BY <1>6 DEF Fail, RemoveEntry, Cancel
<1>7. CASE Tick
  BY <1>7 DEF Tick
<1>8. CASE UNCHANGED idempotencyVars
  BY <1>8 DEF idempotencyVars
<1>9. QED
  BY <1>1, <1>2, <1>3, <1>4, <1>5, <1>6, <1>7, <1>8 DEF IdempotencyNext, Try, Finish

LEMMA OwnershipStep ==
    StoreInv /\ IdempotencyTypeOK' /\ [IdempotencyNext]_idempotencyVars => ExecutionsOwnEntries' /\ StoredUnderOwnBody'
<1> DEFINE Goal == ExecutionsOwnEntries' /\ StoredUnderOwnBody'
<1> SUFFICES ASSUME StoreInv, IdempotencyTypeOK', [IdempotencyNext]_idempotencyVars PROVE Goal
  OBVIOUS
<1> USE DEF StoreInv, IdempotencyTypeOK, ExecutionsOwnEntries, StoredUnderOwnBody, OwnsEntry,
            Present, IsExpired, PhaseMoves, entryVars
<1>1. ASSUME NEW r \in KeyedRequests, NEW k \in IdempotencyKeys, NEW b \in Bodies, Begin(r, k, b)
      PROVE Goal
  BY <1>1 DEF Begin
<1>2. ASSUME NEW r \in KeyedRequests, Get(r) \/ InsertFails(r) \/ Recheck(r) PROVE Goal
  BY <1>2 DEF Get, InsertFails, Recheck
<1>3. ASSUME NEW r \in KeyedRequests, Insert(r) PROVE Goal
  BY <1>3 DEF Insert, InsertEntry
<1>4. ASSUME NEW r \in KeyedRequests, Reread(r) PROVE Goal
  BY <1>4 DEF Reread, RereadFinds, RereadMisses
<1>5. ASSUME NEW r \in KeyedRequests, Succeed(r) PROVE Goal
  BY <1>5 DEF Succeed, StoreResponse
<1>6. ASSUME NEW r \in KeyedRequests, Fail(r) PROVE Goal
  BY <1>6 DEF Fail, RemoveEntry
<1>7. ASSUME NEW r \in KeyedRequests, Cancel(r) PROVE Goal
  BY <1>7 DEF Cancel
<1>8. CASE Tick
  BY <1>8 DEF Tick, Calling
<1>9. CASE UNCHANGED idempotencyVars
  BY <1>9 DEF idempotencyVars
<1>10. QED
  BY <1>1, <1>2, <1>3, <1>4, <1>5, <1>6, <1>7, <1>8, <1>9 DEF IdempotencyNext, Try, Finish

\* Every execution whose key never ran late owns its entry, alone, whatever
\* requests, expiries, failures and cancellations interleave with it: the
\* inductive invariant of the store.
THEOREM ExecutionsOwnTheirEntries == IdempotencySpec => []StoreInv
<1>1. IdempotencyInit => StoreInv
  BY StoreInit
<1>2. StoreInv /\ [IdempotencyNext]_idempotencyVars => StoreInv'
  <2> SUFFICES ASSUME StoreInv, [IdempotencyNext]_idempotencyVars PROVE StoreInv'
    OBVIOUS
  <2>1. IdempotencyTypeOK'
    BY IdempotencyTypeStep DEF StoreInv
  <2> QED
    BY <2>1, OwnershipStep DEF StoreInv
<1>3. QED
  BY <1>1, <1>2, PTL DEF IdempotencySpec

\* A stored response was produced for the body its entry names (late keys
\* excepted): store_response() and remove() act on their own entry.
THEOREM ResponsesAreStoredUnderTheirBody == IdempotencySpec => []StoredUnderOwnBody
<1>1. StoreInv => StoredUnderOwnBody
  BY DEF StoreInv
<1>2. QED
  BY <1>1, ExecutionsOwnTheirEntries, PTL

LEMMA AloneIsOne == StoreInv => OneExecutionPerKey
<1> SUFFICES ASSUME StoreInv, NEW k \in IdempotencyKeys \ late PROVE Cardinality(Calling(k)) <= 1
  BY DEF OneExecutionPerKey
<1>1. CASE Calling(k) = {}
  BY <1>1, FS_EmptySet
<1>2. CASE Calling(k) # {}
  <2>1. PICK r \in Calling(k) : TRUE
    BY <1>2
  <2>2. Calling(k) = {r}
    BY <2>1 DEF Calling, StoreInv, ExecutionsOwnEntries
  <2>3. Cardinality({r}) = 1
    BY FS_Singleton
  <2>4. QED
    BY <2>2, <2>3
<1>3. QED
  BY <1>1, <1>2

\* No key is executed twice at a time by requests that check, insert and
\* call in separate steps (late keys excepted).
THEOREM NoDuplicateExecution == IdempotencySpec => []OneExecutionPerKey
  BY AloneIsOne, ExecutionsOwnTheirEntries, PTL

=============================================================================
