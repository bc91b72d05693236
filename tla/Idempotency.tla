----------------------------- MODULE Idempotency -----------------------------
(***************************************************************************)
(* Idempotency keys, src/src/tower/idempotency.rs: the operations of       *)
(* InMemoryIdempotencyStore, each atomic under its map entry's lock, and   *)
(* the requests of IdempotencyService, whose store operations other        *)
(* requests interleave with.                                               *)
(*                                                                         *)
(* A key stands for the tenant's key; a body for its hash.  Requests       *)
(* without a key, or whose body has no hash, go straight to the inner      *)
(* service and touch nothing of this.  A response is named by the body of  *)
(* the request that produced it.                                           *)
(***************************************************************************)
EXTENDS Integers, FiniteSets

CONSTANTS
    KeyedRequests,    \* slots for requests, reused for ever
    IdempotencyKeys,  \* idempotency keys, with their tenant
    Bodies,           \* hashes of request bodies
    TTL               \* the layer's ttl, in ticks

NoEntry == "NoEntry"        \* the map has no entry under the key
NoResponse == "NoResponse"  \* the entry's response is None

ASSUME TTLAssumption == TTL \in Nat
ASSUME NamesAssumption ==
    NoEntry \notin Bodies /\ NoResponse \notin Bodies

VARIABLES
    entryBody,  \* body_hash of each key's entry, or NoEntry
    response,   \* its response
    age,        \* its age; TTL + 1 stands for every greater age
    phase,      \* where each request is
    keyOf,      \* its key
    body,       \* its body
    late        \* history: the keys with an execution that outlived its
                \* entry's TTL or that went on without an entry

entryVars == <<entryBody, response, age>>
idempotencyVars == <<entryBody, response, age, phase, keyOf, body, late>>

IdempotencyTypeOK ==
    /\ entryBody \in [IdempotencyKeys -> Bodies \cup {NoEntry}]
    /\ response \in [IdempotencyKeys -> Bodies \cup {NoResponse}]
    /\ age \in [IdempotencyKeys -> 0..TTL + 1]
    /\ phase \in [KeyedRequests -> {"idle", "get", "insert", "recheck", "reread", "calling"}]
    /\ keyOf \in [KeyedRequests -> IdempotencyKeys]
    /\ body \in [KeyedRequests -> Bodies]
    /\ late \subseteq IdempotencyKeys

IdempotencyInit ==
    /\ entryBody = [k \in IdempotencyKeys |-> NoEntry]
    /\ response = [k \in IdempotencyKeys |-> NoResponse]
    /\ age = [k \in IdempotencyKeys |-> 0]
    /\ phase = [r \in KeyedRequests |-> "idle"]
    /\ keyOf \in [KeyedRequests -> IdempotencyKeys]
    /\ body \in [KeyedRequests -> Bodies]
    /\ late = {}

----------------------------------------------------------------------------
(* The store.                                                              *)

IsExpiredNever(k) == FALSE

IsExpired(k) == age[k] > TTL

\* get(): the key has an entry that has not expired.
Present(k) == entryBody[k] # NoEntry /\ ~IsExpired(k)

InsertEntryKeepingResponse(k, r) ==
    /\ entryBody' = [entryBody EXCEPT ![k] = body[r]]
    /\ age' = [age EXCEPT ![k] = 0]
    /\ UNCHANGED response

InsertEntry(k, r) ==
    /\ entryBody' = [entryBody EXCEPT ![k] = body[r]]
    /\ response' = [response EXCEPT ![k] = NoResponse]
    /\ age' = [age EXCEPT ![k] = 0]

RemoveEntry(k) ==
    /\ entryBody' = [entryBody EXCEPT ![k] = NoEntry]
    /\ response' = [response EXCEPT ![k] = NoResponse]
    /\ age' = [age EXCEPT ![k] = 0]

\* store_response(): whatever entry is under the key, expired or not.
StoreResponse(k, r) ==
    /\ response' = [response EXCEPT ![k] = IF entryBody[k] = NoEntry THEN @ ELSE body[r]]
    /\ UNCHANGED <<entryBody, age>>

Calling(k) == {r \in KeyedRequests : phase[r] = "calling" /\ keyOf[r] = k}

----------------------------------------------------------------------------
(* The requests.                                                           *)

PhaseMoves(r, from, to) == phase[r] = from /\ phase' = [phase EXCEPT ![r] = to]

Begin(r, k, b) ==
    /\ PhaseMoves(r, "idle", "get")
    /\ keyOf' = [keyOf EXCEPT ![r] = k]
    /\ body' = [body EXCEPT ![r] = b]
    /\ UNCHANGED <<entryVars, late>>

\* The first get(): conflict, replay, in-flight error, or go on.
Get(r) ==
    /\ \/ Present(keyOf[r]) /\ PhaseMoves(r, "get", "idle")
       \/ ~Present(keyOf[r]) /\ PhaseMoves(r, "get", "insert")
    /\ UNCHANGED <<entryVars, keyOf, body, late>>

InsertUnchecked(r) ==
    /\ PhaseMoves(r, "insert", "calling")
    /\ InsertEntry(keyOf[r], r)
    /\ UNCHANGED <<keyOf, body, late>>

\* try_insert() on a vacant or expired entry.
Insert(r) ==
    /\ ~Present(keyOf[r])
    /\ PhaseMoves(r, "insert", "calling")
    /\ InsertEntry(keyOf[r], r)
    /\ UNCHANGED <<keyOf, body, late>>

\* try_insert() = false.
InsertFails(r) ==
    /\ Present(keyOf[r])
    /\ PhaseMoves(r, "insert", "recheck")
    /\ UNCHANGED <<entryVars, keyOf, body, late>>

\* The second get(): only the body is compared.
Recheck(r) ==
    LET conflict == Present(keyOf[r]) /\ entryBody[keyOf[r]] # body[r]
    IN  /\ \/ conflict /\ PhaseMoves(r, "recheck", "idle")
           \/ ~conflict /\ PhaseMoves(r, "recheck", "reread")
        /\ UNCHANGED <<entryVars, keyOf, body, late>>

\* The third get(): replay or in-flight error, without comparing the body.
RereadFinds(r) ==
    /\ Present(keyOf[r])
    /\ PhaseMoves(r, "reread", "idle")
    /\ UNCHANGED <<entryVars, keyOf, body, late>>

\* The third get() finds nothing: the request calls the inner service
\* although it inserted no entry.
RereadMisses(r) ==
    /\ ~Present(keyOf[r])
    /\ PhaseMoves(r, "reread", "calling")
    /\ late' = late \cup {keyOf[r]}
    /\ UNCHANGED <<entryVars, keyOf, body>>

\* The inner call answers with a response that can be stored.
Succeed(r) ==
    /\ PhaseMoves(r, "calling", "idle")
    /\ StoreResponse(keyOf[r], r)
    /\ UNCHANGED <<keyOf, body, late>>

\* It fails, or answers with a response of another kind.
Fail(r) ==
    /\ PhaseMoves(r, "calling", "idle")
    /\ RemoveEntry(keyOf[r])
    /\ UNCHANGED <<keyOf, body, late>>

\* The future is dropped inside the inner call: nothing cleans up.
Cancel(r) ==
    /\ PhaseMoves(r, "calling", "idle")
    /\ UNCHANGED <<entryVars, keyOf, body, late>>

Tick ==
    /\ age' = [k \in IdempotencyKeys |-> IF entryBody[k] # NoEntry /\ age[k] <= TTL
                              THEN age[k] + 1 ELSE age[k]]
    /\ age' # age
    /\ late' = late \cup {k \in IdempotencyKeys : age'[k] > TTL /\ Calling(k) # {}}
    /\ UNCHANGED <<entryBody, response, phase, keyOf, body>>

Try(r) == Insert(r) \/ InsertFails(r)
Reread(r) == RereadFinds(r) \/ RereadMisses(r)
Finish(r) == Succeed(r) \/ Fail(r) \/ Cancel(r)

IdempotencyNext ==
    \/ \E r \in KeyedRequests :
          \/ \E k \in IdempotencyKeys, b \in Bodies : Begin(r, k, b)
          \/ Get(r) \/ Try(r) \/ Recheck(r) \/ Reread(r) \/ Finish(r)
    \/ Tick

IdempotencySpec == IdempotencyInit /\ [][IdempotencyNext]_idempotencyVars

(* Only time is fair: clients and the inner service may do nothing more.   *)
IdempotencyFairSpec == IdempotencySpec /\ WF_idempotencyVars(Tick)

----------------------------------------------------------------------------
(* Properties.                                                             *)

\* Two requests never execute the same key at the same time, unless an
\* execution outlived the TTL or a request went on without an entry: the
\* check in get() and the insertion are two steps, and this rests on
\* try_insert() deciding again.
OneExecutionPerKey == \A k \in IdempotencyKeys \ late : Cardinality(Calling(k)) <= 1

\* Under the same proviso, what is stored under a key was produced by a
\* request with the body the entry names: no failed, cancelled or repeated
\* execution leaves a response under another request's entry.
StoredUnderOwnBody ==
    \A k \in IdempotencyKeys \ late : response[k] \in {NoResponse, entryBody[k]}

\* What the request is about to answer from the store.
WillReplay(r) ==
    /\ Present(keyOf[r])
    /\ response[keyOf[r]] # NoResponse
    /\ \/ phase[r] = "get" /\ entryBody[keyOf[r]] = body[r]
       \/ phase[r] = "reread"

\* A cancelled or hung execution blocks its key until the TTL at most.
InFlightEnds ==
    \A k \in IdempotencyKeys :
        LET InFlight == Present(k) /\ response[k] = NoResponse
        IN  InFlight ~> ~InFlight

\* A key "already used with a different request body" is a conflict, as the
\* error's text says: no request is answered with another body's response.
ReplayMatchesBody ==
    \A r \in KeyedRequests : WillReplay(r) => response[keyOf[r]] = body[r]

=============================================================================
