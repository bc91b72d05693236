-------------------------------- MODULE Cache --------------------------------
(***************************************************************************)
(* The exact response cache: InMemoryStore of src/src/tower/cache.rs and   *)
(* the requests of CacheService and NegativeCacheService that share it.    *)
(* Every operation of the store is one step under its lock; a request is   *)
(* several, with an inner call between its lookup and its put.             *)
(*                                                                         *)
(* The layer is the one CacheLayer::new and with_store build, without a    *)
(* vector store.  A key is the u64 of HashKeyStrategy::key_for and a body  *)
(* the text it hashes; any two may come together, so bodies collide.  The  *)
(* negative layer names a request otherwise (hash_key, of the JSON), which *)
(* is no text of key_for: its entries have the body Json.  A response is   *)
(* named by the body of the request it answers.  hit_count and size_bytes  *)
(* are left out.                                                           *)
(***************************************************************************)
EXTENDS Naturals, Sequences, FiniteSets, Functions

CONSTANTS
    Requests,       \* slots for requests, reused for ever
    Keys,           \* hashes
    Bodies,         \* texts of key_for
    MaxEntries,     \* CacheConfig.max_entries
    TTL,            \* CacheConfig.ttl, in ticks
    OverrideTTL,    \* CacheDecision.ttl_override
    ErrorWindow,    \* the window of FixedWindowNegativeCache
    MaxAge,         \* bound: an entry's age stops counting here
    MaxOrder        \* bound: no put when the order queue is this long

Json == "Json"
NoBody == "NoBody"
NoEntry == [body |-> NoBody]    \* the map has no entry under the key

ASSUME ConfigAssumption ==
    /\ MaxEntries \in Nat /\ MaxOrder \in Nat
    /\ TTL \in Nat /\ OverrideTTL \in Nat /\ ErrorWindow \in Nat
    /\ MaxAge \in Nat
    /\ MaxAge > TTL /\ MaxAge > OverrideTTL /\ MaxAge >= ErrorWindow
ASSUME BodiesAssumption == Json \notin Bodies /\ NoBody \notin Bodies

VARIABLES
    entries,    \* InnerCache.map
    order,      \* InnerCache.order: a queue of keys, oldest first
    pc,         \* where each request is
    key,        \* its hash
    body        \* its text

storeVars == <<entries, order>>
vars == <<entries, order, pc, key, body>>

(* body = Json marks a CachedResponse::Error, whose expires_at is          *)
(* ErrorWindow after its insertion.                                        *)
Entry == [body : Bodies \cup {Json}, ttl : {TTL, OverrideTTL}, age : 0..MaxAge]

TypeOK ==
    /\ entries \in [Keys -> Entry \cup {NoEntry}]
    /\ order \in Seq(Keys)
    /\ pc \in [Requests -> {"idle", "lookup", "calling", "stored"}]
    /\ key \in [Requests -> Keys]
    /\ body \in [Requests -> Bodies]

Init ==
    /\ entries = [k \in Keys |-> NoEntry]
    /\ order = <<>>
    /\ pc = [r \in Requests |-> "idle"]
    /\ key \in [Requests -> Keys]
    /\ body \in [Requests -> Bodies]

----------------------------------------------------------------------------
(* The store.                                                              *)

Present == {k \in Keys : entries[k] # NoEntry}

ExpiredEntry(e) == IF e.body = Json THEN e.age >= ErrorWindow ELSE e.age > e.ttl

Expired(k) == k \in Present /\ ExpiredEntry(entries[k])

\* get_if_valid
Valid(k, b) == k \in Present /\ ~Expired(k) /\ entries[k].body = b

DropEntry(k) == entries' = [entries EXCEPT ![k] = NoEntry] /\ UNCHANGED order

\* get(): a miss removes the entry if it has expired; order keeps its key.
GetMisses(k, b) ==
    /\ ~Valid(k, b)
    /\ \/ Expired(k) /\ DropEntry(k)
       \/ ~Expired(k) /\ UNCHANGED storeVars

\* The keys that remain when the first n of queue are evicted.
Remaining(queue, n) == Present \ Range(SubSeq(queue, 1, n))

FullBeyond(kept) == Cardinality(kept) > MaxEntries

\* The loop condition of insert().
Full(kept) == Cardinality(kept) >= MaxEntries

\* The loop of insert(): how many keys leave the front of the queue.
Evictions(queue) ==
    {n \in 0..Len(queue) :
        /\ n = Len(queue) \/ ~Full(Remaining(queue, n))
        /\ \A m \in 0..(n - 1) : Full(Remaining(queue, m))}

StoreEntry(k, b, kept) ==
    entries' = [j \in Keys |->
        IF j = k THEN [body |-> b, ttl |-> TTL, age |-> 0]
        ELSE IF j \in kept THEN entries[j] ELSE NoEntry]

\* The queue after retain(): every occurrence of k is gone.
Without(queue, k) ==
    LET kept[i \in 0..Len(queue)] ==
          IF i = 0 THEN <<>>
          ELSE IF queue[i] = k THEN kept[i - 1] ELSE Append(kept[i - 1], queue[i])
    IN  kept[Len(queue)]

InsertQueuedOnce(k, b) ==
    LET queue == IF k \in Present THEN Without(order, k) ELSE order
    IN  \E n \in Evictions(queue) :
          /\ order' = SubSeq(queue, n + 1, Len(queue)) \o (IF k \in Present THEN <<>> ELSE <<k>>)
          /\ StoreEntry(k, b, Remaining(queue, n))

\* insert(): a key with an entry leaves the queue, keys are evicted from the
\* front while the map is full, and the key joins the back.
Insert(k, b) ==
    LET queue == IF k \in Present THEN Without(order, k) ELSE order
    IN  \E n \in Evictions(queue) :
          /\ order' = Append(SubSeq(queue, n + 1, Len(queue)), k)
          /\ StoreEntry(k, b, Remaining(queue, n))

\* put(), within the bound on the queue.
StorePut(k, b) == Len(order) < MaxOrder /\ Insert(k, b)

----------------------------------------------------------------------------
(* The requests.                                                           *)

MovesTo(r, from, to) == pc[r] = from /\ pc' = [pc EXCEPT ![r] = to]

\* call() up to the returned future, for a request that is not bypassed.
Call(r, k, b) ==
    /\ MovesTo(r, "idle", "lookup")
    /\ key' = [key EXCEPT ![r] = k]
    /\ body' = [body EXCEPT ![r] = b]
    /\ UNCHANGED storeVars

\* The first poll, answered from the store.
Hit(r) ==
    /\ Valid(key[r], body[r])
    /\ MovesTo(r, "lookup", "idle")
    /\ UNCHANGED <<storeVars, key, body>>

\* The first poll that has to wait for the inner call.
Miss(r) ==
    /\ GetMisses(key[r], body[r])
    /\ MovesTo(r, "lookup", "calling")
    /\ UNCHANGED <<key, body>>

\* The inner call answers with a Chat or Embed response: put().
Put(r) ==
    /\ StorePut(key[r], body[r])
    /\ MovesTo(r, "calling", "stored")
    /\ UNCHANGED <<key, body>>

\* set_ttl() after the put, on whatever entry is under the key by then.
SetTTL(r) ==
    /\ MovesTo(r, "stored", "idle")
    /\ entries' = [entries EXCEPT ![key[r]] =
                     IF @ = NoEntry THEN @ ELSE [@ EXCEPT !.ttl = OverrideTTL]]
    /\ UNCHANGED <<order, key, body>>

\* The inner call fails with an error the negative cache stores under the
\* hash of the request's JSON.
FailStored(r, k) ==
    /\ StorePut(k, Json)
    /\ MovesTo(r, "calling", "idle")
    /\ UNCHANGED <<key, body>>

\* Another error, a response of another kind, or the future is dropped.
Leave(r) ==
    /\ pc[r] \in {"lookup", "calling"}
    /\ MovesTo(r, pc[r], "idle")
    /\ UNCHANGED <<storeVars, key, body>>

\* remove(), by a user of the store.
RemoveKey(k) == k \in Present /\ DropEntry(k) /\ UNCHANGED <<pc, key, body>>

Tick ==
    /\ entries' = [k \in Keys |-> IF k \in Present /\ entries[k].age < MaxAge
                                  THEN [entries[k] EXCEPT !.age = @ + 1] ELSE entries[k]]
    /\ entries' # entries
    /\ UNCHANGED <<order, pc, key, body>>

Lookup(r) == Hit(r) \/ Miss(r)

Next ==
    \/ \E r \in Requests :
          \/ \E k \in Keys, b \in Bodies : Call(r, k, b)
          \/ Lookup(r) \/ Put(r) \/ SetTTL(r) \/ Leave(r)
          \/ \E k \in Keys : FailStored(r, k)
    \/ \E k \in Keys : RemoveKey(k)
    \/ Tick

Spec == Init /\ [][Next]_vars

----------------------------------------------------------------------------
(* Properties.                                                             *)

\* Every entry of the map has its key in the queue, whatever expiries,
\* removals, overwritings and evictions left there: no entry is beyond the
\* reach of eviction, and the eviction loop ends with the map not full.
LiveKeysOrdered == TypeOK /\ Present \subseteq Range(order)

\* The store is a map of at most max_entries entries (one, if max_entries is
\* zero) whose puts make exactly their own response readable, forget at most
\* one other entry and none while there is room, although the queue holds
\* keys without an entry and keys twice.
Promise == INSTANCE CacheMap WITH
    Values <- Bodies \cup {Json},
    Nothing <- NoBody,
    Capacity <- IF MaxEntries = 0 THEN 1 ELSE MaxEntries,
    contents <- [k \in Keys |-> entries[k].body]

KeepsPromise == Promise!Spec

\* "Oldest entry should be evicted", says the test cache_eviction_lru: when
\* entries are evicted by a put, every entry that stays was put later.  The
\* last position in the queue tells when an entry was put.
PutAt(k) == CHOOSE i \in DOMAIN order :
    order[i] = k /\ \A j \in DOMAIN order : order[j] = k => j <= i

EvictsOldest ==
    [][\A r \in Requests : Put(r) =>
         \A gone \in Present \ Present', kept \in Present \cap Present' :
            kept # key[r] => PutAt(gone) < PutAt(kept)]_vars

=============================================================================
