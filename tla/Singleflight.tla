---------------------------- MODULE Singleflight ----------------------------
(***************************************************************************)
(* Deduplication of concurrent identical requests,                         *)
(* src/src/tower/cache_singleflight.rs: InMemorySingleflight and           *)
(* SingleflightService.                                                    *)
(*                                                                         *)
(* The first request for a key is its leader: it puts a broadcast sender   *)
(* into the map and calls the inner service.  The requests that find the   *)
(* sender there subscribe to it and wait.  complete() first sends and then *)
(* removes the sender from the map; these are two steps of a thread that   *)
(* others interleave with.  A leader that is dropped or panics has its     *)
(* sender removed by LeaderDropGuard.                                      *)
(*                                                                         *)
(* A broadcast channel (tokio, external) gives a message to the receivers  *)
(* that were subscribed when it was sent, and reports Closed to a receiver *)
(* without a message once both senders, the leader's and the map's, are    *)
(* gone.  Each channel carries one message, so no receiver ever lags.      *)
(* Requests without a key go straight to the inner service and touch       *)
(* nothing of this.                                                        *)
(***************************************************************************)
EXTENDS Naturals, FiniteSets

CONSTANTS
    Requests,   \* slots for requests, reused for ever
    Keys        \* values of singleflight_key

NoFlight == "NoFlight"
NoMail == "NoMail"

ASSUME RequestsAssumption == NoFlight \notin Requests

VARIABLES
    inFlight,   \* InMemorySingleflight.in_flight: whose sender is under a key
    pc,         \* where each request is
    key,        \* the key of each request
    flight,     \* the leader whose channel a waiting follower subscribed to
    mail        \* what a waiting follower's recv() will return

vars == <<inFlight, pc, key, flight, mail>>

(* What the inner service answers.  Chat and Embed responses can be shared *)
(* with the followers, other variants cannot.                              *)
Answer == {"Response", "OtherResponse", "Error"}

\* sf_result: the leader's answer as its followers get it.
Shared(answer) == IF answer = "Response" THEN "Response" ELSE "Error"

Mail == {"Response", "Error", "Closed"}

TypeOK ==
    /\ inFlight \in [Keys -> Requests \cup {NoFlight}]
    /\ pc \in [Requests -> {"idle", "created", "leading", "sent", "waiting"}]
    /\ key \in [Requests -> Keys]
    /\ flight \in [Requests -> Requests \cup {NoFlight}]
    /\ mail \in [Requests -> Mail \cup {NoMail}]

Init ==
    /\ inFlight = [k \in Keys |-> NoFlight]
    /\ pc = [r \in Requests |-> "idle"]
    /\ key \in [Requests -> Keys]
    /\ flight = [r \in Requests |-> NoFlight]
    /\ mail = [r \in Requests |-> NoMail]

----------------------------------------------------------------------------

MovesTo(r, from, to) == pc[r] = from /\ pc' = [pc EXCEPT ![r] = to]

\* The followers of r's channel whose recv() has nothing to return yet.
Pending(r) == {f \in Requests : pc[f] = "waiting" /\ flight[f] = r /\ mail[f] = NoMail}

Deliver(r, message) ==
    mail' = [f \in Requests |-> IF f \in Pending(r) THEN message ELSE mail[f]]

\* The sender under r's key leaves the map.
RemoveKey(r) == inFlight' = [inFlight EXCEPT ![key[r]] = NoFlight]

Call(r, k) ==
    /\ MovesTo(r, "idle", "created")
    /\ key' = [key EXCEPT ![r] = k]
    /\ UNCHANGED <<inFlight, flight, mail>>

DropUnpolled(r) ==
    /\ MovesTo(r, "created", "idle")
    /\ UNCHANGED <<inFlight, key, flight, mail>>

JoinLeaderUnchecked(r) ==
    /\ MovesTo(r, "created", "leading")
    /\ inFlight' = [inFlight EXCEPT ![key[r]] = r]
    /\ UNCHANGED <<key, flight, mail>>

\* join() on a vacant entry.
JoinLeader(r) ==
    /\ inFlight[key[r]] = NoFlight
    /\ MovesTo(r, "created", "leading")
    /\ inFlight' = [inFlight EXCEPT ![key[r]] = r]
    /\ UNCHANGED <<key, flight, mail>>

\* join() on an occupied entry.
JoinFollower(r) ==
    /\ inFlight[key[r]] # NoFlight
    /\ MovesTo(r, "created", "waiting")
    /\ flight' = [flight EXCEPT ![r] = inFlight[key[r]]]
    /\ UNCHANGED <<inFlight, key, mail>>

Join(r) == JoinLeader(r) \/ JoinFollower(r)

SendRemovingFirst(r, answer) ==
    /\ MovesTo(r, "leading", "sent")
    /\ RemoveKey(r)
    /\ Deliver(r, Shared(answer))
    /\ UNCHANGED <<key, flight>>

\* complete(): the guard is disarmed and the result is sent.
Send(r, answer) ==
    /\ MovesTo(r, "leading", "sent")
    /\ Deliver(r, Shared(answer))
    /\ UNCHANGED <<inFlight, key, flight>>

\* complete(): the sender is removed from the map and the leader's is
\* dropped, which closes the channel.
Close(r) ==
    /\ MovesTo(r, "sent", "idle")
    /\ RemoveKey(r)
    /\ Deliver(r, "Closed")
    /\ UNCHANGED <<key, flight>>

LeaderDroppedUnguarded(r) ==
    /\ MovesTo(r, "leading", "idle")
    /\ UNCHANGED <<inFlight, key, flight, mail>>

\* The leader's future is dropped, or panics, inside the inner call.
LeaderDropped(r) ==
    /\ MovesTo(r, "leading", "idle")
    /\ RemoveKey(r)
    /\ Deliver(r, "Closed")
    /\ UNCHANGED <<key, flight>>

\* recv() returns, or the follower's future is dropped.
LeavesChannel(r) ==
    /\ MovesTo(r, "waiting", "idle")
    /\ flight' = [flight EXCEPT ![r] = NoFlight]
    /\ mail' = [mail EXCEPT ![r] = NoMail]
    /\ UNCHANGED <<inFlight, key>>

Receive(r) == mail[r] # NoMail /\ LeavesChannel(r)

FollowerDropped(r) == LeavesChannel(r)

LeaderEnds(r) == LeaderDropped(r) \/ \E answer \in Answer : Send(r, answer)

Next ==
    \E r \in Requests :
        \/ \E k \in Keys : Call(r, k)
        \/ DropUnpolled(r)
        \/ Join(r)
        \/ LeaderEnds(r)
        \/ Close(r)
        \/ Receive(r)
        \/ FollowerDropped(r)

Spec == Init /\ [][Next]_vars

(***************************************************************************)
(* The inner call ends, or its future is dropped; a thread between send    *)
(* and remove goes on; a follower with something to receive is polled.     *)
(* Nothing makes clients call, poll or drop.                               *)
(***************************************************************************)
Fairness ==
    \A r \in Requests :
        WF_vars(LeaderEnds(r)) /\ WF_vars(Close(r)) /\ WF_vars(Receive(r))

FairSpec == Spec /\ Fairness

----------------------------------------------------------------------------
(* Properties.                                                             *)

InnerCalls(k) == {r \in Requests : pc[r] = "leading" /\ key[r] = k}

\* However requests arrive, finish, panic or are dropped, no two of them call
\* the inner service for the same key at the same time.
OneInnerCallPerKey == \A k \in Keys : Cardinality(InnerCalls(k)) <= 1

\* The map names exactly the leaders that have not left it: no leader's exit
\* removes the sender of a later leader, and none is left behind.
MapNamesLeaders ==
    \A r \in Requests, k \in Keys :
        inFlight[k] = r <=> (pc[r] \in {"leading", "sent"} /\ key[r] = k)

\* A follower that has nothing to receive yet waits for a leader of its own
\* key that is still going to send or to close: it is never left behind on a
\* channel nobody will use.
FollowerHasLeader ==
    \A f \in Requests :
        pc[f] = "waiting" /\ mail[f] = NoMail =>
            /\ flight[f] \in Requests
            /\ pc[flight[f]] \in {"leading", "sent"}
            /\ key[flight[f]] = key[f]

\* The leader_cancellation test: a follower must not block for ever.
FollowersAnswered == \A f \in Requests : pc[f] = "waiting" ~> pc[f] # "waiting"

\* The Closed error says "leader closed channel without sending a result":
\* a follower gets it only when the leader sent nothing.
ClosedMeansNothingSent ==
    [][\A f \in Requests :
         mail[f] = NoMail /\ mail'[f] = "Closed" => pc[flight[f]] = "leading"]_vars

=============================================================================
