----------------------------- MODULE StackProofs ------------------------------
(***************************************************************************)
(* The three safety properties of Stack, for any number of requests, any   *)
(* stacks, hooks, thresholds and durations.                                *)
(***************************************************************************)
EXTENDS Stack, TLAPS

Before == {"idle", "created", "input", "on_request"}
Under == {"inner", "clearing", "provider", "tripping", "on_response"}
After == {"output", "done", "dropped"}
Inners == {"none", "ok", "terminal", "transient", "timeout"}
Told == {<<>>} \cup {<<e>> : e \in {"success", "timed_out", "error", "cancelled"}}

RequestType ==
  [kind : Managed \cup Direct, st : Before \cup Under \cup After, hook : 1..(NumHooks + 1),
   verdict : {"pass", "unhealthy", "refuse"}, refused : BOOLEAN, sent : BOOLEAN, armed : BOOLEAN,
   inner : Inners, events : Told]

\* Of a request and the stack it goes through: it does not bypass it; all hooks
\* have let it pass, or there are none.
Through(on, q) == on # {} /\ q.kind \notin Direct
HooksPassed(on, q) == q.hook = (IF "hooks" \in on /\ Through(on, q) THEN NumHooks + 1 ELSE 1)

\* What was turned down is known not to be sent by where the request is.
Unsent(on, q) ==
  /\ q.st \in Before \cup {"inner", "clearing"} => ~q.sent
  /\ q.st \in Before \cup Under \cup {"output"} => ~q.refused
  /\ q.st \in {"idle", "created"} => q.verdict = "pass"
  /\ q.st = "clearing" => q.verdict # "refuse"
  /\ q.st = "output" => q.inner = "ok"
  /\ q.sent => /\ q.verdict = "pass"
               /\ q.refused => q.st = "done" /\ q.inner = "ok"

\* The guard of the sink is armed as long as a request is under way whose hooks
\* have all passed, and only then; until the request ends the sink is told nothing.
Guarded(on, q) ==
  /\ q.st \in {"idle", "created", "input"} => q.hook = 1
  /\ q.st \in Before => q.hook <= NumHooks /\ ~q.armed /\ q.events = <<>>
  /\ q.st \in {"input", "on_request", "inner", "clearing", "tripping", "on_response"} => Through(on, q)
  /\ q.st \in {"on_request", "on_response"} => "hooks" \in on
  /\ q.st \in Under => /\ HooksPassed(on, q)
                       /\ q.armed = ("sink" \in on /\ q.hook > NumHooks)
                       /\ q.events = <<>>
  /\ q.st = "output" => ~q.armed
  /\ "sink" \in on /\ q.st \in After =>
       IF q.hook <= NumHooks THEN q.events = <<>>
       ELSE \/ q.events = <<EventOf(q.inner)>>
            \/ q.st = "dropped" /\ q.events = <<"cancelled">>

Fits(on, q) == q \in RequestType /\ Unsent(on, q) /\ Guarded(on, q)

StackInv ==
  /\ cooling \in Nat \cup {NoCooldown}
  /\ DOMAIN req = Requests /\ req = [r \in Requests |-> req[r]]
  /\ \A r \in Requests : Fits(layers, req[r])

-----------------------------------------------------------------------------
(* What the operators return.                                              *)

\* Nothing changes but where the request is.
Moved(q, st) == [q EXCEPT !.st = st]

(* A record moved to another place keeps every field but its place.           *)
LEMMA MovedFields ==
  \A q \in RequestType : \A st \in Before \cup Under \cup After :
    /\ Moved(q, st) \in RequestType /\ Moved(q, st).st = st
    /\ Moved(q, st).kind = q.kind /\ Moved(q, st).hook = q.hook /\ Moved(q, st).verdict = q.verdict
    /\ Moved(q, st).refused = q.refused /\ Moved(q, st).sent = q.sent /\ Moved(q, st).armed = q.armed
    /\ Moved(q, st).inner = q.inner /\ Moved(q, st).events = q.events
BY DEF Moved, RequestType

\* Leaves() only moves.
LEMMA LeavesMoves ==
  \A q, result : \/ Leaves(q, result) = Moved(q, "done")
                 \/ result = "ok" /\ Leaves(q, result) = Moved(q, "output")
BY DEF Leaves, Moved

\* An answer of the inner stack leaves a request as it has to be.
LEMMA LeavesInnerFits ==
  ASSUME StackAssumption, NEW q, Fits(layers, q), q.st \in Under, Through(layers, q), NEW result \in Inners
  PROVE  Fits(layers, LeavesInner(q, result))
<1> DEFINE a == [q EXCEPT !.inner = result]
<1>1. /\ a \in RequestType /\ a.inner = result /\ a.st = q.st /\ a.kind = q.kind /\ a.hook = q.hook
      /\ a.verdict = q.verdict /\ a.refused = q.refused /\ a.sent = q.sent /\ a.armed = q.armed
      /\ a.events = q.events
  BY DEF Fits, RequestType
<1>2. /\ ~q.refused /\ q.events = <<>> /\ q.armed = ("sink" \in layers /\ q.hook > NumHooks)
      /\ q.hook = (IF "hooks" \in layers THEN NumHooks + 1 ELSE 1) /\ (q.sent => q.verdict = "pass")
  BY DEF Fits, Unsent, Guarded, HooksPassed
<1> HIDE DEF a
<1>3. CASE "hooks" \in layers
  <2>1. LeavesInner(q, result) = Moved(a, "on_response")
    BY <1>3 DEF LeavesInner, Has, Moved, a
  <2> DEFINE p == Moved(a, "on_response")
  <2>2. /\ p \in RequestType /\ p.inner = result /\ p.st = "on_response" /\ p.kind = q.kind /\ p.hook = q.hook
        /\ p.verdict = q.verdict /\ p.refused = q.refused /\ p.sent = q.sent /\ p.armed = q.armed
        /\ p.events = q.events
    BY <1>1, MovedFields DEF Under
  <2> HIDE DEF p
  <2>3. Unsent(layers, p)
    BY <1>2, <2>2 DEF Unsent, Before
  <2>4. Guarded(layers, p)
    BY <1>2, <1>3, <2>2 DEF Guarded, Before, Under, After, Through, HooksPassed
  <2> QED
    BY <2>1, <2>2, <2>3, <2>4 DEF Fits, p
<1>4. CASE "hooks" \notin layers
  <2> DEFINE p == LeavesInner(q, result)
  <2>1. p = Leaves(a, result)
    BY <1>4 DEF LeavesInner, Has, a
  <2>2. /\ p \in RequestType /\ p.inner = result /\ p.st \in {"done", "output"} /\ p.kind = q.kind /\ p.hook = q.hook
        /\ p.verdict = q.verdict /\ p.refused = q.refused /\ p.sent = q.sent /\ p.armed = q.armed
        /\ p.events = q.events /\ (p.st = "output" => result = "ok")
    BY <1>1, <2>1, MovedFields, LeavesMoves DEF After
  <2> HIDE DEF p
  <2>3. ~q.armed /\ q.hook = 1 /\ q.hook <= NumHooks
    <3>1. q.hook = 1
      BY <1>2, <1>4
    <3>2. q.hook <= NumHooks /\ ~(q.hook > NumHooks)
      BY <3>1 DEF StackAssumption
    <3> QED
      BY <1>2, <3>1, <3>2
  <2>4. Unsent(layers, p)
    BY <1>2, <2>2 DEF Unsent, Before, Under
  <2>5. Guarded(layers, p)
    BY <1>2, <2>2, <2>3 DEF Guarded, Before, Under, After
  <2> QED
    BY <2>2, <2>4, <2>5 DEF Fits, p
<1> QED
  BY <1>3, <1>4

\* So does one the cooldown sees.
LEMMA LeavesCooldownFits ==
  ASSUME StackAssumption, NEW q, Fits(layers, q), q.st \in Under, Through(layers, q), NEW result \in Inners
  PROVE  Fits(layers, LeavesCooldown(q, result))
<1> DEFINE p == [q EXCEPT !.st = "tripping", !.inner = result]
<1>1. /\ p \in RequestType /\ p.inner = result /\ p.st = "tripping" /\ p.kind = q.kind /\ p.hook = q.hook
      /\ p.verdict = q.verdict /\ p.refused = q.refused /\ p.sent = q.sent /\ p.armed = q.armed
      /\ p.events = q.events
  BY DEF Fits, RequestType, Under
<1>2. LeavesCooldown(q, result) = p \/ LeavesCooldown(q, result) = LeavesInner(q, result)
  BY DEF LeavesCooldown
<1> HIDE DEF p
<1>3. Unsent(layers, p)
  BY <1>1 DEF Fits, Unsent, Before, Under
<1>4. Guarded(layers, p)
  BY <1>1 DEF Fits, Guarded, Before, Under, After, Through, HooksPassed
<1> QED
  BY <1>1, <1>2, <1>3, <1>4, LeavesInnerFits DEF Fits

-----------------------------------------------------------------------------
(* Every step keeps the invariant.                                         *)

\* A step of one request.
LEMMA OneMoves ==
  ASSUME StackInv, NEW r \in Requests, NEW q, Fits(layers, q),
         req' = [req EXCEPT ![r] = q], layers' = layers, cooling' \in Nat \cup {NoCooldown}
  PROVE  StackInv'
<1>1. DOMAIN req' = Requests /\ req' = [s \in Requests |-> req'[s]]
  BY DEF StackInv
<1>2. \A s \in Requests : req'[s] = IF s = r THEN q ELSE req[s]
  BY DEF StackInv
<1>3. \A s \in Requests : Fits(layers, req'[s])
  BY <1>2 DEF StackInv
<1> QED
  BY <1>1, <1>3 DEF StackInv

(* A slot that holds no request is a well-typed record.                       *)
LEMMA NewTyped == NewRequest \in RequestType
<1>1. 1 \in 1..(NumHooks + 1) /\ <<>> \in Told /\ "none" \in Inners
  BY StackAssumption DEF Told, Inners
<1>2. "Chat" \in Managed \cup Direct /\ "idle" \in Before \cup Under \cup After
  BY DEF Managed, Before
<1> QED
  BY <1>1, <1>2 DEF RequestType, NewRequest

(* A slot that holds no request has sent nothing and reported nothing.        *)
LEMMA NewFits ==
  ASSUME StackAssumption, NEW kind \in Managed \cup Direct, NEW st \in {"idle", "created"}
  PROVE  Fits(layers, [NewRequest EXCEPT !.kind = kind, !.st = st])
<1> DEFINE p == [NewRequest EXCEPT !.kind = kind, !.st = st]
<1>1. /\ p.kind = kind /\ p.st = st /\ p.hook = 1 /\ p.verdict = "pass" /\ p.refused = FALSE /\ p.sent = FALSE
      /\ p.armed = FALSE /\ p.inner = "none" /\ p.events = <<>>
  BY DEF NewRequest
<1>2. p \in RequestType
  <2>1. st \in Before \cup Under \cup After
    BY DEF Before
  <2> HIDE DEF p
  <2>2. \A q \in RequestType : [q EXCEPT !.kind = kind, !.st = st] \in RequestType
    BY <2>1 DEF RequestType
  <2> QED
    BY <2>2, NewTyped DEF p
<1> HIDE DEF p
<1>3. Unsent(layers, p)
  BY <1>1 DEF Unsent
<1>4. Guarded(layers, p)
  BY <1>1 DEF Guarded, Before, Under, After, StackAssumption
<1> QED
  BY <1>2, <1>3, <1>4 DEF Fits, p

(* A new request starts from an empty record.                                 *)
LEMMA CreateKeeps == \A r \in Requests : StackInv /\ Create(r) => StackInv'
<1> SUFFICES ASSUME StackInv, NEW r \in Requests, Create(r)
             PROVE  StackInv'
  OBVIOUS
<1>1. PICK kind \in KindsOf[r] : req' = [req EXCEPT ![r] = [NewRequest EXCEPT !.kind = kind, !.st = "created"]]
  BY DEF Create
<1>2. Fits(layers, [NewRequest EXCEPT !.kind = kind, !.st = "created"])
  BY NewFits, StackAssumption, KindsAssumption
<1>3. layers' = layers /\ cooling' \in Nat \cup {NoCooldown}
  BY DEF Create, StackInv
<1> QED
  BY <1>1, <1>2, <1>3, OneMoves

\* A request that goes in to the hooks, or past where they would be.
LEMMA EntersHooksFits ==
  ASSUME StackAssumption, NEW q, Through(layers, q), q \in RequestType, q.hook = 1, ~q.armed,
         q.events = <<>>, ~q.sent, ~q.refused
  PROVE  Fits(layers, EntersHooks(q))
<1> DEFINE p == EntersHooks(q)
<1>1. /\ p \in RequestType /\ p.st = (IF "hooks" \in layers THEN "on_request" ELSE "inner") /\ p.kind = q.kind
      /\ p.hook = 1 /\ p.refused = FALSE /\ p.sent = FALSE /\ p.armed = FALSE /\ p.events = <<>>
  <2>1. p = Moved(q, IF "hooks" \in layers THEN "on_request" ELSE "inner")
    BY DEF EntersHooks, Has, Moved
  <2>2. q.refused = FALSE /\ q.sent = FALSE /\ q.armed = FALSE
    BY DEF RequestType
  <2> HIDE DEF p
  <2> QED
    BY <2>1, <2>2, MovedFields DEF Before, Under
<1>2. 1 <= NumHooks /\ ~(1 > NumHooks)
  BY DEF StackAssumption
<1> HIDE DEF p
<1>3. Unsent(layers, p)
  BY <1>1 DEF Unsent
<1>4. Guarded(layers, p)
  BY <1>1, <1>2 DEF Guarded, Before, Under, After, Through, HooksPassed
<1> QED
  BY <1>1, <1>3, <1>4 DEF Fits, p

(* What call() decides at once: only a request past the layers is sent.       *)
LEMMA StartKeeps == \A r \in Requests : StackInv /\ Start(r) => StackInv'
<1> SUFFICES ASSUME StackInv, NEW r \in Requests, Start(r)
             PROVE  StackInv'
  OBVIOUS
<1> DEFINE q == req[r]
<1>1. /\ q \in RequestType /\ q.st = "created" /\ q.hook = 1 /\ q.armed = FALSE /\ q.events = <<>>
      /\ q.verdict = "pass" /\ q.sent = FALSE /\ q.refused = FALSE
  <2>1. Fits(layers, q) /\ q.st = "created"
    BY DEF StackInv, Start
  <2> QED
    BY <2>1 DEF Fits, Unsent, Guarded, Before, RequestType
<1>2. layers' = layers /\ cooling' \in Nat \cup {NoCooldown}
  BY DEF Start, StackInv
<1>3. 1 <= NumHooks /\ ~(1 > NumHooks)
  BY StackAssumption
<1>4. CASE Bypasses(q) /\ req' = [req EXCEPT ![r].st = "provider", ![r].sent = TRUE]
  <2> DEFINE p == [q EXCEPT !.st = "provider", !.sent = TRUE]
  <2>1. req' = [req EXCEPT ![r] = p]
    BY <1>4 DEF StackInv
  <2>2. /\ p \in RequestType /\ p.st = "provider" /\ p.kind = q.kind /\ p.hook = 1 /\ p.armed = FALSE
        /\ p.events = <<>> /\ p.verdict = "pass" /\ p.refused = FALSE
    BY <1>1 DEF RequestType, Under
  <2> HIDE DEF p
  <2>3. Unsent(layers, p)
    BY <2>2 DEF Unsent, Before
  <2>4. Guarded(layers, p)
    BY <1>3, <1>4, <2>2 DEF Guarded, Before, Under, After, HooksPassed, Through, Bypasses
  <2> QED
    BY <1>2, <2>1, <2>2, <2>3, <2>4, OneMoves DEF Fits
<1>5. ASSUME ~Bypasses(q), NEW v \in EagerVerdicts,
             req' = [req EXCEPT ![r] = LET a == [q EXCEPT !.verdict = v] IN
                       IF Has("guardrail") THEN [a EXCEPT !.st = "input"] ELSE EntersHooks(a)]
      PROVE  StackInv'
  <2> DEFINE a == [q EXCEPT !.verdict = v]
  <2>1. v \in {"pass", "unhealthy", "refuse"}
    BY DEF EagerVerdicts
  <2>2. /\ a \in RequestType /\ a.kind = q.kind /\ a.hook = 1 /\ a.armed = FALSE /\ a.events = <<>>
        /\ a.sent = FALSE /\ a.refused = FALSE /\ a.st = "created"
    BY <1>1, <2>1 DEF RequestType
  <2>3. Through(layers, a)
    BY <1>5, <2>2 DEF Bypasses, Through
  <2>4. req' = [req EXCEPT ![r] = IF Has("guardrail") THEN Moved(a, "input") ELSE EntersHooks(a)]
    BY <1>5 DEF Moved
  <2> HIDE DEF a
  <2>5. Fits(layers, Moved(a, "input"))
    <3> DEFINE p == Moved(a, "input")
    <3>1. /\ p \in RequestType /\ p.st = "input" /\ p.kind = a.kind /\ p.hook = 1 /\ p.armed = FALSE
          /\ p.events = <<>> /\ p.sent = FALSE /\ p.refused = FALSE
      BY <2>2, MovedFields DEF Before
    <3> HIDE DEF p
    <3>2. Unsent(layers, p)
      BY <3>1 DEF Unsent
    <3>3. Guarded(layers, p)
      BY <1>3, <2>3, <3>1 DEF Guarded, Before, Under, After, Through
    <3> QED
      BY <3>1, <3>2, <3>3 DEF Fits, p
  <2>6. Fits(layers, EntersHooks(a))
    BY <2>2, <2>3, EntersHooksFits, StackAssumption
  <2> QED
    BY <1>2, <2>4, <2>5, <2>6, OneMoves
<1> QED
  BY <1>4, <1>5 DEF Start

(* A guardrail that blocks the input does so before the provider is reached.  *)
LEMMA CheckInputKeeps == \A r \in Requests : StackInv /\ CheckInput(r) => StackInv'
<1> SUFFICES ASSUME StackInv, NEW r \in Requests, CheckInput(r)
             PROVE  StackInv'
  OBVIOUS
<1> DEFINE q == req[r]
<1>1. /\ q \in RequestType /\ q.st = "input" /\ q.hook = 1 /\ q.armed = FALSE /\ q.events = <<>>
      /\ q.sent = FALSE /\ q.refused = FALSE /\ Through(layers, q)
  <2>1. Fits(layers, q) /\ q.st = "input"
    BY DEF StackInv, CheckInput
  <2> QED
    BY <2>1 DEF Fits, Unsent, Guarded, Before, RequestType
<1>2. layers' = layers /\ cooling' \in Nat \cup {NoCooldown}
  BY DEF CheckInput, StackInv
<1> DEFINE p == [q EXCEPT !.st = "done", !.refused = TRUE]
<1>3. \/ req' = [req EXCEPT ![r] = p]
      \/ req' = [req EXCEPT ![r] = EntersHooks(q)]
  BY DEF CheckInput, StackInv
<1>4. Fits(layers, EntersHooks(q))
  BY <1>1, EntersHooksFits, StackAssumption
<1>5. Fits(layers, p)
  <2>1. /\ p \in RequestType /\ p.st = "done" /\ p.hook = 1 /\ p.events = <<>> /\ p.sent = FALSE
    BY <1>1 DEF RequestType, After
  <2>2. 1 <= NumHooks
    BY StackAssumption
  <2> HIDE DEF p
  <2>3. Unsent(layers, p)
    BY <2>1 DEF Unsent, Before, Under
  <2>4. Guarded(layers, p)
    BY <2>1, <2>2 DEF Guarded, Before, Under
  <2> QED
    BY <2>1, <2>3, <2>4 DEF Fits
<1> QED
  BY <1>2, <1>3, <1>4, <1>5, OneMoves

(* A hook that rejects leaves the request unsent.                             *)
LEMMA OnRequestKeeps == \A r \in Requests : StackInv /\ OnRequest(r) => StackInv'
<1> SUFFICES ASSUME StackInv, NEW r \in Requests, OnRequest(r)
             PROVE  StackInv'
  OBVIOUS
<1> DEFINE q == req[r]
<1>1. /\ q \in RequestType /\ q.st = "on_request" /\ q.hook \in 1..NumHooks /\ q.armed = FALSE
      /\ q.events = <<>> /\ q.sent = FALSE /\ q.refused = FALSE /\ Through(layers, q) /\ "hooks" \in layers
  <2>1. Fits(layers, q) /\ q.st = "on_request"
    BY DEF StackInv, OnRequest
  <2> QED
    BY <2>1, StackAssumption DEF Fits, Unsent, Guarded, Before, RequestType
<1>2. layers' = layers /\ cooling' \in Nat \cup {NoCooldown}
  BY DEF OnRequest, StackInv
<1>3. PICK refused \in BOOLEAN :
        req' = [req EXCEPT ![r] = LET a == [q EXCEPT !.refused = refused] IN
                  CASE refused -> Leaves(a, "refused")
                    [] ~refused /\ a.hook < NumHooks -> [a EXCEPT !.hook = @ + 1]
                    [] OTHER -> EntersInner([a EXCEPT !.hook = @ + 1])]
  BY DEF OnRequest
<1> DEFINE a == [q EXCEPT !.refused = refused]
           n == [a EXCEPT !.hook = @ + 1]
<1>4. /\ a \in RequestType /\ a.st = "on_request" /\ a.kind = q.kind /\ a.hook = q.hook /\ a.armed = FALSE
      /\ a.events = <<>> /\ a.sent = FALSE /\ a.refused = refused
  BY <1>1 DEF RequestType
<1>5. /\ n \in RequestType /\ n.st = "on_request" /\ n.kind = q.kind /\ n.hook = q.hook + 1 /\ n.armed = FALSE
      /\ n.events = <<>> /\ n.sent = FALSE /\ n.refused = refused
  <2>1. a.hook + 1 \in 1..(NumHooks + 1)
    BY <1>1, <1>4, StackAssumption
  <2> HIDE DEF a
  <2> QED
    BY <1>4, <2>1 DEF RequestType
<1>6. req' = [req EXCEPT ![r] = CASE refused -> Leaves(a, "refused")
                                  [] ~refused /\ q.hook < NumHooks -> n
                                  [] OTHER -> EntersInner(n)]
  BY <1>3, <1>4
<1> HIDE DEF a, n
<1>7. Fits(layers, Moved(a, "done"))
  <2> DEFINE p == Moved(a, "done")
  <2>1. p \in RequestType /\ p.st = "done" /\ p.hook = q.hook /\ p.events = <<>> /\ p.sent = FALSE
    BY <1>4, MovedFields DEF After
  <2> HIDE DEF p
  <2>2. Unsent(layers, p)
    BY <2>1 DEF Unsent, Before, Under
  <2>3. Guarded(layers, p)
    BY <1>1, <2>1 DEF Guarded, Before, Under
  <2> QED
    BY <2>1, <2>2, <2>3 DEF Fits, p
<1>8. ASSUME ~refused, q.hook < NumHooks
      PROVE  Fits(layers, n)
  <2>1. n.hook <= NumHooks
    BY <1>1, <1>5, <1>8, StackAssumption
  <2>2. Unsent(layers, n)
    BY <1>5, <1>8 DEF Unsent
  <2>3. Guarded(layers, n)
    BY <1>1, <1>5, <2>1 DEF Guarded, Under, After, Through
  <2> QED
    BY <1>5, <2>2, <2>3 DEF Fits
<1>9. ASSUME ~refused, ~(q.hook < NumHooks)
      PROVE  Fits(layers, EntersInner(n))
  <2> DEFINE p == EntersInner(n)
  <2>1. n.hook = NumHooks + 1 /\ n.hook > NumHooks
    BY <1>1, <1>5, <1>9, StackAssumption
  <2>2. /\ p \in RequestType /\ p.st = "inner" /\ p.kind = q.kind /\ p.hook = n.hook
        /\ p.armed = ("sink" \in layers) /\ p.events = <<>> /\ p.sent = FALSE /\ p.refused = FALSE
    <3> DEFINE sinks == "sink" \in layers
    <3>1. p = [n EXCEPT !.st = "inner", !.armed = sinks] /\ sinks \in BOOLEAN
      BY DEF EntersInner, Has
    <3> HIDE DEF p, sinks
    <3>2. /\ p \in RequestType /\ p.st = "inner" /\ p.kind = q.kind /\ p.hook = n.hook
          /\ p.armed = sinks /\ p.events = <<>> /\ p.sent = FALSE /\ p.refused = FALSE
      BY <1>5, <1>9, <3>1 DEF RequestType, Under
    <3> QED
      BY <3>2 DEF sinks
  <2> HIDE DEF p
  <2>3. Unsent(layers, p)
    BY <2>2 DEF Unsent
  <2>4. Guarded(layers, p)
    BY <1>1, <2>1, <2>2 DEF Guarded, Before, Under, After, Through, HooksPassed
  <2> QED
    BY <2>2, <2>3, <2>4 DEF Fits, p
<1>10. Leaves(a, "refused") = Moved(a, "done")
  BY LeavesMoves
<1>11. CASE refused
  BY <1>2, <1>6, <1>7, <1>10, <1>11, OneMoves
<1>12. CASE ~refused /\ q.hook < NumHooks
  BY <1>2, <1>6, <1>8, <1>12, OneMoves
<1>13. CASE ~refused /\ ~(q.hook < NumHooks)
  BY <1>2, <1>6, <1>9, <1>13, OneMoves
<1> QED
  BY <1>11, <1>12, <1>13

\* What HealthCheckService and CacheService do with a request.
LEMMA CallsHealthFits ==
  ASSUME StackAssumption, NEW q, Fits(layers, q), q.st \in {"inner", "clearing"}, q.verdict # "refuse",
         NEW p \in CallsHealth(q)
  PROVE  Fits(layers, p)
<1>1. Through(layers, q) /\ q.st \in Under
  BY DEF Fits, Guarded, Under
<1>2. CASE q.verdict = "unhealthy" \/ (HasHealth /\ Has("cooldown") /\ ~healthy)
  <2>1. p = LeavesCooldown(q, "transient")
    BY <1>2 DEF CallsHealth
  <2> QED
    BY <1>1, <2>1, LeavesCooldownFits DEF Inners
<1>3. CASE ~(q.verdict = "unhealthy" \/ (HasHealth /\ Has("cooldown") /\ ~healthy))
  <2> DEFINE sent == [q EXCEPT !.st = "provider", !.sent = TRUE]
  <2>1. p = sent \/ p = LeavesInner(q, "ok")
    BY <1>3 DEF CallsHealth
  <2>2. /\ q \in RequestType /\ q.verdict = "pass" /\ ~q.refused /\ q.events = <<>> /\ HooksPassed(layers, q)
        /\ q.armed = ("sink" \in layers /\ q.hook > NumHooks)
    BY <1>1, <1>3 DEF Fits, Unsent, Guarded, RequestType
  <2>3. /\ sent \in RequestType /\ sent.st = "provider" /\ sent.kind = q.kind /\ sent.hook = q.hook
        /\ sent.armed = q.armed /\ sent.events = q.events /\ sent.verdict = q.verdict /\ sent.refused = q.refused
    BY <2>2 DEF RequestType, Under
  <2> HIDE DEF sent
  <2>4. Unsent(layers, sent)
    BY <2>2, <2>3 DEF Unsent, Before
  <2>5. Guarded(layers, sent)
    BY <2>2, <2>3 DEF Guarded, Before, Under, After, Through, HooksPassed
  <2> QED
    BY <1>1, <2>1, <2>3, <2>4, <2>5, LeavesInnerFits DEF Fits, Inners
<1> QED
  BY <1>2, <1>3

(* The inner future's first poll: turned down, cleared first, answered or sent. *)
LEMMA PollInnerKeeps == \A r \in Requests : StackInv /\ PollInner(r) => StackInv'
<1> SUFFICES ASSUME StackInv, NEW r \in Requests, PollInner(r)
             PROVE  StackInv'
  OBVIOUS
<1> DEFINE q == req[r]
<1>1. Fits(layers, q) /\ q.st = "inner" /\ q.st \in Under /\ Through(layers, q)
  BY DEF StackInv, PollInner, Fits, Guarded, Under
<1>2. layers' = layers /\ cooling' \in Nat \cup {NoCooldown}
  BY DEF PollInner, StackInv
<1>3. CASE q.verdict = "refuse" /\ req' = [req EXCEPT ![r] = LeavesInner(@, "terminal")]
  <2>1. req' = [req EXCEPT ![r] = LeavesInner(q, "terminal")]
    BY <1>3 DEF StackInv
  <2> QED
    BY <1>1, <1>2, <2>1, LeavesInnerFits, OneMoves, StackAssumption DEF Inners
<1>4. ASSUME q.verdict # "refuse", NEW p \in CallsHealth(q), req' = [req EXCEPT ![r] = p]
      PROVE  StackInv'
  BY <1>1, <1>2, <1>4, CallsHealthFits, OneMoves, StackAssumption
<1>5. CASE /\ q.verdict # "refuse"
           /\ req' = [req EXCEPT ![r] = IF cooling < Duration THEN LeavesInner(@, "transient")
                                        ELSE [@ EXCEPT !.st = "clearing"]]
  <2>1. req' = [req EXCEPT ![r] = IF cooling < Duration THEN LeavesInner(q, "transient") ELSE Moved(q, "clearing")]
    BY <1>5 DEF StackInv, Moved
  <2>2. Fits(layers, Moved(q, "clearing"))
    <3> DEFINE p == Moved(q, "clearing")
    <3>1. /\ p \in RequestType /\ p.st = "clearing" /\ p.kind = q.kind /\ p.hook = q.hook
          /\ p.armed = q.armed /\ p.events = q.events /\ p.verdict = q.verdict /\ p.refused = q.refused /\ p.sent = q.sent
      BY <1>1, MovedFields DEF Under, Fits
    <3> HIDE DEF p
    <3>2. Unsent(layers, p)
      BY <1>1, <1>5, <3>1 DEF Fits, Unsent, Before, Under
    <3>3. Guarded(layers, p)
      BY <1>1, <3>1 DEF Fits, Guarded, Before, Under, After, Through, HooksPassed
    <3> QED
      BY <3>1, <3>2, <3>3 DEF Fits, p
  <2>3. Fits(layers, LeavesInner(q, "transient"))
    BY <1>1, LeavesInnerFits, StackAssumption DEF Inners
  <2> QED
    BY <1>2, <2>1, <2>2, <2>3, OneMoves
<1> QED
  BY <1>3, <1>4, <1>5 DEF PollInner

(* Past the write lock a request is turned down, answered or sent.            *)
LEMMA ClearCooldownKeeps == \A r \in Requests : StackInv /\ ClearCooldown(r) => StackInv'
<1> SUFFICES ASSUME StackInv, NEW r \in Requests, ClearCooldown(r)
             PROVE  StackInv'
  OBVIOUS
<1>1. Fits(layers, req[r]) /\ req[r].st = "clearing" /\ req[r].verdict # "refuse"
  BY DEF StackInv, ClearCooldown, Fits, Unsent
<1>2. layers' = layers /\ cooling' \in Nat \cup {NoCooldown}
  BY DEF ClearCooldown, Cleared, StackInv
<1>3. PICK p \in CallsHealth(req[r]) : req' = [req EXCEPT ![r] = p]
  BY DEF ClearCooldown
<1> QED
  BY <1>1, <1>2, <1>3, CallsHealthFits, OneMoves, StackAssumption

(* The provider's answer, which may start a cooldown on its way out.          *)
LEMMA ProviderAnswersKeeps == \A r \in Requests : StackInv /\ ProviderAnswers(r) => StackInv'
<1> SUFFICES ASSUME StackInv, NEW r \in Requests, ProviderAnswers(r)
             PROVE  StackInv'
  OBVIOUS
<1> DEFINE q == req[r]
<1>1. Fits(layers, q) /\ q.st = "provider" /\ q.st \in Under
  BY DEF StackInv, ProviderAnswers, Under
<1>2. layers' = layers /\ cooling' \in Nat \cup {NoCooldown}
  BY DEF ProviderAnswers, StackInv
<1>3. PICK a \in Answers :
        req' = [req EXCEPT ![r] = IF Bypasses(q) THEN Moved(q, "done") ELSE LeavesCooldown(q, a)]
  BY DEF ProviderAnswers, StackInv, Moved
<1>4. CASE Bypasses(q)
  <2> DEFINE p == Moved(q, "done")
  <2>1. /\ p \in RequestType /\ p.st = "done" /\ p.hook = 1 /\ p.events = <<>> /\ ~p.refused
        /\ (p.sent => p.verdict = "pass")
    <3>1. /\ q \in RequestType /\ q.hook = 1 /\ q.events = <<>> /\ ~q.refused
          /\ (q.sent => q.verdict = "pass")
      BY <1>1, <1>4 DEF Fits, Unsent, Guarded, HooksPassed, Through, Bypasses
    <3> QED
      BY <3>1, MovedFields DEF After
  <2>2. 1 <= NumHooks
    BY StackAssumption
  <2> HIDE DEF p
  <2>3. Unsent(layers, p)
    BY <2>1 DEF Unsent, Before, Under
  <2>4. Guarded(layers, p)
    BY <2>1, <2>2 DEF Guarded, Before, Under
  <2>5. req' = [req EXCEPT ![r] = p]
    BY <1>3, <1>4 DEF p
  <2> QED
    BY <1>2, <2>1, <2>3, <2>4, <2>5, OneMoves DEF Fits
<1>5. CASE ~Bypasses(q)
  <2>1. Through(layers, q) /\ a \in Inners
    BY <1>3, <1>5 DEF Through, Bypasses, Answers, Inners
  <2>2. Fits(layers, LeavesCooldown(q, a))
    BY <1>1, <2>1, LeavesCooldownFits, StackAssumption
  <2> QED
    BY <1>2, <1>3, <1>5, <2>2, OneMoves
<1> QED
  BY <1>4, <1>5

(* A failed answer starts a cooldown; the request itself is as it was.        *)
LEMMA TripKeeps == \A r \in Requests : StackInv /\ Trip(r) => StackInv'
<1> SUFFICES ASSUME StackInv, NEW r \in Requests, Trip(r)
             PROVE  StackInv'
  OBVIOUS
<1> DEFINE q == req[r]
<1>1. Fits(layers, q) /\ q.st \in Under /\ Through(layers, q) /\ q.inner \in Inners
  BY DEF StackInv, Trip, Fits, Guarded, Under, RequestType
<1>2. layers' = layers /\ cooling' \in Nat \cup {NoCooldown}
  BY DEF Trip
<1>3. req' = [req EXCEPT ![r] = LeavesInner(q, q.inner)]
  BY DEF Trip, StackInv
<1> QED
  BY <1>1, <1>2, <1>3, LeavesInnerFits, OneMoves, StackAssumption

(* The first report of a request that came back disarms its guard.            *)
LEMMA OnResponseKeeps == \A r \in Requests : StackInv /\ OnResponse(r) => StackInv'
<1> SUFFICES ASSUME StackInv, NEW r \in Requests, OnResponse(r)
             PROVE  StackInv'
  OBVIOUS
<1> DEFINE q == req[r]
           told == [q EXCEPT !.armed = FALSE,
                             !.events = IF Has("sink") THEN Append(@, EventOf(q.inner)) ELSE @]
           p == Leaves(told, q.inner)
<1>1. /\ q \in RequestType /\ q.st = "on_response" /\ q.hook = NumHooks + 1 /\ q.events = <<>> /\ ~q.refused
      /\ (q.sent => q.verdict = "pass")
  <2>1. Fits(layers, q) /\ q.st = "on_response"
    BY DEF StackInv, OnResponse
  <2> QED
    BY <2>1 DEF Fits, Unsent, Guarded, Under, HooksPassed
<1>2. layers' = layers /\ cooling' \in Nat \cup {NoCooldown}
  BY DEF OnResponse, StackInv
<1>3. req' = [req EXCEPT ![r] = p]
  BY DEF OnResponse
<1>4. EventOf(q.inner) \in {"success", "timed_out", "error", "cancelled"}
  BY DEF EventOf
<1> DEFINE events == IF "sink" \in layers THEN <<EventOf(q.inner)>> ELSE <<>>
<1>5. events \in Told /\ told = [q EXCEPT !.armed = FALSE, !.events = events]
  BY <1>1, <1>4 DEF Told, Has
<1> HIDE DEF events, told
<1>6. /\ told \in RequestType /\ told.st = "on_response" /\ told.hook = q.hook /\ told.events = events
      /\ told.refused = q.refused /\ told.sent = q.sent /\ told.verdict = q.verdict /\ told.inner = q.inner
      /\ told.armed = FALSE
  BY <1>1, <1>5 DEF RequestType
<1> HIDE DEF p
<1>7. /\ p \in RequestType /\ p.st \in {"output", "done"} /\ (p.st = "output" => p.inner = "ok")
      /\ p.hook = NumHooks + 1 /\ p.events = events /\ ~p.refused /\ (p.sent => p.verdict = "pass")
      /\ p.inner = q.inner /\ ~p.armed
  <2>1. p = Moved(told, "done") \/ (q.inner = "ok" /\ p = Moved(told, "output"))
    BY LeavesMoves DEF p
  <2> QED
    BY <1>1, <1>6, <2>1, MovedFields DEF After
<1>8. Unsent(layers, p)
  BY <1>7 DEF Unsent, Before, Under
<1>9. Guarded(layers, p)
  <2>1. ~(NumHooks + 1 <= NumHooks)
    BY StackAssumption
  <2> QED
    BY <1>7, <2>1 DEF Guarded, Before, Under, events
<1> QED
  BY <1>2, <1>3, <1>7, <1>8, <1>9, OneMoves DEF Fits

(* A blocked output refuses a request that was sent: the one exception.       *)
LEMMA CheckOutputKeeps == \A r \in Requests : StackInv /\ CheckOutput(r) => StackInv'
<1> SUFFICES ASSUME StackInv, NEW r \in Requests, CheckOutput(r)
             PROVE  StackInv'
  OBVIOUS
<1> DEFINE q == req[r]
<1>1. Fits(layers, q) /\ q.st = "output"
  BY DEF StackInv, CheckOutput
<1>2. layers' = layers /\ cooling' \in Nat \cup {NoCooldown}
  BY DEF CheckOutput, StackInv
<1>3. PICK blocked \in BOOLEAN : req' = [req EXCEPT ![r] = [q EXCEPT !.st = "done", !.refused = blocked]]
  BY DEF CheckOutput, StackInv
<1> DEFINE p == [q EXCEPT !.st = "done", !.refused = blocked]
<1>4. /\ p \in RequestType /\ p.st = "done" /\ p.hook = q.hook /\ p.events = q.events /\ p.sent = q.sent
      /\ p.verdict = q.verdict /\ p.inner = q.inner
  BY <1>1 DEF Fits, RequestType, After
<1> HIDE DEF p
<1>5. Unsent(layers, p)
  BY <1>1, <1>4 DEF Fits, Unsent, Before, Under
<1>6. Guarded(layers, p)
  BY <1>1, <1>4 DEF Fits, Guarded, Before, Under, After
<1> QED
  BY <1>2, <1>3, <1>4, <1>5, <1>6, OneMoves DEF Fits, p

(* A dropped request is reported if its guard is still armed.                 *)
LEMMA DropKeeps == \A r \in Requests : StackInv /\ Drop(r) => StackInv'
<1> SUFFICES ASSUME StackInv, NEW r \in Requests, Drop(r)
             PROVE  StackInv'
  OBVIOUS
<1> DEFINE q == req[r]
           events == IF q.armed THEN Append(q.events, "cancelled") ELSE q.events
           p == [q EXCEPT !.st = "dropped", !.armed = FALSE, !.events = events]
<1>1. Fits(layers, q) /\ q.st \in Before \cup Under \cup {"output"}
  BY DEF StackInv, Drop, Fits, RequestType, After
<1>2. layers' = layers /\ cooling' \in Nat \cup {NoCooldown}
  BY DEF Drop, StackInv
<1>3. req' = [req EXCEPT ![r] = p]
  BY DEF Drop, StackInv
<1>4. events = IF q.armed THEN <<"cancelled">> ELSE q.events
  <2>1. CASE q.armed
    <3>1. q.events = <<>>
      BY <1>1, <2>1 DEF Fits, Guarded, Before, Under
    <3> QED
      BY <2>1, <3>1
  <2>2. CASE ~q.armed
    BY <2>2
  <2> QED
    BY <2>1, <2>2
<1>5. events \in Told
  BY <1>1, <1>4 DEF Fits, RequestType, Told
<1> HIDE DEF events
<1>6. /\ p \in RequestType /\ p.st = "dropped" /\ p.hook = q.hook /\ p.events = events /\ p.sent = q.sent
      /\ p.verdict = q.verdict /\ p.inner = q.inner /\ p.refused = q.refused
  BY <1>1, <1>5 DEF Fits, RequestType, After
<1> HIDE DEF p
<1>7. Unsent(layers, p)
  BY <1>1, <1>6 DEF Fits, Unsent, Before, Under
<1>8. Guarded(layers, p)
  <2>1. p.st \notin Before /\ p.st \notin Under /\ p.st # "output"
    BY <1>6 DEF Before, Under
  <2>2. ASSUME "sink" \in layers, q.hook <= NumHooks
        PROVE  events = <<>>
    <3>1. q.hook \in Int /\ NumHooks \in Int
      BY <1>1, StackAssumption DEF Fits, RequestType
    <3>2. ~(q.hook > NumHooks)
      BY <2>2, <3>1
    <3>3. ~q.armed
      BY <1>1, <3>2 DEF Fits, Guarded
    <3> QED
      BY <1>1, <1>4, <2>2, <3>3 DEF Fits, Guarded, Before, Under, After
  <2>3. ASSUME "sink" \in layers, ~(q.hook <= NumHooks)
        PROVE  events = <<EventOf(q.inner)>> \/ events = <<"cancelled">>
    <3>1. CASE q.st = "output"
      BY <1>1, <1>4, <2>3, <3>1 DEF Fits, Guarded, Before, Under, After
    <3>2. CASE q.st \in Before
      BY <1>1, <2>3, <3>2 DEF Fits, Guarded
    <3>3. CASE q.st \in Under
      <4>1. q.hook \in Int /\ NumHooks \in Int
        BY <1>1, StackAssumption DEF Fits, RequestType
      <4>2. q.hook > NumHooks
        BY <2>3, <4>1
      <4>3. q.armed
        BY <1>1, <2>3, <3>3, <4>2 DEF Fits, Guarded
      <4> QED
        BY <1>4, <4>3
    <3> QED
      BY <1>1, <3>1, <3>2, <3>3
  <2> QED
    BY <1>6, <2>1, <2>2, <2>3 DEF Guarded, After
<1> QED
  BY <1>2, <1>3, <1>6, <1>7, <1>8, OneMoves DEF Fits

(* All slots are empty at the start.                                          *)
LEMMA InitEstablishes == Init => StackInv
<1> SUFFICES ASSUME Init
             PROVE  StackInv
  OBVIOUS
<1>1. /\ NewRequest.st = "idle" /\ NewRequest.hook = 1 /\ NewRequest.verdict = "pass" /\ NewRequest.refused = FALSE
      /\ NewRequest.sent = FALSE /\ NewRequest.armed = FALSE /\ NewRequest.events = <<>>
  BY DEF NewRequest
<1>2. Fits(layers, NewRequest)
  <2>1. Unsent(layers, NewRequest)
    BY <1>1 DEF Unsent
  <2>2. Guarded(layers, NewRequest)
    BY <1>1, StackAssumption DEF Guarded, Under, After
  <2> QED
    BY <2>1, <2>2, NewTyped DEF Fits
<1> QED
  BY <1>2 DEF Init, StackInv

(* Time only ages a cooldown.                                                 *)
LEMMA TickKeepsCooling == StackInv /\ Tick => cooling' \in Nat \cup {NoCooldown}
BY StackAssumption DEF StackInv, Tick, Capped

\* One case per action.
LEMMA NextKeeps == StackInv /\ [Next]_vars => StackInv'
<1> SUFFICES ASSUME StackInv, [Next]_vars
             PROVE  StackInv'
  OBVIOUS
<1>1. ASSUME NEW r \in Requests, Create(r) \/ Proceeds(r) \/ Drop(r)
      PROVE  StackInv'
  BY <1>1, CreateKeeps, StartKeeps, CheckInputKeeps, OnRequestKeeps, PollInnerKeeps, ClearCooldownKeeps,
     ProviderAnswersKeeps, TripKeeps, OnResponseKeeps, CheckOutputKeeps, DropKeeps DEF Proceeds
<1>2. CASE Wake \/ Record \/ ProviderChanges \/ DropClient
  BY <1>2 DEF StackInv, Wake, Record, ProviderChanges, DropClient
<1>3. CASE Tick
  BY <1>3, TickKeepsCooling DEF StackInv, Tick
<1>4. CASE UNCHANGED vars
  BY <1>4 DEF StackInv, vars
<1> QED
  BY <1>1, <1>2, <1>3, <1>4 DEF Next

(* StackInv is an invariant of the stack.                                     *)
LEMMA StackInvHolds == Spec => []StackInv
BY InitEstablishes, NextKeeps, PTL DEF Spec

-----------------------------------------------------------------------------
(* The theorems.                                                           *)

\* Whatever layers a stack has and however its requests overlap: what a
\* guardrail, a hook, the budget, the rate limit or the health check turned
\* down is not sent, although the inner futures are made first.
THEOREM RefusedIsNotSent == Spec => []RefusedNotSent
<1>1. StackInv => RefusedNotSent
  BY DEF StackInv, Fits, Unsent, RefusedNotSent
<1> QED
  BY <1>1, StackInvHolds, PTL

\* For any number of hooks, and wherever a request is dropped: its usage is
\* reported once, with its own outcome, if its hooks let it pass.
THEOREM UsageIsReportedOnce == Spec => []UsageReportedOnce
<1>1. StackInv => UsageReportedOnce
  BY DEF StackInv, Fits, Guarded, UsageReportedOnce, Has, After
<1> QED
  BY <1>1, StackInvHolds, PTL

\* Whatever leaves the stack below a layer was sent before or not at all.
LEMMA LeavingSendsNot ==
  ASSUME NEW q \in RequestType, NEW result \in Inners \cup {"refused"}
  PROVE  /\ Leaves(q, result).sent = q.sent /\ Leaves(q, result).st # "clearing"
         /\ LeavesInner(q, result).sent = q.sent /\ LeavesInner(q, result).st # "clearing"
         /\ LeavesCooldown(q, result).sent = q.sent /\ LeavesCooldown(q, result).st # "clearing"
BY DEF LeavesCooldown, LeavesInner, Leaves, RequestType

\* However old the cooldown is that a request saw: one that is on is not cleared,
\* nobody who looks at it goes through, and nobody else but who was between the
\* locks when it began, or goes past the whole stack.
THEOREM CooldownIsKept == Spec => CooldownKept
<1> DEFINE Keeps(r) == /\ req'[r].st = "clearing" => req[r].st = "clearing"
                       /\ ~req[r].sent /\ req'[r].sent => req[r].st = "clearing" \/ Bypasses(req[r])
<1>1. ASSUME StackInv, Next, cooling # NoCooldown, cooling < Duration
      PROVE  cooling' # NoCooldown /\ \A r \in Requests : Keeps(r)
  <2>1. cooling \in Nat /\ ~(cooling >= Duration)
    BY <1>1, StackAssumption DEF StackInv
  <2>2. cooling' # NoCooldown
    <3>1. CASE Tick
      BY <2>1, <3>1, <1>1, StackAssumption DEF Tick, Capped
    <3>2. ASSUME NEW r \in Requests, Trip(r)
          PROVE  cooling' # NoCooldown
      BY <3>2, StackAssumption DEF Trip
    <3>3. ASSUME NEW r \in Requests, ClearCooldown(r)
          PROVE  cooling' # NoCooldown
      BY <1>1, <2>1, <3>3 DEF ClearCooldown, Cleared
    <3>4. CASE UNCHANGED cooling
      BY <1>1, <3>4
    <3> QED
      BY <1>1, <3>1, <3>2, <3>3, <3>4 DEF Next, Proceeds, Create, Start, CheckInput, OnRequest, PollInner,
         ProviderAnswers, OnResponse, CheckOutput, Drop, Wake, Record, ProviderChanges, DropClient
  <2>3. ASSUME NEW r \in Requests
        PROVE  Keeps(r)
    <3> DEFINE q == req[r]
    <3>1. req \in [Requests -> RequestType] /\ q \in RequestType
      BY <1>1 DEF StackInv, Fits
    <3>2. CASE PollInner(r)
      <4>1. req'[r] = LeavesInner(q, "terminal") \/ req'[r] = LeavesInner(q, "transient")
        BY <1>1, <2>1, <3>1, <3>2 DEF PollInner
      <4> QED
        BY <3>1, <4>1, LeavingSendsNot DEF Inners
    <3>3. CASE ClearCooldown(r)
      BY <3>3 DEF ClearCooldown
    <3>4. CASE Start(r)
      <4>1. CASE Bypasses(q) /\ req' = [req EXCEPT ![r].st = "provider", ![r].sent = TRUE]
        BY <3>1, <4>1 DEF RequestType
      <4>2. ASSUME NEW v \in EagerVerdicts,
                   req' = [req EXCEPT ![r] = LET a == [q EXCEPT !.verdict = v] IN
                             IF Has("guardrail") THEN [a EXCEPT !.st = "input"] ELSE EntersHooks(a)]
            PROVE  Keeps(r)
        <5>1. req'[r].sent = q.sent /\ req'[r].st # "clearing"
          BY <3>1, <4>2 DEF EntersHooks, RequestType
        <5> QED
          BY <5>1
      <4> QED
        BY <3>4, <4>1, <4>2 DEF Start
    <3>5. CASE Create(r)
      BY <3>1, <3>5 DEF Create, NewRequest
    <3>6. CASE CheckInput(r)
      <4>1. req'[r].sent = q.sent /\ req'[r].st # "clearing"
        BY <3>1, <3>6 DEF CheckInput, EntersHooks, RequestType
      <4> QED
        BY <4>1
    <3>7. CASE OnRequest(r)
      <4>1. PICK refused \in BOOLEAN :
              req' = [req EXCEPT ![r] = LET a == [q EXCEPT !.refused = refused] IN
                        CASE refused -> Leaves(a, "refused")
                          [] ~refused /\ a.hook < NumHooks -> [a EXCEPT !.hook = @ + 1]
                          [] OTHER -> EntersInner([a EXCEPT !.hook = @ + 1])]
        BY <3>7 DEF OnRequest
      <4> DEFINE a == [q EXCEPT !.refused = refused]
                 n == [a EXCEPT !.hook = @ + 1]
      <4>2. q.st = "on_request" /\ a \in RequestType /\ a.sent = q.sent /\ a.st = q.st
        BY <3>1, <3>7 DEF OnRequest, RequestType
      <4>3. n.sent = a.sent /\ n.st = a.st /\ EntersInner(n).sent = a.sent /\ EntersInner(n).st = "inner"
        BY <4>2 DEF EntersInner, RequestType
      <4>4. Leaves(a, "refused").sent = a.sent /\ Leaves(a, "refused").st # "clearing"
        BY <4>2, LeavingSendsNot
      <4>5. req'[r] \in {Leaves(a, "refused"), n, EntersInner(n)}
        BY <3>1, <4>1
      <4> HIDE DEF a, n
      <4> QED
        BY <4>2, <4>3, <4>4, <4>5
    <3>8. CASE ProviderAnswers(r)
      <4>1. PICK a \in Answers :
              req' = [req EXCEPT ![r] = IF Bypasses(@) THEN [@ EXCEPT !.st = "done"] ELSE LeavesCooldown(@, a)]
        BY <3>8 DEF ProviderAnswers
      <4>2. [q EXCEPT !.st = "done"].sent = q.sent /\ [q EXCEPT !.st = "done"].st = "done" /\ a \in Inners
        BY <3>1 DEF RequestType, Answers, Inners
      <4>3. req'[r] = [q EXCEPT !.st = "done"] \/ req'[r] = LeavesCooldown(q, a)
        BY <3>1, <4>1
      <4>4. LeavesCooldown(q, a).sent = q.sent /\ LeavesCooldown(q, a).st # "clearing"
        BY <3>1, <4>2, LeavingSendsNot
      <4>5. req'[r].sent = q.sent /\ req'[r].st # "clearing"
        BY <4>2, <4>3, <4>4
      <4> QED
        BY <4>5
    <3>9. CASE Trip(r)
      <4>1. req'[r] = LeavesInner(q, q.inner) /\ q.inner \in Inners
        BY <3>1, <3>9 DEF Trip, RequestType
      <4> QED
        BY <3>1, <4>1, LeavingSendsNot
    <3>10. CASE OnResponse(r)
      <4> DEFINE told == [q EXCEPT !.armed = FALSE,
                            !.events = IF Has("sink") THEN Append(@, EventOf(q.inner)) ELSE @]
      <4>1. req'[r] = Leaves(told, q.inner)
        BY <3>1, <3>10 DEF OnResponse
      <4>2. told.sent = q.sent
        BY <3>1 DEF RequestType
      <4> HIDE DEF told
      <4>3. Leaves(told, q.inner).sent = told.sent /\ Leaves(told, q.inner).st # "clearing"
        <5>1. told = [told EXCEPT !.st = told.st] /\ "sent" \in DOMAIN told /\ "st" \in DOMAIN told
          BY <3>1 DEF told, RequestType
        <5> QED
          BY <5>1 DEF Leaves
      <4> QED
        BY <4>1, <4>2, <4>3
    <3>11. CASE CheckOutput(r) \/ Drop(r)
      <4>1. req'[r].sent = q.sent /\ req'[r].st # "clearing"
        BY <3>1, <3>11 DEF CheckOutput, Drop, RequestType
      <4> QED
        BY <4>1
    <3>12. ASSUME NEW s \in Requests, s # r, Create(s) \/ Proceeds(s) \/ Drop(s)
           PROVE  req'[r] = req[r]
      BY <3>1, <3>12 DEF Create, Proceeds, Drop, Start, CheckInput, OnRequest, PollInner, ClearCooldown,
         ProviderAnswers, Trip, OnResponse, CheckOutput
    <3>13. CASE Wake \/ Record \/ Tick \/ ProviderChanges \/ DropClient
      BY <3>13 DEF Wake, Record, Tick, ProviderChanges, DropClient
    <3>14. CASE req'[r] = req[r]
      BY <3>14
    <3> HIDE DEF Keeps
    <3> QED
      BY <1>1, <3>2, <3>3, <3>4, <3>5, <3>6, <3>7, <3>8, <3>9, <3>10, <3>11, <3>12, <3>13, <3>14
      DEF Next, Proceeds
  <2> QED
    BY <2>2, <2>3
<1> QED
  BY <1>1, StackInvHolds, PTL DEF Spec, CooldownKept
=============================================================================
