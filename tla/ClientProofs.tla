---------------------------- MODULE ClientProofs -----------------------------
(***************************************************************************)
(* What holds of a client's parts, for any texts, statuses, waits, frames, *)
(* guardrails, providers and requests, and any number of them: a section   *)
(* for each part, with its inductive invariant, the steps that keep it and *)
(* the theorem of the specification of the whole client, ClientSafety.     *)
(***************************************************************************)
EXTENDS Client, FiniteSetTheorems, SequenceTheorems, WellFoundedInduction, TLAPS

-----------------------------------------------------------------------------
(* Semantic: what a request is answered with, whatever collides, expires   *)
(* or is overwritten between its steps.                                    *)


Written == [for : Contents]
AnswerEntries == [is : {"answer"}, text : Texts, answer : Written]
VectorEntries == [is : {"vector"}, text : Texts]

Places == {"idle", "exact", "search", "found", "inner", "put", "update", "answered"}

AskerType ==
  [st : Places, content : Contents, found : {Nothing} \cup VectorEntries,
   answer : {Nothing} \cup Written, state : {"none", "ExactHit", "SemanticHit", "Miss"}]

TierType ==
  [setup : Setups, answers : [Hashes -> {Nothing} \cup AnswerEntries],
   vectors : [Hashes -> {Nothing} \cup VectorEntries], req : [Askers -> AskerType]]

\* What a request knows wherever it is: it has a key where it uses one, what it
\* found is similar, and what it is about to write is the answer to itself.
Placed(setup, q) ==
  /\ q.st \in {"exact", "search", "found", "put", "update"} => KeyedIn(setup, q.content)
  /\ q.st \in {"search", "found"} => setup.semantic
  /\ q.st = "found" => /\ q.found \in VectorEntries
                       /\ Similarity(TextIn(setup, q.content), q.found.text) >= Threshold
  /\ q.st \in {"put", "update"} => q.answer = [for |-> q.content] /\ q.state = "Miss"

\* What a request has been answered with.
Fits(setup, q) ==
  q.st = "answered" =>
    CASE q.state = "ExactHit" -> /\ KeyedIn(setup, q.content)
                                 /\ TextIn(setup, q.answer.for) = TextIn(setup, q.content)
      [] q.state = "SemanticHit" ->
           /\ setup.semantic /\ KeyedIn(setup, q.content)
           /\ Similarity(TextIn(setup, q.content), TextIn(setup, q.answer.for)) >= Threshold
      [] OTHER -> q.answer.for = q.content

\* What is stored under a hash.
Filed(setup, h, entry) ==
  entry # Nothing => TextIn(setup, entry.answer.for) = entry.text /\ HashOf(entry.text) = h

TierInv ==
  /\ tier \in TierType
  /\ \A r \in Askers : Placed(tier.setup, tier.req[r]) /\ Fits(tier.setup, tier.req[r])
  /\ \A h \in Hashes : Filed(tier.setup, h, tier.answers[h])

-----------------------------------------------------------------------------
(* Operators.                                                              *)

\* Every text a strategy makes is one of Texts, whatever the setup.
LEMMA TextsAreTexts ==
  \A setup, c : c \in Contents => TextIn(setup, c) \in Texts /\ HashOf(TextIn(setup, c)) \in Hashes
<1> SUFFICES ASSUME NEW setup, NEW c \in Contents
             PROVE  TextIn(setup, c) \in Texts /\ HashOf(TextIn(setup, c)) \in Hashes
  OBVIOUS
<1> DEFINE tenant == CASE setup.strategy = "system_prompt" -> ""
                       [] setup.strategy = "tenant" /\ Tenant(c) = "" -> "__global__"
                       [] OTHER -> Tenant(c)
<1>1. tenant \in {"", "__global__", c.tenant, c.user}
  BY DEF Tenant
<1>2. TextIn(setup, c) = <<c.kind, c.model, c.messages, c.params, tenant>>
  BY DEF TextIn
<1> HIDE DEF tenant
<1>3. TextIn(setup, c) \in Texts
  <2> DEFINE texts == {<<c.kind, c.model, c.messages, c.params, t>> : t \in {"", "__global__", c.tenant, c.user}}
  <2>1. TextIn(setup, c) \in texts
    BY <1>1, <1>2
  <2> QED
    BY <2>1 DEF Texts
<1> QED
  BY <1>3 DEF Hashes

\* What get() returns was filed under the hash it was asked for, with the text.
LEMMA GetReturns ==
  ASSUME tier \in TierType
  PROVE  \A h \in Hashes : \A text : LET entry == Get(h, text) IN
           entry # Nothing => entry \in AnswerEntries /\ entry.text = text /\ entry = tier.answers[h]
BY DEF Get, TierType

\* What search() returns is similar.
LEMMA BestIsSimilar ==
  ASSUME tier \in TierType
  PROVE  \A text : \A best \in Best(text) :
           best \in VectorEntries /\ Similarity(text, best.text) >= Threshold
<1> SUFFICES ASSUME NEW text, NEW h \in Hashes, tier.vectors[h] # Nothing,
                    Similarity(text, tier.vectors[h].text) >= Threshold
             PROVE  tier.vectors[h] \in VectorEntries
  BY DEF Best, TierType
<1> QED
  BY DEF TierType

\* A step that only moves one request.
LEMMA OneMoves ==
  TierInv => \A r \in Askers : \A q \in AskerType :
    Placed(tier.setup, q) /\ Fits(tier.setup, q) /\ tier' = [tier EXCEPT !.req[r] = q] => TierInv'
<1> SUFFICES ASSUME TierInv, NEW r \in Askers, NEW q \in AskerType,
                    Placed(tier.setup, q), Fits(tier.setup, q), tier' = [tier EXCEPT !.req[r] = q]
             PROVE  TierInv'
  OBVIOUS
<1>1. /\ tier'.setup = tier.setup /\ tier'.answers = tier.answers /\ tier'.vectors = tier.vectors
      /\ tier'.req = [tier.req EXCEPT ![r] = q]
  BY DEF TierInv, TierType
<1>2. tier' \in TierType
  BY DEF TierInv, TierType
<1>3. \A s \in Askers : Placed(tier.setup, tier'.req[s]) /\ Fits(tier.setup, tier'.req[s])
  BY <1>1 DEF TierInv, TierType
<1> QED
  BY <1>1, <1>2, <1>3 DEF TierInv

-----------------------------------------------------------------------------
(* Every step keeps the invariant.                                         *)

LEMMA NewAskerFits ==
  NewAsker \in AskerType /\ \A setup : Placed(setup, NewAsker) /\ Fits(setup, NewAsker)
BY SemanticAssumption DEF NewAsker, AskerType, Places, Placed, Fits

LEMMA CallKeeps == \A r \in Askers : TierInv /\ Call(r) => TierInv'
<1> SUFFICES ASSUME TierInv, NEW r \in Askers, Call(r)
             PROVE  TierInv'
  OBVIOUS
<1>1. PICK c \in Contents : Goes(r, [NewAsker EXCEPT !.st = IF Keyed(c) THEN "exact" ELSE "inner", !.content = c])
  BY DEF Call
<1> DEFINE q == [NewAsker EXCEPT !.st = IF Keyed(c) THEN "exact" ELSE "inner", !.content = c]
<1>2. q \in AskerType
  BY NewAskerFits DEF NewAsker, AskerType, Places
<1>3. Placed(tier.setup, q) /\ Fits(tier.setup, q)
  BY DEF NewAsker, Placed, Fits, Keyed
<1> HIDE DEF q
<1> QED
  BY <1>1, <1>2, <1>3, OneMoves DEF Goes, q

LEMMA LeaveKeeps == \A r \in Askers : TierInv /\ Leave(r) => TierInv'
BY NewAskerFits, OneMoves DEF Leave, Goes

\* What a request finds under a hash of its own or of what it found.
LEMMA EntryIsFiled ==
  ASSUME TierInv, NEW text \in Texts, HashOf(text) \in Hashes, Get(HashOf(text), text) # Nothing
  PROVE  /\ Get(HashOf(text), text).answer \in Written
         /\ TextIn(tier.setup, Get(HashOf(text), text).answer.for) = text
<1>1. /\ Get(HashOf(text), text) \in AnswerEntries /\ Get(HashOf(text), text).text = text
      /\ Get(HashOf(text), text) = tier.answers[HashOf(text)]
  BY GetReturns DEF TierInv
<1> QED
  BY <1>1 DEF TierInv, Filed, AnswerEntries

LEMMA LookExactKeeps == \A r \in Askers : TierInv /\ LookExact(r) => TierInv'
<1> SUFFICES ASSUME TierInv, NEW r \in Askers, LookExact(r)
             PROVE  TierInv'
  OBVIOUS
<1> DEFINE q == tier.req[r]
           text == Text(q.content)
           entry == Get(HashOf(text), text)
<1>1. q \in AskerType /\ q.st = "exact" /\ Placed(tier.setup, q)
  BY DEF TierInv, TierType, LookExact
<1>2. KeyedIn(tier.setup, q.content)
  BY <1>1 DEF Placed
<1>3. text = TextIn(tier.setup, q.content) /\ text \in Texts /\ HashOf(text) \in Hashes
  BY <1>1, TextsAreTexts DEF Text, AskerType
<1>4. CASE entry # Nothing
  <2>1. entry.answer \in Written /\ TextIn(tier.setup, entry.answer.for) = text
    BY <1>3, <1>4, EntryIsFiled
  <2>2. tier' = [tier EXCEPT !.req[r] = Answered(q, entry, "ExactHit")]
    BY <1>4 DEF LookExact, Goes
  <2>3. Answered(q, entry, "ExactHit") \in AskerType
    BY <1>1, <2>1 DEF Answered, AskerType, Places
  <2>4. /\ Answered(q, entry, "ExactHit").st = "answered"
        /\ Answered(q, entry, "ExactHit").state = "ExactHit"
        /\ Answered(q, entry, "ExactHit").answer = entry.answer
        /\ Answered(q, entry, "ExactHit").content = q.content
    BY <1>1 DEF Answered, AskerType
  <2>5. Placed(tier.setup, Answered(q, entry, "ExactHit")) /\ Fits(tier.setup, Answered(q, entry, "ExactHit"))
    BY <1>2, <1>3, <2>1, <2>4 DEF Placed, Fits
  <2> QED
    BY <2>2, <2>3, <2>5, OneMoves
<1>5. CASE entry = Nothing
  <2> DEFINE p == [q EXCEPT !.st = IF Semantics THEN "search" ELSE "inner"]
  <2>1. tier' = [tier EXCEPT !.req[r] = p]
    BY <1>5 DEF LookExact, Goes
  <2>2. p \in AskerType /\ p.st = (IF Semantics THEN "search" ELSE "inner") /\ p.content = q.content
    BY <1>1 DEF AskerType, Places
  <2> HIDE DEF p
  <2>3. Placed(tier.setup, p) /\ Fits(tier.setup, p)
    BY <1>2, <2>2 DEF Placed, Fits, Semantics
  <2> QED
    BY <2>1, <2>2, <2>3, OneMoves
<1> QED
  BY <1>4, <1>5

\* A request that goes to the provider knows nothing yet.
LEMMA GoingInsideKeeps ==
  TierInv => \A r \in Askers : tier' = [tier EXCEPT !.req[r] = [tier.req[r] EXCEPT !.st = "inner"]] => TierInv'
<1> SUFFICES ASSUME TierInv, NEW r \in Askers,
                    tier' = [tier EXCEPT !.req[r] = [tier.req[r] EXCEPT !.st = "inner"]]
             PROVE  TierInv'
  OBVIOUS
<1> DEFINE p == [tier.req[r] EXCEPT !.st = "inner"]
<1>1. p \in AskerType /\ p.st = "inner"
  BY DEF TierInv, TierType, AskerType, Places
<1>2. Placed(tier.setup, p) /\ Fits(tier.setup, p)
  BY <1>1 DEF Placed, Fits
<1> QED
  BY <1>1, <1>2, OneMoves

LEMMA SearchKeeps == \A r \in Askers : TierInv /\ Search(r) => TierInv'
<1> SUFFICES ASSUME TierInv, NEW r \in Askers, Search(r)
             PROVE  TierInv'
  OBVIOUS
<1> DEFINE q == tier.req[r]
<1>1. q \in AskerType /\ q.st = "search" /\ KeyedIn(tier.setup, q.content) /\ tier.setup.semantic
  BY DEF TierInv, TierType, Search, Placed
<1>2. CASE tier' = [tier EXCEPT !.req[r] = [tier.req[r] EXCEPT !.st = "inner"]]
  BY <1>2, GoingInsideKeeps
<1>3. ASSUME NEW best \in Best(Text(q.content)),
             tier' = [tier EXCEPT !.req[r] = [q EXCEPT !.st = "found", !.found = best]]
      PROVE  TierInv'
  <2> DEFINE p == [q EXCEPT !.st = "found", !.found = best]
  <2>1. best \in VectorEntries /\ Similarity(TextIn(tier.setup, q.content), best.text) >= Threshold
    BY BestIsSimilar DEF TierInv, Text
  <2>2. p \in AskerType /\ p.st = "found" /\ p.content = q.content /\ p.found = best
    BY <1>1, <2>1 DEF AskerType, Places
  <2>3. tier' = [tier EXCEPT !.req[r] = p]
    BY <1>3
  <2> HIDE DEF p
  <2>4. Placed(tier.setup, p) /\ Fits(tier.setup, p)
    BY <1>1, <2>1, <2>2 DEF Placed, Fits
  <2> QED
    BY <2>2, <2>3, <2>4, OneMoves
<1> QED
  BY <1>2, <1>3 DEF Search, Goes

LEMMA LookFoundKeeps == \A r \in Askers : TierInv /\ LookFound(r) => TierInv'
<1> SUFFICES ASSUME TierInv, NEW r \in Askers, LookFound(r)
             PROVE  TierInv'
  OBVIOUS
<1> DEFINE q == tier.req[r]
           text == q.found.text
           entry == Get(HashOf(text), text)
           p == Answered(q, entry, "SemanticHit")
<1>1. /\ q \in AskerType /\ q.st = "found" /\ q.found \in VectorEntries
      /\ KeyedIn(tier.setup, q.content) /\ tier.setup.semantic
      /\ Similarity(TextIn(tier.setup, q.content), text) >= Threshold
  BY DEF TierInv, TierType, LookFound, Placed
<1>2. text \in Texts /\ HashOf(text) \in Hashes
  BY <1>1 DEF VectorEntries, Hashes
<1>3. CASE entry # Nothing
  <2>1. entry.answer \in Written /\ TextIn(tier.setup, entry.answer.for) = text
    BY <1>2, <1>3, EntryIsFiled
  <2>2. tier' = [tier EXCEPT !.req[r] = p]
    BY <1>3 DEF LookFound, Goes
  <2>3. p \in AskerType
    BY <1>1, <2>1 DEF Answered, AskerType, Places
  <2>4. p.st = "answered" /\ p.state = "SemanticHit" /\ p.answer = entry.answer /\ p.content = q.content
    BY <1>1 DEF Answered, AskerType
  <2> HIDE DEF p, text
  <2>5. Placed(tier.setup, p) /\ Fits(tier.setup, p)
    BY <1>1, <2>1, <2>4 DEF Placed, Fits
  <2> QED
    BY <2>2, <2>3, <2>5, OneMoves
<1>4. CASE entry = Nothing
  BY <1>4, GoingInsideKeeps DEF LookFound, Goes
<1> QED
  BY <1>3, <1>4

LEMMA InnerAnswersKeeps == \A r \in Askers : TierInv /\ InnerAnswers(r) => TierInv'
<1> SUFFICES ASSUME TierInv, NEW r \in Askers, InnerAnswers(r)
             PROVE  TierInv'
  OBVIOUS
<1> DEFINE q == tier.req[r]
           p == [q EXCEPT !.st = IF Keyed(q.content) THEN "put" ELSE "answered",
                          !.answer = [for |-> q.content], !.state = "Miss"]
<1>1. q \in AskerType
  BY DEF TierInv, TierType
<1>2. CASE tier' = [tier EXCEPT !.req[r] = p]
  <2>1. /\ p \in AskerType
        /\ p.st = (IF KeyedIn(tier.setup, q.content) THEN "put" ELSE "answered")
        /\ p.content = q.content /\ p.answer = [for |-> q.content] /\ p.state = "Miss"
    BY <1>1 DEF AskerType, Places, Written, Keyed
  <2> HIDE DEF p
  <2>2. Placed(tier.setup, p) /\ Fits(tier.setup, p)
    BY <2>1 DEF Placed, Fits
  <2> QED
    BY <1>2, <2>1, <2>2, OneMoves
<1>3. CASE tier' = [tier EXCEPT !.req[r] = NewAsker]
  BY <1>3, NewAskerFits, OneMoves
<1> QED
  BY <1>2, <1>3 DEF InnerAnswers, Goes

LEMMA PutKeeps == \A r \in Askers : TierInv /\ Put(r) => TierInv'
<1> SUFFICES ASSUME TierInv, NEW r \in Askers, Put(r)
             PROVE  TierInv'
  OBVIOUS
<1> DEFINE q == tier.req[r]
           text == Text(q.content)
           entry == [is |-> "answer", text |-> text, answer |-> q.answer]
           p == [q EXCEPT !.st = IF Semantics THEN "update" ELSE "answered"]
<1>1. /\ q \in AskerType /\ KeyedIn(tier.setup, q.content)
      /\ q.answer = [for |-> q.content] /\ q.state = "Miss"
  BY DEF TierInv, TierType, Put, Placed
<1>2. text = TextIn(tier.setup, q.content) /\ text \in Texts /\ HashOf(text) \in Hashes
  BY <1>1, TextsAreTexts DEF Text, AskerType
<1>3. entry \in AnswerEntries
  BY <1>1, <1>2 DEF AnswerEntries, Written, AskerType
<1>4. /\ p \in AskerType /\ p.st = (IF tier.setup.semantic THEN "update" ELSE "answered")
      /\ p.content = q.content /\ p.answer = [for |-> q.content] /\ p.state = "Miss"
  BY <1>1 DEF AskerType, Places, Semantics
<1>5. Filed(tier.setup, HashOf(text), entry)
  BY <1>1, <1>2 DEF Filed
<1>6. tier' = [tier EXCEPT !.answers[HashOf(text)] = entry, !.req[r].st = p.st]
  BY <1>4 DEF Put, Semantics
<1> HIDE DEF entry, p
<1>7. Placed(tier.setup, p) /\ Fits(tier.setup, p)
  BY <1>1, <1>4 DEF Placed, Fits
<1>8. /\ tier'.setup = tier.setup /\ tier'.vectors = tier.vectors
      /\ tier'.answers = [tier.answers EXCEPT ![HashOf(text)] = entry]
      /\ tier'.req = [tier.req EXCEPT ![r].st = p.st]
  BY <1>6 DEF TierInv, TierType
<1>9. tier'.req = [tier.req EXCEPT ![r] = p]
  BY <1>8 DEF TierInv, TierType, AskerType, p
<1> HIDE DEF text
<1>10. tier' \in TierType
  <2>1. tier'.answers \in [Hashes -> {Nothing} \cup AnswerEntries]
    BY <1>2, <1>3, <1>8 DEF TierInv, TierType
  <2>2. tier'.req \in [Askers -> AskerType]
    BY <1>4, <1>9 DEF TierInv, TierType
  <2> QED
    BY <1>6, <1>8, <2>1, <2>2 DEF TierInv, TierType
<1>11. \A s \in Askers : Placed(tier.setup, tier'.req[s]) /\ Fits(tier.setup, tier'.req[s])
  BY <1>7, <1>9 DEF TierInv, TierType
<1>12. \A h \in Hashes : Filed(tier.setup, h, tier'.answers[h])
  BY <1>2, <1>5, <1>8 DEF TierInv, TierType
<1> QED
  BY <1>8, <1>10, <1>11, <1>12 DEF TierInv

\* An answer that was put stays what it is when its vector is written or fails.
LEMMA UpdateVectorKeeps == \A r \in Askers : TierInv /\ UpdateVector(r) => TierInv'
<1> SUFFICES ASSUME TierInv, NEW r \in Askers, UpdateVector(r)
             PROVE  TierInv'
  OBVIOUS
<1> DEFINE q == tier.req[r]
           text == Text(q.content)
           vector == [is |-> "vector", text |-> text]
           p == [q EXCEPT !.st = "answered"]
<1>1. /\ q \in AskerType /\ q.answer = [for |-> q.content] /\ q.state = "Miss"
  BY DEF TierInv, TierType, UpdateVector, Placed
<1>2. text \in Texts /\ HashOf(text) \in Hashes
  BY <1>1, TextsAreTexts DEF Text, AskerType
<1>3. vector \in VectorEntries
  BY <1>2 DEF VectorEntries
<1>4. /\ p \in AskerType /\ p.st = "answered" /\ p.content = q.content
      /\ p.answer = [for |-> q.content] /\ p.state = "Miss"
  BY <1>1 DEF AskerType, Places
<1>5. Placed(tier.setup, p) /\ Fits(tier.setup, p)
  <2> HIDE DEF p, q
  <2> QED
    BY <1>1, <1>4 DEF Placed, Fits
<1>6. CASE tier' = [tier EXCEPT !.vectors[HashOf(text)] = vector, !.req[r].st = "answered"]
  <2>1. /\ tier'.setup = tier.setup /\ tier'.answers = tier.answers
        /\ tier'.vectors = [tier.vectors EXCEPT ![HashOf(text)] = vector]
        /\ tier'.req = [tier.req EXCEPT ![r].st = "answered"]
    BY <1>6 DEF TierInv, TierType
  <2>2. tier'.req = [tier.req EXCEPT ![r] = p]
    BY <2>1 DEF TierInv, TierType, AskerType
  <2> HIDE DEF text, vector, p
  <2>3. tier'.vectors \in [Hashes -> {Nothing} \cup VectorEntries]
    BY <1>2, <1>3, <2>1 DEF TierInv, TierType
  <2>4. tier'.req \in [Askers -> AskerType]
    BY <1>4, <2>2 DEF TierInv, TierType
  <2>5. tier' \in TierType
    BY <1>6, <2>1, <2>3, <2>4 DEF TierInv, TierType
  <2>6. \A s \in Askers : Placed(tier.setup, tier'.req[s]) /\ Fits(tier.setup, tier'.req[s])
    BY <1>5, <2>2 DEF TierInv, TierType
  <2> QED
    BY <2>1, <2>5, <2>6 DEF TierInv
<1>7. CASE tier' = [tier EXCEPT !.req[r] = p]
  BY <1>4, <1>5, <1>7, OneMoves
<1> QED
  BY <1>6, <1>7 DEF UpdateVector, Goes

\* An answer that goes takes nothing with it.
LEMMA VanishKeeps == \A h \in Hashes : TierInv /\ Vanish(h) => TierInv'
<1> SUFFICES ASSUME TierInv, NEW h \in Hashes, Vanish(h)
             PROVE  TierInv'
  OBVIOUS
<1>1. /\ tier'.setup = tier.setup /\ tier'.vectors = tier.vectors /\ tier'.req = tier.req
      /\ tier'.answers = [tier.answers EXCEPT ![h] = Nothing]
  BY DEF Vanish, TierInv, TierType
<1>2. tier' \in TierType
  BY DEF Vanish, TierInv, TierType
<1>3. \A g \in Hashes : Filed(tier.setup, g, tier'.answers[g])
  BY <1>1 DEF TierInv, TierType, Filed
<1> QED
  BY <1>1, <1>2, <1>3 DEF TierInv

\* Two empty stores and idle requests.
LEMMA InitEstablishes == TierInit => TierInv
<1> SUFFICES ASSUME NEW setup \in Setups, tier = NewTier(setup)
             PROVE  TierInv
  BY DEF TierInit
<1>1. /\ tier.setup = setup /\ tier.answers = [h \in Hashes |-> Nothing]
      /\ tier.vectors = [h \in Hashes |-> Nothing] /\ tier.req = [r \in Askers |-> NewAsker]
  BY DEF NewTier
<1>2. tier \in TierType
  BY NewAskerFits DEF NewTier, TierType
<1>3. \A r \in Askers : Placed(tier.setup, tier.req[r]) /\ Fits(tier.setup, tier.req[r])
  BY <1>1, NewAskerFits
<1>4. \A h \in Hashes : Filed(tier.setup, h, tier.answers[h])
  BY <1>1 DEF Filed
<1> QED
  BY <1>2, <1>3, <1>4 DEF TierInv

\* One case per action.
LEMMA NextKeeps == TierInv /\ [TierNext]_tier => TierInv'
<1> SUFFICES ASSUME TierInv, [TierNext]_tier
             PROVE  TierInv'
  OBVIOUS
<1>1. ASSUME NEW r \in Askers,
             Call(r) \/ LookExact(r) \/ Search(r) \/ LookFound(r) \/ InnerAnswers(r)
               \/ Put(r) \/ UpdateVector(r) \/ Leave(r)
      PROVE  TierInv'
  BY <1>1, CallKeeps, LookExactKeeps, SearchKeeps, LookFoundKeeps, InnerAnswersKeeps,
     PutKeeps, UpdateVectorKeeps, LeaveKeeps
<1>2. ASSUME NEW h \in Hashes, Vanish(h)
      PROVE  TierInv'
  BY <1>2, VanishKeeps
<1>3. CASE UNCHANGED tier
  BY <1>3 DEF TierInv
<1> QED
  BY <1>1, <1>2, <1>3 DEF TierNext

\* What the invariant says of the answers.
LEMMA TierInvSays == TierInv => AnswersFit
<1> SUFFICES ASSUME TierInv
             PROVE  AnswersFit
  OBVIOUS
<1>1. DOMAIN tier.answers = Hashes
  BY DEF TierInv, TierType
<1>2. \A r \in Askers : Fits(tier.setup, tier.req[r])
  BY DEF TierInv
<1>3. \A h \in Hashes : Filed(tier.setup, h, tier.answers[h])
  BY DEF TierInv
<1> QED
  BY <1>1, <1>2, <1>3 DEF AnswersFit, Fits, Filed, Keyed, Text, Semantics

\* A cache at rest has answered nobody.
TierRests == tier = NewTier(tier.setup)

\* Nobody is answered, nothing is stored.
LEMMA RestFits == TierRests => AnswersFit
<1> SUFFICES ASSUME TierRests
             PROVE  AnswersFit
  OBVIOUS
<1>1. tier.answers = [h \in Hashes |-> Nothing] /\ tier.req = [r \in Askers |-> NewAsker]
  BY DEF TierRests, NewTier
<1>2. \A r \in Askers : tier.req[r].st = "idle"
  BY <1>1 DEF NewAsker
<1>3. \A h \in DOMAIN tier.answers : tier.answers[h] = Nothing
  BY <1>1
<1> QED
  BY <1>2, <1>3 DEF AnswersFit

\* Whatever requests, hashes and similarities there are, and whatever expires,
\* collides or is overwritten between the steps of CacheService::call: the
\* answer a request takes fits it.
THEOREM AnswersAlwaysFit == ClientSafety => []AnswersFit
<1> DEFINE Kept == TierInv \/ (part # "semantic" /\ TierRests)
<1>1. ClientInit => Kept
  <2>1. \A s : tier = NewTier(s) => TierRests
    BY DEF NewTier, TierRests
  <2> QED
    BY <2>1, InitEstablishes DEF ClientInit
<1>2. Kept /\ [ClientNext]_clientVars => Kept'
  <2>1. [ClientNext]_clientVars => (part = "semantic" /\ TierNext) \/ UNCHANGED <<part, tier>> \/ UNCHANGED tier
    BY DEF ClientNext, clientVars, CallStep, SseStep, FramesStep, ChatStep, RegistryStep,
           RealtimeStep, GuardsStep, SpendingStep, SemanticStep
  <2>2. [ClientNext]_clientVars => part' = part
    BY DEF ClientNext, clientVars, CallStep, SseStep, FramesStep, ChatStep, RegistryStep,
           RealtimeStep, GuardsStep, SpendingStep, SemanticStep
  <2>3. TierInv /\ [ClientNext]_clientVars => TierInv'
    BY <2>1, NextKeeps
  <2>4. part # "semantic" /\ TierRests /\ [ClientNext]_clientVars => part' # "semantic" /\ TierRests'
    BY <2>1, <2>2 DEF TierRests
  <2> QED
    BY <2>3, <2>4
<1>3. Kept => AnswersFit
  BY TierInvSays, RestFits
<1> QED
  BY <1>1, <1>2, <1>3, PTL DEF ClientSafety

-----------------------------------------------------------------------------
(* Transport: one call and the loop that polls.                            *)

Phases == {"validate", "auth", "send", "backoff", "decode", "done"}

Errors ==
  {"Authentication", "RateLimited", "BadRequest", "ContextWindowExceeded", "ContentPolicy", "NotFound",
   "Timeout", "ServiceUnavailable", "ServerError", "Network", "Streaming", "Serialization",
   "EndpointNotSupported"}
Results == Errors \cup {"ok", "none"}

CallType ==
  [st : Phases, method : Methods, attempt : Nat, delay : Int, log : Seq(Int), result : Results]

\* A call of the same method.
CallAt(st, m, attempt, delay, log, result) ==
  [st |-> st, method |-> m, attempt |-> attempt, delay |-> delay, log |-> log, result |-> result]

Retries(c) == IF c.method.by.retries THEN MaxRetries ELSE 0

\* Every attempt before the one under way was answered by a status worth a retry.
\* A call that is decoded or done has one answer more, or has sent nothing.
Logged(c) ==
  /\ c.attempt <= Retries(c) /\ c.attempt <= Len(c.log)
  /\ \A i \in 1..c.attempt : c.log[i] \in Retried
  /\ c.st \in {"validate", "auth", "send", "backoff"} => Len(c.log) = c.attempt
  /\ c.st \in {"validate", "auth"} => c.attempt = 0
  /\ c.st = "decode" => Len(c.log) = c.attempt + 1 /\ Success(c.log[c.attempt + 1])
  /\ c.st = "done" => Len(c.log) = 0 \/ Len(c.log) = c.attempt + 1

\* What a call that has sent something ends with.
Ended(c) ==
  c.st = "done" /\ Len(c.log) > 0 =>
    LET last == c.log[Len(c.log)] IN
    /\ c.result = "ok" => Success(last)
    /\ last \in Retried => Len(c.log) = Retries(c) + 1
    /\ last # 0 /\ ~Success(last) => c.result \in ErrorsOf(last)
    /\ last \in Retried \cup {0} => Transient(c.result)

CallInv == call \in CallType /\ Logged(call) /\ Ended(call)

\* Statuses are not mixed up with each other, nor with a lost answer.
LEMMA StatusesDiffer ==
  /\ \A status \in Retried : ~Success(status) /\ status # 0
  /\ \A status \in Statuses : status \in Int /\ status # 0
  /\ \A status \in Retried : \A error \in ErrorsOf(status) : Transient(error)
  /\ \A status : ErrorsOf(status) \subseteq Errors
<1>1. \A status \in Retried : ~Success(status) /\ status # 0
  BY DEF Retried, Success
<1>2. \A status \in Statuses : status \in Int /\ status # 0
  BY TransportAssumption
<1>3. \A status \in Retried : \A error \in ErrorsOf(status) : Transient(error)
  <2> SUFFICES ASSUME NEW status \in Retried, NEW error \in ErrorsOf(status)
               PROVE  Transient(error)
    OBVIOUS
  <2>1. CASE status = 429
    BY <2>1 DEF ErrorsOf, Transient
  <2>2. CASE status = 500
    BY <2>2 DEF ErrorsOf, Transient
  <2>3. CASE status \in {502, 503, 504}
    BY <2>3 DEF ErrorsOf, Transient
  <2> QED
    BY <2>1, <2>2, <2>3 DEF Retried
<1>4. \A status : ErrorsOf(status) \subseteq Errors
  BY DEF ErrorsOf, Errors
<1> QED
  BY <1>1, <1>2, <1>3, <1>4

\* What a call is made of, and that it can be made again.
LEMMA CallsAreMade ==
  ASSUME NEW st \in Phases, NEW m \in Methods, NEW attempt \in Nat, NEW delay \in Int,
         NEW log \in Seq(Int), NEW result \in Results
  PROVE  LET c == CallAt(st, m, attempt, delay, log, result) IN
         /\ c \in CallType
         /\ c.st = st /\ c.method = m /\ c.attempt = attempt /\ c.log = log /\ c.result = result
BY DEF CallAt, CallType

\* A call that has sent nothing fits, begun or not.
LEMMA NewCallFits ==
  ASSUME NEW m \in Methods, NEW c,
         c \in {NewCall(m), [NewCall(m) EXCEPT !.st = "done", !.result = "ok"]}
  PROVE  c \in CallType /\ Logged(c) /\ Ended(c)
<1>1. c \in CallType /\ c.log = <<>> /\ c.attempt = 0 /\ c.st \in {"validate", "done"}
  <2>1. c = CallAt("validate", m, 0, 0, <<>>, "none") \/ c = CallAt("done", m, 0, 0, <<>>, "ok")
    BY DEF NewCall, CallAt
  <2>2. c.log = <<>> /\ c.attempt = 0 /\ c.st \in {"validate", "done"}
    BY <2>1 DEF CallAt
  <2>3. {"validate", "done"} \subseteq Phases /\ {"none", "ok"} \subseteq Results /\ <<>> \in Seq(Int)
    BY DEF Phases, Results
  <2>4. /\ CallAt("validate", m, 0, 0, <<>>, "none") \in CallType
        /\ CallAt("done", m, 0, 0, <<>>, "ok") \in CallType
    BY <2>3 DEF CallAt, CallType
  <2> QED
    BY <2>1, <2>2, <2>4
<1>2. 0 <= Retries(c)
  BY TransportAssumption DEF Retries
<1>3. Len(c.log) = 0
  BY <1>1
<1> QED
  BY <1>1, <1>2, <1>3 DEF Logged, Ended

\* Before anything is sent a call goes on or ends with any error.
LEMMA UnsentKeeps ==
  ASSUME CallInv, call.st \in {"validate", "auth"},
         NEW d, \/ \E st \in {"auth", "send"} : d = [call EXCEPT !.st = st]
                \/ \E result \in Results : d = Ends(result)
  PROVE  d \in CallType /\ Logged(d) /\ Ended(d)
<1>1. d \in CallType /\ d.log = call.log /\ d.attempt = call.attempt /\ d.method = call.method
      /\ d.st \in {"auth", "send", "done"}
  <2>1. call \in CallType
    BY DEF CallInv
  <2>2. call.log \in Seq(Int) /\ call.method \in Methods /\ call.delay \in Int /\ call.result \in Results
        /\ call.attempt \in Nat
    BY <2>1 DEF CallType
  <2>3. CASE \E st \in {"auth", "send"} : d = [call EXCEPT !.st = st]
    <3>1. PICK st \in {"auth", "send"} : d = CallAt(st, call.method, call.attempt, call.delay, call.log, call.result)
      BY <2>1, <2>3 DEF CallType, CallAt
    <3>2. st \in Phases
      BY DEF Phases
    <3> QED
      BY <2>2, <3>1, <3>2, CallsAreMade
  <2>4. CASE \E result \in Results : d = Ends(result)
    <3>0. PICK result \in Results : d = CallAt("done", call.method, call.attempt, 0, call.log, result)
      BY <2>1, <2>4 DEF CallType, CallAt, Ends
    <3>1. PICK delay \in Int : d = CallAt("done", call.method, call.attempt, delay, call.log, result)
      BY <3>0
    <3>2. "done" \in Phases
      BY DEF Phases
    <3> QED
      BY <2>2, <3>1, <3>2, CallsAreMade
  <2> QED
    BY <2>3, <2>4
<1>2. call.attempt = 0 /\ Len(d.log) = 0
  BY <1>1 DEF CallInv, Logged
<1> QED
  BY <1>1, <1>2 DEF Logged, Ended, CallInv, Retries, CallType

LEMMA BeginKeeps == CallInv /\ (Begin \/ BeginWait \/ Repoll) => CallInv'
<1> SUFFICES ASSUME CallInv, Begin \/ BeginWait \/ Repoll
             PROVE  CallInv'
  OBVIOUS
<1>1. RetrieveBatch \in Methods
  BY DEF Methods, BatchMethods
<1>2. PICK m \in Methods : call' = NewCall(m)
  BY <1>1 DEF Begin, BeginWait, Repoll, Poll
<1> HIDE DEF CallInv
<1> QED
  BY <1>2, NewCallFits DEF CallInv

\* Whatever is wrong with a request is found before it is sent.
LEMMA ValidateKeeps == CallInv /\ Validate => CallInv'
<1> SUFFICES ASSUME CallInv, Validate
             PROVE  CallInv'
  OBVIOUS
<1>1. PICK codec, modelOk, bodyOk \in BOOLEAN : call' = Prepare(codec, modelOk, bodyOk)
  BY DEF Validate
<1>2. call.st = "validate"
  BY DEF Validate
<1>3. \/ \E st \in {"auth", "send"} : call' = [call EXCEPT !.st = st]
      \/ \E result \in Results : call' = Ends(result)
  BY <1>1 DEF Prepare, Results, Errors
<1> QED
  BY <1>2, <1>3, UnsentKeeps DEF CallInv

\* So is a credential that cannot be had.
LEMMA ResolveAuthKeeps == CallInv /\ ResolveAuth => CallInv'
<1> SUFFICES ASSUME CallInv, ResolveAuth
             PROVE  CallInv'
  OBVIOUS
<1>1. call.st = "auth"
      /\ \/ \E st \in {"auth", "send"} : call' = [call EXCEPT !.st = st]
         \/ \E result \in Results : call' = Ends(result)
  BY DEF ResolveAuth, Results, Errors
<1> QED
  BY <1>1, UnsentKeeps DEF CallInv

\* One more answer on the log.
LEMMA OneMoreAnswer ==
  ASSUME CallInv, call.st = "send", NEW status \in Int
  PROVE  LET log == Append(call.log, status) IN
         /\ log \in Seq(Int) /\ Len(log) = call.attempt + 1 /\ log[call.attempt + 1] = status
         /\ \A i \in 1..call.attempt : log[i] \in Retried
<1>1. call.log \in Seq(Int) /\ Len(call.log) = call.attempt /\ \A i \in 1..call.attempt : call.log[i] \in Retried
      /\ call.attempt \in Nat
  BY DEF CallInv, Logged, CallType
<1> QED
  BY <1>1

\* An answer: the call is sent again only if its status is worth a retry and
\* there is one left, else it ends with what the status means.
LEMMA SendKeeps == CallInv /\ Send => CallInv'
<1> SUFFICES ASSUME CallInv, Send
             PROVE  CallInv'
  OBVIOUS
<1>0. PICK status \in Statuses, after \in RetryAfters \cup {NoHeader} :
        \E error \in ErrorsOf(status) : call' \in AfterAnswer(status, after, error)
  BY DEF Send
<1>1. PICK error \in ErrorsOf(status) : call' \in AfterAnswer(status, after, error)
  BY <1>0
<1> DEFINE log == Append(call.log, status)
           logged == [call EXCEPT !.log = log]
<1>2. call.st = "send" /\ call \in CallType /\ call.attempt \in Nat /\ call.attempt <= Retries(call)
      /\ Retries(call) \in Nat
  BY TransportAssumption DEF Send, CallInv, Logged, CallType, Retries
<1>3. status \in Int /\ status # 0 /\ error \in Results /\ error # "ok"
  BY StatusesDiffer DEF Results, Errors
<1>4. /\ log \in Seq(Int) /\ Len(log) = call.attempt + 1 /\ log[call.attempt + 1] = status
      /\ \A i \in 1..call.attempt : log[i] \in Retried
  BY <1>2, <1>3, OneMoreAnswer
<1> HIDE DEF log
<1>5. logged \in CallType /\ logged.log = log /\ logged.attempt = call.attempt
      /\ logged.method = call.method /\ logged.st = "send"
  BY <1>2, <1>4 DEF CallType
<1>6. CASE Success(status)
  <2>1. status \notin Retried
    BY <1>6, StatusesDiffer
  <2>2. call' = [logged EXCEPT !.st = "done", !.result = "ok"] \/ call' = [logged EXCEPT !.st = "decode"]
    BY <1>1, <1>6 DEF AfterAnswer, log
  <2>3. call' \in CallType /\ call'.log = log /\ call'.attempt = call.attempt /\ Retries(call') = Retries(call)
        /\ \/ call'.st = "done" /\ call'.result = "ok"
           \/ call'.st = "decode"
    BY <2>2, <1>5 DEF CallType, Phases, Retries, Results
  <2> QED
    BY <2>1, <2>3, <1>2, <1>3, <1>4, <1>6 DEF CallInv, Logged, Ended
<1>7. CASE ~Success(status) /\ call.method.by.retries /\ ShouldRetry(status, call.attempt)
  <2>1. PICK d \in Delays(status, call.attempt, after) :
          call' = [logged EXCEPT !.st = "backoff", !.attempt = @ + 1, !.delay = d]
    BY <1>1, <1>7 DEF AfterAnswer, log
  <2>2. d \in Int
    BY <1>2, TransportAssumption DEF Delays, Lesser, Jittered
  <2>3. call' \in CallType /\ call'.log = log /\ call'.attempt = call.attempt + 1
        /\ Retries(call') = Retries(call) /\ call'.st = "backoff"
    <3>1. call' = CallAt("backoff", call.method, call.attempt + 1, d, log, call.result)
      BY <2>1, <1>2 DEF CallType, CallAt
    <3>2. "backoff" \in Phases /\ call.method \in Methods /\ call.result \in Results /\ call.attempt + 1 \in Nat
      BY <1>2 DEF CallType, Phases
    <3> QED
      BY <3>1, <3>2, <2>2, <1>4, CallsAreMade DEF Retries
  <2>4. call.attempt + 1 <= Retries(call) /\ status \in Retried
    BY <1>2, <1>7, TransportAssumption DEF ShouldRetry, Retries
  <2>5. \A i \in 1..(call.attempt + 1) : log[i] \in Retried
    BY <2>4, <1>2, <1>4
  <2> QED
    BY <2>3, <2>4, <2>5, <1>2, <1>4 DEF CallInv, Logged, Ended
<1>8. CASE ~Success(status) /\ ~(call.method.by.retries /\ ShouldRetry(status, call.attempt))
  <2>1. call' = [logged EXCEPT !.st = "done", !.result = error]
    BY <1>1, <1>8 DEF AfterAnswer, log
  <2>2. call' \in CallType /\ call'.log = log /\ call'.attempt = call.attempt /\ Retries(call') = Retries(call)
        /\ call'.st = "done" /\ call'.result = error
    BY <2>1, <1>3, <1>5 DEF CallType, Phases, Retries
  <2>3. status \in Retried => call.attempt = Retries(call)
    BY <1>2, <1>8, TransportAssumption DEF ShouldRetry, Retries
  <2>4. error \in ErrorsOf(status) /\ (status \in Retried => Transient(error))
    BY StatusesDiffer
  <2> QED
    BY <2>2, <2>3, <2>4, <1>2, <1>3, <1>4, <1>8 DEF CallInv, Logged, Ended
<1> QED
  BY <1>6, <1>7, <1>8

\* A lost answer ends the call; nothing is sent again.
LEMMA LoseKeeps == CallInv /\ Lose => CallInv'
<1> SUFFICES ASSUME CallInv, Lose
             PROVE  CallInv'
  OBVIOUS
<1> DEFINE log == Append(call.log, 0)
<1>1. call.st = "send" /\ call' = [Ends("Network") EXCEPT !.log = Append(@, 0)]
  BY DEF Lose
<1>2. /\ log \in Seq(Int) /\ Len(log) = call.attempt + 1 /\ log[call.attempt + 1] = 0
      /\ \A i \in 1..call.attempt : log[i] \in Retried
  <2>1. 0 \in Int
    OBVIOUS
  <2> QED
    BY <1>1, <2>1, OneMoreAnswer
<1>3. call' = [call EXCEPT !.st = "done", !.delay = 0, !.result = "Network", !.log = log]
  BY <1>1 DEF Ends, CallInv, CallType
<1> HIDE DEF log
<1>4. call' \in CallType /\ call'.log = log /\ call'.attempt = call.attempt /\ Retries(call') = Retries(call)
      /\ call'.st = "done" /\ call'.result = "Network"
  <2>1. call' = CallAt("done", call.method, call.attempt, 0, log, "Network")
    BY <1>3 DEF CallInv, CallType, CallAt
  <2>2. "done" \in Phases /\ "Network" \in Results /\ call.method \in Methods /\ call.attempt \in Nat
    BY DEF Phases, Results, Errors, CallInv, CallType
  <2> QED
    BY <2>1, <2>2, <1>2, CallsAreMade DEF Retries
<1>5. call.attempt \in Nat /\ call.attempt <= Retries(call)
  BY DEF CallInv, CallType, Logged
<1>6. 0 \notin Retried /\ Transient("Network")
  BY DEF Retried, Transient
<1> QED
  BY <1>2, <1>4, <1>5, <1>6 DEF CallInv, Logged, Ended

\* A backoff ends, and the request is sent again.
LEMMA BackoffKeeps == CallInv /\ Backoff => CallInv'
<1> SUFFICES ASSUME CallInv, Backoff
             PROVE  CallInv'
  OBVIOUS
<1>1. call.st = "backoff" /\ call' = [call EXCEPT !.st = "send", !.delay = 0]
  BY DEF Backoff
<1>2. call' \in CallType /\ call'.log = call.log /\ call'.attempt = call.attempt /\ Retries(call') = Retries(call)
      /\ call'.st = "send"
  <2>1. call' = CallAt("send", call.method, call.attempt, 0, call.log, call.result)
    BY <1>1 DEF CallInv, CallType, CallAt
  <2>2. "send" \in Phases /\ call.method \in Methods /\ call.attempt \in Nat
        /\ call.log \in Seq(Int) /\ call.result \in Results /\ 0 \in Int
    BY DEF Phases, CallInv, CallType
  <2>3. /\ call' \in CallType /\ call'.log = call.log /\ call'.attempt = call.attempt
        /\ call'.method = call.method /\ call'.st = "send"
    BY <2>1, <2>2, CallsAreMade
  <2> QED
    BY <2>3 DEF Retries
<1> QED
  BY <1>1, <1>2 DEF CallInv, Logged, Ended

\* A body that cannot be read is an error of a call that was answered well.
LEMMA DecodeKeeps == CallInv /\ Decode => CallInv'
<1> SUFFICES ASSUME CallInv, Decode
             PROVE  CallInv'
  OBVIOUS
<1>1. PICK result \in Results : call' = Ends(result)
  BY DEF Decode, Results, Errors
<1>2. call.st = "decode"
  BY DEF Decode
<1>3. call' \in CallType /\ call'.log = call.log /\ call'.attempt = call.attempt /\ Retries(call') = Retries(call)
      /\ call'.st = "done"
  <2>1. call' = CallAt("done", call.method, call.attempt, 0, call.log, result)
    BY <1>1 DEF CallInv, CallType, CallAt, Ends
  <2>2. "done" \in Phases /\ call.method \in Methods /\ call.attempt \in Nat /\ call.log \in Seq(Int)
    BY DEF Phases, CallInv, CallType
  <2> QED
    BY <2>1, <2>2, CallsAreMade DEF Retries
<1>4. Len(call.log) = call.attempt + 1 /\ Success(call.log[call.attempt + 1])
  BY <1>2 DEF CallInv, Logged
<1>5. call.log[call.attempt + 1] \notin Retried \cup {0}
  <2>1. ~Success(0)
    BY DEF Success
  <2> QED
    BY <1>4, <2>1, StatusesDiffer
<1> QED
  BY <1>2, <1>3, <1>4, <1>5 DEF CallInv, Logged, Ended

\* CallInv is kept by whatever a call does, and says what RetriesEndRight says.
LEMMA CallNextKeeps == CallInv /\ [CallNext]_callVars => CallInv'
<1> SUFFICES ASSUME CallInv, [CallNext]_callVars
             PROVE  CallInv'
  OBVIOUS
<1>1. CASE Polled \/ UNCHANGED callVars
  BY <1>1 DEF Polled, callVars, CallInv
<1> QED
  BY <1>1, BeginKeeps, ValidateKeeps, ResolveAuthKeeps, SendKeeps, LoseKeeps, BackoffKeeps, DecodeKeeps
  DEF CallNext, Proceeds

LEMMA CallInvSays == CallInv => RetriesEndRight
<1> SUFFICES ASSUME CallInv
             PROVE  RetriesEndRight
  OBVIOUS
<1> DEFINE sent == Len(call.log)
<1>1. sent \in Nat /\ call.attempt \in Nat /\ Retries(call) \in Nat /\ call.st \in Phases
  BY TransportAssumption DEF CallInv, CallType, Retries
<1>2. sent <= call.attempt + 1 /\ call.attempt <= Retries(call)
      /\ \A i \in 1..call.attempt : call.log[i] \in Retried
  BY <1>1 DEF CallInv, Logged, Phases
<1>3. Ended(call)
  BY DEF CallInv
<1> QED
  BY <1>1, <1>2, <1>3 DEF RetriesEndRight, Ended, Retries

-----------------------------------------------------------------------------
(* The polling loop.                                                       *)

Slowest == Greater(BackoffCap, ServerCap)
Pause(w) == Greater(w.cfg.initial, w.cfg.max)

WaitType ==
  [st : {"none", "polling", "asleep", "done"}, cfg : WaitConfigs, interval : Nat, elapsed : Int]

\* The most a poll may have taken so far: one answer and one backoff for every
\* attempt that is over, and the last answer.
Spent(c) ==
  CASE c.st \in {"validate", "auth", "send"} -> c.attempt * (Latency + Slowest)
    [] c.st = "backoff" -> c.attempt * (Latency + Slowest) - Slowest
    [] c.st \in {"decode", "done"} -> c.attempt * (Latency + Slowest) + Latency

\* Where a wait with a timeout stands on its clock: asleep it is before the
\* timeout, and a poll began at most a pause after it.
OnTime(w, c) ==
  /\ w.st = "asleep" => w.elapsed <= w.cfg.timeout
  /\ w.st = "polling" => w.elapsed <= w.cfg.timeout + Pause(w) + Spent(c)
  /\ w.st = "done" => w.elapsed <= w.cfg.timeout + Pause(w) + LongestPoll

WaitInv ==
  /\ wait \in WaitType /\ wait.interval <= Pause(wait)
  /\ call.delay <= Slowest
  /\ wait.cfg.timeout # NoTimeout => OnTime(wait, call)

\* Products, as the prover's arithmetic needs them.
LEMMA Products ==
  \A a, m, k \in Nat :
    /\ a * k \in Nat /\ (a + 1) * k = a * k + k
    /\ a <= m => a * k <= m * k
<1>1. \A a, k \in Nat : a * k \in Nat /\ (a + 1) * k = a * k + k
  OBVIOUS
<1>2. ASSUME NEW a \in Nat, NEW m \in Nat, NEW k \in Nat, a <= m
      PROVE  a * k <= m * k
  <2>1. m - a \in Nat /\ m = a + (m - a)
    BY <1>2
  <2>2. m * k = a * k + (m - a) * k
    BY <2>1
  <2> QED
    BY <1>1, <2>1, <2>2
<1> QED
  BY <1>1, <1>2

\* A poll never spends more than LongestPoll.
LEMMA PollsAreBounded ==
  ASSUME NEW c \in CallType, c.attempt <= MaxRetries
  PROVE  Spent(c) \in Int /\ Spent(c) <= LongestPoll /\ LongestPoll \in Nat
<1>1. Slowest \in Nat /\ Latency \in Nat /\ MaxRetries \in Nat /\ c.attempt \in Nat /\ c.st \in Phases
  BY TransportAssumption DEF Slowest, Greater, CallType
<1> DEFINE k == Latency + Slowest
<1>2. k \in Nat /\ c.attempt * k \in Nat /\ c.attempt * k <= MaxRetries * k /\ MaxRetries * k \in Nat
  BY <1>1, Products
<1>3. LongestPoll = MaxRetries * k + Latency
  <2>1. (MaxRetries + 1) * Latency = MaxRetries * Latency + Latency
    BY <1>1, Products
  <2>2. MaxRetries * k = MaxRetries * Latency + MaxRetries * Slowest
    BY <1>1
  <2>3. MaxRetries * Latency \in Nat /\ MaxRetries * Slowest \in Nat
    BY <1>1, Products
  <2> QED
    BY <1>1, <2>1, <2>2, <2>3 DEF LongestPoll, Slowest
<1>4. Spent(c) \in {c.attempt * k, c.attempt * k - Slowest, c.attempt * k + Latency}
  BY <1>1 DEF Spent, Phases
<1> HIDE DEF k
<1> QED
  BY <1>1, <1>2, <1>3, <1>4

\* Steps of a call take no longer than what the poll is said to have spent.
LEMMA ClockGoesOn ==
  ASSUME WaitInv, CallInv, CallInv', NEW ticks \in Int,
         wait' = Passes(ticks) \/ (wait' = wait /\ ticks = 0),
         call'.delay <= Slowest, Spent(call) \in Int, Spent(call') \in Int,
         Spent(call) + ticks <= Spent(call')
  PROVE  WaitInv'
<1>1. wait \in WaitType /\ wait.interval <= Pause(wait)
      /\ (wait.cfg.timeout # NoTimeout => OnTime(wait, call))
  BY DEF WaitInv
<1>2. wait.cfg \in WaitConfigs /\ wait.elapsed \in Int
  BY <1>1 DEF WaitType
<1>3. Pause(wait) \in Nat /\ wait.cfg.timeout \in Nat \cup {NoTimeout}
  BY <1>2, TransportAssumption DEF Pause, Greater
<1>4. CASE wait' = wait /\ wait.st # "polling"
  BY <1>1, <1>4 DEF WaitInv, OnTime
<1>5. CASE wait' = wait /\ wait.cfg.timeout = NoTimeout
  BY <1>1, <1>5 DEF WaitInv
<1>6. CASE wait' = wait /\ wait.st = "polling" /\ ticks = 0 /\ wait.cfg.timeout # NoTimeout
  BY <1>1, <1>2, <1>3, <1>6 DEF WaitInv, OnTime
<1>7. CASE wait.st = "polling" /\ wait.cfg.timeout # NoTimeout
           /\ wait' = [wait EXCEPT !.elapsed = @ + ticks]
  <2>1. wait' \in WaitType /\ wait'.cfg = wait.cfg /\ wait'.interval = wait.interval
        /\ wait'.st = "polling" /\ wait'.elapsed = wait.elapsed + ticks
    BY <1>1, <1>7 DEF WaitType
  <2>2. Pause(wait') = Pause(wait)
    BY <2>1 DEF Pause
  <2>3. wait.elapsed <= wait.cfg.timeout + Pause(wait) + Spent(call)
    BY <1>1, <1>7 DEF OnTime
  <2>4. wait'.elapsed <= wait'.cfg.timeout + Pause(wait') + Spent(call')
    BY <1>2, <1>3, <1>7, <2>1, <2>2, <2>3
  <2>5. OnTime(wait', call')
    BY <2>1, <2>4 DEF OnTime
  <2> QED
    BY <1>1, <2>1, <2>2, <2>5 DEF WaitInv
<1> QED
  BY <1>4, <1>5, <1>6, <1>7 DEF Passes

\* What a call has spent by the place it is at.
LEMMA SpentIs ==
  ASSUME NEW c \in CallType
  PROVE  /\ c.attempt * (Latency + Slowest) \in Nat /\ Latency \in Nat /\ Slowest \in Nat /\ c.attempt \in Nat
         /\ (c.attempt + 1) * (Latency + Slowest) = c.attempt * (Latency + Slowest) + Latency + Slowest
         /\ c.st \in {"validate", "auth", "send"} => Spent(c) = c.attempt * (Latency + Slowest)
         /\ c.st = "backoff" => Spent(c) = c.attempt * (Latency + Slowest) - Slowest
         /\ c.st \in {"decode", "done"} => Spent(c) = c.attempt * (Latency + Slowest) + Latency
<1>1. Slowest \in Nat /\ Latency \in Nat /\ c.attempt \in Nat
  BY TransportAssumption DEF Slowest, Greater, CallType
<1>2. Latency + Slowest \in Nat
  BY <1>1
<1>3. c.attempt * (Latency + Slowest) \in Nat
      /\ (c.attempt + 1) * (Latency + Slowest) = c.attempt * (Latency + Slowest) + (Latency + Slowest)
  BY <1>1, <1>2, Products
<1>4. (c.attempt + 1) * (Latency + Slowest) = c.attempt * (Latency + Slowest) + Latency + Slowest
  BY <1>1, <1>3
<1> QED
  BY <1>1, <1>3, <1>4 DEF Spent

\* The steps of a call before it is sent, and after its answer.
LEMMA WaitUnsentKeeps ==
  CallInv /\ CallInv' /\ WaitInv /\ (Validate \/ ResolveAuth \/ Decode) => WaitInv'
<1> SUFFICES ASSUME CallInv, CallInv', WaitInv, Validate \/ ResolveAuth \/ Decode
             PROVE  WaitInv'
  OBVIOUS
<1>1. call \in CallType /\ call' \in CallType /\ wait' = wait
  BY DEF CallInv, Validate, ResolveAuth, Decode
<1>2. call'.attempt = call.attempt /\ (call'.delay = call.delay \/ call'.delay = 0)
      /\ \/ call.st \in {"validate", "auth"} /\ call'.st \in {"auth", "send", "done"}
         \/ call.st = "decode" /\ call'.st = "done"
  BY <1>1 DEF Validate, Prepare, ResolveAuth, Decode, Ends, CallType
<1>3. call'.delay <= Slowest
  BY <1>1, <1>2, SpentIs DEF WaitInv
<1>4. Spent(call) \in Int /\ Spent(call') \in Int /\ Spent(call) + 0 <= Spent(call')
  BY <1>1, <1>2, SpentIs
<1> QED
  BY <1>1, <1>3, <1>4, ClockGoesOn

\* An answer or its loss.
LEMMA WaitSendKeeps ==
  CallInv /\ CallInv' /\ WaitInv /\ (Send \/ Lose) => WaitInv'
<1> SUFFICES ASSUME CallInv, CallInv', WaitInv, Send \/ Lose
             PROVE  WaitInv'
  OBVIOUS
<1>1. call \in CallType /\ call' \in CallType /\ call.st = "send" /\ call.delay <= Slowest
  BY DEF CallInv, Send, Lose, WaitInv
<1>2. PICK spent \in 0..Latency : wait' = Passes(spent)
  BY DEF Send, Lose
<1>3. \/ /\ call'.attempt = call.attempt /\ call'.st \in {"decode", "done"}
         /\ call'.delay = call.delay \/ call'.delay = 0
      \/ /\ call'.attempt = call.attempt + 1 /\ call'.st = "backoff"
         /\ call'.delay <= Slowest
  <2>1. CASE Lose
    BY <1>1, <2>1 DEF Lose, Ends, CallType
  <2>2. CASE Send
    <3>1. PICK status \in Statuses, after \in RetryAfters \cup {NoHeader} :
            \E error \in ErrorsOf(status) : call' \in AfterAnswer(status, after, error)
      BY <2>2 DEF Send
    <3>2. PICK error \in ErrorsOf(status) : call' \in AfterAnswer(status, after, error)
      BY <3>1
    <3>3. CASE call' \in {[[call EXCEPT !.log = Append(@, status)] EXCEPT !.st = "backoff", !.attempt = @ + 1, !.delay = d] :
                            d \in Delays(status, call.attempt, after)}
      <4>1. PICK d \in Delays(status, call.attempt, after) :
              call' = [[call EXCEPT !.log = Append(@, status)] EXCEPT !.st = "backoff", !.attempt = @ + 1, !.delay = d]
        BY <3>3
      <4>2. d <= Slowest
        <5>1. BackoffCap \in Nat /\ ServerCap \in Nat /\ call.attempt \in Nat /\ 2^call.attempt \in Int
              /\ (after = NoHeader \/ after \in Nat)
          BY <1>1, TransportAssumption DEF CallType
        <5>2. CASE status = 429 /\ after # NoHeader
          BY <4>1, <5>1, <5>2 DEF Delays, Lesser, Slowest, Greater
        <5>3. CASE ~(status = 429 /\ after # NoHeader)
          <6>1. Second * 2^call.attempt \in Int
            BY <5>1, TransportAssumption
          <6> DEFINE shift == Second * 2^call.attempt
          <6>2. d \in Jittered(Lesser(shift, BackoffCap))
            BY <4>1, <5>3 DEF Delays
          <6> HIDE DEF shift
          <6> QED
            BY <5>1, <6>1, <6>2 DEF Jittered, Lesser, Slowest, Greater, shift
        <5> QED
          BY <5>2, <5>3
      <4>3. call'.attempt = call.attempt + 1 /\ call'.st = "backoff" /\ call'.delay = d
        BY <1>1, <4>1 DEF CallType
      <4> QED
        BY <4>2, <4>3
    <3>4. CASE call' \in {[[call EXCEPT !.log = Append(@, status)] EXCEPT !.st = "done", !.result = "ok"],
                          [[call EXCEPT !.log = Append(@, status)] EXCEPT !.st = "decode"],
                          [[call EXCEPT !.log = Append(@, status)] EXCEPT !.st = "done", !.result = error]}
      BY <1>1, <3>4 DEF CallType
    <3> QED
      BY <3>2, <3>3, <3>4 DEF AfterAnswer
  <2> QED
    BY <2>1, <2>2
<1>4. call'.delay <= Slowest
  BY <1>1, <1>3, SpentIs
<1>5. Spent(call) \in Int /\ Spent(call') \in Int /\ Spent(call) + spent <= Spent(call')
  <2>1. spent \in Nat /\ spent <= Latency
    BY SpentIs, <1>1
  <2>2. CASE call'.attempt = call.attempt /\ call'.st \in {"decode", "done"}
    BY <1>1, <2>1, <2>2, SpentIs
  <2>3. CASE call'.attempt = call.attempt + 1 /\ call'.st = "backoff"
    <3> DEFINE k == Latency + Slowest
    <3>1. Spent(call) = call.attempt * k /\ Spent(call') = (call.attempt + 1) * k - Slowest
          /\ (call.attempt + 1) * k = call.attempt * k + Latency + Slowest /\ call.attempt * k \in Nat
          /\ Latency \in Nat /\ Slowest \in Nat
      BY <1>1, <2>3, SpentIs
    <3> HIDE DEF k
    <3> QED
      BY <2>1, <3>1
  <2> QED
    BY <1>3, <2>2, <2>3
<1> QED
  BY <1>2, <1>4, <1>5, ClockGoesOn

\* A backoff takes its delay.
LEMMA WaitBackoffKeeps ==
  CallInv /\ CallInv' /\ WaitInv /\ Backoff => WaitInv'
<1> SUFFICES ASSUME CallInv, CallInv', WaitInv, Backoff
             PROVE  WaitInv'
  OBVIOUS
<1>1. call \in CallType /\ call' \in CallType /\ call.st = "backoff" /\ call.delay <= Slowest
      /\ wait' = Passes(call.delay) /\ call.delay \in Int
  BY DEF CallInv, Backoff, WaitInv, CallType
<1>2. call'.attempt = call.attempt /\ call'.st = "send" /\ call'.delay = 0
  BY <1>1 DEF Backoff, CallType
<1>3. call'.delay <= Slowest
  BY <1>1, <1>2, SpentIs
<1>4. Spent(call) \in Int /\ Spent(call') \in Int /\ Spent(call) + call.delay <= Spent(call')
  BY <1>1, <1>2, SpentIs
<1> QED
  BY <1>1, <1>3, <1>4, ClockGoesOn

\* A call by itself, and a poll, begin with nothing spent; a poll is answered.
LEMMA WaitBeginKeeps ==
  CallInv /\ CallInv' /\ WaitInv /\ (Begin \/ BeginWait \/ Repoll \/ Polled) => WaitInv'
<1> SUFFICES ASSUME CallInv, CallInv', WaitInv, Begin \/ BeginWait \/ Repoll \/ Polled
             PROVE  WaitInv'
  OBVIOUS
<1>1. wait \in WaitType /\ wait.interval <= Pause(wait) /\ call.delay <= Slowest
      /\ (wait.cfg.timeout # NoTimeout => OnTime(wait, call))
  BY DEF WaitInv
<1>2. \A c \in WaitConfigs :
        /\ c.initial \in Nat /\ c.max \in Nat /\ c.multiplier \in Nat /\ c.timeout \in Nat \cup {NoTimeout}
        /\ Greater(c.initial, c.max) \in Nat
        /\ c.initial <= Greater(c.initial, c.max) /\ c.max <= Greater(c.initial, c.max)
  BY TransportAssumption DEF Greater
<1>3. wait.cfg \in WaitConfigs /\ wait.interval \in Nat /\ wait.elapsed \in Int
  BY <1>1 DEF WaitType
<1>4. NoWait.cfg \in WaitConfigs
  BY TransportAssumption DEF NoWait
<1>5. Slowest \in Nat
  BY TransportAssumption DEF Slowest, Greater
<1>6. \A m : NewCall(m).delay = 0 /\ NewCall(m).attempt = 0 /\ NewCall(m).st = "validate"
  BY DEF NewCall
<1>7. \A m : Spent(NewCall(m)) = 0
  BY <1>5, <1>6, TransportAssumption DEF Spent
<1>8. CASE Begin
  <2>1. NoWait \in WaitType /\ NoWait.interval = 0 /\ NoWait.st = "none"
    BY <1>4 DEF NoWait, WaitType
  <2>2. wait' = NoWait /\ call'.delay = 0
    BY <1>6, <1>8 DEF Begin
  <2> QED
    BY <1>2, <1>4, <1>5, <2>1, <2>2 DEF WaitInv, OnTime, Pause
<1>9. CASE BeginWait
  <2>1. PICK c \in WaitConfigs : Poll([NoWait EXCEPT !.cfg = c, !.interval = c.initial])
    BY <1>9 DEF BeginWait
  <2>2. wait' = [st |-> "polling", cfg |-> c, interval |-> c.initial, elapsed |-> 0]
    BY <2>1 DEF Poll, NoWait
  <2>3. wait' \in WaitType
    BY <1>2, <2>2 DEF WaitType
  <2>4. call'.delay = 0 /\ Spent(call') = 0
    BY <1>6, <1>7, <2>1 DEF Poll
  <2>5. Pause(wait') \in Nat /\ wait'.interval <= Pause(wait')
    BY <1>2, <2>2 DEF Pause
  <2>6. wait'.cfg.timeout # NoTimeout => OnTime(wait', call')
    BY <1>2, <2>2, <2>4, <2>5 DEF OnTime
  <2> QED
    BY <1>5, <2>3, <2>4, <2>5, <2>6 DEF WaitInv
<1>10. CASE Repoll
  <2> DEFINE slept == IF wait.cfg.timeout = NoTimeout THEN 0 ELSE wait.interval
             next == Lesser(wait.interval * wait.cfg.multiplier, wait.cfg.max)
  <2>1. wait.st = "asleep"
        /\ Poll([wait EXCEPT !.elapsed = @ + slept, !.interval = Lesser(@ * wait.cfg.multiplier, wait.cfg.max)])
    BY <1>10 DEF Repoll
  <2>2. wait' = [st |-> "polling", cfg |-> wait.cfg, interval |-> next, elapsed |-> wait.elapsed + slept]
    BY <1>1, <2>1 DEF Poll, WaitType
  <2>3. next \in Nat /\ next <= wait.cfg.max
    <3>1. wait.interval * wait.cfg.multiplier \in Nat
      BY <1>2, <1>3, Products
    <3> QED
      BY <1>2, <1>3, <3>1 DEF Lesser
  <2>4. slept \in Nat /\ slept <= Pause(wait) /\ Pause(wait) \in Nat
    BY <1>1, <1>2, <1>3 DEF Pause
  <2> HIDE DEF slept, next
  <2>5. wait' \in WaitType
    BY <1>3, <2>2, <2>3, <2>4 DEF WaitType
  <2>6. call'.delay = 0 /\ Spent(call') = 0
    BY <1>6, <1>7, <2>1 DEF Poll
  <2>7. Pause(wait') = Pause(wait) /\ wait'.interval <= Pause(wait')
    BY <1>2, <1>3, <2>2, <2>3 DEF Pause
  <2>8. wait'.cfg.timeout # NoTimeout => OnTime(wait', call')
    <3> SUFFICES ASSUME wait.cfg.timeout # NoTimeout
                 PROVE  OnTime(wait', call')
      BY <2>2
    <3>1. wait.elapsed <= wait.cfg.timeout
      BY <1>1, <2>1 DEF OnTime
    <3>2. wait'.elapsed <= wait'.cfg.timeout + Pause(wait') + Spent(call')
      BY <1>2, <1>3, <2>2, <2>4, <2>6, <2>7, <3>1
    <3> QED
      BY <2>2, <3>2 DEF OnTime
  <2> QED
    BY <1>5, <2>5, <2>6, <2>7, <2>8 DEF WaitInv
<1>11. CASE Polled
  <2>1. wait.st = "polling" /\ call' = call /\ call.st = "done"
        /\ \/ wait' = [wait EXCEPT !.st = "done"]
           \/ wait' = [wait EXCEPT !.st = "asleep"] /\ ~TimedOut
    BY <1>11 DEF Polled
  <2>2. wait' \in WaitType /\ wait'.cfg = wait.cfg /\ wait'.interval = wait.interval
        /\ wait'.elapsed = wait.elapsed
        /\ (wait'.st = "done" \/ (wait'.st = "asleep" /\ ~TimedOut))
    BY <1>1, <2>1 DEF WaitType
  <2>3. Pause(wait') = Pause(wait) /\ Pause(wait) \in Nat
    BY <1>2, <1>3, <2>2 DEF Pause
  <2>4. ASSUME wait.cfg.timeout # NoTimeout
        PROVE  OnTime(wait', call')
    <3>1. wait.elapsed <= wait.cfg.timeout + Pause(wait) + Spent(call)
      BY <1>1, <2>1, <2>4 DEF OnTime
    <3>2. call \in CallType /\ call.attempt <= MaxRetries
      BY TransportAssumption DEF CallInv, Logged, Retries, CallType
    <3>3. Spent(call) \in Int /\ Spent(call) <= LongestPoll /\ LongestPoll \in Nat
      BY <2>1, <3>2, PollsAreBounded
    <3>4. CASE wait'.st = "done"
      <4>1. wait'.elapsed <= wait'.cfg.timeout + Pause(wait') + LongestPoll
        BY <1>2, <1>3, <2>2, <2>3, <2>4, <3>1, <3>3
      <4> QED
        BY <3>4, <4>1 DEF OnTime
    <3>5. CASE wait'.st = "asleep" /\ ~TimedOut
      <4>1. wait.elapsed <= wait.cfg.timeout
        BY <1>2, <1>3, <2>4, <3>5 DEF TimedOut
      <4> QED
        BY <2>2, <3>5, <4>1 DEF OnTime
    <3> QED
      BY <2>2, <3>4, <3>5
  <2> QED
    BY <1>1, <2>1, <2>2, <2>3, <2>4 DEF WaitInv
<1> QED
  BY <1>8, <1>9, <1>10, <1>11

\* The loop keeps its invariant with the call it polls by.
LEMMA WaitNextKeeps == CallInv /\ WaitInv /\ [CallNext]_callVars => CallInv' /\ WaitInv'
<1> SUFFICES ASSUME CallInv, WaitInv, [CallNext]_callVars
             PROVE  CallInv' /\ WaitInv'
  OBVIOUS
<1>1. CallInv'
  BY CallNextKeeps
<1>2. CASE UNCHANGED callVars
  <2>1. call' = call /\ wait' = wait
    BY <1>2 DEF callVars
  <2>2. wait' \in WaitType /\ wait'.interval <= Pause(wait') /\ call'.delay <= Slowest
    BY <2>1 DEF WaitInv
  <2>3. wait'.cfg.timeout # NoTimeout => OnTime(wait', call')
    BY <2>1 DEF WaitInv
  <2> QED
    BY <1>1, <2>2, <2>3 DEF WaitInv
<1> QED
  BY <1>1, <1>2, WaitUnsentKeeps, WaitSendKeeps, WaitBackoffKeeps, WaitBeginKeeps DEF CallNext, Proceeds

\* What OnTime says at the end of a wait holds all the time.
LEMMA WaitInvSays == CallInv /\ WaitInv => WaitBounded(LongestPoll)
<1> SUFFICES ASSUME CallInv, WaitInv, wait.st # "none", wait.cfg.timeout # NoTimeout
             PROVE  wait.elapsed <= wait.cfg.timeout + Pause(wait) + LongestPoll
  BY DEF WaitBounded, Pause
<1>1. wait \in WaitType /\ OnTime(wait, call)
  BY DEF WaitInv
<1>2. wait.cfg \in WaitConfigs /\ wait.elapsed \in Int /\ wait.st \in {"polling", "asleep", "done"}
  BY <1>1 DEF WaitType
<1>3. Pause(wait) \in Nat /\ wait.cfg.timeout \in Nat
  BY <1>2, TransportAssumption DEF Pause, Greater
<1>4. call \in CallType /\ call.attempt <= MaxRetries
  BY TransportAssumption DEF CallInv, Logged, Retries, CallType
<1>5. Spent(call) \in Int /\ Spent(call) <= LongestPoll /\ LongestPoll \in Nat
  BY <1>4, PollsAreBounded
<1> QED
  BY <1>1, <1>2, <1>3, <1>5 DEF OnTime

\* A client begins with a call that is over and no loop.
LEMMA CallsBegin == CallInit => CallInv /\ WaitInv
<1> SUFFICES ASSUME CallInit
             PROVE  CallInv /\ WaitInv
  OBVIOUS
<1>1. call = [NewCall(Chat) EXCEPT !.st = "done", !.result = "ok"] /\ wait = NoWait
  BY DEF CallInit
<1>2. Chat \in Methods
  BY DEF Methods
<1>3. CallInv
  BY <1>1, <1>2, NewCallFits DEF CallInv
<1>4. call.delay = 0
  BY <1>1 DEF NewCall
<1>5. NoWait.cfg \in WaitConfigs
  BY TransportAssumption DEF NoWait
<1>6. NoWait \in WaitType /\ NoWait.interval = 0 /\ NoWait.st = "none"
  BY <1>5 DEF NoWait, WaitType
<1>7. Pause(NoWait) \in Nat /\ Slowest \in Nat
  BY <1>5, TransportAssumption DEF Pause, Slowest, Greater
<1> QED
  BY <1>1, <1>3, <1>4, <1>6, <1>7 DEF WaitInv, OnTime

\* The other parts of the client leave its calls alone.
LEMMA ClientKeepsCalls == CallInv /\ WaitInv /\ [ClientNext]_clientVars => CallInv' /\ WaitInv'
<1>1. [ClientNext]_clientVars => [CallNext]_callVars
  BY DEF ClientNext, clientVars, CallStep, SseStep, FramesStep, ChatStep, RegistryStep,
         RealtimeStep, GuardsStep, SpendingStep, SemanticStep
<1> QED
  BY <1>1, WaitNextKeeps

\* Whatever a provider answers, and however often: with_retry sends again only
\* what was refused with a status of should_retry, no more than max_retries
\* times, and what the caller gets is what the last answer means.
THEOREM RetriesAlwaysEndRight == ClientSafety => []RetriesEndRight
<1>1. ClientInit => CallInv /\ WaitInv
  BY CallsBegin DEF ClientInit
<1> QED
  BY <1>1, ClientKeepsCalls, CallInvSays, PTL DEF ClientSafety

\* A wait for a batch with a timeout has never taken longer than the timeout, one
\* interval and the longest poll, with every answer and backoff of that poll at
\* its slowest: half of what WaitEnds says of it.
THEOREM WaitAlwaysBounded == ClientSafety => []WaitBounded(LongestPoll)
<1>1. ClientInit => CallInv /\ WaitInv
  BY CallsBegin DEF ClientInit
<1> QED
  BY <1>1, ClientKeepsCalls, WaitInvSays, PTL DEF ClientSafety

-----------------------------------------------------------------------------
(* Frames: the bytes that have arrived, and the frames taken of them.      *)

\* A stream made of its parts.
FramesOf(stream, next, buf, seen, inner, done, ended, chunks, errors, overflow) ==
  [stream |-> stream, next |-> next, buf |-> buf, seen |-> seen, inner |-> inner, done |-> done,
   ended |-> ended, chunks |-> chunks, errors |-> errors, overflow |-> overflow]

FramesTyped ==
  /\ frames = FramesOf(frames.stream, frames.next, frames.buf, frames.seen, frames.inner, frames.done,
                       frames.ended, frames.chunks, frames.errors, frames.overflow)
  /\ frames.stream \in Streams \cup {<<>>}
  /\ frames.next \in 1..(Len(frames.stream) + 1)
  /\ frames.buf \in Nat /\ frames.seen \in Nat /\ frames.errors \in Nat
  /\ frames.done \in BOOLEAN /\ frames.ended \in BOOLEAN
  /\ frames.chunks \in Seq(Nat)

\* The buffer begins with the next frame.
Aligned == frames.seen = Start(frames.next) + frames.buf

\* No frame that can be read is left among the bytes that have arrived.
NoneLeft ==
  /\ Start(frames.next) <= frames.seen
  /\ frames.next <= Len(frames.stream) => ~InRange(This) \/ frames.seen < This.end

\* What was left over has been reported and forgotten.
Forgotten == frames.buf = 0 /\ frames.done /\ frames.errors > 0 /\ NoneLeft

\* The frames taken: those before the next, each one's chunk given.
Given ==
  /\ \A j \in 1..(frames.next - 1) : InRange(frames.stream[j])
  /\ \A i \in 1..Len(frames.chunks) :
       /\ frames.chunks[i] \in 1..(frames.next - 1) /\ Gives(frames.stream[frames.chunks[i]]) = "chunk"
       /\ \A j \in 1..Len(frames.chunks) : i < j => frames.chunks[i] < frames.chunks[j]
  /\ \A k \in 1..(frames.next - 1) :
       Gives(frames.stream[k]) = "chunk" => \E i \in 1..Len(frames.chunks) : frames.chunks[i] = k

FramesInv ==
  /\ FramesTyped /\ Given
  /\ frames.seen <= Total
  /\ Aligned \/ Forgotten
  /\ frames.ended => frames.buf = 0 /\ NoneLeft

\* A stream is a sequence of frames, one that has not been opened too.
LEMMA EveryStream ==
  \A s \in Streams \cup {<<>>} : s \in Seq([kind : FrameKinds, end : Nat]) /\ Len(s) \in Nat
<1>1. \A F : <<>> \in Seq(F)
  OBVIOUS
<1>2. \A F : \A s \in Seq(F) : Len(s) \in Nat
  OBVIOUS
<1>3. Streams \subseteq Seq([kind : FrameKinds, end : Nat])
  BY FramesAssumption, Zenon
<1> QED
  BY <1>1, <1>2, <1>3, Zenon

\* Where the frames of a stream stand.
LEMMA FramesAreLaid ==
  ASSUME FramesTyped
  PROVE  /\ Len(frames.stream) \in Nat
         /\ \A k \in 1..(Len(frames.stream) + 1) : Start(k) \in Nat
         /\ \A k \in 1..Len(frames.stream) : /\ frames.stream[k].end \in Nat /\ Size(k) \in Nat
                                            /\ Size(k) >= MinFrame /\ Start(k + 1) = Start(k) + Size(k)
                                            /\ Start(k + 1) = frames.stream[k].end
         /\ \A k \in 1..Len(frames.stream) : \A j \in 1..k : frames.stream[j].end <= frames.stream[k].end
<1> DEFINE s == frames.stream
<1>1. s \in Seq([kind : FrameKinds, end : Nat]) /\ Len(s) \in Nat
  BY EveryStream DEF FramesTyped
<1>2. \A k \in 1..Len(s) : s[k].end \in Nat
  <2> DEFINE F == [kind : FrameKinds, end : Nat]
  <2>1. \A f \in F : f.end \in Nat
    OBVIOUS
  <2>2. s \in Seq(F) /\ Len(s) \in Nat
    BY <1>1
  <2> HIDE DEF F
  <2> QED
    BY <2>1, <2>2
<1>3. \A k \in 1..Len(s) : MinFrame <= s[k].end /\ \A j \in 1..(k - 1) : s[j].end + MinFrame <= s[k].end
  BY <1>1, FramesAssumption DEF FramesTyped
<1>4. \A k \in 1..(Len(s) + 1) : k = 1 \/ k - 1 \in 1..Len(s)
  BY <1>1
<1>5. \A k \in 1..(Len(s) + 1) : Start(k) \in Nat
  BY <1>2, <1>4 DEF Start
<1>6. ASSUME NEW k \in 1..Len(s)
      PROVE  /\ s[k].end \in Nat /\ Size(k) \in Nat /\ Size(k) >= MinFrame
             /\ Start(k + 1) = Start(k) + Size(k) /\ Start(k + 1) = s[k].end
  <2>1. k + 1 # 1 /\ k + 1 - 1 = k /\ k \in 1..(Len(s) + 1)
    BY <1>1
  <2>2. Start(k + 1) = s[k].end
    BY <2>1 DEF Start
  <2>3. Start(k) \in Nat /\ Start(k) + MinFrame <= s[k].end
    <3>1. CASE k = 1
      BY <1>3, <1>2, <3>1, FramesAssumption DEF Start
    <3>2. CASE k # 1
      <4>1. k - 1 \in 1..(k - 1) /\ Start(k) = s[k - 1].end
        BY <1>1, <3>2 DEF Start
      <4> QED
        BY <1>3, <1>5, <2>1, <4>1
    <3> QED
      BY <3>1, <3>2
  <2> QED
    BY <1>2, <2>2, <2>3, FramesAssumption DEF Size
<1>7. ASSUME NEW k \in 1..Len(s), NEW j \in 1..k
      PROVE  s[j].end <= s[k].end
  <2>1. j = k \/ j \in 1..(k - 1)
    BY <1>1
  <2>2. j \in 1..Len(s)
    BY <1>1
  <2> QED
    BY <1>2, <1>3, <2>1, <2>2, FramesAssumption
<1> QED
  BY <1>1, <1>5, <1>6, <1>7

\* A frame can only be there if the buffer is aligned and the stream is not over.
LEMMA FrameIsThere ==
  ASSUME FramesInv, frames.buf > 0
  PROVE  /\ Aligned /\ frames.next \in 1..Len(frames.stream)
<1>1. Aligned /\ frames.seen <= Start(Len(frames.stream) + 1) /\ FramesTyped
  BY DEF FramesInv, Forgotten, Total
<1>2. frames.next # Len(frames.stream) + 1
  BY <1>1, FramesAreLaid DEF Aligned, FramesTyped
<1> QED
  BY <1>1, <1>2, FramesAreLaid DEF FramesTyped

\* What does not depend on the rest of the parser.
LEMMA SameStream ==
  ASSUME frames'.stream = frames.stream
  PROVE  /\ \A k : Start(k)' = Start(k) /\ Size(k)' = Size(k)
         /\ Total' = Total
<1>1. \A k : Start(k)' = Start(k)
  BY DEF Start
<1> QED
  BY <1>1 DEF Size, Total

\* Steps that take no frame.
LEMMA NoFrameTaken ==
  ASSUME FramesInv, NEW buf \in Nat, NEW seen \in Nat, NEW inner, NEW done \in BOOLEAN, NEW ended \in BOOLEAN,
         NEW errors \in Nat, NEW overflow,
         frames' = FramesOf(frames.stream, frames.next, buf, seen, inner, done, ended,
                            frames.chunks, errors, overflow),
         seen <= Total,
         seen = Start(frames.next) + buf \/ (buf = 0 /\ done /\ errors > 0),
         (ended \/ ~(seen = Start(frames.next) + buf)) =>
            /\ buf = 0 /\ Start(frames.next) <= seen
            /\ frames.next <= Len(frames.stream) => ~InRange(This) \/ seen < This.end
  PROVE  FramesInv'
<1>1. /\ frames'.stream = frames.stream /\ frames'.next = frames.next /\ frames'.buf = buf /\ frames'.seen = seen
      /\ frames'.done = done /\ frames'.ended = ended /\ frames'.chunks = frames.chunks /\ frames'.errors = errors
      /\ frames'.inner = inner /\ frames'.overflow = overflow
  BY DEF FramesOf
<1>2. FramesTyped'
  BY <1>1 DEF FramesInv, FramesTyped, FramesOf
<1>3. Given'
  BY <1>1 DEF FramesInv, Given
<1>4. Total' = Total /\ Start(frames.next)' = Start(frames.next) /\ This' = This
  BY <1>1, SameStream DEF This, Start
<1>5. NoneLeft' <=> /\ Start(frames.next) <= seen
                    /\ frames.next <= Len(frames.stream) => ~InRange(This) \/ seen < This.end
  BY <1>1, <1>4 DEF NoneLeft, InRange
<1>6. Aligned' \/ Forgotten'
  BY <1>1, <1>4, <1>5 DEF Aligned, Forgotten
<1>7. ended => buf = 0 /\ NoneLeft'
  BY <1>5
<1> QED
  BY <1>1, <1>2, <1>3, <1>4, <1>6, <1>7 DEF FramesInv

\* What an error changes.
LEMMA ErringIs ==
  ASSUME FramesTyped
  PROVE  \E errors \in Nat : /\ errors > 0
                             /\ Erring = FramesOf(frames.stream, frames.next, frames.buf, frames.seen, frames.inner,
                                                  frames.done, frames.ended, frames.chunks, errors, frames.overflow)
<1> DEFINE errors == IF frames.errors < 2 THEN frames.errors + 1 ELSE frames.errors
<1>1. errors \in Nat /\ errors > 0
  BY DEF FramesTyped
<1>2. Erring = [frames EXCEPT !.errors = errors]
  BY DEF Erring
<1> HIDE DEF errors
<1>3. Erring = FramesOf(frames.stream, frames.next, frames.buf, frames.seen, frames.inner,
                        frames.done, frames.ended, frames.chunks, errors, frames.overflow)
  BY <1>2 DEF FramesTyped, FramesOf
<1> QED
  BY <1>1, <1>3

\* When more is needed, no frame that can be read is left.
LEMMA NeedsMoreMeans ==
  ASSUME FramesInv, NeedsMore
  PROVE  NoneLeft
<1>1. FramesTyped
  BY DEF FramesInv
<1>2. CASE Aligned
  <2>1. frames.next \in 1..(Len(frames.stream) + 1) /\ frames.seen = Start(frames.next) + frames.buf
        /\ frames.buf \in Nat /\ MinFrame \in Nat
    BY <1>1, <1>2, FramesAssumption DEF FramesTyped, Aligned
  <2>2. Start(frames.next) \in Nat
    BY <1>1, <2>1, FramesAreLaid
  <2>3. ASSUME frames.next <= Len(frames.stream), InRange(This)
        PROVE  frames.seen < This.end
    <3>1. frames.next \in 1..Len(frames.stream)
      BY <1>1, <2>1, <2>3, FramesAreLaid
    <3>2. Size(frames.next) \in Nat /\ Size(frames.next) >= MinFrame
          /\ This.end = Start(frames.next) + Size(frames.next)
      BY <1>1, <3>1, FramesAreLaid DEF This
    <3>3. frames.buf < Size(frames.next)
      BY <2>1, <2>3, <3>2 DEF NeedsMore, AtFrame
    <3> QED
      BY <2>1, <2>2, <3>2, <3>3
  <2> QED
    BY <2>1, <2>2, <2>3 DEF NoneLeft
<1> QED
  BY <1>2 DEF FramesInv, Forgotten

\* A frame out of range is reported and stays.
LEMMA ReportLengthKeeps == FramesInv /\ ReportLength => FramesInv'
<1> SUFFICES ASSUME FramesInv, ReportLength
             PROVE  FramesInv'
  OBVIOUS
<1>1. FramesTyped /\ frames.seen <= Total /\ ~frames.ended /\ frames.buf >= MinFrame
  BY DEF FramesInv, ReportLength, AtFrame
<1>2. Aligned
  BY <1>1, FramesAssumption, FrameIsThere DEF FramesTyped
<1>3. PICK errors \in Nat : frames' = FramesOf(frames.stream, frames.next, frames.buf, frames.seen, frames.inner,
                                             frames.done, frames.ended, frames.chunks, errors, frames.overflow)
  BY <1>1, ErringIs DEF ReportLength
<1>4. frames.buf \in Nat /\ frames.seen \in Nat /\ frames.done \in BOOLEAN /\ frames.ended \in BOOLEAN
      /\ frames.seen = Start(frames.next) + frames.buf
  BY <1>1, <1>2 DEF FramesTyped, Aligned
<1> QED
  BY <1>1, <1>3, <1>4, NoFrameTaken

\* At the end of the connection what is left over is forgotten.
LEMMA FinishFramesKeeps == FramesInv /\ FinishFrames => FramesInv'
<1> SUFFICES ASSUME FramesInv, FinishFrames
             PROVE  FramesInv'
  OBVIOUS
<1>1. FramesTyped /\ frames.seen <= Total /\ NoneLeft /\ frames.done = TRUE /\ frames.ended = FALSE
  BY NeedsMoreMeans DEF FramesInv, FinishFrames, NeedsMore, FramesTyped
<1>2. frames.seen \in Nat /\ frames.buf \in Nat /\ frames.errors \in Nat
  BY <1>1 DEF FramesTyped
<1>3. CASE frames.buf > 0
  <2>1. PICK errors \in Nat : /\ errors > 0
                             /\ Erring = FramesOf(frames.stream, frames.next, frames.buf, frames.seen, frames.inner,
                                                  frames.done, frames.ended, frames.chunks, errors, frames.overflow)
    BY <1>1, ErringIs
  <2>2. frames' = [Erring EXCEPT !.buf = 0]
    BY <1>3 DEF FinishFrames
  <2>3. frames' = FramesOf(frames.stream, frames.next, 0, frames.seen, frames.inner,
                           frames.done, frames.ended, frames.chunks, errors, frames.overflow)
    BY <2>1, <2>2 DEF FramesOf
  <2> QED
    BY <1>1, <1>2, <2>1, <2>3, NoFrameTaken DEF NoneLeft
<1>4. CASE frames.buf = 0
  <2>1. frames' = FramesOf(frames.stream, frames.next, frames.buf, frames.seen, frames.inner,
                           frames.done, TRUE, frames.chunks, frames.errors, frames.overflow)
    <3>1. frames' = [frames EXCEPT !.ended = TRUE]
      BY <1>2, <1>4 DEF FinishFrames
    <3> QED
      BY <1>1, <3>1 DEF FramesTyped, FramesOf
  <2>2. frames.seen = Start(frames.next) + frames.buf \/ (frames.buf = 0 /\ frames.done /\ frames.errors > 0)
    BY DEF FramesInv, Aligned, Forgotten
  <2> QED
    BY <1>1, <1>2, <1>4, <2>1, <2>2, NoFrameTaken DEF NoneLeft
<1> QED
  BY <1>2, <1>3, <1>4

\* Bytes arrive, or the connection fails or ends.
LEMMA ReceiveKeeps == FramesInv /\ (ReceiveChunk \/ ReceiveError \/ ReceiveEnd) => FramesInv'
<1> SUFFICES ASSUME FramesInv, ReceiveChunk \/ ReceiveError \/ ReceiveEnd
             PROVE  FramesInv'
  OBVIOUS
<1>1. FramesTyped /\ frames.seen <= Total /\ NoneLeft /\ frames.done = FALSE /\ frames.ended = FALSE
      /\ frames.seen = Start(frames.next) + frames.buf
  BY NeedsMoreMeans DEF FramesInv, Forgotten, Aligned, ReceiveChunk, ReceiveError, ReceiveEnd, NeedsMore, FramesTyped
<1>2. frames.seen \in Nat /\ frames.buf \in Nat /\ frames.errors \in Nat /\ Start(frames.next) \in Nat /\ Total \in Nat
  BY <1>1, FramesAreLaid DEF FramesTyped, Total
<1>3. PICK errors \in Nat : /\ errors > 0
                           /\ Erring = FramesOf(frames.stream, frames.next, frames.buf, frames.seen, frames.inner,
                                                frames.done, frames.ended, frames.chunks, errors, frames.overflow)
  BY <1>1, ErringIs
<1>4. CASE ReceiveError
  <2>1. frames' = FramesOf(frames.stream, frames.next, frames.buf, frames.seen, "failed",
                           FALSE, FALSE, frames.chunks, errors, frames.overflow)
    BY <1>1, <1>3, <1>4 DEF ReceiveError, FramesOf
  <2> QED
    BY <1>1, <1>2, <2>1, NoFrameTaken
<1>5. CASE ReceiveEnd
  <2> DEFINE empty == (frames.buf = 0)
  <2>1. frames' = FramesOf(frames.stream, frames.next, frames.buf, frames.seen, frames.inner,
                           TRUE, empty, frames.chunks, frames.errors, frames.overflow)
    BY <1>1, <1>5 DEF ReceiveEnd, FramesTyped, FramesOf
  <2>2. empty \in BOOLEAN /\ (empty => frames.buf = 0)
    OBVIOUS
  <2> HIDE DEF empty
  <2> QED
    BY <1>1, <1>2, <2>1, <2>2, NoFrameTaken DEF NoneLeft
<1>6. CASE ReceiveChunk
  <2>1. PICK n \in 1..(Total - frames.seen) :
          frames' = IF frames.buf + n > MaxFrames
                    THEN [Erring EXCEPT !.done = TRUE, !.overflow = TRUE]
                    ELSE [frames EXCEPT !.buf = @ + n, !.seen = @ + n]
    BY <1>6 DEF ReceiveChunk
  <2>2. CASE frames.buf + n > MaxFrames
    <3>1. frames' = FramesOf(frames.stream, frames.next, frames.buf, frames.seen, frames.inner,
                             TRUE, FALSE, frames.chunks, errors, TRUE)
      BY <1>1, <1>3, <2>1, <2>2 DEF FramesOf
    <3> QED
      BY <1>1, <1>2, <3>1, NoFrameTaken
  <2>3. CASE ~(frames.buf + n > MaxFrames)
    <3> DEFINE buf == frames.buf + n
               seen == frames.seen + n
    <3>1. frames' = [frames EXCEPT !.buf = buf, !.seen = seen]
      BY <2>1, <2>3
    <3>2. buf \in Nat /\ seen \in Nat /\ seen <= Total /\ seen = Start(frames.next) + buf
      BY <1>1, <1>2
    <3> HIDE DEF buf, seen
    <3>3. frames' = FramesOf(frames.stream, frames.next, buf, seen, frames.inner,
                             FALSE, FALSE, frames.chunks, frames.errors, frames.overflow)
      BY <1>1, <3>1 DEF FramesTyped, FramesOf
    <3> QED
      BY <1>1, <1>2, <3>2, <3>3, NoFrameTaken
  <2> QED
    BY <2>2, <2>3
<1> QED
  BY <1>4, <1>5, <1>6

\* A frame is taken off the buffer, and its chunk given.
LEMMA TakeFrameKeeps == FramesInv /\ TakeFrame => FramesInv'
<1> SUFFICES ASSUME FramesInv, TakeFrame
             PROVE  FramesInv'
  OBVIOUS
<1> DEFINE n == frames.next
           chunks == IF Gives(This) = "chunk" THEN Append(frames.chunks, n) ELSE frames.chunks
<1>1. FramesTyped /\ Given /\ frames.seen <= Total /\ frames.ended = FALSE /\ InRange(This)
      /\ frames.buf >= Size(n) /\ frames.buf >= MinFrame
  BY DEF FramesInv, FramesTyped, TakeFrame, AtFrame
<1>2. frames.buf \in Nat /\ frames.seen \in Nat /\ frames.chunks \in Seq(Nat) /\ frames.buf > 0
  BY <1>1, FramesAssumption DEF FramesTyped
<1>3. n \in 1..Len(frames.stream) /\ Len(frames.stream) \in Nat /\ frames.seen = Start(n) + frames.buf
  BY <1>1, <1>2, FrameIsThere, FramesAreLaid DEF Aligned
<1>4. Size(n) \in Nat /\ Start(n + 1) = Start(n) + Size(n) /\ Start(n) \in Nat
  BY <1>1, <1>3, FramesAreLaid
<1> HIDE DEF n
<1>5. \E errors \in Nat :
        frames' = FramesOf(frames.stream, n + 1, frames.buf - Size(n), frames.seen, frames.inner,
                           frames.done, FALSE, chunks, errors, frames.overflow)
  <2> DEFINE from == IF Gives(This) = "error" THEN Erring ELSE frames
  <2>1. PICK errors \in Nat : from = FramesOf(frames.stream, frames.next, frames.buf, frames.seen, frames.inner,
                                            frames.done, frames.ended, frames.chunks, errors, frames.overflow)
    <3>1. CASE Gives(This) = "error"
      BY <1>1, <3>1, ErringIs
    <3>2. CASE Gives(This) # "error"
      BY <1>1, <3>2 DEF FramesTyped
    <3> QED
      BY <3>1, <3>2
  <2>2. frames' = [from EXCEPT !.next = @ + 1, !.buf = @ - Size(n),
                               !.chunks = IF Gives(This) = "chunk" THEN Append(@, n) ELSE @]
    BY DEF TakeFrame, n
  <2> HIDE DEF from
  <2> DEFINE buf == frames.buf - Size(n)
             next == n + 1
  <2>3. frames' = [from EXCEPT !.next = next, !.buf = buf, !.chunks = chunks]
    BY <2>1, <2>2 DEF FramesOf, n
  <2> HIDE DEF buf, next, chunks
  <2>4. frames' = FramesOf(frames.stream, next, buf, frames.seen, frames.inner,
                           frames.done, frames.ended, chunks, errors, frames.overflow)
    BY <2>1, <2>3 DEF FramesOf
  <2> QED
    BY <1>1, <2>4 DEF buf, next
<1>6. PICK errors \in Nat :
        frames' = FramesOf(frames.stream, n + 1, frames.buf - Size(n), frames.seen, frames.inner,
                           frames.done, FALSE, chunks, errors, frames.overflow)
  BY <1>5
<1>7. /\ frames'.stream = frames.stream /\ frames'.next = n + 1 /\ frames'.buf = frames.buf - Size(n)
      /\ frames'.seen = frames.seen /\ frames'.done = frames.done /\ frames'.ended = FALSE
      /\ frames'.chunks = chunks /\ frames'.errors = errors /\ frames'.inner = frames.inner
      /\ frames'.overflow = frames.overflow
  BY <1>6 DEF FramesOf
<1>8. chunks \in Seq(Nat)
  BY <1>2, <1>3
<1>9. FramesTyped'
  <2>1. n + 1 \in 1..(Len(frames.stream) + 1) /\ frames.buf - Size(n) \in Nat
    BY <1>1, <1>2, <1>3, <1>4
  <2> HIDE DEF chunks
  <2> QED
    BY <1>1, <1>6, <1>7, <1>8, <2>1 DEF FramesTyped, FramesOf
<1>10. Aligned'
  <2>1. Start(frames.next)' = Start(n + 1)
    BY <1>7, SameStream DEF Start
  <2> QED
    BY <1>2, <1>3, <1>4, <1>7, <2>1 DEF Aligned
<1>11. Given'
  <2>0. n + 1 - 1 = n /\ (\A j \in 1..n : j = n \/ j \in 1..(n - 1)) /\ (\A j \in 1..(n - 1) : j < n /\ j \in 1..n)
        /\ n \in 1..n /\ n \in Nat
    BY <1>3
  <2>1. \A j \in 1..n : InRange(frames.stream[j])
    BY <1>1, <2>0 DEF Given, This, n
  <2>2. CASE Gives(This) # "chunk"
    <3>1. chunks = frames.chunks /\ Gives(frames.stream[n]) # "chunk"
      BY <2>2 DEF This, n
    <3> HIDE DEF chunks
    <3>2. \A i \in 1..Len(frames.chunks) :
            /\ frames.chunks[i] \in 1..n /\ Gives(frames.stream[frames.chunks[i]]) = "chunk"
            /\ \A j \in 1..Len(frames.chunks) : i < j => frames.chunks[i] < frames.chunks[j]
      BY <1>1, <2>0 DEF Given, n
    <3>3. \A k \in 1..n : Gives(frames.stream[k]) = "chunk" => \E i \in 1..Len(frames.chunks) : frames.chunks[i] = k
      BY <1>1, <2>0, <3>1 DEF Given, n
    <3> QED
      BY <1>7, <2>0, <2>1, <3>1, <3>2, <3>3 DEF Given, InRange, Gives
  <2>3. CASE Gives(This) = "chunk"
    <3>1. chunks = Append(frames.chunks, n) /\ Gives(frames.stream[n]) = "chunk"
      BY <2>3 DEF This, n
    <3> HIDE DEF chunks
    <3>2. /\ Len(frames.chunks) \in Nat /\ Len(chunks) = Len(frames.chunks) + 1
          /\ chunks[Len(frames.chunks) + 1] = n
          /\ \A i \in 1..Len(frames.chunks) : chunks[i] = frames.chunks[i]
      BY <1>2, <3>1
    <3>3. \A i \in 1..Len(chunks) : i \in 1..Len(frames.chunks) \/ i = Len(frames.chunks) + 1
      BY <3>2
    <3>4. \A i \in 1..Len(frames.chunks) : i \in 1..Len(chunks) /\ ~(Len(frames.chunks) + 1 < i)
      BY <3>2
    <3>5. Len(frames.chunks) + 1 \in 1..Len(chunks) /\ ~(Len(frames.chunks) + 1 < Len(frames.chunks) + 1)
      BY <3>2
    <3>6. \A i \in 1..Len(frames.chunks) :
            /\ frames.chunks[i] \in 1..n /\ frames.chunks[i] < n /\ Gives(frames.stream[frames.chunks[i]]) = "chunk"
            /\ \A j \in 1..Len(frames.chunks) : i < j => frames.chunks[i] < frames.chunks[j]
      BY <1>1, <2>0 DEF Given, n
    <3>7. \A i \in 1..Len(chunks) :
            /\ chunks[i] \in 1..n /\ Gives(frames.stream[chunks[i]]) = "chunk"
            /\ \A j \in 1..Len(chunks) : i < j => chunks[i] < chunks[j]
      BY <2>0, <3>1, <3>2, <3>3, <3>4, <3>5, <3>6
    <3>8. \A k \in 1..n : Gives(frames.stream[k]) = "chunk" => \E i \in 1..Len(chunks) : chunks[i] = k
      <4>1. \A k \in 1..(n - 1) : Gives(frames.stream[k]) = "chunk" => \E i \in 1..Len(frames.chunks) : frames.chunks[i] = k
        BY <1>1 DEF Given, n
      <4> QED
        BY <2>0, <3>2, <3>4, <3>5, <4>1
    <3> QED
      BY <1>7, <2>0, <2>1, <3>7, <3>8 DEF Given, InRange, Gives
  <2> QED
    BY <2>2, <2>3
<1>12. Total' = Total
  BY <1>7, SameStream
<1> QED
  BY <1>1, <1>7, <1>9, <1>10, <1>11, <1>12 DEF FramesInv

\* Every step keeps the invariant.
LEMMA FramesNextKeeps == FramesInv /\ [FramesNext]_frames => FramesInv'
<1> SUFFICES ASSUME FramesInv, [FramesNext]_frames
             PROVE  FramesInv'
  OBVIOUS
<1>1. CASE UNCHANGED frames
  <2>1. This' = This /\ Total' = Total /\ Start(frames.next)' = Start(frames.next)
    BY <1>1 DEF This, Total, Start
  <2> QED
    BY <1>1, <2>1 DEF FramesInv, FramesTyped, Given, Aligned, Forgotten, NoneLeft
<1> QED
  BY <1>1, ReportLengthKeeps, TakeFrameKeeps, FinishFramesKeeps, ReceiveKeeps DEF FramesNext

\* A stream of which nothing has arrived.
LEMMA FramesBegin == \A stream \in Streams \cup {<<>>} : frames = NoFrames(stream) => FramesInv
<1> SUFFICES ASSUME NEW stream \in Streams \cup {<<>>}, frames = NoFrames(stream)
             PROVE  FramesInv
  OBVIOUS
<1>1. frames = FramesOf(stream, 1, 0, 0, "open", FALSE, FALSE, <<>>, 0, FALSE)
  BY DEF NoFrames, FramesOf
<1>2. Len(stream) \in Nat
  BY EveryStream
<1>3. FramesTyped
  BY <1>1, <1>2 DEF FramesTyped, FramesOf
<1>4. Aligned /\ Given /\ ~frames.ended /\ frames.seen = 0
  BY <1>1 DEF Aligned, Given, FramesOf, Start
<1>5. Total \in Nat
  BY <1>3, FramesAreLaid DEF Total
<1> QED
  BY <1>3, <1>4, <1>5 DEF FramesInv

\* What has been given, against what has arrived.
LEMMA FramesInvSays == FramesInv => FramesSound
<1> SUFFICES ASSUME FramesInv
             PROVE  FramesSound
  OBVIOUS
<1> DEFINE stream == frames.stream
           whole == {k \in DOMAIN stream : stream[k].end <= frames.seen}
           events == {k \in whole : Gives(stream[k]) = "chunk" /\ \A j \in 1..k : InRange(stream[j])}
           given == {frames.chunks[i] : i \in DOMAIN frames.chunks}
           n == frames.next
<1>1. FramesTyped /\ Given
  BY DEF FramesInv
<1>2. DOMAIN stream = 1..Len(stream) /\ Len(stream) \in Nat /\ n \in 1..(Len(stream) + 1) /\ frames.seen \in Nat
  <2>1. stream \in Seq([kind : FrameKinds, end : Nat])
    BY <1>1, EveryStream DEF FramesTyped
  <2> QED
    BY <1>1, <2>1 DEF FramesTyped
<1>3. DOMAIN frames.chunks = 1..Len(frames.chunks)
  BY <1>1 DEF FramesTyped
<1>4. \A k : k \in given <=> k \in 1..(n - 1) /\ Gives(stream[k]) = "chunk"
  BY <1>1, <1>3 DEF Given
<1>5. Start(n) <= frames.seen /\ Start(n) \in Nat
  <2>1. Start(n) \in Nat /\ frames.buf \in Nat
    BY <1>1, <1>2, FramesAreLaid DEF FramesTyped
  <2> QED
    BY <1>2, <2>1 DEF FramesInv, Aligned, Forgotten, NoneLeft
<1>6. \A k \in 1..(n - 1) : k \in whole
  <2> SUFFICES ASSUME NEW k \in 1..(n - 1)
               PROVE  k \in whole
    OBVIOUS
  <2>1. n - 1 \in 1..Len(stream) /\ k \in 1..Len(stream) /\ n = (n - 1) + 1 /\ n # 1
    BY <1>2
  <2>2. stream[k].end <= stream[n - 1].end /\ Start(n) = stream[n - 1].end /\ stream[k].end \in Nat
    BY <1>1, <2>1, FramesAreLaid DEF Start
  <2> QED
    BY <1>2, <1>5, <2>1, <2>2
<1>7. \A k \in 1..(n - 1) : \A j \in 1..k : InRange(stream[j])
  <2>1. \A k \in 1..(n - 1) : \A j \in 1..k : j \in 1..(n - 1)
    BY <1>2
  <2> QED
    BY <1>1, <2>1 DEF Given
<1>8. given \subseteq events
  BY <1>4, <1>6, <1>7
<1>9. \A i, j \in DOMAIN frames.chunks : i < j => frames.chunks[i] < frames.chunks[j]
  BY <1>1, <1>3 DEF Given
<1>10. \A k \in events : (\E g \in given : k < g) => k \in given
  <2>1. ASSUME NEW k \in events, NEW g \in given, k < g
        PROVE  k \in 1..(n - 1)
    <3>1. k \in 1..Len(stream)
      BY <1>2
    <3>2. g \in 1..(n - 1)
      BY <1>4
    <3> QED
      BY <1>2, <2>1, <3>1, <3>2
  <2> QED
    BY <1>4, <2>1
<1>11. ASSUME frames.ended
       PROVE  given = events /\ (frames.errors = 0 => frames.seen \in {0} \cup {stream[k].end : k \in whole})
  <2>1. NoneLeft /\ frames.buf = 0
    BY <1>11 DEF FramesInv
  <2>2. ASSUME NEW k \in events, k \notin 1..(n - 1)
        PROVE  FALSE
    <3>1. k \in 1..Len(stream) /\ stream[k].end <= frames.seen /\ n \in 1..k /\ n \in 1..Len(stream)
      BY <1>2, <2>2
    <3>2. InRange(This) /\ This.end <= stream[k].end /\ This.end \in Nat /\ stream[k].end \in Nat
      BY <1>1, <2>2, <3>1, FramesAreLaid DEF This
    <3> QED
      BY <1>2, <2>1, <3>1, <3>2 DEF NoneLeft
  <2>3. given = events
    BY <1>4, <1>8, <2>2
  <2>4. ASSUME frames.errors = 0
        PROVE  frames.seen \in {0} \cup {stream[k].end : k \in whole}
    <3>1. frames.seen = Start(n)
      BY <1>5, <2>1, <2>4 DEF FramesInv, Aligned, Forgotten
    <3>2. CASE n = 1
      BY <3>1, <3>2 DEF Start
    <3>3. CASE n # 1
      <4>1. n - 1 \in 1..(n - 1) /\ Start(n) = stream[n - 1].end
        BY <1>2, <3>3 DEF Start
      <4> QED
        BY <1>6, <3>1, <4>1
    <3> QED
      BY <3>2, <3>3
  <2> QED
    BY <2>3, <2>4
<1> HIDE DEF given, events, whole, stream
<1> QED
  BY <1>8, <1>9, <1>10, <1>11 DEF FramesSound, given, events, whole, stream

\* Whatever frames a provider sends, and wherever the transport cuts them: each
\* whole event gives its chunk once, in order, and nothing else does.
THEOREM FramesAlwaysSound == ClientSafety => []FramesSound
<1>1. ClientInit => FramesInv
  BY FramesBegin DEF ClientInit, FramesInit
<1>2. [ClientNext]_clientVars => [FramesNext]_frames
  BY DEF ClientNext, clientVars, CallStep, SseStep, FramesStep, ChatStep, RegistryStep,
         RealtimeStep, GuardsStep, SpendingStep, SemanticStep
<1> QED
  BY <1>1, <1>2, FramesNextKeeps, FramesInvSays, PTL DEF ClientSafety

-----------------------------------------------------------------------------
(* Guards: a run of a stage.                                               *)

\* What guardrail k of the run does, if the stage is one of its own.
Asked(k) == guards.stage \in guards.began[k].stages
Says(k) == Decides(guards.began[k], guards.stage, guards.payload)
Blocks(k) == Asked(k) /\ Says(k).is = "block"
Mutates(k) == Asked(k) /\ Says(k).is = "mutate"

\* A run made of its parts.
RunOf(registered, st, stage, payload, todo, began, mutation, decision) ==
  [registered |-> registered, st |-> st, stage |-> stage, payload |-> payload,
   todo |-> todo, began |-> began, mutation |-> mutation, decision |-> decision]

GuardsTyped ==
  /\ guards = RunOf(guards.registered, guards.st, guards.stage, guards.payload, guards.todo, guards.began,
                    guards.mutation, guards.decision)
  /\ guards.registered \in Seq(Guardrails) /\ guards.began \in Seq(Guardrails) /\ guards.todo \in Seq(Guardrails)
  /\ guards.stage \in Stages /\ guards.payload \in Payloads

\* The first n guardrails have been asked and none blocked; what is kept is what
\* the last of them that mutates said.
Passed(n, mutation) ==
  /\ \A k \in 1..n : ~Blocks(k)
  /\ \/ mutation = Allow /\ \A k \in 1..n : ~Mutates(k)
     \/ \E k \in 1..n : Mutates(k) /\ Says(k) = mutation /\ \A j \in 1..n : Mutates(j) => j <= k

\* One of them blocked, none before it did.
Stopped(decision) ==
  \E k \in 1..Len(guards.began) : Blocks(k) /\ Says(k) = decision /\ \A j \in 1..(k - 1) : ~Blocks(j)

\* How many guardrails of the run have been asked.
AskedOf(run) == Len(run.began) - Len(run.todo)

\* What is still to be asked is the end of what the run began with.
Going ==
  /\ guards.decision = Allow /\ AskedOf(guards) \in Nat
  /\ \A i \in 1..Len(guards.todo) : guards.todo[i] = guards.began[AskedOf(guards) + i]
  /\ Passed(AskedOf(guards), guards.mutation)

GuardsInv ==
  /\ GuardsTyped
  /\ guards.st = "idle" => guards.mutation = Allow /\ guards.decision = Allow
  /\ guards.st = "running" => Going \/ (guards.todo = <<>> /\ Stopped(guards.decision))
  /\ guards.st = "decided" => Stopped(guards.decision) \/ Passed(Len(guards.began), guards.decision)

\* A guardrail allows, blocks or mutates; what a redactor puts in place has lost its
\* word and no other, what a CEL expression does is its own.
LEMMA WhatIsDecided ==
  ASSUME NEW g \in Guardrails, NEW stage, NEW p \in Payloads
  PROVE  LET d == Decides(g, stage, p) IN
         /\ d.is \in {"allow", "block", "mutate"}
         /\ d.is = "mutate" =>
              \/ /\ g.kind = "regex" /\ g.word \in p.values /\ g.word \notin d.payload.values
                 /\ p.values \ {g.word} \subseteq d.payload.values
              \/ g.kind = "cel" /\ d.payload = g.payload
<1>1. g.kind \in Kinds
      /\ p = [values |-> p.values, frame |-> p.frame, length |-> p.length, field |-> p.field]
  BY GuardsAssumption
<1>2. Allow.is = "allow" /\ \A code : BlockWith(code).is = "block"
  BY DEF Allow, BlockWith
<1>3. CASE g.kind = "regex"
  <2>1. CASE g.word \notin TextWords(stage, p) \/ g.action = "block" \/ Redact(p, g.word) = p
    BY <1>2, <1>3, <2>1 DEF Decides, CheckRegex
  <2>2. CASE g.word \in TextWords(stage, p) /\ g.action # "block" /\ Redact(p, g.word) # p
    <3>1. Decides(g, stage, p) = MutateTo(Redact(p, g.word))
      BY <1>3, <2>2 DEF Decides, CheckRegex
    <3>2. g.word \in p.values /\ Redact(p, g.word) = [p EXCEPT !.values = (@ \ {g.word}) \cup {Mark}]
      BY <2>2 DEF Redact
    <3>3. Redact(p, g.word) = [values |-> (p.values \ {g.word}) \cup {Mark}, frame |-> p.frame,
                               length |-> p.length, field |-> p.field]
      BY <1>1, <3>2
    <3>4. g.word # Mark
      <4>1. g.word = Mark => (p.values \ {g.word}) \cup {Mark} = p.values
        BY <3>2
      <4> QED
        BY <1>1, <2>2, <3>3, <4>1
    <3> DEFINE d == Decides(g, stage, p)
    <3>5. d.is = "mutate" /\ d.payload = Redact(p, g.word)
      BY <3>1 DEF MutateTo
    <3>6. Redact(p, g.word).values = (p.values \ {g.word}) \cup {Mark}
      BY <3>3
    <3> HIDE DEF d
    <3>7. d.payload.values = (p.values \ {g.word}) \cup {Mark}
      BY <3>5, <3>6, Zenon
    <3>8. g.word \notin d.payload.values /\ p.values \ {g.word} \subseteq d.payload.values
      BY <3>4, <3>7
    <3> QED
      BY <1>3, <3>2, <3>5, <3>8 DEF d
  <2> QED
    BY <2>1, <2>2
<1>4. CASE g.kind \in {"allow_list", "deny_list"}
  <2>1. Decides(g, stage, p) \in {CheckAllowList(g, p), CheckDenyList(g, p)}
    BY <1>4 DEF Decides
  <2>2. CASE p.field \in g.list
    BY <1>2, <2>1, <2>2 DEF CheckAllowList, CheckDenyList
  <2>3. CASE p.field \notin g.list
    <3>1. Decides(g, stage, p) \in {Allow, BlockWith(1001), BlockWith(1002)}
      BY <2>1, <2>3 DEF CheckAllowList, CheckDenyList
    <3> QED
      BY <1>2, <3>1
  <2> QED
    BY <2>2, <2>3
<1>5. CASE g.kind \in {"length", "injection"}
  BY <1>2, <1>5 DEF Decides, CheckLength, CheckInjection
<1>6. CASE g.kind = "cel"
  <2>1. Decides(g, stage, p) \in {Allow, BlockWith(4001), BlockWith(g.code), MutateTo(g.payload)}
    BY <1>6 DEF Decides, CheckCel, OnTrue
  <2>2. MutateTo(g.payload).is = "mutate" /\ MutateTo(g.payload).payload = g.payload
    BY DEF MutateTo
  <2> QED
    BY <1>2, <1>6, <2>1, <2>2
<1> QED
  BY <1>1, <1>3, <1>4, <1>5, <1>6 DEF Kinds

\* What a run says depends on its stage, its payload and what it began with.
LEMMA SameRun ==
  ASSUME guards'.stage = guards.stage, guards'.payload = guards.payload, guards'.began = guards.began
  PROVE  /\ \A k : Says(k)' = Says(k) /\ (Blocks(k)' <=> Blocks(k)) /\ (Mutates(k)' <=> Mutates(k))
         /\ \A n, m : Passed(n, m)' <=> Passed(n, m)
         /\ \A d : Stopped(d)' <=> Stopped(d)
<1>1. \A k : Says(k)' = Says(k) /\ (Asked(k)' <=> Asked(k))
  BY DEF Says, Asked
<1>2. \A k : (Blocks(k)' <=> Blocks(k)) /\ (Mutates(k)' <=> Mutates(k))
  BY <1>1 DEF Blocks, Mutates
<1>3. \A n, m : Passed(n, m)' <=> Passed(n, m)
  BY <1>1, <1>2 DEF Passed
<1>4. \A d : Stopped(d)' <=> Stopped(d)
  BY <1>1, <1>2 DEF Stopped
<1> QED
  BY <1>1, <1>2, <1>3, <1>4

\* Registering and clearing change what later runs begin with, not one under way.
LEMMA RegistryKeeps ==
  GuardsInv /\ ((\E g \in Guardrails : RegisterGuardrail(g)) \/ ClearGuardrails) => GuardsInv'
<1> SUFFICES ASSUME GuardsInv, (\E g \in Guardrails : RegisterGuardrail(g)) \/ ClearGuardrails
             PROVE  GuardsInv'
  OBVIOUS
<1>1. GuardsTyped
  BY DEF GuardsInv
<1>2. PICK registered \in Seq(Guardrails) : guards' = [guards EXCEPT !.registered = registered]
  <2>1. CASE ClearGuardrails
    <3>1. <<>> \in Seq(Guardrails)
      OBVIOUS
    <3> QED
      BY <2>1, <3>1, Zenon DEF ClearGuardrails
  <2>2. ASSUME NEW g \in Guardrails, RegisterGuardrail(g)
        PROVE  \E registered \in Seq(Guardrails) : guards' = [guards EXCEPT !.registered = registered]
    <3>1. Append(guards.registered, g) \in Seq(Guardrails)
      BY <1>1 DEF GuardsTyped
    <3> QED
      BY <2>2, <3>1, Zenon DEF RegisterGuardrail
  <2> QED
    BY <2>1, <2>2
<1>3. guards' = RunOf(registered, guards.st, guards.stage, guards.payload, guards.todo, guards.began,
                      guards.mutation, guards.decision)
  BY <1>1, <1>2 DEF GuardsTyped, RunOf
<1>4. GuardsTyped' /\ guards'.st = guards.st /\ guards'.stage = guards.stage /\ guards'.payload = guards.payload
      /\ guards'.todo = guards.todo /\ guards'.began = guards.began
      /\ guards'.mutation = guards.mutation /\ guards'.decision = guards.decision
  BY <1>1, <1>3 DEF GuardsTyped, RunOf
<1> QED
  BY <1>4, SameRun DEF GuardsInv, Going, AskedOf

\* A run begins with all that is registered, and nobody has been asked yet.
LEMMA BeginStageKeeps ==
  ASSUME GuardsInv, NEW stage \in Stages, NEW p \in Payloads, BeginStage(stage, p)
  PROVE  GuardsInv'
<1>1. GuardsTyped /\ guards.st = "idle" /\ guards.mutation = Allow /\ guards.decision = Allow
  BY DEF GuardsInv, BeginStage
<1>2. guards' = RunOf(guards.registered, "running", stage, p, guards.registered, guards.registered, Allow, Allow)
  BY <1>1 DEF BeginStage, GuardsTyped, RunOf
<1>3. GuardsTyped' /\ guards'.st = "running" /\ guards'.todo = guards.registered
      /\ guards'.began = guards.registered /\ guards'.mutation = Allow /\ guards'.decision = Allow
  BY <1>1, <1>2 DEF GuardsTyped, RunOf
<1>4. AskedOf(guards') = 0
  BY <1>1, <1>3 DEF AskedOf, GuardsTyped
<1>5. Passed(AskedOf(guards), guards.mutation)'
  BY <1>3, <1>4 DEF Passed
<1>6. \A i \in 1..Len(guards'.todo) : guards'.todo[i] = guards'.began[AskedOf(guards') + i]
  BY <1>3, <1>4
<1> QED
  BY <1>3, <1>4, <1>5, <1>6 DEF GuardsInv, Going

\* A run ends when there is nobody left to be asked.
LEMMA EndStageKeeps == GuardsInv /\ EndStage => GuardsInv'
<1> SUFFICES ASSUME GuardsInv, EndStage
             PROVE  GuardsInv'
  OBVIOUS
<1>1. GuardsTyped /\ guards.st = "running" /\ guards.todo = <<>>
      /\ (Going \/ Stopped(guards.decision))
  BY DEF GuardsInv, EndStage
<1> DEFINE decision == IF guards.decision.is = "block" THEN guards.decision ELSE guards.mutation
<1>2. guards' = RunOf(guards.registered, "decided", guards.stage, guards.payload, <<>>, guards.began,
                      guards.mutation, decision)
  BY <1>1 DEF EndStage, GuardsTyped, RunOf
<1>3. GuardsTyped' /\ guards'.st = "decided" /\ guards'.stage = guards.stage /\ guards'.payload = guards.payload
      /\ guards'.began = guards.began /\ guards'.decision = decision
  BY <1>1, <1>2 DEF GuardsTyped, RunOf
<1>4. CASE Going
  <2>1. AskedOf(guards) = Len(guards.began)
    BY <1>1 DEF AskedOf, GuardsTyped
  <2>2. decision = guards.mutation
    BY <1>4 DEF Going, Allow
  <2>3. Passed(Len(guards.began), guards.decision)'
    BY <1>3, <1>4, <2>1, <2>2, SameRun DEF Going
  <2> QED
    BY <1>3, <2>3 DEF GuardsInv
<1>5. CASE Stopped(guards.decision)
  <2>1. decision = guards.decision
    BY <1>5 DEF Stopped, Blocks
  <2>2. Stopped(guards.decision)'
    BY <1>3, <1>5, <2>1, SameRun
  <2> QED
    BY <1>3, <2>2 DEF GuardsInv
<1> QED
  BY <1>1, <1>4, <1>5

\* Once the decision is taken there is no run.
LEMMA TakeDecisionKeeps == GuardsInv /\ TakeDecision => GuardsInv'
<1> SUFFICES ASSUME GuardsInv, TakeDecision
             PROVE  GuardsInv'
  OBVIOUS
<1>1. GuardsTyped
  BY DEF GuardsInv
<1>2. NoRun.payload \in Payloads
  BY GuardsAssumption DEF NoRun
<1>3. guards' = RunOf(guards.registered, "idle", "Input", NoRun.payload, <<>>, <<>>, Allow, Allow)
  BY DEF TakeDecision, NoRun, RunOf
<1>4. GuardsTyped' /\ guards'.st = "idle" /\ guards'.mutation = Allow /\ guards'.decision = Allow
  BY <1>1, <1>2, <1>3 DEF GuardsTyped, RunOf, Stages
<1> QED
  BY <1>4 DEF GuardsInv

\* At first there is no run.
LEMMA GuardsBegin == GuardsInit => GuardsInv
<1> SUFFICES ASSUME GuardsInit
             PROVE  GuardsInv
  OBVIOUS
<1>1. NoRun.payload \in Payloads
  BY GuardsAssumption DEF NoRun
<1>2. guards = RunOf(<<>>, "idle", "Input", NoRun.payload, <<>>, <<>>, Allow, Allow)
  BY DEF GuardsInit, NoRun, RunOf
<1>3. GuardsTyped /\ guards.st = "idle" /\ guards.mutation = Allow /\ guards.decision = Allow
  BY <1>1, <1>2 DEF GuardsTyped, RunOf, Stages
<1> QED
  BY <1>3 DEF GuardsInv

\* The first of a sequence, and the others.
LEMMA HeadAndTail ==
  ASSUME NEW S, NEW s \in Seq(S), s # <<>>
  PROVE  /\ Len(s) \in Nat \ {0} /\ 1 \in 1..Len(s) /\ Head(s) = s[1] /\ Head(s) \in S
         /\ Tail(s) \in Seq(S) /\ Len(Tail(s)) = Len(s) - 1
         /\ \A i \in 1..(Len(s) - 1) : i + 1 \in 1..Len(s) /\ Tail(s)[i] = s[i + 1]
OBVIOUS

\* One more of all b has been asked, when t are left.
LEMMA OneMoreAsked ==
  ASSUME NEW b \in Nat, NEW t \in Nat \ {0}, NEW n \in Nat, n = b - t
  PROVE  n + 1 \in 1..b /\ n + 1 = b - (t - 1) /\ \A i \in Int : n + 1 + i = n + (i + 1)
OBVIOUS

\* The next guardrail of the list: it does not look at this stage, allows,
\* mutates or blocks.
LEMMA CheckNextKeeps == GuardsInv /\ CheckNext => GuardsInv'
<1> SUFFICES ASSUME GuardsInv, CheckNext
             PROVE  GuardsInv'
  OBVIOUS
<1> DEFINE g == Head(guards.todo)
           n == AskedOf(guards)
           next == [guards EXCEPT !.todo = Tail(@)]
<1>1. GuardsTyped /\ guards.st = "running" /\ guards.todo # <<>> /\ Going
  BY DEF GuardsInv, CheckNext
<1> HIDE DEF g, n
<1>2. /\ guards.todo \in Seq(Guardrails) /\ guards.began \in Seq(Guardrails)
      /\ n \in Nat /\ n + 1 \in 1..Len(guards.began) /\ g = guards.began[n + 1] /\ g \in Guardrails
      /\ Tail(guards.todo) \in Seq(Guardrails) /\ n + 1 = Len(guards.began) - Len(Tail(guards.todo))
      /\ \A i \in 1..Len(Tail(guards.todo)) : Tail(guards.todo)[i] = guards.began[n + 1 + i]
  <2>1. guards.todo \in Seq(Guardrails) /\ guards.todo # <<>> /\ guards.began \in Seq(Guardrails)
        /\ n \in Nat /\ Len(guards.began) \in Nat /\ n = Len(guards.began) - Len(guards.todo)
        /\ \A i \in 1..Len(guards.todo) : guards.todo[i] = guards.began[n + i]
    <3>1. guards.todo \in Seq(Guardrails) /\ guards.todo # <<>> /\ guards.began \in Seq(Guardrails)
      BY <1>1 DEF GuardsTyped
    <3>2. n \in Nat /\ \A i \in 1..Len(guards.todo) : guards.todo[i] = guards.began[n + i]
      BY <1>1 DEF Going, n
    <3>3. n = Len(guards.began) - Len(guards.todo)
      BY DEF AskedOf, n
    <3>4. Len(guards.began) \in Nat
      BY <3>1
    <3> QED
      BY <3>1, <3>2, <3>3, <3>4
  <2>2. /\ Len(guards.todo) \in Nat \ {0} /\ 1 \in 1..Len(guards.todo)
        /\ Head(guards.todo) = guards.todo[1] /\ Head(guards.todo) \in Guardrails
        /\ Tail(guards.todo) \in Seq(Guardrails) /\ Len(Tail(guards.todo)) = Len(guards.todo) - 1
        /\ \A i \in 1..(Len(guards.todo) - 1) :
              i + 1 \in 1..Len(guards.todo) /\ Tail(guards.todo)[i] = guards.todo[i + 1]
    BY <2>1, HeadAndTail
  <2>3. n + 1 \in 1..Len(guards.began) /\ n + 1 = Len(guards.began) - (Len(guards.todo) - 1)
        /\ \A i \in Int : n + 1 + i = n + (i + 1)
    BY <2>1, <2>2, OneMoreAsked
  <2>4. g = guards.began[n + 1]
    BY <2>1, <2>2 DEF g
  <2>5. ASSUME NEW i \in 1..Len(Tail(guards.todo))
        PROVE  Tail(guards.todo)[i] = guards.began[n + 1 + i]
    <3>1. i \in Int /\ i \in 1..(Len(guards.todo) - 1)
      BY <2>2
    <3> QED
      BY <2>1, <2>2, <2>3, <3>1
  <2> QED
    BY <2>1, <2>2, <2>3, <2>4, <2>5 DEF g
<1>3. next = RunOf(guards.registered, "running", guards.stage, guards.payload, Tail(guards.todo), guards.began,
                   guards.mutation, Allow)
  <2>1. next = RunOf(guards.registered, guards.st, guards.stage, guards.payload, Tail(guards.todo), guards.began,
                     guards.mutation, guards.decision)
    <3> DEFINE rest == Tail(guards.todo)
    <3> HIDE DEF rest
    <3>1. [guards EXCEPT !.todo = rest] =
            RunOf(guards.registered, guards.st, guards.stage, guards.payload, rest, guards.began,
                  guards.mutation, guards.decision)
      BY <1>1 DEF GuardsTyped, RunOf
    <3> QED
      BY <3>1 DEF rest
  <2> QED
    BY <1>1, <2>1 DEF Going
<1>4. ~Asked(n + 1) => guards' = next
  BY <1>2 DEF CheckNext, Asked, g
<1>5. Asked(n + 1) => guards' = AfterCheck(next, Says(n + 1))
  BY <1>2 DEF CheckNext, Asked, Says, g
<1>6. Says(n + 1).is \in {"allow", "block", "mutate"}
  BY <1>1, <1>2, WhatIsDecided DEF Says, GuardsTyped
<1>7. Passed(n, guards.mutation)
  BY <1>1 DEF Going, n
<1>8. ASSUME NEW mutation, NEW count, count = n + 1, Passed(count, mutation),
             guards' = RunOf(guards.registered, "running", guards.stage, guards.payload, Tail(guards.todo),
                             guards.began, mutation, Allow)
      PROVE  GuardsInv'
  <2>1. GuardsTyped' /\ guards'.st = "running" /\ guards'.stage = guards.stage
        /\ guards'.payload = guards.payload /\ guards'.began = guards.began
        /\ guards'.todo = Tail(guards.todo) /\ guards'.mutation = mutation /\ guards'.decision = Allow
    BY <1>1, <1>2, <1>8 DEF GuardsTyped, RunOf
  <2>2. AskedOf(guards)' = count
    BY <1>2, <1>8, <2>1 DEF AskedOf
  <2>3. Passed(count, mutation)'
    BY <1>8, <2>1, SameRun
  <2>4. Passed(AskedOf(guards), guards.mutation)'
    BY <2>1, <2>2, <2>3
  <2>5. \A i \in 1..Len(guards'.todo) : guards'.todo[i] = guards'.began[count + i]
    BY <1>2, <1>8, <2>1
  <2>6. count \in Nat
    BY <1>2, <1>8
  <2>7. Going'
    BY <2>1, <2>2, <2>4, <2>5, <2>6 DEF Going
  <2> QED
    BY <2>1, <2>7 DEF GuardsInv
<1>9. CASE ~Asked(n + 1) \/ Says(n + 1).is = "allow"
  <2>1. guards' = next
    BY <1>4, <1>5, <1>9 DEF AfterCheck
  <2>2. ~Blocks(n + 1) /\ ~Mutates(n + 1)
    BY <1>9 DEF Blocks, Mutates
  <2>3. Passed(n + 1, guards.mutation)
    <3>1. \A k \in 1..(n + 1) : k \in 1..n \/ k = n + 1
      BY <1>2
    <3>2. \A k \in 1..n : k \in 1..(n + 1)
      BY <1>2
    <3> QED
      BY <1>7, <2>2, <3>1, <3>2 DEF Passed
  <2> QED
    BY <1>3, <1>8, <2>1, <2>3
<1>10. CASE Asked(n + 1) /\ Says(n + 1).is = "mutate"
  <2>1. guards' = [next EXCEPT !.mutation = Says(n + 1)]
    BY <1>5, <1>10 DEF AfterCheck
  <2>2. guards' = RunOf(guards.registered, "running", guards.stage, guards.payload, Tail(guards.todo),
                        guards.began, Says(n + 1), Allow)
    BY <1>3, <2>1 DEF RunOf
  <2>3. Mutates(n + 1) /\ ~Blocks(n + 1)
    BY <1>10 DEF Mutates, Blocks
  <2>4. Passed(n + 1, Says(n + 1))
    <3>1. \A k \in 1..(n + 1) : (k \in 1..n \/ k = n + 1) /\ k <= n + 1
      BY <1>2
    <3>2. n + 1 \in 1..(n + 1)
      BY <1>2
    <3> QED
      BY <1>7, <2>3, <3>1, <3>2 DEF Passed
  <2> QED
    BY <1>8, <2>2, <2>4
<1>11. CASE Asked(n + 1) /\ Says(n + 1).is = "block"
  <2>1. guards' = [next EXCEPT !.decision = Says(n + 1), !.todo = <<>>]
    BY <1>5, <1>11 DEF AfterCheck
  <2>2. guards' = RunOf(guards.registered, "running", guards.stage, guards.payload, <<>>,
                        guards.began, guards.mutation, Says(n + 1))
    BY <1>3, <2>1 DEF RunOf
  <2>3. GuardsTyped' /\ guards'.st = "running" /\ guards'.stage = guards.stage
        /\ guards'.payload = guards.payload /\ guards'.began = guards.began
        /\ guards'.todo = <<>> /\ guards'.decision = Says(n + 1)
    BY <1>1, <2>2 DEF GuardsTyped, RunOf
  <2>4. Stopped(Says(n + 1))
    <3>1. Blocks(n + 1) /\ \A j \in 1..(n + 1 - 1) : ~Blocks(j)
      <4>1. n + 1 - 1 = n
        BY <1>2
      <4> QED
        BY <1>7, <1>11, <4>1 DEF Blocks, Passed
    <3>2. PICK k : k = n + 1
      OBVIOUS
    <3>3. k \in 1..Len(guards.began) /\ Blocks(k) /\ Says(k) = Says(n + 1) /\ \A j \in 1..(k - 1) : ~Blocks(j)
      BY <1>2, <3>1, <3>2
    <3> QED
      BY <3>3 DEF Stopped
  <2>5. Stopped(guards.decision)'
    BY <2>3, <2>4, SameRun
  <2> QED
    BY <2>3, <2>5 DEF GuardsInv
<1> QED
  BY <1>6, <1>9, <1>10, <1>11

\* Every step keeps the invariant.
LEMMA GuardsNextKeeps == GuardsInv /\ [GuardsNext]_guards => GuardsInv'
<1> SUFFICES ASSUME GuardsInv, [GuardsNext]_guards
             PROVE  GuardsInv'
  OBVIOUS
<1>1. CASE UNCHANGED guards
  BY <1>1, SameRun DEF GuardsInv, GuardsTyped, Going, AskedOf
<1> QED
  BY <1>1, RegistryKeeps, BeginStageKeeps, CheckNextKeeps, EndStageKeeps, TakeDecisionKeeps DEF GuardsNext

\* What has been decided of all of them.
LEMMA GuardsInvSays == GuardsInv => DecisionSound
<1> SUFFICES ASSUME GuardsInv, guards.st = "decided"
             PROVE  DecisionSound
  BY DEF DecisionSound
<1> DEFINE d == guards.decision
           asked == {k \in DOMAIN guards.began : guards.stage \in guards.began[k].stages}
           blocks == {k \in asked : Says(k).is = "block"}
           mutates == {k \in asked : Says(k).is = "mutate"}
           redacts == {k \in mutates : guards.began[k].kind = "regex"}
           Word(k) == guards.began[k].word
           Sound ==
             /\ d.is = "block" <=> blocks # {}
             /\ d.is = "block" => \E k \in blocks : Says(k) = d /\ \A j \in blocks : k <= j
             /\ d.is = "allow" => mutates = {}
             /\ d.is = "mutate" =>
                  \E k \in mutates :
                    /\ \A j \in mutates : j <= k
                    /\ IF k \in redacts
                       THEN /\ Word(k) \notin d.payload.values
                            /\ \A j \in redacts : Word(j) # Word(k) => Word(j) \in d.payload.values
                       ELSE d.payload = guards.began[k].payload
<1>1. DOMAIN guards.began = 1..Len(guards.began) /\ Len(guards.began) \in Nat
      /\ guards.payload \in Payloads /\ \A k \in DOMAIN guards.began : guards.began[k] \in Guardrails
  BY DEF GuardsInv, GuardsTyped
<1>2. \A k : (k \in blocks <=> k \in 1..Len(guards.began) /\ Blocks(k))
             /\ (k \in mutates <=> k \in 1..Len(guards.began) /\ Mutates(k))
  BY <1>1 DEF Blocks, Mutates, Asked
<1>3. \A k \in mutates :
        \/ /\ k \in redacts /\ Word(k) \in guards.payload.values
           /\ Word(k) \notin Says(k).payload.values
           /\ guards.payload.values \ {Word(k)} \subseteq Says(k).payload.values
        \/ k \notin redacts /\ Says(k).payload = guards.began[k].payload
  BY <1>1, WhatIsDecided DEF Says
<1>4. Sound
  <2>1. CASE Stopped(d)
    <3>1. PICK k \in 1..Len(guards.began) : Blocks(k) /\ Says(k) = d /\ \A j \in 1..(k - 1) : ~Blocks(j)
      BY <2>1 DEF Stopped
    <3>2. d.is = "block" /\ k \in blocks
      BY <1>2, <3>1 DEF Blocks
    <3>3. ASSUME NEW j \in blocks, ~(k <= j)
          PROVE  FALSE
      <4>1. j \in 1..Len(guards.began) /\ Blocks(j)
        BY <1>2
      <4>2. j \in 1..(k - 1)
        BY <1>1, <3>3, <4>1
      <4> QED
        BY <3>1, <4>1, <4>2
    <3> HIDE DEF blocks, mutates, redacts
    <3> QED
      BY <3>1, <3>2, <3>3
  <2>2. CASE Passed(Len(guards.began), d) /\ d = Allow /\ \A k \in 1..Len(guards.began) : ~Mutates(k)
    <3>1. d.is = "allow"
      BY <2>2 DEF Allow
    <3>2. blocks = {} /\ mutates = {}
      BY <1>2, <2>2 DEF Passed
    <3> QED
      BY <3>1, <3>2
  <2>3. ASSUME Passed(Len(guards.began), d), NEW k \in 1..Len(guards.began),
               Mutates(k), Says(k) = d, \A j \in 1..Len(guards.began) : Mutates(j) => j <= k
        PROVE  Sound
    <3>1. d.is = "mutate" /\ k \in mutates
      BY <1>2, <2>3 DEF Mutates
    <3>2. blocks = {} /\ \A j \in mutates : j <= k
      BY <1>2, <2>3 DEF Passed
    <3>3. \A j \in redacts : j \in mutates /\ Word(j) \in guards.payload.values
      BY <1>3
    <3>4. CASE k \in redacts
      <4>1. Word(k) \notin d.payload.values /\ guards.payload.values \ {Word(k)} \subseteq d.payload.values
        BY <1>3, <2>3, <3>1, <3>4
      <4> HIDE DEF blocks, mutates, redacts, Word
      <4> QED
        BY <3>1, <3>2, <3>3, <3>4, <4>1
    <3>5. CASE k \notin redacts
      <4>1. d.payload = guards.began[k].payload
        BY <1>3, <2>3, <3>1, <3>5
      <4> HIDE DEF blocks, mutates, redacts, Word
      <4> QED
        BY <3>1, <3>2, <3>5, <4>1
    <3> QED
      BY <3>4, <3>5
  <2> QED
    BY <2>1, <2>2, <2>3 DEF GuardsInv, Passed
<1> QED
  BY <1>4 DEF DecisionSound, Says

\* Whatever guardrails are registered, in any order, and whatever the payload:
\* a block is of the first that blocks, and of those that change the payload the
\* last one alone counts.
THEOREM DecisionAlwaysSound == ClientSafety => []DecisionSound
<1>1. ClientInit => GuardsInv
  BY GuardsBegin DEF ClientInit
<1>2. [ClientNext]_clientVars => [GuardsNext]_guards
  BY DEF ClientNext, clientVars, CallStep, SseStep, FramesStep, ChatStep, RegistryStep,
         RealtimeStep, GuardsStep, SpendingStep, SemanticStep
<1> QED
  BY <1>1, <1>2, GuardsNextKeeps, GuardsInvSays, PTL DEF ClientSafety

-----------------------------------------------------------------------------
(* Registry: who a client talks to.                                        *)

\* A registry made of its parts.
RegOf(now, snapshot, fetch, customs, edits, policy, turns, client) ==
  [now |-> now, snapshot |-> snapshot, fetch |-> fetch, customs |-> customs, edits |-> edits,
   policy |-> policy, turns |-> turns, client |-> client]

\* A snapshot is the one of some time, and so is one that is still to be installed.
FetchesFit(snapshot, fetch) ==
  /\ \A s \in snapshot : s \in Nat
  /\ \A s, t \in snapshot : s = t
  /\ fetch = [f \in Fetchers |-> fetch[f]]
  /\ \A f \in Fetchers : fetch[f].phase = "fetched" => fetch[f].at \in Nat

\* No two custom providers have the same name.
NamesDiffer(customs) ==
  /\ customs \in Seq(Customs)
  /\ \A i, j \in 1..Len(customs) : customs[i].name = customs[j].name => i = j

\* A client that was built.
BuiltOf(request, provider, guarded, overlapped, lookup, reached) ==
  [phase |-> "built", request |-> request, provider |-> provider, guarded |-> guarded,
   overlapped |-> overlapped, lookup |-> lookup, reached |-> reached]

\* A client that looks for the second time has found nothing, unless the custom
\* providers have changed since.
LooksAgain(k, customs, edits) ==
  /\ k.request.name \notin {"openai", "anthropic"} /\ k.request.type \in ApiTypes
  /\ k.seen \in Nat /\ k.seen <= edits
  /\ k.seen = edits => Detect(customs, k.request.name, "", k.request.type) = {}

\* A client that was built is bound to the type it was asked to speak.
Bound(k) ==
  /\ k = BuiltOf(k.request, k.provider, k.guarded, k.overlapped, k.lookup, k.reached)
  /\ ~k.overlapped /\ k.request.type # "none" /\ k.request.name # "none"
     => k.provider.type = k.request.type /\ k.request.type \in k.provider.codecs

\* The copy a guarded client's resolver took is the policy, unless it was changed since.
Copied(lookup, guarded, policy, turns) ==
  \A l \in lookup : /\ l.turn \in Nat /\ l.turn <= turns
                    /\ guarded /\ l.turn = turns => l.policy = policy

ClientFits(k, customs, edits, policy, turns) ==
  /\ k.phase = "looking" => LooksAgain(k, customs, edits)
  /\ k.phase = "built" => Bound(k) /\ Copied(k.lookup, k.guarded, policy, turns)

RegInv ==
  /\ reg = RegOf(reg.now, reg.snapshot, reg.fetch, reg.customs, reg.edits, reg.policy, reg.turns, reg.client)
  /\ reg.now \in Nat /\ reg.edits \in Nat /\ reg.turns \in Nat
  /\ FetchesFit(reg.snapshot, reg.fetch)
  /\ NamesDiffer(reg.customs)
  /\ reg.client = [b \in Builders |-> reg.client[b]]
  /\ \A b \in Builders : ClientFits(reg.client[b], reg.customs, reg.edits, reg.policy, reg.turns)

-----------------------------------------------------------------------------
\* A non-empty set of naturals has a least element.
LEMMA LeastNumber ==
  ASSUME NEW T \in SUBSET Nat, T # {}
  PROVE  \E m \in T : \A k \in T : m <= k
<1> DEFINE Below == OpToRel(<, Nat)
<1>1. \E m \in T : \A k \in T : <<k, m>> \notin Below
  BY NatLessThanWellFounded, WFMin
<1>2. \A k, m \in Nat : k < m => <<k, m>> \in Below
  BY DEF OpToRel
<1> HIDE DEF Below
<1>3. PICK m \in T : \A k \in T : <<k, m>> \notin Below
  BY <1>1
<1>4. \A k \in T : ~(k < m)
  BY <1>2, <1>3
<1>5. QED
  BY <1>4

\* The first of the positions found is one of them.
LEMMA FirstIsThere ==
  ASSUME NEW T \in SUBSET Nat, T # {}
  PROVE  Min(T) \in T
<1>1. \E m \in T : \A k \in T : m <= k
  BY LeastNumber
<1> QED
  BY <1>1 DEF Min

\* The positions a filter, a name and a model pick out.
Able(ps, filter) == {i \in DOMAIN ps : filter = "any" \/ filter \in Range(Effective(ps[i]))}
NamedAt(ps, name, filter) == {i \in Able(ps, filter) : ps[i].name = name}
ServingAt(ps, model, filter) == {i \in Able(ps, filter) : model \in ps[i].models}

\* A provider is detected at a position of that name, else at those of that model.
LEMMA DetectAt ==
  ASSUME NEW ps, NEW name, NEW model, NEW filter, ps \in Seq(Customs)
  PROVE  /\ NamedAt(ps, name, filter) # {} =>
              \E i \in NamedAt(ps, name, filter) : Detect(ps, name, model, filter) = {Bind(ps[i], filter)}
         /\ NamedAt(ps, name, filter) = {} =>
              Detect(ps, name, model, filter) = {Bind(ps[i], filter) : i \in ServingAt(ps, model, filter)}
         /\ NamedAt(ps, name, filter) # {} => Detect(ps, name, model, filter) # {}
         /\ NamedAt(ps, name, filter) = {} /\ ServingAt(ps, model, filter) # {}
              => Detect(ps, name, model, filter) # {}
<1>1. Detect(ps, name, model, filter) =
        IF NamedAt(ps, name, filter) # {} THEN {Bind(ps[Min(NamedAt(ps, name, filter))], filter)}
        ELSE {Bind(ps[i], filter) : i \in ServingAt(ps, model, filter)}
  BY DEF Detect, NamedAt, ServingAt, Able
<1>2. NamedAt(ps, name, filter) \in SUBSET Nat
  BY DEF NamedAt, Able
<1>3. NamedAt(ps, name, filter) # {} => Min(NamedAt(ps, name, filter)) \in NamedAt(ps, name, filter)
  BY <1>2, FirstIsThere
<1> QED
  BY <1>1, <1>3

\* What is detected was registered, and offers the type it is bound to.
LEMMA DetectFinds ==
  ASSUME NEW ps, NEW name, NEW model, NEW filter, ps \in Seq(Customs),
         NEW p \in Detect(ps, name, model, filter)
  PROVE  \E i \in Able(ps, filter) : /\ p = Bind(ps[i], filter)
                                     /\ ps[i].name = name \/ model \in ps[i].models
<1>1. CASE NamedAt(ps, name, filter) # {}
  BY <1>1, DetectAt DEF NamedAt
<1>2. CASE NamedAt(ps, name, filter) = {}
  BY <1>2, DetectAt DEF ServingAt
<1> QED
  BY <1>1, <1>2

\* Where nothing is detected, nothing of that name or model offers the type.
LEMMA NothingDetected ==
  ASSUME NEW ps, NEW name, NEW model, NEW filter, ps \in Seq(Customs),
         Detect(ps, name, model, filter) = {}, NEW i \in Able(ps, filter)
  PROVE  ps[i].name # name /\ model \notin ps[i].models
<1>1. NamedAt(ps, name, filter) = {} /\ ServingAt(ps, model, filter) = {}
  <2>1. NamedAt(ps, name, filter) # {} => Detect(ps, name, model, filter) # {}
    BY DetectAt
  <2>2. NamedAt(ps, name, filter) = {} /\ ServingAt(ps, model, filter) # {}
          => Detect(ps, name, model, filter) # {}
    BY DetectAt
  <2> QED
    BY <2>1, <2>2
<1> QED
  BY <1>1 DEF NamedAt, ServingAt

\* The same providers are able, named and serving in a list told backwards.
LEMMA Backwards ==
  ASSUME NEW ps \in Seq(Customs), NEW filter, NEW i \in Able(Reverse(ps), filter)
  PROVE  \E j \in Able(ps, filter) : ps[j] = Reverse(ps)[i]
<1>1. /\ Len(ps) \in Nat /\ DOMAIN ps = 1..Len(ps)
      /\ Reverse(ps) = [k \in 1..Len(ps) |-> ps[(Len(ps) - k) + 1]]
  BY DEF Reverse
<1>2. i \in 1..Len(ps) /\ (filter = "any" \/ filter \in Range(Effective(Reverse(ps)[i])))
  BY <1>1 DEF Able
<1>3. (Len(ps) - i) + 1 \in 1..Len(ps) /\ ps[(Len(ps) - i) + 1] = Reverse(ps)[i]
  BY <1>1, <1>2
<1> QED
  BY <1>1, <1>2, <1>3 DEF Able

\* A sequence told backwards twice is itself.
LEMMA ReverseIs ==
  ASSUME NEW ps \in Seq(Customs)
  PROVE  /\ Reverse(ps) \in Seq(Customs)
         /\ Reverse(Reverse(ps)) = ps
         /\ Len(Reverse(ps)) = Len(ps)
<1> DEFINE n == Len(ps)
<1>1. n \in Nat /\ DOMAIN ps = 1..n /\ ps = [k \in 1..n |-> ps[k]]
  OBVIOUS
<1>2. Reverse(ps) = [k \in 1..n |-> ps[(n - k) + 1]]
  BY DEF Reverse
<1>3. Reverse(ps) \in Seq(Customs) /\ Len(Reverse(ps)) = n
  <2>1. \A k \in 1..n : ps[(n - k) + 1] \in Customs
    BY <1>1
  <2>2. [k \in 1..n |-> ps[(n - k) + 1]] \in [1..n -> Customs]
    BY <2>1
  <2>3. \A h \in [1..n -> Customs] : h \in Seq(Customs) /\ Len(h) = n
    BY <1>1
  <2> QED
    BY <1>2, <2>2, <2>3
<1>4. Reverse(Reverse(ps)) = [k \in 1..n |-> Reverse(ps)[(n - k) + 1]]
  BY <1>3 DEF Reverse
<1>5. \A k \in 1..n : (n - k) + 1 \in 1..n /\ (n - ((n - k) + 1)) + 1 = k
  BY <1>1
<1>6. \A k \in 1..n : Reverse(ps)[(n - k) + 1] = ps[k]
  BY <1>2, <1>5
<1>7. Reverse(Reverse(ps)) = [k \in 1..n |-> ps[k]]
  BY <1>4, <1>6
<1> QED
  BY <1>1, <1>3, <1>7

\* Names that differ are found whatever the order.
LEMMA AnyOrder ==
  ASSUME NEW ps, NamesDiffer(ps), NEW name, NEW model, NEW filter
  PROVE  Detect(ps, name, model, filter) = Detect(Reverse(ps), name, model, filter)
<1> DEFINE rs == Reverse(ps)
<1>1. ps \in Seq(Customs) /\ rs \in Seq(Customs) /\ Reverse(rs) = ps
  BY ReverseIs DEF NamesDiffer
<1>2. \A i \in Able(rs, filter) : \E j \in Able(ps, filter) : ps[j] = rs[i]
  BY <1>1, Backwards
<1>3. \A i \in Able(ps, filter) : \E j \in Able(rs, filter) : rs[j] = ps[i]
  BY <1>1, Backwards
<1>4. \A i, j \in Able(ps, filter) : ps[i].name = ps[j].name => i = j
  BY <1>1 DEF Able, NamesDiffer
<1> HIDE DEF rs
<1>5. CASE NamedAt(ps, name, filter) # {}
  <2>1. PICK i \in NamedAt(ps, name, filter) : Detect(ps, name, model, filter) = {Bind(ps[i], filter)}
    BY <1>1, <1>5, DetectAt
  <2>2. NamedAt(rs, name, filter) # {}
    BY <2>1, <1>3 DEF NamedAt
  <2>3. PICK j \in NamedAt(rs, name, filter) : Detect(rs, name, model, filter) = {Bind(rs[j], filter)}
    BY <1>1, <2>2, DetectAt
  <2>4. PICK k \in Able(ps, filter) : ps[k] = rs[j]
    BY <1>2, <2>3 DEF NamedAt
  <2>5. k = i
    BY <1>4, <2>1, <2>3, <2>4 DEF NamedAt
  <2> QED
    BY <2>1, <2>3, <2>4, <2>5 DEF rs
<1>6. CASE NamedAt(ps, name, filter) = {}
  <2>1. NamedAt(rs, name, filter) = {}
    BY <1>2, <1>6 DEF NamedAt
  <2>2. Detect(ps, name, model, filter) = {Bind(ps[i], filter) : i \in ServingAt(ps, model, filter)}
    BY <1>1, <1>6, DetectAt
  <2>3. Detect(rs, name, model, filter) = {Bind(rs[i], filter) : i \in ServingAt(rs, model, filter)}
    BY <1>1, <2>1, DetectAt
  <2>4. \A i \in ServingAt(rs, model, filter) : \E j \in ServingAt(ps, model, filter) : ps[j] = rs[i]
    BY <1>2 DEF ServingAt
  <2>5. \A i \in ServingAt(ps, model, filter) : \E j \in ServingAt(rs, model, filter) : rs[j] = ps[i]
    BY <1>3 DEF ServingAt
  <2>6. {Bind(ps[i], filter) : i \in ServingAt(ps, model, filter)}
          = {Bind(rs[i], filter) : i \in ServingAt(rs, model, filter)}
    BY <2>4, <2>5
  <2> QED
    BY <2>2, <2>3, <2>6 DEF rs
<1> QED
  BY <1>5, <1>6

-----------------------------------------------------------------------------
\* A configuration takes the place of the one of its name, or comes last.
LEMMA RegisteredDiffer ==
  ASSUME NEW ps, NamesDiffer(ps), NEW c \in Customs
  PROVE  NamesDiffer(Registered(c, ps))
<1>1. /\ ps \in Seq(Customs) /\ Len(ps) \in Nat /\ DOMAIN ps = 1..Len(ps)
      /\ \A i, j \in 1..Len(ps) : ps[i].name = ps[j].name => i = j
  BY DEF NamesDiffer
<1>2. CASE \E i \in DOMAIN ps : ps[i].name = c.name
  <2> DEFINE put == [i \in 1..Len(ps) |-> IF ps[i].name = c.name THEN c ELSE ps[i]]
  <2>1. Registered(c, ps) = put
    BY <1>1, <1>2 DEF Registered
  <2>2. put \in [1..Len(ps) -> Customs] /\ \A i \in 1..Len(ps) : put[i].name = ps[i].name
    BY <1>1
  <2> HIDE DEF put
  <2>3. put \in Seq(Customs) /\ Len(put) = Len(ps)
    BY <1>1, <2>2
  <2> QED
    BY <1>1, <2>1, <2>2, <2>3 DEF NamesDiffer
<1>3. CASE ~\E i \in DOMAIN ps : ps[i].name = c.name
  <2> DEFINE put == Append(ps, c)
  <2>1. Registered(c, ps) = put
    BY <1>3 DEF Registered
  <2>2. /\ put \in Seq(Customs) /\ Len(put) = Len(ps) + 1 /\ put[Len(ps) + 1] = c
        /\ \A i \in 1..Len(ps) : put[i] = ps[i]
    BY <1>1
  <2>3. ASSUME NEW i \in 1..Len(put), NEW j \in 1..Len(put), put[i].name = put[j].name
        PROVE  i = j
    <3>1. i \in 1..Len(ps) \/ i = Len(ps) + 1
      BY <1>1, <2>2
    <3>2. j \in 1..Len(ps) \/ j = Len(ps) + 1
      BY <1>1, <2>2
    <3> HIDE DEF put
    <3> QED
      BY <1>1, <1>3, <2>2, <2>3, <3>1, <3>2
  <2> HIDE DEF put
  <2> QED
    BY <2>1, <2>2, <2>3 DEF NamesDiffer
<1> QED
  BY <1>2, <1>3

\* Those that are left still differ in their names.
LEMMA RemovedDiffer ==
  ASSUME NEW ps, NamesDiffer(ps), NEW i \in DOMAIN ps
  PROVE  NamesDiffer(RemoveAt(ps, i))
<1>1. /\ ps \in Seq(Customs) /\ Len(ps) \in Nat /\ i \in 1..Len(ps)
      /\ \A j, k \in 1..Len(ps) : ps[j].name = ps[k].name => j = k
  BY DEF NamesDiffer
<1> DEFINE left == RemoveAt(ps, i)
<1>2. /\ left \in Seq(Customs) /\ Len(left) = Len(ps) - 1
      /\ \A j \in 1..Len(left) : left[j] = IF j < i THEN ps[j] ELSE ps[j + 1]
  <2> DEFINE before == SubSeq(ps, 1, i - 1)
             after == SubSeq(ps, i + 1, Len(ps))
  <2>1. /\ before \in Seq(Customs) /\ Len(before) = i - 1
        /\ \A j \in 1..(i - 1) : before[j] = ps[j]
    BY <1>1
  <2>2. /\ after \in Seq(Customs) /\ Len(after) = Len(ps) - i
        /\ \A j \in 1..(Len(ps) - i) : after[j] = ps[i + j]
    BY <1>1
  <2>3. left = before \o after
    BY DEF RemoveAt
  <2> HIDE DEF before, after, left
  <2>4. /\ left \in Seq(Customs) /\ Len(left) = Len(before) + Len(after)
        /\ \A j \in 1..Len(left) : left[j] = IF j <= Len(before) THEN before[j] ELSE after[j - Len(before)]
    <3>1. \A s, t \in Seq(Customs) :
             /\ s \o t \in Seq(Customs) /\ Len(s \o t) = Len(s) + Len(t)
             /\ \A j \in 1..(Len(s) + Len(t)) :
                   (s \o t)[j] = IF j <= Len(s) THEN s[j] ELSE t[j - Len(s)]
      OBVIOUS
    <3>2. /\ before \o after \in Seq(Customs) /\ Len(before \o after) = Len(before) + Len(after)
          /\ \A j \in 1..(Len(before) + Len(after)) :
                (before \o after)[j] = IF j <= Len(before) THEN before[j] ELSE after[j - Len(before)]
      BY <2>1, <2>2, <3>1, Zenon
    <3> QED
      BY <2>3, <3>2, Zenon
  <2>5. Len(left) = Len(ps) - 1
    BY <1>1, <2>1, <2>2, <2>4
  <2>6. ASSUME NEW j \in 1..Len(left)
        PROVE  left[j] = IF j < i THEN ps[j] ELSE ps[j + 1]
    <3>1. CASE j < i
      BY <1>1, <2>1, <2>2, <2>4, <2>5, <3>1
    <3>2. CASE j >= i
      <4>1. left[j] = after[j - (i - 1)]
        BY <1>1, <2>1, <2>4, <3>2
      <4>2. j - (i - 1) \in 1..(Len(ps) - i) /\ i + (j - (i - 1)) = j + 1
        BY <1>1, <2>5, <3>2
      <4> QED
        BY <1>1, <2>2, <3>2, <4>1, <4>2
    <3> QED
      BY <1>1, <2>5, <3>1, <3>2
  <2> QED
    BY <2>4, <2>5, <2>6
<1> HIDE DEF left
<1>3. ASSUME NEW j \in 1..Len(left), NEW k \in 1..Len(left), left[j].name = left[k].name
      PROVE  j = k
  <2> DEFINE At(h) == IF h < i THEN h ELSE h + 1
  <2>1. At(j) \in 1..Len(ps) /\ At(k) \in 1..Len(ps) /\ left[j] = ps[At(j)] /\ left[k] = ps[At(k)]
    BY <1>1, <1>2
  <2>2. At(j) = At(k)
    <3> HIDE DEF At
    <3> QED
      BY <1>1, <1>3, <2>1
  <2> QED
    BY <1>1, <1>2, <2>2
<1> QED
  BY <1>2, <1>3 DEF NamesDiffer, left

\* Changes around the clients leave them as they are, and outdate their second look.
LEMMA RestKeeps ==
  ASSUME RegInv, NEW now \in Nat, NEW snapshot, NEW fetch, NEW customs, NEW edits \in Nat, NEW policy,
         NEW turns \in Nat, reg' = RegOf(now, snapshot, fetch, customs, edits, policy, turns, reg.client),
         FetchesFit(snapshot, fetch), NamesDiffer(customs),
         edits > reg.edits \/ (edits = reg.edits /\ customs = reg.customs),
         turns > reg.turns \/ (turns = reg.turns /\ policy = reg.policy)
  PROVE  /\ RegInv'
         /\ reg'.client = reg.client /\ reg'.fetch = fetch /\ reg'.snapshot = snapshot
<1>1. /\ reg'.now = now /\ reg'.snapshot = snapshot /\ reg'.fetch = fetch /\ reg'.customs = customs
      /\ reg'.edits = edits /\ reg'.policy = policy /\ reg'.turns = turns /\ reg'.client = reg.client
  BY DEF RegOf
<1>2. reg' = RegOf(reg'.now, reg'.snapshot, reg'.fetch, reg'.customs, reg'.edits, reg'.policy, reg'.turns, reg'.client)
  BY <1>1
<1>3. reg.edits \in Nat /\ reg.turns \in Nat /\ reg.client = [b \in Builders |-> reg.client[b]]
  BY DEF RegInv
<1>4. ASSUME NEW b \in Builders
      PROVE  ClientFits(reg.client[b], customs, edits, policy, turns)
  <2>1. ClientFits(reg.client[b], reg.customs, reg.edits, reg.policy, reg.turns)
    BY DEF RegInv
  <2>2. ASSUME NEW k, LooksAgain(k, reg.customs, reg.edits)
        PROVE  LooksAgain(k, customs, edits)
    <3>1. k.seen \in Nat /\ k.seen <= reg.edits
      BY <2>2 DEF LooksAgain
    <3>2. CASE edits > reg.edits
      <4>1. k.seen <= edits /\ k.seen # edits
        BY <1>3, <3>1, <3>2
      <4> QED
        BY <2>2, <3>1, <4>1 DEF LooksAgain
    <3>3. CASE edits = reg.edits /\ customs = reg.customs
      BY <2>2, <3>3
    <3> QED
      BY <3>2, <3>3
  <2>3. ASSUME NEW lookup, NEW guarded, Copied(lookup, guarded, reg.policy, reg.turns)
        PROVE  Copied(lookup, guarded, policy, turns)
    <3>1. \A l \in lookup : l.turn \in Nat /\ l.turn <= reg.turns
      BY <2>3 DEF Copied
    <3>2. CASE turns > reg.turns
      <4>1. \A l \in lookup : l.turn <= turns /\ l.turn # turns
        BY <1>3, <3>1, <3>2
      <4> QED
        BY <3>1, <4>1 DEF Copied
    <3>3. CASE turns = reg.turns /\ policy = reg.policy
      BY <2>3, <3>3
    <3> QED
      BY <3>2, <3>3
  <2> QED
    BY <2>1, <2>2, <2>3 DEF ClientFits
<1> QED
  BY <1>1, <1>2, <1>3, <1>4 DEF RegInv

\* One client moves on, everything else stays.
LEMMA ClientMoves ==
  ASSUME RegInv, NEW b \in Builders, NEW k, reg' = [reg EXCEPT !.client[b] = k],
         ClientFits(k, reg.customs, reg.edits, reg.policy, reg.turns)
  PROVE  /\ RegInv'
         /\ reg'.fetch = reg.fetch /\ reg'.client[b] = k
         /\ \A c \in Builders \ {b} : reg'.client[c] = reg.client[c]
<1> DEFINE clients == [reg.client EXCEPT ![b] = k]
<1>1. /\ reg = RegOf(reg.now, reg.snapshot, reg.fetch, reg.customs, reg.edits, reg.policy, reg.turns, reg.client)
      /\ reg.client = [c \in Builders |-> reg.client[c]]
      /\ \A c \in Builders : ClientFits(reg.client[c], reg.customs, reg.edits, reg.policy, reg.turns)
      /\ reg.now \in Nat /\ reg.edits \in Nat /\ reg.turns \in Nat
      /\ FetchesFit(reg.snapshot, reg.fetch) /\ NamesDiffer(reg.customs)
  BY DEF RegInv
<1>2. /\ clients = [c \in Builders |-> clients[c]] /\ clients[b] = k
      /\ \A c \in Builders \ {b} : clients[c] = reg.client[c]
  BY <1>1
<1>3. reg' = [reg EXCEPT !.client = clients]
  OBVIOUS
<1> HIDE DEF clients
<1>4. reg' = RegOf(reg.now, reg.snapshot, reg.fetch, reg.customs, reg.edits, reg.policy, reg.turns, clients)
  BY <1>1, <1>3 DEF RegOf
<1>5. /\ reg'.now = reg.now /\ reg'.snapshot = reg.snapshot /\ reg'.fetch = reg.fetch
      /\ reg'.customs = reg.customs /\ reg'.edits = reg.edits /\ reg'.policy = reg.policy /\ reg'.turns = reg.turns
      /\ reg'.client = clients
  BY <1>4 DEF RegOf
<1>6. \A c \in Builders : ClientFits(clients[c], reg.customs, reg.edits, reg.policy, reg.turns)
  BY <1>1, <1>2
<1>7. reg' = RegOf(reg'.now, reg'.snapshot, reg'.fetch, reg'.customs, reg'.edits, reg'.policy, reg'.turns, reg'.client)
  BY <1>4, <1>5
<1> QED
  BY <1>1, <1>2, <1>5, <1>6, <1>7 DEF RegInv

\* Where no task ends its fetch and no client moves on, nothing steps back.
LEMMA AtRest ==
  ASSUME \A f \in Fetchers : reg.fetch[f].phase = "fetched" => reg'.fetch[f].phase # "idle",
         reg'.client = reg.client
  PROVE  SteppedForward
BY DEF SteppedForward, Reaches

\* The clock, the policy and the custom providers.
LEMMA EditsKeep ==
  RegInv /\ (Tick \/ Clear \/ (\E p \in Policies : SetPolicy(p))
             \/ \E c \in Customs : Register(c) \/ Unregister(c.name))
    => RegInv' /\ SteppedForward
<1> SUFFICES ASSUME RegInv,
                    Tick \/ Clear \/ (\E p \in Policies : SetPolicy(p))
                      \/ \E c \in Customs : Register(c) \/ Unregister(c.name)
             PROVE  RegInv' /\ SteppedForward
  OBVIOUS
<1>1. /\ reg = RegOf(reg.now, reg.snapshot, reg.fetch, reg.customs, reg.edits, reg.policy, reg.turns, reg.client)
      /\ reg.now \in Nat /\ reg.edits \in Nat /\ reg.turns \in Nat
      /\ FetchesFit(reg.snapshot, reg.fetch) /\ NamesDiffer(reg.customs)
  BY DEF RegInv
<1>2. ASSUME NEW now \in Nat, NEW customs, NEW edits \in Nat, NEW policy, NEW turns \in Nat,
             NamesDiffer(customs),
             reg' = RegOf(now, reg.snapshot, reg.fetch, customs, edits, policy, turns, reg.client),
             edits > reg.edits \/ (edits = reg.edits /\ customs = reg.customs),
             turns > reg.turns \/ (turns = reg.turns /\ policy = reg.policy)
      PROVE  RegInv' /\ SteppedForward
  <2>1. RegInv' /\ reg'.client = reg.client /\ reg'.fetch = reg.fetch
    BY <1>1, <1>2, RestKeeps
  <2> QED
    BY <2>1, AtRest
<1>3. /\ reg.edits + 1 \in Nat /\ reg.edits + 1 > reg.edits /\ reg.now + 1 \in Nat
      /\ reg.turns + 1 \in Nat /\ reg.turns + 1 > reg.turns
  BY <1>1
<1>4. CASE Tick
  <2>1. reg' = RegOf(reg.now + 1, reg.snapshot, reg.fetch, reg.customs, reg.edits, reg.policy, reg.turns, reg.client)
    BY <1>1, <1>4 DEF Tick, RegOf
  <2> QED
    BY <1>1, <1>2, <1>3, <2>1
<1>5. ASSUME NEW customs, NamesDiffer(customs),
             reg' = [reg EXCEPT !.customs = customs, !.edits = reg.edits + 1]
      PROVE  RegInv' /\ SteppedForward
  <2>1. reg' = RegOf(reg.now, reg.snapshot, reg.fetch, customs, reg.edits + 1, reg.policy, reg.turns,
                     reg.client)
    BY <1>1, <1>5 DEF RegOf
  <2> QED
    BY <1>1, <1>2, <1>3, <1>5, <2>1
<1>6. CASE Clear
  <2>1. NamesDiffer(<<>>)
    BY DEF NamesDiffer
  <2>2. reg' = [reg EXCEPT !.customs = <<>>, !.edits = reg.edits + 1]
    BY <1>1, <1>6 DEF Clear, RegOf
  <2> QED
    BY <1>5, <2>1, <2>2
<1>7. ASSUME NEW p \in Policies, SetPolicy(p)
      PROVE  RegInv' /\ SteppedForward
  <2>1. reg' = RegOf(reg.now, reg.snapshot, reg.fetch, reg.customs, reg.edits, p, reg.turns + 1, reg.client)
    BY <1>1, <1>7 DEF SetPolicy, RegOf
  <2> QED
    BY <1>1, <1>2, <1>3, <2>1
<1>8. ASSUME NEW c \in Customs, Register(c)
      PROVE  RegInv' /\ SteppedForward
  <2> DEFINE customs == Registered(c, reg.customs)
  <2>1. NamesDiffer(customs)
    BY <1>1, RegisteredDiffer
  <2>2. reg' = [reg EXCEPT !.customs = customs, !.edits = reg.edits + 1]
    BY <1>8 DEF Register
  <2> HIDE DEF customs
  <2> QED
    BY <1>5, <2>1, <2>2
<1>9. ASSUME NEW c \in Customs, Unregister(c.name)
      PROVE  RegInv' /\ SteppedForward
  <2>1. PICK i \in DOMAIN reg.customs :
               reg' = [reg EXCEPT !.customs = RemoveAt(@, i), !.edits = @ + 1]
    BY <1>9 DEF Unregister
  <2> DEFINE customs == RemoveAt(reg.customs, i)
  <2>2. NamesDiffer(customs)
    BY <1>1, RemovedDiffer
  <2>3. reg' = [reg EXCEPT !.customs = customs, !.edits = reg.edits + 1]
    BY <2>1
  <2> HIDE DEF customs
  <2> QED
    BY <1>5, <2>2, <2>3
<1> QED
  BY <1>4, <1>6, <1>7, <1>8, <1>9

\* What is put into the registry is never older than what registry() finds there.
LEMMA FetchesKeep ==
  ASSUME RegInv, NEW f \in Fetchers, NEW op \in {"registry", "refresh"},
         BeginFetch(f, op) \/ Fetched(f) \/ FetchFails(f) \/ Install(f)
  PROVE  RegInv' /\ SteppedForward
<1>1. /\ reg = RegOf(reg.now, reg.snapshot, reg.fetch, reg.customs, reg.edits, reg.policy, reg.turns, reg.client)
      /\ reg.now \in Nat /\ reg.edits \in Nat /\ reg.turns \in Nat
      /\ FetchesFit(reg.snapshot, reg.fetch) /\ NamesDiffer(reg.customs)
  BY DEF RegInv
<1>2. /\ reg.fetch = [g \in Fetchers |-> reg.fetch[g]]
      /\ \A g \in Fetchers : reg.fetch[g].phase = "fetched" => reg.fetch[g].at \in Nat
      /\ \A s \in reg.snapshot : s \in Nat
      /\ \A s, t \in reg.snapshot : s = t
  BY <1>1 DEF FetchesFit
<1>3. ASSUME NEW snapshot, NEW next,
             reg' = RegOf(reg.now, snapshot, [reg.fetch EXCEPT ![f] = next], reg.customs, reg.edits,
                          reg.policy, reg.turns, reg.client),
             next.phase = "fetched" => next.at \in Nat,
             \A s \in snapshot : s \in Nat, \A s, t \in snapshot : s = t
      PROVE  /\ RegInv' /\ reg'.client = reg.client
             /\ reg'.fetch[f] = next /\ reg'.snapshot = snapshot
             /\ \A g \in Fetchers \ {f} : reg'.fetch[g] = reg.fetch[g]
  <2> DEFINE fetch == [reg.fetch EXCEPT ![f] = next]
  <2>1. /\ fetch = [g \in Fetchers |-> fetch[g]] /\ fetch[f] = next
        /\ \A g \in Fetchers \ {f} : fetch[g] = reg.fetch[g]
    BY <1>2
  <2>3. reg' = RegOf(reg.now, snapshot, fetch, reg.customs, reg.edits, reg.policy, reg.turns, reg.client)
    BY <1>3
  <2> HIDE DEF fetch
  <2>4. FetchesFit(snapshot, fetch)
    BY <1>2, <1>3, <2>1 DEF FetchesFit
  <2>5. RegInv' /\ reg'.client = reg.client /\ reg'.fetch = fetch /\ reg'.snapshot = snapshot
    BY <1>1, <2>3, <2>4, RestKeeps
  <2> QED
    BY <2>1, <2>5
<1>4. ASSUME NEW next, reg' = [reg EXCEPT !.fetch[f] = next],
             next.phase = "fetched" => next.at \in Nat,
             reg.fetch[f].phase = "fetched" => next.phase # "idle"
      PROVE  RegInv' /\ SteppedForward
  <2>1. reg' = RegOf(reg.now, reg.snapshot, [reg.fetch EXCEPT ![f] = next], reg.customs, reg.edits,
                     reg.policy, reg.turns, reg.client)
    BY <1>1, <1>4 DEF RegOf
  <2>2. /\ RegInv' /\ reg'.client = reg.client
        /\ reg'.fetch[f] = next
        /\ \A g \in Fetchers \ {f} : reg'.fetch[g] = reg.fetch[g]
    BY <1>2, <1>3, <1>4, <2>1
  <2>3. \A g \in Fetchers : reg.fetch[g].phase = "fetched" => reg'.fetch[g].phase # "idle"
    BY <1>4, <2>2
  <2> QED
    BY <2>2, <2>3, AtRest
<1>5. CASE BeginFetch(f, op)
  <2> DEFINE next == [phase |-> "asking", op |-> op]
  <2>1. reg' = [reg EXCEPT !.fetch[f] = next] /\ next.phase = "asking"
    BY <1>5 DEF BeginFetch
  <2> QED
    BY <1>4, <2>1
<1>6. CASE Fetched(f)
  <2> DEFINE next == [phase |-> "fetched", op |-> reg.fetch[f].op, at |-> reg.now]
  <2>1. reg' = [reg EXCEPT !.fetch[f] = next] /\ next.phase = "fetched" /\ next.at = reg.now
    BY <1>6 DEF Fetched
  <2> QED
    BY <1>1, <1>4, <2>1
<1>7. CASE FetchFails(f)
  <2> DEFINE next == [phase |-> "idle"]
  <2>1. reg' = [reg EXCEPT !.fetch[f] = next] /\ next.phase = "idle" /\ reg.fetch[f].phase = "asking"
    BY <1>7 DEF FetchFails
  <2> QED
    BY <1>4, <2>1
<1>8. CASE Install(f)
  <2> DEFINE next == [phase |-> "idle"]
             snapshot == Newest(reg.fetch[f].op, reg.fetch[f].at, reg.snapshot)
  <2>1. reg.fetch[f].phase = "fetched" /\ reg.fetch[f].at \in Nat
    BY <1>2, <1>8 DEF Install
  <2> DEFINE fetch == [reg.fetch EXCEPT ![f] = next]
  <2>6. reg' = [reg EXCEPT !.snapshot = snapshot, !.fetch = fetch] /\ next.phase = "idle"
    BY <1>8 DEF Install
  <2>2. reg' = RegOf(reg.now, snapshot, fetch, reg.customs, reg.edits, reg.policy, reg.turns, reg.client)
    <3> HIDE DEF snapshot, fetch, next
    <3> QED
      BY <1>1, <2>6 DEF RegOf
  <2>3. (\A s \in snapshot : s \in Nat) /\ \A s, t \in snapshot : s = t
    BY <1>2, <2>1 DEF Newest
  <2>4. reg.fetch[f].op = "registry" => \A s \in reg.snapshot, t \in snapshot : s <= t
    BY <1>2, <2>1 DEF Newest
  <2> HIDE DEF snapshot, next
  <2>5. /\ RegInv' /\ reg'.client = reg.client /\ reg'.snapshot = snapshot
        /\ \A g \in Fetchers \ {f} : reg'.fetch[g] = reg.fetch[g]
    BY <1>3, <2>2, <2>3, <2>6
  <2> QED
    BY <2>4, <2>5 DEF SteppedForward, Reaches
<1> QED
  BY <1>5, <1>6, <1>7, <1>8

-----------------------------------------------------------------------------
\* A provider instance that speaks the type asked for.
Speaks(p, type) ==
  /\ p = Instance(p.kind, p.name, p.url, p.type, p.offers, p.codecs)
  /\ type # "none" => p.type = type /\ type \in p.codecs

\* Client::new on a provider that speaks the type yields a client bound to it.
LEMMA BuiltFits ==
  ASSUME NEW b, NEW r, NEW p,
         r.name # "none" => Speaks(p, r.type), Speaks(p, "none")
  PROVE  LET k == Built(b, r, p)
         IN  /\ k.request = r
             /\ k.phase \in {"built", "failed"}
             /\ k.phase = "built" => Bound(k) /\ k.lookup = {} /\ ~k.reached
<1> DEFINE named == IF r.url = "none" THEN p ELSE [p EXCEPT !.url = r.url]
           guarded == reg.policy # "off"
           failed == [phase |-> "failed", request |-> r]
<1>1. named.type = p.type /\ named.codecs = p.codecs
  BY DEF Speaks, Instance
<1> HIDE DEF named, guarded
<1>2. BuiltOf(r, named, guarded, FALSE, {}, FALSE).phase = "built" /\ failed.phase = "failed" /\ failed.request = r
  BY DEF BuiltOf
<1>3. LET k == BuiltOf(r, named, guarded, FALSE, {}, FALSE)
      IN  k.request = r /\ k.provider = named /\ k.guarded = guarded /\ k.overlapped = FALSE /\ k.lookup = {}
          /\ k.reached = FALSE
  BY DEF BuiltOf
<1>4. Bound(BuiltOf(r, named, guarded, FALSE, {}, FALSE))
  BY <1>1, <1>3 DEF Bound, Speaks
<1>5. Built(b, r, p) = BuiltOf(r, named, guarded, FALSE, {}, FALSE) \/ Built(b, r, p) = failed
  BY DEF Built, BuiltOf, named, guarded
<1> HIDE DEF failed
<1> QED
  BY <1>2, <1>3, <1>4, <1>5

\* Where every provider found speaks the type, the client is built of one that does.
LEMMA ResolvedKeeps ==
  ASSUME RegInv, NEW b \in Builders, NEW r, NEW found,
         reg.client[b].phase = "unbuilt",
         Resolved(b, r, found),
         \A p \in found : Speaks(p, "none") /\ (r.name # "none" => Speaks(p, r.type))
  PROVE  RegInv' /\ SteppedForward
<1> DEFINE failed == [phase |-> "failed", request |-> r]
           k == IF found = {} THEN failed ELSE Built(b, r, CHOOSE p \in found : TRUE)
<1>1. reg' = [reg EXCEPT !.client[b] = k]
  BY DEF Resolved
<1>2. k.phase \in {"built", "failed"} /\ (k.phase = "built" => Bound(k) /\ k.lookup = {} /\ ~k.reached)
  <2>1. CASE found = {}
    BY <2>1
  <2>2. CASE found # {}
    <3>1. (CHOOSE p \in found : TRUE) \in found
      BY <2>2
    <3> DEFINE p == CHOOSE q \in found : TRUE
    <3>2. Speaks(p, "none") /\ (r.name # "none" => Speaks(p, r.type))
      BY <3>1
    <3>3. k = Built(b, r, p)
      BY <2>2
    <3> HIDE DEF p, k
    <3> QED
      BY <3>2, <3>3, BuiltFits
  <2> QED
    BY <2>1, <2>2
<1> HIDE DEF k
<1>3. ClientFits(k, reg.customs, reg.edits, reg.policy, reg.turns)
  BY <1>2 DEF ClientFits, Copied
<1>4. /\ RegInv' /\ reg'.fetch = reg.fetch /\ reg'.client[b] = k
      /\ \A c \in Builders \ {b} : reg'.client[c] = reg.client[c]
  BY <1>1, <1>3, ClientMoves
<1>5. \A c \in Builders : ~Reaches(c)
  BY <1>2, <1>4 DEF Reaches
<1> QED
  BY <1>4, <1>5 DEF SteppedForward

\* Whatever is bound is a provider instance.
LEMMA BindSpeaks ==
  ASSUME NEW c, NEW filter
  PROVE  /\ Speaks(Bind(c, filter), "none")
         /\ Bind(c, filter).offers = Range(Effective(c)) /\ Bind(c, filter).codecs = Range(Effective(c))
         /\ filter # "any" => Bind(c, filter).type = filter
<1> DEFINE type == IF filter = "any" THEN DefaultType(c) ELSE filter
           offers == Range(Effective(c))
<1>1. Bind(c, filter) = Instance("custom", c.name, c.url, type, offers, offers)
  BY DEF Bind
<1>2. filter # "any" => type = filter
  OBVIOUS
<1> HIDE DEF type, offers
<1> QED
  BY <1>1, <1>2 DEF Speaks, Instance, offers

\* So are the built-in ones, and each offers the one type it has a codec for,
\* but for OpenAI, which has two.
LEMMA BuiltinsSpeak ==
  /\ \A type : Speaks(OpenAI(type), type) /\ Speaks(OpenAI(type), "none")
  /\ \A p \in {AnthropicNative, AnthropicChat, Bedrock} \cup {Listed(name) : name \in {"listed"}} :
        /\ Speaks(p, "none")
        /\ p.offers = {p.type} /\ p.codecs = {p.type}
  /\ AnthropicNative.type = "AnthropicMessages" /\ AnthropicChat.type = ChatType
BY DEF OpenAI, AnthropicNative, AnthropicChat, Bedrock, Listed, Speaks, Instance

\* What get_provider finds is an instance, and speaks what it offers unless it is
\* a custom provider or has a name of its own.
LEMMA GetProviderSpeaks ==
  ASSUME NamesDiffer(reg.customs), NEW name, NEW p \in GetProvider(name)
  PROVE  /\ Speaks(p, "none")
         /\ \A type \in ApiTypes :
              type \in p.offers /\ name \notin {"openai", "anthropic"}
                /\ Detect(reg.customs, name, "", type) = {}
              => Speaks(p, type)
<1> DEFINE custom == Detect(reg.customs, name, "", "any")
<1>1. reg.customs \in Seq(Customs)
  BY DEF NamesDiffer
<1>2. CASE custom # {}
  <2>1. p \in Detect(reg.customs, name, "", "any")
    BY <1>2 DEF GetProvider
  <2>2. PICK i \in Able(reg.customs, "any") :
               /\ p = Bind(reg.customs[i], "any")
               /\ reg.customs[i].name = name \/ "" \in reg.customs[i].models
    BY <1>1, <2>1, DetectFinds
  <2>3. Speaks(p, "none") /\ p.offers = Range(Effective(reg.customs[i]))
    BY <2>2, BindSpeaks
  <2>4. ASSUME NEW type \in ApiTypes, type \in p.offers, Detect(reg.customs, name, "", type) = {}
        PROVE  FALSE
    <3>1. i \in Able(reg.customs, type)
      BY <2>2, <2>3, <2>4 DEF Able
    <3>2. reg.customs[i].name # name /\ "" \notin reg.customs[i].models
      BY <1>1, <2>4, <3>1, NothingDetected
    <3> QED
      BY <2>2, <3>2
  <2> QED
    BY <2>3, <2>4
<1>3. CASE custom = {} /\ name \in {"openai", "anthropic"}
  <2>1. p \in {OpenAI(ChatType), AnthropicNative}
    BY <1>3 DEF GetProvider
  <2> QED
    BY <1>3, <2>1, BuiltinsSpeak
<1>4. CASE custom = {} /\ name \notin {"openai", "anthropic"}
  <2>1. p = Bedrock \/ p = Listed("listed")
    BY <1>4 DEF GetProvider
  <2>2. Speaks(p, "none") /\ p.offers = {p.type} /\ p.codecs = {p.type}
    BY <2>1, BuiltinsSpeak
  <2>3. \A type \in p.offers : Speaks(p, type)
    BY <2>2 DEF Speaks
  <2> QED
    BY <2>2, <2>3
<1> QED
  BY <1>2, <1>3, <1>4

\* The clients.
LEMMA ClientsKeep ==
  ASSUME RegInv, NEW b \in Builders, NEW r \in Requests,
         BuildUnnamed(b, r) \/ BuildNamed(b, r) \/ BuildTyped(b, r)
  PROVE  RegInv' /\ SteppedForward
<1>1. NamesDiffer(reg.customs) /\ reg.customs \in Seq(Customs) /\ reg.edits \in Nat
  BY DEF RegInv, NamesDiffer
<1>2. \A p \in OwnCustom(r) : Speaks(p, "none")
  BY BindSpeaks DEF OwnCustom
<1>3. CASE BuildUnnamed(b, r)
  <2> DEFINE found == CASE r.custom # {} -> OwnCustom(r)
                        [] r.custom = {} /\ r.url # "none" /\ r.type # "none" ->
                              BoundBuiltin("openai", r.type)
                        [] OTHER -> {OpenAI(ChatType)}
  <2>1. reg.client[b].phase = "unbuilt" /\ r.name = "none" /\ Resolved(b, r, found)
    BY <1>3 DEF BuildUnnamed
  <2>2. \A p \in BoundBuiltin("openai", r.type) : Speaks(p, "none")
    BY BuiltinsSpeak DEF BoundBuiltin
  <2>3. \A p \in found : Speaks(p, "none")
    BY <1>2, <2>2, BuiltinsSpeak
  <2> HIDE DEF found
  <2> QED
    BY <2>1, <2>3, ResolvedKeeps
<1>4. CASE BuildNamed(b, r)
  <2> DEFINE found == IF GetProvider(r.name) # {} THEN GetProvider(r.name) ELSE OwnCustom(r)
  <2>1. reg.client[b].phase = "unbuilt" /\ r.type = "none" /\ Resolved(b, r, found)
    BY <1>4 DEF BuildNamed
  <2>2. \A p \in found : Speaks(p, "none")
    BY <1>1, <1>2, GetProviderSpeaks
  <2> HIDE DEF found
  <2> QED
    BY <2>1, <2>2, ResolvedKeeps
<1>5. CASE BuildTyped(b, r)
  <2> DEFINE custom == Detect(reg.customs, r.name, "", r.type)
             found == IF custom # {} THEN custom ELSE BoundBuiltin(r.name, r.type)
             looking == [phase |-> "looking", request |-> r, seen |-> reg.edits]
  <2>1. reg.client[b].phase = "unbuilt" /\ r.name # "none" /\ r.type \in ApiTypes
    BY <1>5, RegistryAssumption DEF BuildTyped
  <2>2. CASE custom = {} /\ r.name \notin {"openai", "anthropic"}
    <3>1. reg' = [reg EXCEPT !.client[b] = looking]
      BY <1>5, <2>2 DEF BuildTyped
    <3>2. looking.phase = "looking" /\ looking.request = r /\ looking.seen = reg.edits
      OBVIOUS
    <3> HIDE DEF looking
    <3>3. LooksAgain(looking, reg.customs, reg.edits)
      <4>1. Detect(reg.customs, looking.request.name, "", looking.request.type) = {}
        BY <2>2, <3>2, Zenon
      <4>2. looking.seen \in Nat /\ looking.seen <= reg.edits
        BY <1>1, <3>2
      <4>3. looking.request.name \notin {"openai", "anthropic"} /\ looking.request.type \in ApiTypes
        BY <2>1, <2>2, <3>2
      <4> QED
        BY <4>1, <4>2, <4>3 DEF LooksAgain
    <3>4. ClientFits(looking, reg.customs, reg.edits, reg.policy, reg.turns)
      BY <3>2, <3>3 DEF ClientFits
    <3>5. /\ RegInv' /\ reg'.fetch = reg.fetch /\ reg'.client[b] = looking
          /\ \A c \in Builders \ {b} : reg'.client[c] = reg.client[c]
      BY <3>1, <3>4, ClientMoves
    <3>6. \A c \in Builders : ~Reaches(c)
      BY <3>2, <3>5 DEF Reaches
    <3> QED
      BY <3>5, <3>6 DEF SteppedForward
  <2>3. CASE ~(custom = {} /\ r.name \notin {"openai", "anthropic"})
    <3>1. Resolved(b, r, found)
      BY <1>5, <2>3 DEF BuildTyped
    <3>2. r.type # "any" /\ r.type # "none"
      BY <2>1 DEF ApiTypes, ChatType
    <3>3. ASSUME NEW p \in custom
          PROVE  Speaks(p, "none") /\ Speaks(p, r.type)
      <4>3. p \in Detect(reg.customs, r.name, "", r.type)
        BY <3>3
      <4>1. PICK i \in Able(reg.customs, r.type) :
                   /\ p = Bind(reg.customs[i], r.type)
                   /\ reg.customs[i].name = r.name \/ "" \in reg.customs[i].models
        <5>1. \A n, m, t : \A q \in Detect(reg.customs, n, m, t) :
                 \E i \in Able(reg.customs, t) : /\ q = Bind(reg.customs[i], t)
                                                 /\ reg.customs[i].name = n \/ m \in reg.customs[i].models
          BY <1>1, DetectFinds
        <5> QED
          BY <4>3, <5>1, Zenon
      <4>2. r.type \in Range(Effective(reg.customs[i]))
        BY <3>2, <4>1 DEF Able
      <4>4. Speaks(p, "none") /\ p.codecs = Range(Effective(reg.customs[i])) /\ p.type = r.type
        BY <3>2, <4>1, BindSpeaks
      <4> QED
        BY <4>2, <4>4 DEF Speaks
    <3>4. ASSUME NEW p \in BoundBuiltin(r.name, r.type)
          PROVE  Speaks(p, "none") /\ Speaks(p, r.type)
      <4>1. CASE p = OpenAI(r.type)
        BY <4>1, BuiltinsSpeak
      <4>2. CASE p \in {AnthropicChat, AnthropicNative} /\ p.type = r.type
        <5>1. Speaks(p, "none") /\ p.codecs = {p.type}
          BY <4>2, BuiltinsSpeak
        <5> QED
          BY <4>2, <5>1 DEF Speaks
      <4>3. p = OpenAI(r.type) \/ (p = AnthropicChat /\ r.type = ChatType)
              \/ (p = AnthropicNative /\ r.type = "AnthropicMessages")
        BY DEF BoundBuiltin
      <4> QED
        BY <4>1, <4>2, <4>3, BuiltinsSpeak
    <3>5. \A p \in found : Speaks(p, "none") /\ Speaks(p, r.type)
      BY <3>3, <3>4
    <3> HIDE DEF found
    <3> QED
      BY <2>1, <3>1, <3>5, ResolvedKeeps
  <2> QED
    BY <2>2, <2>3
<1> QED
  BY <1>3, <1>4, <1>5

\* The second look finds what speaks the type, unless something changed before it.
LEMMA LookAgainKeeps ==
  ASSUME RegInv, NEW b \in Builders, LookAgain(b)
  PROVE  RegInv' /\ SteppedForward
<1> DEFINE r == reg.client[b].request
           found == Offering(GetProvider(r.name), r.type)
           failed == [phase |-> "failed", request |-> r]
           next == IF found = {} THEN failed ELSE Built(b, r, CHOOSE p \in found : TRUE)
           late == reg.client[b].seen # reg.edits
           k == IF next.phase = "built" THEN [next EXCEPT !.overlapped = late] ELSE next
<1>1. reg.client[b].phase = "looking" /\ reg' = [reg EXCEPT !.client[b] = k]
  BY DEF LookAgain
<1>2. LooksAgain(reg.client[b], reg.customs, reg.edits) /\ NamesDiffer(reg.customs)
  BY <1>1 DEF RegInv, ClientFits
<1>3. /\ r.name \notin {"openai", "anthropic"} /\ r.type \in ApiTypes
      /\ late \/ Detect(reg.customs, r.name, "", r.type) = {}
  BY <1>2 DEF LooksAgain
<1> HIDE DEF r, late
<1>4. ASSUME NEW p \in found
      PROVE  Speaks(p, "none") /\ (late \/ Speaks(p, r.type))
  BY <1>2, <1>3, GetProviderSpeaks DEF Offering
<1>5. k.phase \in {"built", "failed"} /\ (k.phase = "built" => Bound(k) /\ k.lookup = {} /\ ~k.reached)
  <2>1. CASE found = {}
    BY <2>1
  <2>2. CASE found # {}
    <3> DEFINE p == CHOOSE q \in found : TRUE
               named == IF r.url = "none" THEN p ELSE [p EXCEPT !.url = r.url]
               guarded == reg.policy # "off"
               built == BuiltOf(r, named, guarded, FALSE, {}, FALSE)
    <3>1. p \in found
      BY <2>2
    <3>2. Speaks(p, "none") /\ (late \/ Speaks(p, r.type))
      BY <1>4, <3>1
    <3>3. next = built \/ next = failed
      BY <2>2 DEF Built, BuiltOf
    <3> HIDE DEF p
    <3>4. named.type = p.type /\ named.codecs = p.codecs
      BY <3>2 DEF Speaks, Instance
    <3> HIDE DEF named, guarded, next
    <3>5. CASE next = failed
      BY <3>5
    <3>6. CASE next = built
      <4>1. k = BuiltOf(r, named, guarded, late, {}, FALSE)
        BY <3>6 DEF BuiltOf
      <4> HIDE DEF k
      <4>2. /\ k.phase = "built" /\ k.request = r /\ k.provider = named /\ k.guarded = guarded
            /\ k.overlapped = late /\ k.lookup = {} /\ k.reached = FALSE
        BY <4>1 DEF BuiltOf
      <4>3. Bound(k)
        BY <1>3, <3>2, <3>4, <4>1, <4>2 DEF Bound, Speaks, late
      <4> QED
        BY <4>2, <4>3
    <3> QED
      BY <3>3, <3>5, <3>6
  <2> QED
    BY <2>1, <2>2
<1> HIDE DEF k
<1>6. ClientFits(k, reg.customs, reg.edits, reg.policy, reg.turns)
  BY <1>5 DEF ClientFits, Copied
<1>7. /\ RegInv' /\ reg'.fetch = reg.fetch /\ reg'.client[b] = k
      /\ \A c \in Builders \ {b} : reg'.client[c] = reg.client[c]
  BY <1>1, <1>6, ClientMoves
<1>8. \A c \in Builders : ~Reaches(c)
  BY <1>5, <1>7 DEF Reaches
<1> QED
  BY <1>7, <1>8 DEF SteppedForward

\* A client that was built goes on to look up and to connect.
LEMMA MovesOn ==
  ASSUME RegInv, NEW b \in Builders, NEW lookup, NEW reached,
         reg.client[b].phase = "built",
         reg' = [reg EXCEPT !.client[b] = [reg.client[b] EXCEPT !.lookup = lookup, !.reached = reached]],
         Copied(lookup, reg.client[b].guarded, reg.policy, reg.turns)
  PROVE  /\ RegInv' /\ reg'.fetch = reg.fetch /\ reg'.client[b].reached = reached
         /\ \A c \in Builders \ {b} : reg'.client[c] = reg.client[c]
<1> DEFINE old == reg.client[b]
           k == BuiltOf(old.request, old.provider, old.guarded, old.overlapped, lookup, reached)
<1>1. Bound(old)
  BY DEF RegInv, ClientFits
<1>2. [old EXCEPT !.lookup = lookup, !.reached = reached] = k
  <2>1. ASSUME NEW q, NEW p, NEW g, NEW o, NEW t, NEW v
        PROVE  /\ [BuiltOf(q, p, g, o, t, v) EXCEPT !.lookup = lookup] = BuiltOf(q, p, g, o, lookup, v)
               /\ [BuiltOf(q, p, g, o, t, v) EXCEPT !.reached = reached] = BuiltOf(q, p, g, o, t, reached)
    BY DEF BuiltOf
  <2>2. old = BuiltOf(old.request, old.provider, old.guarded, old.overlapped, old.lookup, old.reached)
    BY <1>1 DEF Bound
  <2> DEFINE one == [old EXCEPT !.lookup = lookup]
  <2>3. one = BuiltOf(old.request, old.provider, old.guarded, old.overlapped, lookup, old.reached)
    <3> DEFINE q == old.request
               p == old.provider
               g == old.guarded
               o == old.overlapped
               t == old.lookup
               v == old.reached
    <3>1. [BuiltOf(q, p, g, o, t, v) EXCEPT !.lookup = lookup] = BuiltOf(q, p, g, o, lookup, v)
      <4> HIDE DEF q, p, g, o, t, v
      <4> QED
        BY <2>1
    <3> HIDE DEF old
    <3> QED
      BY <2>2, <3>1, Zenon
  <2>4. [one EXCEPT !.reached = reached] = k
    <3> HIDE DEF one, old
    <3> QED
      BY <2>1, <2>3
  <2>5. [old EXCEPT !.lookup = lookup, !.reached = reached] = [one EXCEPT !.reached = reached]
    OBVIOUS
  <2> HIDE DEF one, k
  <2> QED
    BY <2>4, <2>5
<1>3. reg' = [reg EXCEPT !.client[b] = k]
  BY <1>2, Zenon
<1>4. /\ k.phase = "built" /\ k.request = old.request /\ k.provider = old.provider
      /\ k.guarded = old.guarded /\ k.overlapped = old.overlapped /\ k.lookup = lookup /\ k.reached = reached
      /\ k = BuiltOf(k.request, k.provider, k.guarded, k.overlapped, k.lookup, k.reached)
  BY DEF BuiltOf
<1> HIDE DEF k
<1>5. Bound(k) /\ Copied(k.lookup, k.guarded, reg.policy, reg.turns)
  <2>1. Bound(k)
    <3> HIDE DEF old
    <3> QED
      BY <1>1, <1>4 DEF Bound
  <2>2. Copied(k.lookup, k.guarded, reg.policy, reg.turns)
    BY <1>4, Zenon
  <2> QED
    BY <2>1, <2>2
<1>6. ClientFits(k, reg.customs, reg.edits, reg.policy, reg.turns)
  BY <1>4, <1>5 DEF ClientFits
<1>7. /\ RegInv' /\ reg'.fetch = reg.fetch /\ reg'.client[b] = k
      /\ \A c \in Builders \ {b} : reg'.client[c] = reg.client[c]
  BY <1>3, <1>6, ClientMoves
<1> QED
  BY <1>4, <1>7

\* A resolver copies the policy as it is.
LEMMA BeginLookupKeeps ==
  ASSUME RegInv, NEW b \in Builders, BeginLookup(b)
  PROVE  RegInv' /\ SteppedForward
<1> DEFINE k == reg.client[b]
           copy == [policy |-> IF k.guarded THEN reg.policy ELSE "off", turn |-> reg.turns]
<1>1. k.phase = "built" /\ reg' = [reg EXCEPT !.client[b] = [k EXCEPT !.lookup = {copy}, !.reached = FALSE]]
  BY DEF BeginLookup
<1>2. copy.turn = reg.turns /\ (k.guarded => copy.policy = reg.policy)
  OBVIOUS
<1>3. reg.turns \in Nat
  BY DEF RegInv
<1>6. Copied({copy}, k.guarded, reg.policy, reg.turns)
  BY <1>2, <1>3 DEF Copied
<1> DEFINE lookup == {copy}
<1>7. reg' = [reg EXCEPT !.client[b] = [k EXCEPT !.lookup = lookup, !.reached = FALSE]]
  BY <1>1
<1>8. Copied(lookup, k.guarded, reg.policy, reg.turns)
  BY <1>6
<1> HIDE DEF lookup
<1>4. /\ RegInv' /\ reg'.fetch = reg.fetch /\ reg'.client[b].reached = FALSE
      /\ \A c \in Builders \ {b} : reg'.client[c] = reg.client[c]
  BY <1>1, <1>7, <1>8, MovesOn
<1>5. \A c \in Builders : ~Reaches(c)
  BY <1>4 DEF Reaches
<1> QED
  BY <1>4, <1>5 DEF SteppedForward

\* A guarded client that reaches a private address had a copy of no policy.
LEMMA ConnectKeeps ==
  ASSUME RegInv, NEW b \in Builders, Connect(b)
  PROVE  RegInv' /\ SteppedForward
<1> DEFINE k == reg.client[b]
<1>1. PICK l \in k.lookup, answered \in BOOLEAN :
             reg' = [reg EXCEPT !.client[b] =
                        [k EXCEPT !.lookup = {}, !.reached = answered /\ l.policy = "off"]]
  BY DEF Connect
<1>2. k.phase = "built"
  BY DEF Connect
<1>3. k.guarded /\ l.turn = reg.turns => l.policy = reg.policy
  BY <1>1, <1>2 DEF RegInv, ClientFits, Copied
<1> DEFINE reached == answered /\ l.policy = "off"
<1>4. reached => l.policy = "off"
  OBVIOUS
<1>5. reg' = [reg EXCEPT !.client[b] = [k EXCEPT !.lookup = {}, !.reached = reached]]
  BY <1>1
<1> DEFINE none == {}
<1>8. /\ reg' = [reg EXCEPT !.client[b] = [k EXCEPT !.lookup = none, !.reached = reached]]
      /\ Copied(none, k.guarded, reg.policy, reg.turns)
  BY <1>5 DEF Copied
<1> HIDE DEF reached, none
<1>6. /\ RegInv' /\ reg'.fetch = reg.fetch /\ reg'.client[b].reached = reached
      /\ \A c \in Builders \ {b} : reg'.client[c] = reg.client[c]
  BY <1>2, <1>8, MovesOn
<1>7. ASSUME NEW c \in Builders, Reaches(c)
      PROVE  reg.policy = "off" \/ \E lookup \in reg.client[c].lookup : lookup.turn # reg.turns
  <2>1. c = b
    BY <1>6, <1>7 DEF Reaches
  <2>2. k.guarded /\ reached
    BY <1>6, <1>7, <2>1 DEF Reaches
  <2> QED
    BY <1>1, <1>3, <1>4, <2>1, <2>2
<1> QED
  BY <1>6, <1>7 DEF SteppedForward

\* A client that is dropped reaches nothing.
LEMMA DropClientKeeps ==
  ASSUME RegInv, NEW b \in Builders, DropClient(b)
  PROVE  RegInv' /\ SteppedForward
<1> DEFINE k == [phase |-> "unbuilt"]
<1>1. reg' = [reg EXCEPT !.client[b] = k] /\ k.phase = "unbuilt"
  BY DEF DropClient
<1> HIDE DEF k
<1>2. ClientFits(k, reg.customs, reg.edits, reg.policy, reg.turns)
  BY <1>1 DEF ClientFits
<1>3. /\ RegInv' /\ reg'.fetch = reg.fetch /\ reg'.client[b] = k
      /\ \A c \in Builders \ {b} : reg'.client[c] = reg.client[c]
  BY <1>1, <1>2, ClientMoves
<1>4. \A c \in Builders : ~Reaches(c)
  BY <1>1, <1>3 DEF Reaches
<1> QED
  BY <1>3, <1>4 DEF SteppedForward

-----------------------------------------------------------------------------
\* Every step keeps the invariant and steps forward.
LEMMA RegNextKeeps == RegInv /\ [RegNext]_reg => RegInv' /\ [SteppedForward]_reg
<1> SUFFICES ASSUME RegInv, [RegNext]_reg PROVE RegInv' /\ [SteppedForward]_reg
  OBVIOUS
<1>1. CASE reg' = reg
  BY <1>1 DEF RegInv
<1>2. CASE RegNext
  BY <1>2, EditsKeep, FetchesKeep, ClientsKeep, LookAgainKeeps, BeginLookupKeeps,
     ConnectKeeps, DropClientKeeps DEF RegNext
<1> QED
  BY <1>1, <1>2

\* At first nothing is registered, fetched or built.
LEMMA RegBegins == RegInit => RegInv
<1> SUFFICES ASSUME RegInit PROVE RegInv
  OBVIOUS
<1> DEFINE fetch == [f \in Fetchers |-> [phase |-> "idle"]]
           client == [b \in Builders |-> [phase |-> "unbuilt"]]
<1>1. \A f \in Fetchers : fetch[f].phase = "idle"
  OBVIOUS
<1>2. \A b \in Builders : client[b].phase = "unbuilt"
  OBVIOUS
<1>3. fetch = [f \in Fetchers |-> fetch[f]] /\ client = [b \in Builders |-> client[b]]
  OBVIOUS
<1>4. reg = RegOf(0, {}, fetch, <<>>, 0, "off", 0, client)
  BY DEF RegInit, RegOf
<1> HIDE DEF fetch, client
<1>5. /\ reg.now = 0 /\ reg.snapshot = {} /\ reg.fetch = fetch /\ reg.customs = <<>> /\ reg.edits = 0
      /\ reg.policy = "off" /\ reg.turns = 0 /\ reg.client = client
  BY <1>4 DEF RegOf
<1>6. FetchesFit({}, fetch) /\ NamesDiffer(<<>>)
  BY <1>1, <1>3 DEF FetchesFit, NamesDiffer
<1>7. \A b \in Builders : ClientFits(client[b], <<>>, 0, "off", 0)
  BY <1>2 DEF ClientFits, Copied
<1>8. reg = RegOf(reg.now, reg.snapshot, reg.fetch, reg.customs, reg.edits, reg.policy, reg.turns, reg.client)
  BY <1>4, <1>5
<1>9. \A b \in Builders : ClientFits(reg.client[b], reg.customs, reg.edits, reg.policy, reg.turns)
  BY <1>5, <1>7
<1>10. reg.client = [b \in Builders |-> reg.client[b]] /\ FetchesFit(reg.snapshot, reg.fetch)
         /\ NamesDiffer(reg.customs)
  BY <1>3, <1>5, <1>6
<1> QED
  BY <1>5, <1>8, <1>9, <1>10 DEF RegInv

\* The invariant says who a client talks to.
LEMMA RegInvSays == RegInv => DetectIgnoresOrder /\ BoundAsAsked
<1> SUFFICES ASSUME RegInv PROVE DetectIgnoresOrder /\ BoundAsAsked
  OBVIOUS
<1>1. DetectIgnoresOrder
  <2>1. NamesDiffer(reg.customs)
    BY DEF RegInv
  <2>2. \A n, m, t : Detect(reg.customs, n, m, t) = Detect(Reverse(reg.customs), n, m, t)
    BY <2>1, AnyOrder
  <2> QED
    BY <2>2 DEF DetectIgnoresOrder
<1>2. BoundAsAsked
  BY DEF RegInv, ClientFits, Bound, BoundAsAsked
<1> QED
  BY <1>1, <1>2

\* Whatever is fetched, registered and built at the same time: who a client talks
\* to, and what a fetch puts into the registry, is settled by what was asked.
THEOREM RegistryAlwaysSound == ClientSafety => RegistrySound
<1>1. ClientInit => RegInv
  BY RegBegins DEF ClientInit
<1>2. [ClientNext]_clientVars => [RegNext]_reg
  BY DEF ClientNext, clientVars, CallStep, SseStep, FramesStep, ChatStep, RegistryStep,
         RealtimeStep, GuardsStep, SpendingStep, SemanticStep
<1> QED
  BY <1>1, <1>2, RegNextKeeps, RegInvSays, PTL DEF ClientSafety, RegistrySound

-----------------------------------------------------------------------------
(* Spending: what is spent in a window, whoever is in flight, however late *)
(* an answer is recorded and in whatever order windows are renewed.        *)

OpenWindow == [age : Nat, spend : Nat]
WindowsOf(s) == [DOMAIN s.length -> {Absent} \cup OpenWindow]

SpenderOf(s) == [st : {"idle", "running", "hedged"}, context : Seq(DOMAIN s.length), copies : {1, 2}, alone : BOOLEAN]

\* Only a hedge goes out twice, and only a ledger's requests are hedged.
Sent(s, q) == (q.copies = 2 => q.st = "hedged") /\ (q.st = "hedged" => s.hedges)
RequestsOf(s) == [Spenders -> {q \in SpenderOf(s) : Sent(s, q)}]

WatchOf(s) == [w : {"none"} \cup DOMAIN s.limit, age : Nat, recorded : Nat]

\* A request that will be charged to a window, and one that will be twice, or
\* may be where should_hedge does not look.
Rides(q, w) == q.st # "idle" /\ w \in ToSet(q.context)
RidesTwice(s, q, w) ==
  /\ s.hedges /\ w \in ToSet(q.context)
  /\ q.copies = 2 \/ (w \notin HedgeWindows /\ q.st = "running")

Riders(req, w) == {r \in Spenders : Rides(req[r], w)}
TwiceRiders(s, req, w) == {r \in Spenders : RidesTwice(s, req[r], w)}
Load(s, req, w) == Cardinality(Riders(req, w)) + Cardinality(TwiceRiders(s, req, w))

\* Excess, of a scheme.
Copies(s, w) ==
  IF ~s.hedges THEN Cardinality(Spenders)
  ELSE IF w \in HedgeWindows THEN 2 * Cardinality(Spenders) - 1 ELSE 2 * Cardinality(Spenders)
Most(s, w) == IF s.limit[w] = 0 THEN 0 ELSE s.limit[w] - 1 + Copies(s, w) * MostCost

\* What is spent and what is in flight fit together.
Held(s, req, w, spend) ==
  IF s.limit[w] = 0 THEN spend = 0 /\ Riders(req, w) = {}
  ELSE spend + Load(s, req, w) * MostCost <= Most(s, w)

\* Nobody is hedged where there is no room for it.
Roomy(s, req, w) ==
  s.hedges /\ w \in HedgeWindows /\ s.limit[w] <= 2 * MostCost => TwiceRiders(s, req, w) = {}

AllHeld(s, windows, req) ==
  \A w \in DOMAIN s.limit : Held(s, req, w, SpendIn(windows[w])) /\ Roomy(s, req, w)

HedgedAlone(s, windows, req) ==
  \A r \in Spenders : req[r].st = "hedged" /\ req[r].alone =>
    /\ \A other \in Spenders \ {r} : req[other].st = "idle"
    /\ \A w \in DOMAIN s.limit \cap HedgeWindows \cap ToSet(req[r].context) :
         SpendIn(windows[w]) + req[r].copies * MostCost < s.limit[w]

\* At most n windows have ended since the observer began.
WindowsEnded(s, n, window, watch) ==
  /\ watch.recorded <= n * Most(s, watch.w) + window.spend
  /\ n * s.length[watch.w] <= watch.age - window.age + s.lag + s.length[watch.w] - 1

Watched(s, windows, watch) ==
  watch.w # "none" =>
    /\ watch.age < s.length[watch.w]
    /\ \/ watch.recorded = 0
       \/ /\ windows[watch.w] # Absent
          /\ \E n \in Nat : WindowsEnded(s, n, windows[watch.w], watch)

SpendingFits(s, windows, req, watch) ==
  /\ s \in Schemes /\ windows \in WindowsOf(s) /\ req \in RequestsOf(s) /\ watch \in WatchOf(s)
  /\ AllHeld(s, windows, req)
  /\ HedgedAlone(s, windows, req)
  /\ Watched(s, windows, watch)

LedgerOf(s, windows, req, watch) == [scheme |-> s, windows |-> windows, req |-> req, watch |-> watch]

SpendingInv ==
  /\ spending = LedgerOf(spending.scheme, spending.windows, spending.req, spending.watch)
  /\ SpendingFits(spending.scheme, spending.windows, spending.req, spending.watch)

\* A bigger factor.
LEMMA TimesMore ==
  ASSUME NEW a \in Nat, NEW b \in Nat, NEW m \in Nat, a <= b
  PROVE  a * m <= b * m /\ a * m \in Nat /\ b * m \in Nat
<1>1. PICK d \in Nat : b = a + d
  <2>1. b - a \in Nat
    OBVIOUS
  <2> QED
    BY <2>1
<1>2. b * m = a * m + d * m /\ d * m \in Nat /\ a * m \in Nat
  BY <1>1
<1> QED
  BY <1>2

\* One less.
LEMMA TimesLess ==
  ASSUME NEW a \in Nat, NEW b \in Nat, NEW m \in Nat, a + 1 <= b
  PROVE  a * m + m <= b * m /\ a * m \in Nat /\ b * m \in Nat
<1>1. (a + 1) * m = a * m + m
  OBVIOUS
<1>2. (a + 1) * m <= b * m
  BY TimesMore
<1> QED
  BY <1>1, <1>2, TimesMore

\* Two sets that differ in one element at most.
LEMMA OneApart ==
  ASSUME NEW S, IsFiniteSet(S), NEW A \in SUBSET S, NEW B \in SUBSET S, NEW x \in S, A \ {x} = B \ {x}
  PROVE  /\ Cardinality(A) \in Nat /\ Cardinality(B) \in Nat
         /\ x \in A /\ x \in B => Cardinality(A) = Cardinality(B)
         /\ x \notin A /\ x \notin B => Cardinality(A) = Cardinality(B)
         /\ x \in A /\ x \notin B => Cardinality(A) = Cardinality(B) + 1
         /\ x \notin A /\ x \in B => Cardinality(B) = Cardinality(A) + 1
<1>1. IsFiniteSet(A) /\ IsFiniteSet(B)
  BY FS_Subset
<1>2. Cardinality(A) \in Nat /\ Cardinality(B) \in Nat
  BY <1>1, FS_CardinalityType
<1>3. Cardinality(A \ {x}) = IF x \in A THEN Cardinality(A) - 1 ELSE Cardinality(A)
  BY <1>1, FS_RemoveElement
<1>4. Cardinality(B \ {x}) = IF x \in B THEN Cardinality(B) - 1 ELSE Cardinality(B)
  BY <1>1, FS_RemoveElement
<1>5. Cardinality(A \ {x}) = Cardinality(B \ {x})
  BY Zenon
<1> QED
  BY <1>2, <1>3, <1>4, <1>5

\* How many ride.
LEMMA RidersCount ==
  ASSUME NEW s, NEW req, NEW w
  PROVE  /\ Riders(req, w) \in SUBSET Spenders /\ TwiceRiders(s, req, w) \in SUBSET Spenders
         /\ Cardinality(Spenders) \in Nat \ {0}
         /\ Cardinality(Riders(req, w)) \in 0..Cardinality(Spenders)
         /\ Cardinality(TwiceRiders(s, req, w)) \in 0..Cardinality(Spenders)
         /\ Load(s, req, w) \in Nat
<1>1. Riders(req, w) \in SUBSET Spenders /\ TwiceRiders(s, req, w) \in SUBSET Spenders
  BY DEF Riders, TwiceRiders
<1>2. IsFiniteSet(Spenders) /\ Spenders # {}
  BY SpendingAssumption DEF SpendingAssumption
<1>3. Cardinality(Spenders) \in Nat \ {0}
  BY <1>2, FS_CardinalityType, FS_EmptySet
<1>4. /\ Cardinality(Riders(req, w)) \in 0..Cardinality(Spenders)
      /\ Cardinality(TwiceRiders(s, req, w)) \in 0..Cardinality(Spenders)
  BY <1>1, <1>2, <1>3, FS_CardinalityType, FS_Subset
<1> QED
  BY <1>1, <1>3, <1>4 DEF Load

\* What a scheme is.
LEMMA SchemeIs ==
  ASSUME NEW s \in Schemes
  PROVE  /\ \A w \in DOMAIN s.length : w # "none" /\ s.length[w] \in Nat \ {0}
         /\ \A w \in DOMAIN s.limit : w \in DOMAIN s.length /\ s.limit[w] \in Nat
         /\ \A context \in s.contexts : context \in Seq(DOMAIN s.length)
         /\ s.lag \in Nat /\ s.hedges \in BOOLEAN
         /\ MostCost \in Nat /\ Margin \in 0..99
  BY SpendingAssumption DEF SpendingAssumption

\* What a window may hold.
LEMMA MostIs ==
  ASSUME NEW s \in Schemes, NEW w \in DOMAIN s.limit
  PROVE  /\ Copies(s, w) \in Nat
         /\ Most(s, w) \in Nat
         /\ s.limit[w] > 0 => Copies(s, w) * MostCost \in Nat /\ Most(s, w) = s.limit[w] - 1 + Copies(s, w) * MostCost
<1>1. Cardinality(Spenders) \in Nat \ {0}
  BY RidersCount
<1>2. Copies(s, w) \in Nat
  BY <1>1 DEF Copies
<1>3. s.limit[w] \in Nat /\ MostCost \in Nat
  BY SchemeIs
<1>4. Copies(s, w) * MostCost \in Nat
  BY <1>2, <1>3
<1> QED
  BY <1>2, <1>3, <1>4 DEF Most

\* However many are in flight, and whatever a renewal forgets.
LEMMA LoadSmall ==
  ASSUME NEW s \in Schemes, NEW req, NEW w \in DOMAIN s.limit, s.limit[w] > 0, Roomy(s, req, w)
  PROVE  Load(s, req, w) * MostCost \in Nat /\ Load(s, req, w) * MostCost <= Most(s, w)
<1> DEFINE N == Cardinality(Spenders)
           A == Cardinality(Riders(req, w))
           D == Cardinality(TwiceRiders(s, req, w))
           L == s.limit[w]
           M == MostCost
<1>1. N \in Nat \ {0} /\ A \in 0..N /\ D \in 0..N /\ Load(s, req, w) = A + D
  BY RidersCount DEF Load
<1>2. L \in Nat \ {0} /\ M \in Nat /\ s.hedges \in BOOLEAN
  BY SchemeIs
<1>3. Most(s, w) = L - 1 + Copies(s, w) * M /\ Copies(s, w) \in Nat
  BY MostIs
<1>4. TwiceRiders(s, req, w) = {} => D = 0
  BY FS_EmptySet
<1>5. ~s.hedges => TwiceRiders(s, req, w) = {}
  BY DEF TwiceRiders, RidesTwice
<1>6. CASE A + D <= Copies(s, w)
  <2> HIDE DEF N, A, D, L, M
  <2>1. A + D \in Nat
    BY <1>1
  <2>2. (A + D) * M \in Nat /\ (A + D) * M <= Copies(s, w) * M /\ Copies(s, w) * M \in Nat
    BY <1>2, <1>3, <1>6, <2>1, TimesMore
  <2> QED
    BY <1>1, <1>2, <1>3, <2>2 DEF M
<1>7. CASE ~(A + D <= Copies(s, w))
  <2>1. s.hedges /\ w \in HedgeWindows
    BY <1>1, <1>4, <1>5, <1>7 DEF Copies
  <2>2. D # 0 /\ Copies(s, w) = 2 * N - 1 /\ A + D <= Copies(s, w) + 1
    BY <1>1, <1>7, <2>1 DEF Copies
  <2>3. L > 2 * M
    BY <1>2, <1>4, <2>1, <2>2 DEF Roomy
  <2> HIDE DEF N, A, D, L, M
  <2>4. A + D \in Nat /\ Copies(s, w) + 1 \in Nat
    BY <1>1, <1>3
  <2>5. (A + D) * M \in Nat /\ (A + D) * M <= (Copies(s, w) + 1) * M
    BY <1>2, <2>2, <2>4, TimesMore
  <2>6. (Copies(s, w) + 1) * M = Copies(s, w) * M + M /\ Copies(s, w) * M \in Nat
    BY <1>2, <1>3
  <2>7. (A + D) * M \in Nat /\ (A + D) * M <= Most(s, w)
    BY <1>2, <1>3, <2>3, <2>5, <2>6
  <2> QED
    BY <1>1, <2>7 DEF M
<1> QED
  BY <1>6, <1>7

\* A window that is empty is always within its bounds.
LEMMA EmptyHeld ==
  ASSUME NEW s \in Schemes, NEW req, NEW w \in DOMAIN s.limit, NEW spend \in Nat,
         Held(s, req, w, spend), Roomy(s, req, w)
  PROVE  Held(s, req, w, 0)
<1>1. CASE s.limit[w] = 0
  BY <1>1 DEF Held
<1>2. CASE s.limit[w] # 0
  <2>1. s.limit[w] > 0
    BY <1>2, SchemeIs
  <2> QED
    BY <1>2, <2>1, LoadSmall DEF Held
<1> QED
  BY <1>1, <1>2

\* What is held is no more than the window may hold.
LEMMA HeldSays ==
  ASSUME NEW s \in Schemes, NEW req, NEW w \in DOMAIN s.limit, NEW spend \in Nat, Held(s, req, w, spend)
  PROVE  spend <= Most(s, w)
<1>1. CASE s.limit[w] = 0
  BY <1>1, MostIs DEF Held
<1>2. CASE s.limit[w] # 0
  <2>1. Load(s, req, w) * MostCost \in Nat
    BY RidersCount, SchemeIs
  <2> QED
    BY <1>2, <2>1, MostIs DEF Held
<1> QED
  BY <1>1, <1>2

-----------------------------------------------------------------------------

\* A window that is there, and one that is not.
LEMMA AbsentIs ==
  ASSUME NEW window \in {Absent} \cup OpenWindow
  PROVE  /\ SpendIn(window) \in Nat
         /\ window = Absent => SpendIn(window) = 0
         /\ window # Absent => window \in OpenWindow /\ SpendIn(window) = window.spend
         /\ window \in OpenWindow => window # Absent /\ window.age \in Nat /\ window.spend \in Nat
<1>1. Absent.spend = -1
  BY DEF Absent
<1>2. \A v \in OpenWindow : v.spend \in Nat /\ v.age \in Nat
  BY DEF OpenWindow
<1>3. Absent \notin OpenWindow
  BY <1>1, <1>2
<1> HIDE DEF Absent
<1> QED
  BY <1>2, <1>3 DEF SpendIn

\* A window that begins, some time ago.
LEMMA FreshIs ==
  ASSUME NEW n \in Nat
  PROVE  Fresh(n) \in OpenWindow /\ Fresh(n).age = n /\ Fresh(n).spend = 0
  BY DEF Fresh, OpenWindow

\* Reading a window renews it or leaves it alone.
LEMMA VisitedIs ==
  ASSUME NEW w, NEW lag \in Nat, spending.scheme.length[w] \in Nat, NEW window \in {Absent} \cup OpenWindow
  PROVE  /\ Visited(window, w, lag) \in {Absent} \cup OpenWindow
         /\ Visited(window, w, lag) = Absent <=> window = Absent
         /\ \/ /\ Visited(window, w, lag) = window
               /\ window # Absent => window.age < spending.scheme.length[w] + lag
            \/ /\ window \in OpenWindow /\ window.age >= spending.scheme.length[w] + lag
               /\ Visited(window, w, lag) = Fresh(lag)
<1>1. CASE window = Absent
  BY <1>1 DEF Visited
<1>2. CASE window # Absent
  <2>1. window \in OpenWindow /\ window.age \in Nat
    BY <1>2, AbsentIs
  <2>2. Fresh(lag) \in OpenWindow /\ Fresh(lag) # Absent
    BY FreshIs, AbsentIs
  <2>3. Visited(window, w, lag) = Renewed(window, w, lag)
    BY <1>2 DEF Visited
  <2>4. window.age - lag >= spending.scheme.length[w] <=> window.age >= spending.scheme.length[w] + lag
    BY <2>1
  <2>5. CASE window.age >= spending.scheme.length[w] + lag
    <3>1. Renewed(window, w, lag) = Fresh(lag)
      BY <2>4, <2>5 DEF Renewed
    <3> QED
      BY <1>2, <2>1, <2>2, <2>3, <2>5, <3>1
  <2>6. CASE ~(window.age >= spending.scheme.length[w] + lag)
    <3>1. Renewed(window, w, lag) = window
      BY <2>4, <2>6 DEF Renewed
    <3>2. window.age < spending.scheme.length[w] + lag
      BY <2>1, <2>6
    <3> QED
      BY <1>2, <2>1, <2>3, <3>1, <3>2
  <2> QED
    BY <2>5, <2>6
<1> QED
  BY <1>1, <1>2

\* What is recorded comes on top of what is there, or begins the window.
LEMMA AddedIs ==
  ASSUME NEW w, NEW lag \in Nat, NEW cost \in Nat, spending.scheme.length[w] \in Nat,
         NEW window \in {Absent} \cup OpenWindow
  PROVE  LET seen == Visited(window, w, lag) IN
         \E age \in Nat :
           /\ Added(window, w, lag, cost) = [age |-> age, spend |-> SpendIn(seen) + cost]
           /\ window = Absent => age = 0
           /\ window # Absent => age = seen.age
<1> DEFINE seen == Visited(window, w, lag)
<1>0. \A v \in OpenWindow : [v EXCEPT !.spend = @ + cost] = [age |-> v.age, spend |-> v.spend + cost]
  BY DEF OpenWindow
<1>1. CASE window = Absent
  <2>1. Added(window, w, lag, cost) = [Fresh(0) EXCEPT !.spend = @ + cost]
    BY <1>1 DEF Added
  <2>2. seen = Absent /\ SpendIn(seen) = 0
    BY <1>1, AbsentIs DEF Visited
  <2>3. Fresh(0) \in OpenWindow /\ Fresh(0).age = 0 /\ Fresh(0).spend = 0
    BY FreshIs
  <2> HIDE DEF seen
  <2>4. Added(window, w, lag, cost) = [age |-> 0, spend |-> SpendIn(seen) + cost]
    BY <1>0, <2>1, <2>2, <2>3
  <2> QED
    BY <1>1, <2>4 DEF seen
<1>2. CASE window # Absent
  <2>1. seen = Renewed(window, w, lag)
    BY <1>2 DEF Visited
  <2>2. Added(window, w, lag, cost) = [seen EXCEPT !.spend = @ + cost]
    BY <1>2, <2>1 DEF Added
  <2>3. seen \in OpenWindow /\ SpendIn(seen) = seen.spend /\ seen.age \in Nat
    BY <1>2, VisitedIs, AbsentIs
  <2> HIDE DEF seen
  <2>4. Added(window, w, lag, cost) = [age |-> seen.age, spend |-> SpendIn(seen) + cost]
    BY <1>0, <2>2, <2>3
  <2> QED
    BY <1>2, <2>3, <2>4 DEF seen
<1> QED
  BY <1>1, <1>2

\* The observer's count, when its window is renewed.
LEMMA EndedMore ==
  ASSUME NEW s \in Schemes, NEW watch \in WatchOf(s), watch.w # "none",
         NEW n \in Nat, NEW window \in OpenWindow, WindowsEnded(s, n, window, watch), window.spend <= Most(s, watch.w),
         NEW lag \in 0..s.lag, window.age >= s.length[watch.w] + lag
  PROVE  WindowsEnded(s, n + 1, Fresh(lag), watch)
<1> DEFINE E == Most(s, watch.w)
           len == s.length[watch.w]
<1>1. watch.w \in DOMAIN s.limit /\ watch.age \in Nat /\ watch.recorded \in Nat
  BY DEF WatchOf
<1>2. E \in Nat /\ len \in Nat \ {0} /\ s.lag \in Nat
  BY <1>1, MostIs, SchemeIs
<1>3. window.age \in Nat /\ window.spend \in Nat
  BY AbsentIs
<1>4. (n + 1) * E = n * E + E /\ (n + 1) * len = n * len + len /\ n * E \in Nat /\ n * len \in Nat
  <2>1. \A a \in Nat : (n + 1) * a = n * a + a /\ n * a \in Nat
    OBVIOUS
  <2>2. E \in Nat /\ len \in Nat
    BY <1>2
  <2> HIDE DEF E, len
  <2> QED
    BY <2>1, <2>2
<1>5. watch.recorded <= n * E + window.spend /\ n * len <= watch.age - window.age + s.lag + len - 1
  BY DEF WindowsEnded
<1>6. Fresh(lag).spend = 0 /\ Fresh(lag).age = lag
  BY <1>2, FreshIs
<1> HIDE DEF E, len
<1>7. watch.recorded <= (n + 1) * E + 0
  BY <1>1, <1>2, <1>3, <1>4, <1>5 DEF E
<1>8. (n + 1) * len <= watch.age - lag + s.lag + len - 1
  BY <1>1, <1>2, <1>3, <1>4, <1>5 DEF len
<1> QED
  BY <1>6, <1>7, <1>8 DEF WindowsEnded, E, len

\* The windows of two states, of which each is as it was or has been read.
Reread(s, windows, now) ==
  /\ DOMAIN now = DOMAIN windows /\ now = [w \in DOMAIN now |-> now[w]]
  /\ \A w \in DOMAIN windows :
       now[w] = windows[w] \/ \E lag \in 0..s.lag : now[w] = Visited(windows[w], w, lag)

\* One of them: as it was, or renewed because it is over.
LEMMA RereadOne ==
  ASSUME NEW s \in Schemes, s = spending.scheme, NEW windows \in WindowsOf(s), NEW now, Reread(s, windows, now),
         NEW w \in DOMAIN s.length
  PROVE  /\ windows[w] \in {Absent} \cup OpenWindow
         /\ \/ now[w] = windows[w]
            \/ \E lag \in 0..s.lag : /\ windows[w] \in OpenWindow /\ now[w] = Fresh(lag) /\ lag \in Nat
                                     /\ windows[w].age >= s.length[w] + lag
<1>1. windows[w] \in {Absent} \cup OpenWindow /\ DOMAIN windows = DOMAIN s.length
  BY DEF WindowsOf
<1>2. CASE now[w] = windows[w]
  BY <1>1, <1>2
<1>3. CASE \E lag \in 0..s.lag : now[w] = Visited(windows[w], w, lag)
  <2>1. PICK lag \in 0..s.lag : now[w] = Visited(windows[w], w, lag)
    BY <1>3
  <2>2. lag \in Nat /\ spending.scheme.length[w] \in Nat
    BY SchemeIs
  <2> QED
    BY <1>1, <2>1, <2>2, VisitedIs
<1> QED
  BY <1>1, <1>2, <1>3 DEF Reread

\* Reading windows keeps what fits: a window that is renewed is empty.
LEMMA RereadKeeps ==
  ASSUME NEW s \in Schemes, s = spending.scheme, NEW windows, NEW req, NEW watch, SpendingFits(s, windows, req, watch),
         NEW now, Reread(s, windows, now)
  PROVE  /\ SpendingFits(s, now, req, watch)
         /\ \A w \in DOMAIN s.length : SpendIn(now[w]) <= SpendIn(windows[w])
<1>1. windows \in WindowsOf(s) /\ DOMAIN windows = DOMAIN s.length
  BY DEF SpendingFits, WindowsOf
<1>2. \A w \in DOMAIN s.length : /\ SpendIn(windows[w]) \in Nat
                                 /\ now[w] \in {Absent} \cup OpenWindow /\ SpendIn(now[w]) \in Nat
                                 /\ SpendIn(now[w]) = SpendIn(windows[w]) \/ SpendIn(now[w]) = 0
  <2> SUFFICES ASSUME NEW w \in DOMAIN s.length
               PROVE  /\ SpendIn(windows[w]) \in Nat
                      /\ now[w] \in {Absent} \cup OpenWindow /\ SpendIn(now[w]) \in Nat
                      /\ SpendIn(now[w]) = SpendIn(windows[w]) \/ SpendIn(now[w]) = 0
    OBVIOUS
  <2>1. windows[w] \in {Absent} \cup OpenWindow
    BY <1>1, RereadOne
  <2>2. CASE now[w] = windows[w]
    BY <2>1, <2>2, AbsentIs
  <2>3. CASE now[w] # windows[w]
    <3>1. PICK lag \in Nat : now[w] = Fresh(lag)
      BY <1>1, <2>3, RereadOne
    <3>2. now[w] \in OpenWindow /\ now[w].spend = 0
      BY <3>1, FreshIs
    <3>3. SpendIn(now[w]) = 0
      BY <3>2, AbsentIs
    <3> QED
      BY <2>1, <3>2, <3>3, AbsentIs
  <2> QED
    BY <2>2, <2>3
<1>3. now \in WindowsOf(s)
  <2>1. DOMAIN now = DOMAIN s.length /\ now = [w \in DOMAIN s.length |-> now[w]]
    BY <1>1 DEF Reread
  <2> QED
    BY <1>2, <2>1 DEF WindowsOf
<1>4. AllHeld(s, now, req)
  <2> SUFFICES ASSUME NEW w \in DOMAIN s.limit
               PROVE  Held(s, req, w, SpendIn(now[w])) /\ Roomy(s, req, w)
    BY DEF AllHeld
  <2>1. Held(s, req, w, SpendIn(windows[w])) /\ Roomy(s, req, w)
    BY DEF SpendingFits, AllHeld
  <2>2. w \in DOMAIN s.length
    BY SchemeIs
  <2>3. Held(s, req, w, 0)
    BY <1>2, <2>1, <2>2, EmptyHeld
  <2> QED
    BY <1>2, <2>1, <2>2, <2>3
<1>5. HedgedAlone(s, now, req)
  <2>1. \A r \in Spenders : req[r].copies \in Nat
    BY DEF SpendingFits, RequestsOf, SpenderOf
  <2>2. \A r \in Spenders : req[r].copies * MostCost \in Nat
    BY <2>1, SchemeIs
  <2>3. \A w \in DOMAIN s.limit : w \in DOMAIN s.length /\ s.limit[w] \in Nat
    BY SchemeIs
  <2>4. \A w \in DOMAIN s.limit, a \in Nat : SpendIn(windows[w]) + a < s.limit[w] => SpendIn(now[w]) + a < s.limit[w]
    BY <1>2, <2>3
  <2>5. HedgedAlone(s, windows, req)
    BY DEF SpendingFits
  <2> QED
    BY <2>2, <2>4, <2>5 DEF HedgedAlone
<1>6. Watched(s, now, watch)
  <2> SUFFICES ASSUME watch.w # "none", watch.recorded # 0
               PROVE  /\ now[watch.w] # Absent
                      /\ \E n \in Nat : WindowsEnded(s, n, now[watch.w], watch)
    BY DEF SpendingFits, Watched
  <2>1. watch \in WatchOf(s) /\ watch.w \in DOMAIN s.limit
    BY DEF SpendingFits, WatchOf
  <2>2. watch.w \in DOMAIN s.length
    BY <2>1, SchemeIs
  <2>3. windows[watch.w] # Absent
    BY DEF SpendingFits, Watched
  <2>4. PICK n \in Nat : WindowsEnded(s, n, windows[watch.w], watch)
    BY DEF SpendingFits, Watched
  <2>5. CASE now[watch.w] = windows[watch.w]
    BY <2>3, <2>4, <2>5
  <2>6. CASE now[watch.w] # windows[watch.w]
    <3>1. PICK lag \in 0..s.lag : /\ windows[watch.w] \in OpenWindow /\ now[watch.w] = Fresh(lag) /\ lag \in Nat
                                  /\ windows[watch.w].age >= s.length[watch.w] + lag
      BY <1>1, <2>2, <2>6, RereadOne
    <3>2. Held(s, req, watch.w, SpendIn(windows[watch.w]))
      BY <2>1 DEF SpendingFits, AllHeld
    <3>3. SpendIn(windows[watch.w]) = windows[watch.w].spend /\ windows[watch.w].spend \in Nat
      BY <3>1, AbsentIs
    <3>4. windows[watch.w].spend <= Most(s, watch.w)
      BY <2>1, <3>2, <3>3, HeldSays
    <3>5. WindowsEnded(s, n + 1, Fresh(lag), watch)
      BY <2>1, <2>4, <3>1, <3>4, EndedMore
    <3>6. n + 1 \in Nat /\ Fresh(lag) # Absent
      BY <3>1, FreshIs, AbsentIs
    <3> QED
      BY <3>1, <3>5, <3>6
  <2> QED
    BY <2>5, <2>6
<1>7. \A w \in DOMAIN s.length : SpendIn(now[w]) <= SpendIn(windows[w])
  BY <1>2
<1> QED
  BY <1>3, <1>4, <1>5, <1>6, <1>7 DEF SpendingFits

-----------------------------------------------------------------------------

\* What one request weighs.
Weight(s, q, w) == (IF Rides(q, w) THEN 1 ELSE 0) + (IF RidesTwice(s, q, w) THEN 1 ELSE 0)

\* Two states of the requests that differ in one.
OnlyOne(req, now, r) ==
  \A other \in Spenders \ {r} : /\ now[other].st = req[other].st /\ now[other].context = req[other].context
                                /\ now[other].copies = req[other].copies

\* How the load differs then.
Shifts(s, req, now, r, w) ==
  /\ Riders(req, w) \ {r} = Riders(now, w) \ {r}
  /\ TwiceRiders(s, req, w) \ {r} = TwiceRiders(s, now, w) \ {r}
  /\ Weight(s, req[r], w) \in 0..2 /\ Weight(s, now[r], w) \in 0..2
  /\ Load(s, now, w) + Weight(s, req[r], w) = Load(s, req, w) + Weight(s, now[r], w)

\* Only the weight of that request makes the difference.
LEMMA LoadChange ==
  ASSUME NEW req, NEW now, NEW r \in Spenders, OnlyOne(req, now, r)
  PROVE  \A s, w : Shifts(s, req, now, r, w)
<1> SUFFICES ASSUME NEW s, NEW w
             PROVE  Shifts(s, req, now, r, w)
  OBVIOUS
<1>1. \A other \in Spenders \ {r} : Rides(req[other], w) <=> Rides(now[other], w)
  BY DEF OnlyOne, Rides
<1>2. \A other \in Spenders \ {r} : RidesTwice(s, req[other], w) <=> RidesTwice(s, now[other], w)
  BY DEF OnlyOne, RidesTwice
<1>3. Riders(req, w) \ {r} = Riders(now, w) \ {r}
  BY <1>1 DEF Riders
<1>4. TwiceRiders(s, req, w) \ {r} = TwiceRiders(s, now, w) \ {r}
  BY <1>2 DEF TwiceRiders
<1>5. /\ Riders(req, w) \in SUBSET Spenders /\ Riders(now, w) \in SUBSET Spenders
      /\ TwiceRiders(s, req, w) \in SUBSET Spenders /\ TwiceRiders(s, now, w) \in SUBSET Spenders
  BY RidersCount
<1>6. IsFiniteSet(Spenders)
  BY SpendingAssumption DEF SpendingAssumption
<1>7. /\ Cardinality(Riders(req, w)) \in Nat /\ Cardinality(Riders(now, w)) \in Nat
      /\ Cardinality(Riders(now, w)) + (IF Rides(req[r], w) THEN 1 ELSE 0)
           = Cardinality(Riders(req, w)) + (IF Rides(now[r], w) THEN 1 ELSE 0)
  <2>1. (r \in Riders(req, w) <=> Rides(req[r], w)) /\ (r \in Riders(now, w) <=> Rides(now[r], w))
    BY DEF Riders
  <2> QED
    BY <1>3, <1>5, <1>6, <2>1, OneApart
<1>8. /\ Cardinality(TwiceRiders(s, req, w)) \in Nat /\ Cardinality(TwiceRiders(s, now, w)) \in Nat
      /\ Cardinality(TwiceRiders(s, now, w)) + (IF RidesTwice(s, req[r], w) THEN 1 ELSE 0)
           = Cardinality(TwiceRiders(s, req, w)) + (IF RidesTwice(s, now[r], w) THEN 1 ELSE 0)
  <2>1. /\ r \in TwiceRiders(s, req, w) <=> RidesTwice(s, req[r], w)
        /\ r \in TwiceRiders(s, now, w) <=> RidesTwice(s, now[r], w)
    BY DEF TwiceRiders
  <2> QED
    BY <1>4, <1>5, <1>6, <2>1, OneApart
<1>9. Weight(s, req[r], w) \in 0..2 /\ Weight(s, now[r], w) \in 0..2
  BY DEF Weight
<1> QED
  BY <1>3, <1>4, <1>7, <1>8, <1>9 DEF Shifts, Load, Weight

\* A request that is not there weighs nothing.
LEMMA NewSpenderIs ==
  ASSUME NEW s, NEW w
  PROVE  /\ NewSpender \in SpenderOf(s) /\ Sent(s, NewSpender)
         /\ NewSpender.st = "idle" /\ NewSpender.copies = 1 /\ NewSpender.context = <<>> /\ NewSpender.alone = FALSE
         /\ ~Rides(NewSpender, w) /\ ~RidesTwice(s, NewSpender, w)
<1>1. <<>> \in Seq(DOMAIN s.length)
  OBVIOUS
<1>2. NewSpender.st = "idle" /\ NewSpender.copies = 1 /\ NewSpender.context = <<>> /\ NewSpender.alone = FALSE
  BY DEF NewSpender
<1>3. NewSpender \in SpenderOf(s)
  BY <1>1 DEF NewSpender, SpenderOf
<1> HIDE DEF NewSpender
<1> QED
  BY <1>2, <1>3 DEF Sent, Rides, RidesTwice

\* A copy of a request has ended: it weighs less where it was to be charged.
LEMMA OneLessIs ==
  ASSUME NEW s, NEW q \in SpenderOf(s), Sent(s, q), q.st # "idle"
  PROVE  /\ OneLess(q) \in SpenderOf(s) /\ Sent(s, OneLess(q))
         /\ \A w : /\ w \in ToSet(q.context) => Weight(s, OneLess(q), w) + 1 <= Weight(s, q, w)
                   /\ w \notin ToSet(q.context) => Weight(s, OneLess(q), w) = 0 /\ Weight(s, q, w) = 0
                   /\ RidesTwice(s, OneLess(q), w) => RidesTwice(s, q, w)
                   /\ Rides(OneLess(q), w) => Rides(q, w)
         /\ OneLess(q).st = "hedged" => /\ q.st = "hedged" /\ q.copies = 2 /\ OneLess(q).copies = 1
                                        /\ OneLess(q).alone = q.alone /\ OneLess(q).context = q.context
<1>1. CASE q.copies = 1
  <2>1. OneLess(q) = NewSpender
    BY <1>1 DEF OneLess
  <2>2. \A w : ~Rides(NewSpender, w) /\ ~RidesTwice(s, NewSpender, w)
    BY NewSpenderIs
  <2>3. \A w : w \in ToSet(q.context) <=> Rides(q, w)
    BY DEF Rides
  <2>4. \A w : w \notin ToSet(q.context) => ~RidesTwice(s, q, w)
    BY DEF RidesTwice
  <2>5. NewSpender \in SpenderOf(s) /\ Sent(s, NewSpender) /\ NewSpender.st = "idle"
    BY NewSpenderIs
  <2> HIDE DEF NewSpender
  <2> QED
    BY <2>1, <2>2, <2>3, <2>4, <2>5 DEF Weight
<1>2. CASE q.copies = 2
  <2>1. OneLess(q) = [st |-> q.st, context |-> q.context, copies |-> 1, alone |-> q.alone]
    BY <1>2 DEF OneLess, SpenderOf
  <2>2. /\ OneLess(q).st = q.st /\ OneLess(q).context = q.context /\ OneLess(q).copies = 1
        /\ OneLess(q).alone = q.alone /\ OneLess(q) \in SpenderOf(s)
    BY <2>1 DEF SpenderOf
  <2>3. q.st = "hedged" /\ s.hedges
    BY <1>2 DEF Sent
  <2>4. \A w : Rides(OneLess(q), w) <=> Rides(q, w)
    BY <2>2 DEF Rides
  <2>5. \A w : w \in ToSet(q.context) => RidesTwice(s, q, w)
    BY <1>2, <2>3 DEF RidesTwice
  <2>6. \A w : ~RidesTwice(s, OneLess(q), w)
    BY <2>2, <2>3 DEF RidesTwice
  <2>7. \A w : w \notin ToSet(q.context) => ~RidesTwice(s, q, w) /\ ~Rides(q, w)
    BY DEF RidesTwice, Rides
  <2>8. Sent(s, OneLess(q))
    BY <2>2, <2>3 DEF Sent
  <2> QED
    BY <1>2, <2>2, <2>3, <2>4, <2>5, <2>6, <2>7, <2>8 DEF Weight
<1> QED
  BY <1>1, <1>2 DEF SpenderOf

\* What an answer costs, in the windows of its request.
Charges(s, windows, now, context, cost) ==
  \A w \in DOMAIN s.limit :
    SpendIn(now[w]) = IF w \in ToSet(context) THEN SpendIn(windows[w]) + cost ELSE SpendIn(windows[w])

\* One copy of a request ends, and costs something or nothing where it was to be charged.
LEMMA EndKeeps ==
  ASSUME NEW s \in Schemes, NEW windows, NEW req, NEW watch, SpendingFits(s, windows, req, watch),
         NEW r \in Spenders, req[r].st # "idle", NEW cost \in 0..MostCost, NEW now, Charges(s, windows, now, req[r].context, cost)
  PROVE  LET left == [req EXCEPT ![r] = OneLess(@)] IN
         left \in RequestsOf(s) /\ AllHeld(s, now, left) /\ HedgedAlone(s, now, left)
<1> DEFINE left == [req EXCEPT ![r] = OneLess(@)]
           q == req[r]
<1>0. /\ windows \in WindowsOf(s) /\ req \in RequestsOf(s)
      /\ AllHeld(s, windows, req) /\ HedgedAlone(s, windows, req)
  BY DEF SpendingFits
<1>1. q \in SpenderOf(s) /\ Sent(s, q) /\ req = [p \in Spenders |-> req[p]]
  BY <1>0 DEF RequestsOf
<1>2. left[r] = OneLess(q) /\ \A other \in Spenders \ {r} : left[other] = req[other]
  BY <1>1
<1>3. left \in RequestsOf(s)
  <2>1. OneLess(q) \in {p \in SpenderOf(s) : Sent(s, p)}
    BY <1>1, OneLessIs
  <2> HIDE DEF q
  <2>2. left = [req EXCEPT ![r] = OneLess(q)]
    BY DEF q
  <2> QED
    BY <1>0, <2>1, <2>2 DEF RequestsOf
<1>4. \A w \in DOMAIN s.limit : SpendIn(windows[w]) \in Nat /\ w \in DOMAIN s.length /\ s.limit[w] \in Nat
  <2> TAKE w \in DOMAIN s.limit
  <2>1. w \in DOMAIN s.length /\ s.limit[w] \in Nat
    BY SchemeIs
  <2> QED
    BY <1>0, <2>1, AbsentIs DEF WindowsOf
<1>5. cost \in Nat /\ cost <= MostCost /\ MostCost \in Nat
  BY SchemeIs
<1> HIDE DEF left, q
<1>6. AllHeld(s, now, left)
  <2> SUFFICES ASSUME NEW w \in DOMAIN s.limit
               PROVE  Held(s, left, w, SpendIn(now[w])) /\ Roomy(s, left, w)
    BY DEF AllHeld
  <2> DEFINE spend == SpendIn(windows[w])
  <2>1. Held(s, req, w, spend) /\ Roomy(s, req, w)
    BY <1>0 DEF AllHeld
  <2>2. OnlyOne(req, left, r)
    BY <1>2 DEF OnlyOne
  <2>3. /\ w \in ToSet(q.context) => Weight(s, left[r], w) + 1 <= Weight(s, q, w)
        /\ w \notin ToSet(q.context) => Weight(s, left[r], w) = 0 /\ Weight(s, q, w) = 0
        /\ RidesTwice(s, left[r], w) => RidesTwice(s, q, w)
        /\ Rides(left[r], w) => Rides(q, w)
    BY <1>1, <1>2, OneLessIs DEF q
  <2>4. /\ Riders(req, w) \ {r} = Riders(left, w) \ {r}
        /\ TwiceRiders(s, req, w) \ {r} = TwiceRiders(s, left, w) \ {r}
        /\ Weight(s, q, w) \in 0..2 /\ Weight(s, left[r], w) \in 0..2
        /\ Load(s, left, w) + Weight(s, q, w) = Load(s, req, w) + Weight(s, left[r], w)
    BY <2>2, LoadChange DEF Shifts, q
  <2>5. Load(s, left, w) \in Nat /\ Load(s, req, w) \in Nat
    BY RidersCount
  <2>6. Roomy(s, left, w)
    <3>1. TwiceRiders(s, left, w) \subseteq TwiceRiders(s, req, w)
      BY <2>3, <2>4 DEF TwiceRiders, q
    <3> QED
      BY <2>1, <3>1 DEF Roomy
  <2>7. CASE s.limit[w] = 0
    <3>1. spend = 0 /\ Riders(req, w) = {}
      BY <2>1, <2>7 DEF Held
    <3>2. w \notin ToSet(q.context)
      BY <3>1 DEF Riders, Rides, q
    <3>3. SpendIn(now[w]) = 0
      BY <3>1, <3>2 DEF Charges, q
    <3>4. Riders(left, w) = {}
      <4>1. r \notin Riders(left, w)
        BY <2>3, <3>1 DEF Riders, q
      <4> QED
        BY <2>4, <3>1, <4>1
    <3> QED
      BY <2>6, <2>7, <3>3, <3>4 DEF Held
  <2>8. CASE s.limit[w] # 0
    <3>1. spend + Load(s, req, w) * MostCost <= Most(s, w)
      BY <2>1, <2>8 DEF Held
    <3>2. Most(s, w) \in Nat
      BY MostIs
    <3>3. SpendIn(now[w]) + Load(s, left, w) * MostCost <= Most(s, w)
      <4>1. CASE w \in ToSet(q.context)
        <5>1. Load(s, left, w) + 1 <= Load(s, req, w)
          BY <2>3, <2>4, <2>5, <4>1
        <5>2. /\ Load(s, left, w) * MostCost + MostCost <= Load(s, req, w) * MostCost
              /\ Load(s, left, w) * MostCost \in Nat /\ Load(s, req, w) * MostCost \in Nat
          BY <1>5, <2>5, <5>1, TimesLess
        <5>3. SpendIn(now[w]) = spend + cost
          BY <4>1 DEF Charges, q
        <5> QED
          BY <1>4, <1>5, <3>1, <3>2, <5>2, <5>3
      <4>2. CASE w \notin ToSet(q.context)
        <5>1. Load(s, left, w) = Load(s, req, w)
          BY <2>3, <2>4, <2>5, <4>2
        <5>2. SpendIn(now[w]) = spend
          BY <4>2 DEF Charges, q
        <5> QED
          BY <3>1, <5>1, <5>2
      <4> QED
        BY <4>1, <4>2
    <3> QED
      BY <2>6, <2>8, <3>3 DEF Held
  <2> QED
    BY <2>7, <2>8
<1>7. HedgedAlone(s, now, left)
  <2> SUFFICES ASSUME NEW p \in Spenders, left[p].st = "hedged", left[p].alone
               PROVE  /\ \A other \in Spenders \ {p} : left[other].st = "idle"
                      /\ \A w \in DOMAIN s.limit \cap HedgeWindows \cap ToSet(left[p].context) :
                           SpendIn(now[w]) + left[p].copies * MostCost < s.limit[w]
    BY DEF HedgedAlone
  <2>1. p = r
    <3> SUFFICES ASSUME p # r PROVE FALSE
      OBVIOUS
    <3>1. req[p].st = "hedged" /\ req[p].alone
      BY <1>2
    <3> QED
      BY <1>0, <3>1 DEF HedgedAlone
  <2>2. /\ q.st = "hedged" /\ q.copies = 2 /\ left[r].copies = 1 /\ q.alone
        /\ left[r].context = q.context
    BY <1>1, <1>2, <2>1, OneLessIs DEF q
  <2>3. /\ \A other \in Spenders \ {r} : req[other].st = "idle"
        /\ \A w \in DOMAIN s.limit \cap HedgeWindows \cap ToSet(q.context) :
             SpendIn(windows[w]) + 2 * MostCost < s.limit[w]
    BY <1>0, <2>2 DEF HedgedAlone, q
  <2>4. \A w \in DOMAIN s.limit \cap HedgeWindows \cap ToSet(q.context) :
          SpendIn(now[w]) + 1 * MostCost < s.limit[w]
    <3> TAKE w \in DOMAIN s.limit \cap HedgeWindows \cap ToSet(q.context)
    <3>1. SpendIn(now[w]) = SpendIn(windows[w]) + cost
      BY DEF Charges, q
    <3> QED
      BY <1>4, <1>5, <2>3, <3>1
  <2> QED
    BY <1>2, <2>1, <2>2, <2>3, <2>4
<1> QED
  BY <1>3, <1>6, <1>7 DEF left

-----------------------------------------------------------------------------

\* What a ledger is made of.
LEMMA LedgerIs ==
  ASSUME NEW s, NEW windows, NEW req, NEW watch
  PROVE  LET all == LedgerOf(s, windows, req, watch) IN
         all.scheme = s /\ all.windows = windows /\ all.req = req /\ all.watch = watch
  BY DEF LedgerOf

\* A state that fits.
LEMMA Arrives ==
  ASSUME NEW s, NEW windows, NEW req, NEW watch, SpendingFits(s, windows, req, watch),
         spending' = LedgerOf(s, windows, req, watch)
  PROVE  SpendingInv'
<1>1. spending'.scheme = s /\ spending'.windows = windows /\ spending'.req = req /\ spending'.watch = watch
  BY LedgerIs
<1>2. spending' = LedgerOf(spending'.scheme, spending'.windows, spending'.req, spending'.watch)
  BY <1>1
<1>3. SpendingFits(spending'.scheme, spending'.windows, spending'.req, spending'.watch)
  BY <1>1
<1> QED
  BY <1>2, <1>3 DEF SpendingInv

\* Joined, of any requests.
Joins(req, joined, r, q) == joined = [p \in Spenders |-> IF p = r THEN q ELSE [req[p] EXCEPT !.alone = FALSE]]

\* Two sets without an element.
LEMMA WithoutOne ==
  ASSUME NEW A, NEW B, NEW x, A \ {x} = B \ {x}, x \notin A, x \notin B
  PROVE  A = B
<1>1. \A y : y \in A <=> y \in B
  BY Zenon
<1> QED
  BY <1>1

\* A request that passes check(): all that is in flight, and what was spent before.
LEMMA JoinKeeps ==
  ASSUME NEW s \in Schemes, NEW windows, NEW req, NEW watch, SpendingFits(s, windows, req, watch),
         NEW r \in Spenders, req[r].st = "idle", NEW q \in SpenderOf(s),
         q.st = "running", q.copies = 1, q.alone = FALSE, NEW joined,
         Joins(req, joined, r, q),
         \A w \in DOMAIN s.limit \cap ToSet(q.context) : SpendIn(windows[w]) < s.limit[w]
  PROVE  SpendingFits(s, windows, joined, watch)
<1>0. /\ windows \in WindowsOf(s) /\ req \in RequestsOf(s) /\ watch \in WatchOf(s)
      /\ AllHeld(s, windows, req) /\ Watched(s, windows, watch)
  BY DEF SpendingFits
<1>1. \A p \in Spenders : req[p] \in SpenderOf(s) /\ Sent(s, req[p])
  BY <1>0 DEF RequestsOf
<1>2. \A p \in Spenders \ {r} : /\ joined[p].st = req[p].st /\ joined[p].context = req[p].context
                                /\ joined[p].copies = req[p].copies /\ joined[p].alone = FALSE
                                /\ joined[p] \in SpenderOf(s)
  BY <1>1 DEF Joins, SpenderOf
<1>3. joined[r] = q
  BY DEF Joins
<1>4. joined \in RequestsOf(s)
  <2>1. \A p \in Spenders : joined[p] \in SpenderOf(s) /\ Sent(s, joined[p])
    BY <1>1, <1>2, <1>3 DEF Sent
  <2>2. joined = [p \in Spenders |-> joined[p]]
    BY DEF Joins
  <2> QED
    BY <2>1, <2>2 DEF RequestsOf
<1>5. HedgedAlone(s, windows, joined)
  <2>1. \A p \in Spenders : joined[p].alone = FALSE
    BY <1>2, <1>3
  <2> QED
    BY <2>1 DEF HedgedAlone
<1>6. OnlyOne(req, joined, r)
  BY <1>2 DEF OnlyOne
<1>8. \A w : Shifts(s, req, joined, r, w)
  BY <1>6, LoadChange
<1>7. AllHeld(s, windows, joined)
  <2> SUFFICES ASSUME NEW w \in DOMAIN s.limit
               PROVE  Held(s, joined, w, SpendIn(windows[w])) /\ Roomy(s, joined, w)
    BY DEF AllHeld
  <2> DEFINE spend == SpendIn(windows[w])
             N == Cardinality(Spenders)
  <2>1. Held(s, req, w, spend) /\ Roomy(s, req, w)
    BY <1>0 DEF AllHeld
  <2>2. s.limit[w] \in Nat /\ w \in DOMAIN s.length /\ MostCost \in Nat
    BY SchemeIs
  <2>3. spend \in Nat
    BY <1>0, <2>2, AbsentIs DEF WindowsOf
  <2>4. /\ Riders(req, w) \ {r} = Riders(joined, w) \ {r}
        /\ TwiceRiders(s, req, w) \ {r} = TwiceRiders(s, joined, w) \ {r}
        /\ Weight(s, req[r], w) \in 0..2 /\ Weight(s, joined[r], w) \in 0..2
        /\ Load(s, joined, w) + Weight(s, req[r], w) = Load(s, req, w) + Weight(s, joined[r], w)
    BY <1>8 DEF Shifts
  <2>5. Load(s, joined, w) \in Nat /\ Load(s, req, w) \in Nat
    BY RidersCount
  <2>6. ~Rides(req[r], w) /\ ~RidesTwice(s, req[r], w)
    BY <1>1 DEF Rides, RidesTwice, Sent
  <2>7. w \in HedgeWindows \/ ~s.hedges => ~RidesTwice(s, q, w)
    BY DEF RidesTwice
  <2>8. Roomy(s, joined, w)
    <3> SUFFICES ASSUME s.hedges, w \in HedgeWindows, s.limit[w] <= 2 * MostCost
                 PROVE  TwiceRiders(s, joined, w) = {}
      BY DEF Roomy
    <3>1. TwiceRiders(s, req, w) = {}
      BY <2>1 DEF Roomy
    <3>2. r \notin TwiceRiders(s, joined, w)
      BY <1>3, <2>7 DEF TwiceRiders
    <3> QED
      BY <2>4, <3>1, <3>2
  <2>9. CASE w \notin ToSet(q.context)
    <3>1. ~Rides(q, w) /\ ~RidesTwice(s, q, w)
      BY <2>9 DEF Rides, RidesTwice
    <3>2. Load(s, joined, w) = Load(s, req, w)
      BY <1>3, <2>4, <2>5, <2>6, <3>1 DEF Weight
    <3>3. Riders(joined, w) = Riders(req, w)
      <4>1. r \notin Riders(joined, w) /\ r \notin Riders(req, w)
        BY <1>3, <2>6, <3>1 DEF Riders
      <4> QED
        BY <2>4, <4>1, WithoutOne
    <3> QED
      BY <2>1, <2>8, <3>2, <3>3 DEF Held
  <2>10. CASE w \in ToSet(q.context)
    <3>1. spend < s.limit[w]
      BY <2>10
    <3>2. N \in Nat \ {0} /\ Cardinality(Riders(joined, w)) \in 0..N /\ Cardinality(TwiceRiders(s, joined, w)) \in 0..N
      BY RidersCount
    <3>3. Load(s, joined, w) <= Copies(s, w)
      <4>1. CASE ~s.hedges
        <5>1. TwiceRiders(s, joined, w) = {}
          BY <4>1 DEF TwiceRiders, RidesTwice
        <5>2. Cardinality(TwiceRiders(s, joined, w)) = 0
          BY <5>1, FS_EmptySet
        <5> QED
          BY <3>2, <4>1, <5>2 DEF Copies, Load
      <4>2. CASE s.hedges /\ w \in HedgeWindows
        <5>1. r \notin TwiceRiders(s, joined, w)
          BY <1>3, <2>7, <4>2 DEF TwiceRiders
        <5>2. TwiceRiders(s, joined, w) # Spenders
          BY <5>1
        <5>3. Cardinality(TwiceRiders(s, joined, w)) # N
          BY <5>2, FS_Subset, RidersCount, SpendingAssumption DEF SpendingAssumption
        <5> QED
          BY <3>2, <4>2, <5>3 DEF Copies, Load
      <4>3. CASE s.hedges /\ w \notin HedgeWindows
        BY <3>2, <4>3 DEF Copies, Load
      <4> QED
        BY <4>1, <4>2, <4>3
    <3>4. /\ Copies(s, w) \in Nat
          /\ Copies(s, w) * MostCost \in Nat /\ Most(s, w) = s.limit[w] - 1 + Copies(s, w) * MostCost
      BY <2>2, <2>3, <3>1, MostIs
    <3>5. Load(s, joined, w) * MostCost <= Copies(s, w) * MostCost /\ Load(s, joined, w) * MostCost \in Nat
      BY <2>2, <2>5, <3>3, <3>4, TimesMore
    <3>6. spend + Load(s, joined, w) * MostCost <= Most(s, w)
      BY <2>2, <2>3, <3>1, <3>4, <3>5
    <3> QED
      BY <2>2, <2>3, <2>8, <3>1, <3>6 DEF Held
  <2> QED
    BY <2>9, <2>10
<1> QED
  BY <1>0, <1>4, <1>5, <1>7 DEF SpendingFits

\* A request that goes out twice: there was room in every window should_hedge
\* looks at, and it may have been charged twice to any other from the start.
LEMMA HedgedKeeps ==
  ASSUME NEW s \in Schemes, NEW windows, NEW req, NEW watch, SpendingFits(s, windows, req, watch),
         NEW r \in Spenders, s.hedges, req[r].st = "running", req[r].copies = 1,
         NEW q, q = [req[r] EXCEPT !.st = "hedged", !.copies = 2,
                                   !.alone = \A other \in Spenders \ {r} : req[other].st = "idle"],
         \A w \in DOMAIN s.limit \cap HedgeWindows \cap ToSet(req[r].context) :
           SpendIn(windows[w]) + 2 * MostCost < s.limit[w]
  PROVE  SpendingFits(s, windows, [req EXCEPT ![r] = q], watch)
<1> DEFINE hedged == [req EXCEPT ![r] = q]
           was == req[r]
           nobody == \A other \in Spenders \ {r} : req[other].st = "idle"
<1>0. /\ windows \in WindowsOf(s) /\ req \in RequestsOf(s) /\ watch \in WatchOf(s)
      /\ AllHeld(s, windows, req) /\ HedgedAlone(s, windows, req) /\ Watched(s, windows, watch)
  BY DEF SpendingFits
<1>1. was \in SpenderOf(s) /\ req = [p \in Spenders |-> req[p]]
  BY <1>0 DEF RequestsOf
<1>2. PICK alone \in BOOLEAN : alone <=> nobody
  OBVIOUS
<1>3. q = [was EXCEPT !.st = "hedged", !.copies = 2, !.alone = alone]
  BY <1>2
<1>4. q \in SpenderOf(s) /\ q.st = "hedged" /\ q.copies = 2 /\ q.context = was.context /\ q.alone = alone
  <2> HIDE DEF was
  <2> QED
    BY <1>1, <1>3 DEF SpenderOf
<1>5. hedged[r] = q /\ \A p \in Spenders \ {r} : hedged[p] = req[p]
  BY <1>1
<1>6. hedged \in RequestsOf(s)
  BY <1>0, <1>4 DEF RequestsOf, Sent
<1> HIDE DEF hedged, nobody
<1>7. OnlyOne(req, hedged, r)
  BY <1>5 DEF OnlyOne
<1>8. \A w : Shifts(s, req, hedged, r, w)
  BY <1>7, LoadChange
<1>9. \A w \in DOMAIN s.limit : SpendIn(windows[w]) \in Nat /\ w \in DOMAIN s.length /\ s.limit[w] \in Nat
  <2> TAKE w \in DOMAIN s.limit
  <2>1. w \in DOMAIN s.length /\ s.limit[w] \in Nat
    BY SchemeIs
  <2> QED
    BY <1>0, <2>1, AbsentIs DEF WindowsOf
<1>10. AllHeld(s, windows, hedged)
  <2> SUFFICES ASSUME NEW w \in DOMAIN s.limit
               PROVE  Held(s, hedged, w, SpendIn(windows[w])) /\ Roomy(s, hedged, w)
    BY DEF AllHeld
  <2> DEFINE spend == SpendIn(windows[w])
             N == Cardinality(Spenders)
  <2>1. Held(s, req, w, spend) /\ Roomy(s, req, w)
    BY <1>0 DEF AllHeld
  <2>2. s.limit[w] \in Nat /\ spend \in Nat /\ MostCost \in Nat
    BY <1>9, SchemeIs
  <2>3. /\ Riders(req, w) \ {r} = Riders(hedged, w) \ {r}
        /\ TwiceRiders(s, req, w) \ {r} = TwiceRiders(s, hedged, w) \ {r}
        /\ Load(s, hedged, w) + Weight(s, was, w) = Load(s, req, w) + Weight(s, q, w)
    BY <1>5, <1>8 DEF Shifts
  <2>4. Load(s, hedged, w) \in Nat /\ Load(s, req, w) \in Nat
    BY RidersCount
  <2>5. Rides(was, w) <=> Rides(q, w)
    BY <1>4 DEF Rides
  <2>6. Riders(hedged, w) = Riders(req, w)
    BY <1>5, <2>3, <2>5 DEF Riders
  <2>7. CASE ~(w \in HedgeWindows /\ w \in ToSet(was.context))
    <3>1. RidesTwice(s, was, w) <=> RidesTwice(s, q, w)
      BY <1>4, <2>7 DEF RidesTwice
    <3>2. Load(s, hedged, w) = Load(s, req, w)
      BY <2>3, <2>4, <2>5, <3>1 DEF Weight
    <3>3. TwiceRiders(s, hedged, w) = TwiceRiders(s, req, w)
      BY <1>5, <2>3, <3>1 DEF TwiceRiders
    <3> QED
      BY <2>1, <2>6, <3>2, <3>3 DEF Held, Roomy
  <2>8. CASE w \in HedgeWindows /\ w \in ToSet(was.context)
    <3>1. spend + 2 * MostCost < s.limit[w]
      BY <2>8
    <3>2. N \in Nat \ {0} /\ Cardinality(Riders(hedged, w)) \in 0..N /\ Cardinality(TwiceRiders(s, hedged, w)) \in 0..N
      BY RidersCount
    <3>3. Copies(s, w) \in Nat /\ Load(s, hedged, w) <= Copies(s, w) + 1
      BY <2>8, <3>2 DEF Load, Copies
    <3>4. /\ Copies(s, w) * MostCost \in Nat /\ Most(s, w) = s.limit[w] - 1 + Copies(s, w) * MostCost
      BY <2>2, <3>1, MostIs
    <3>5. /\ Load(s, hedged, w) * MostCost <= (Copies(s, w) + 1) * MostCost
          /\ Load(s, hedged, w) * MostCost \in Nat
      BY <2>2, <2>4, <3>3, TimesMore
    <3>6. (Copies(s, w) + 1) * MostCost = Copies(s, w) * MostCost + MostCost
      BY <2>2, <3>3
    <3>7. spend + Load(s, hedged, w) * MostCost <= Most(s, w)
      BY <2>2, <3>1, <3>4, <3>5, <3>6
    <3>8. s.limit[w] # 0 /\ ~(s.limit[w] <= 2 * MostCost)
      BY <2>2, <3>1
    <3> QED
      BY <3>7, <3>8 DEF Held, Roomy
  <2> QED
    BY <2>7, <2>8
<1>11. HedgedAlone(s, windows, hedged)
  <2> SUFFICES ASSUME NEW p \in Spenders, hedged[p].st = "hedged", hedged[p].alone
               PROVE  /\ \A other \in Spenders \ {p} : hedged[other].st = "idle"
                      /\ \A w \in DOMAIN s.limit \cap HedgeWindows \cap ToSet(hedged[p].context) :
                           SpendIn(windows[w]) + hedged[p].copies * MostCost < s.limit[w]
    BY DEF HedgedAlone
  <2>1. p = r
    <3> SUFFICES ASSUME p # r PROVE FALSE
      OBVIOUS
    <3>1. req[p].st = "hedged" /\ req[p].alone
      BY <1>5
    <3>2. req[r].st = "idle"
      BY <1>0, <3>1 DEF HedgedAlone
    <3> QED
      BY <3>2
  <2>2. nobody
    BY <1>2, <1>4, <1>5, <2>1
  <2> QED
    BY <1>4, <1>5, <2>1, <2>2 DEF nobody
<1> QED
  BY <1>0, <1>6, <1>10, <1>11 DEF SpendingFits, hedged

\* An observer of a window in which something is recorded.
LEMMA CountKeeps ==
  ASSUME NEW s \in Schemes, NEW windows \in WindowsOf(s), NEW watch \in WatchOf(s), Watched(s, windows, watch),
         watch.w # "none", NEW cost \in Nat, NEW age \in Nat, NEW window,
         window = [age |-> age, spend |-> SpendIn(windows[watch.w]) + cost],
         age < s.length[watch.w] + s.lag,
         windows[watch.w] # Absent => age = windows[watch.w].age
  PROVE  LET counted == [watch EXCEPT !.recorded = @ + cost] IN
         /\ counted \in WatchOf(s) /\ counted.w = watch.w /\ counted.age < s.length[watch.w]
         /\ window # Absent /\ \E n \in Nat : WindowsEnded(s, n, window, counted)
<1> DEFINE counted == [watch EXCEPT !.recorded = @ + cost]
           old == windows[watch.w]
           E == Most(s, watch.w)
           len == s.length[watch.w]
<1>1. watch.w \in DOMAIN s.limit /\ watch.age \in Nat /\ watch.recorded \in Nat
  BY DEF WatchOf
<1>2. E \in Nat /\ len \in Nat \ {0} /\ s.lag \in Nat /\ watch.w \in DOMAIN s.length
  BY <1>1, MostIs, SchemeIs
<1>3. /\ counted = [w |-> watch.w, age |-> watch.age, recorded |-> watch.recorded + cost]
      /\ counted \in WatchOf(s) /\ counted.w = watch.w /\ counted.age = watch.age
      /\ counted.recorded = watch.recorded + cost
  BY <1>1 DEF WatchOf
<1>4. old \in {Absent} \cup OpenWindow /\ SpendIn(old) \in Nat
  BY <1>2, AbsentIs DEF WindowsOf
<1>5. window.age = age /\ window.spend = SpendIn(old) + cost /\ window # Absent
  <2>1. window.age = age /\ window.spend = SpendIn(old) + cost
    OBVIOUS
  <2>2. window.spend # -1
    BY <1>4, <2>1
  <2> QED
    BY <2>1, <2>2 DEF Absent
<1>6. watch.age < len
  BY DEF Watched
<1> HIDE DEF counted, old, E, len
<1>7. CASE watch.recorded = 0
  <2>1. counted.recorded <= 0 * E + window.spend
    BY <1>2, <1>3, <1>4, <1>5, <1>7
  <2>2. 0 * len <= counted.age - window.age + s.lag + len - 1
    <3>1. 0 * len = 0
      BY <1>2
    <3>2. age < len + s.lag
      BY DEF len
    <3> QED
      BY <1>1, <1>2, <1>3, <1>5, <3>1, <3>2
  <2>3. WindowsEnded(s, 0, window, counted)
    BY <1>3, <2>1, <2>2 DEF WindowsEnded, E, len
  <2> QED
    BY <1>3, <1>5, <1>6, <2>3 DEF counted, len
<1>8. CASE watch.recorded # 0
  <2>1. PICK n \in Nat : WindowsEnded(s, n, old, watch)
    BY <1>8 DEF Watched, old
  <2>2. old # Absent /\ old \in OpenWindow /\ SpendIn(old) = old.spend /\ age = old.age
    BY <1>4, <1>8, AbsentIs DEF Watched, old
  <2>3. watch.recorded <= n * E + old.spend /\ n * len <= watch.age - old.age + s.lag + len - 1
    BY <2>1 DEF WindowsEnded, E, len
  <2>4. n * E \in Nat
    BY <1>2
  <2>5. counted.recorded <= n * E + window.spend
    BY <1>1, <1>3, <1>4, <1>5, <2>2, <2>3, <2>4
  <2>6. n * len <= counted.age - window.age + s.lag + len - 1
    BY <1>3, <1>5, <2>2, <2>3
  <2>7. WindowsEnded(s, n, window, counted)
    BY <1>3, <2>5, <2>6 DEF WindowsEnded, E, len
  <2> QED
    BY <1>3, <1>5, <1>6, <2>7 DEF counted, len
<1> QED
  BY <1>7, <1>8

-----------------------------------------------------------------------------

\* What the state is made of.
LEMMA SpendingParts ==
  ASSUME SpendingInv
  PROVE  /\ SpendingFits(spending.scheme, spending.windows, spending.req, spending.watch)
         /\ spending.scheme \in Schemes
         /\ spending.windows \in WindowsOf(spending.scheme)
         /\ DOMAIN spending.windows = DOMAIN spending.scheme.length
         /\ spending.windows = [w \in DOMAIN spending.windows |-> spending.windows[w]]
         /\ spending.req \in RequestsOf(spending.scheme)
         /\ spending.req = [r \in Spenders |-> spending.req[r]]
         /\ \A r \in Spenders : spending.req[r] \in SpenderOf(spending.scheme) /\ Sent(spending.scheme, spending.req[r])
         /\ spending.watch \in WatchOf(spending.scheme)
  BY DEF SpendingInv, SpendingFits, WindowsOf, RequestsOf

\* A copy that ends without a charge.
LEMMA EndUnchargedKeeps ==
  ASSUME SpendingInv, NEW r \in Spenders, EndUncharged(r)
  PROVE  SpendingInv'
<1> DEFINE s == spending.scheme
           windows == spending.windows
           req == spending.req
           watch == spending.watch
           left == [req EXCEPT ![r] = OneLess(@)]
<1>1. SpendingFits(s, windows, req, watch) /\ s \in Schemes
  BY SpendingParts
<1>2. req[r].st # "idle"
  BY DEF EndUncharged, Idle
<1>3. spending' = LedgerOf(s, windows, left, watch)
  <2>1. spending' = [spending EXCEPT !.req[r] = OneLess(@)]
    BY DEF EndUncharged
  <2>2. spending = LedgerOf(s, windows, req, watch)
    BY DEF SpendingInv
  <2> HIDE DEF s, windows, watch
  <2> QED
    BY <2>1, <2>2 DEF LedgerOf
<1>4. SpendingFits(s, windows, left, watch)
  <2>1. 0 \in 0..MostCost
    BY <1>1, SchemeIs
  <2>2. \A w \in DOMAIN s.limit : SpendIn(windows[w]) + 0 = SpendIn(windows[w])
    <3> TAKE w \in DOMAIN s.limit
    <3>1. SpendIn(windows[w]) \in Nat
      BY <1>1, SpendingParts, SchemeIs, AbsentIs DEF WindowsOf
    <3> QED
      BY <3>1
  <2>3. Charges(s, windows, windows, req[r].context, 0)
    BY <2>2 DEF Charges
  <2> HIDE DEF s, windows, req, watch, left
  <2>4. left \in RequestsOf(s) /\ AllHeld(s, windows, left) /\ HedgedAlone(s, windows, left)
    BY <1>1, <1>2, <2>1, <2>3, EndKeeps DEF left
  <2> QED
    BY <1>1, <2>4 DEF SpendingFits
<1> HIDE DEF s, windows, left, watch
<1> QED
  BY <1>3, <1>4, Arrives

\* The windows of a request, as they are when its answer has found them.
FoundFor(context, lag) ==
  [w \in DOMAIN spending.windows |->
     IF w \in ToSet(context) THEN Visited(spending.windows[w], w, lag) ELSE spending.windows[w]]

\* What Recorded has done to a window of the request, found and then added to.
LEMMA RecordedIs ==
  ASSUME SpendingInv, NEW lag \in 0..spending.scheme.lag, NEW cost \in Nat, NEW context,
         NEW w \in DOMAIN spending.scheme.length
  PROVE  LET found == FoundFor(context, lag)[w]
             now == Recorded(context, lag, cost)[w]
         IN IF w \in ToSet(context)
            THEN \E age \in Nat : /\ now = [age |-> age, spend |-> SpendIn(found) + cost]
                                  /\ age < spending.scheme.length[w] + spending.scheme.lag
                                  /\ found # Absent => age = found.age
                                  /\ now \in OpenWindow /\ SpendIn(now) = SpendIn(found) + cost
            ELSE now = found
<1> DEFINE found == FoundFor(context, lag)[w]
           now == Recorded(context, lag, cost)[w]
           old == spending.windows[w]
           len == spending.scheme.length[w]
<1>1. w \in DOMAIN spending.windows /\ old \in {Absent} \cup OpenWindow
  BY SpendingParts DEF WindowsOf
<1>2. len \in Nat \ {0} /\ spending.scheme.lag \in Nat /\ lag \in Nat /\ lag <= spending.scheme.lag
  BY SpendingParts, SchemeIs
<1>3. CASE w \notin ToSet(context)
  <2>1. now = found
    BY <1>1, <1>3 DEF FoundFor, Recorded
  <2> QED
    BY <1>3, <2>1
<1>4. CASE w \in ToSet(context)
  <2>1. found = Visited(old, w, lag) /\ now = Added(old, w, lag, cost)
    BY <1>1, <1>4 DEF FoundFor, Recorded
  <2>2. /\ found \in {Absent} \cup OpenWindow
        /\ found = Absent <=> old = Absent
        /\ \/ found = old /\ (old # Absent => old.age < len + lag)
           \/ found = Fresh(lag)
    BY <1>1, <1>2, <2>1, VisitedIs
  <2>a. \E age \in Nat : /\ Added(old, w, lag, cost) = [age |-> age, spend |-> SpendIn(Visited(old, w, lag)) + cost]
                         /\ old = Absent => age = 0
                         /\ old # Absent => age = Visited(old, w, lag).age
    BY <1>1, <1>2, AddedIs
  <2>3. PICK age \in Nat : /\ now = [age |-> age, spend |-> SpendIn(found) + cost]
                           /\ old = Absent => age = 0
                           /\ old # Absent => age = found.age
    BY <2>1, <2>a
  <2>4. SpendIn(found) \in Nat
    BY <2>2, AbsentIs
  <2>5. Fresh(lag).age = lag
    BY <1>2, FreshIs
  <2>6. found # Absent => found \in OpenWindow /\ found.age \in Nat
    BY <2>2, AbsentIs
  <2> HIDE DEF found, now, old, len
  <2>7. age < len + spending.scheme.lag
    BY <1>2, <2>2, <2>3, <2>5, <2>6
  <2>8. now \in OpenWindow /\ now.spend = SpendIn(found) + cost
    BY <2>3, <2>4 DEF OpenWindow
  <2>9. SpendIn(now) = SpendIn(found) + cost
    BY <2>8, AbsentIs
  <2> QED
    BY <1>4, <2>2, <2>3, <2>7, <2>8, <2>9 DEF found, now, len
<1> QED
  BY <1>3, <1>4

\* An answer is recorded: its windows are read, and then added to.
LEMMA RecordKeeps ==
  ASSUME SpendingInv, NEW r \in Spenders, Record(r)
  PROVE  SpendingInv'
<1> DEFINE s == spending.scheme
           windows == spending.windows
           req == spending.req
           watch == spending.watch
           context == req[r].context
           left == [req EXCEPT ![r] = OneLess(req[r])]
<1>1. SpendingFits(s, windows, req, watch) /\ s \in Schemes
  BY SpendingParts
<1>2. req[r].st # "idle"
  BY DEF Record, Idle
<1>3. PICK cost \in 0..MostCost, lag \in Lags :
        spending' = [spending EXCEPT !.windows = Recorded(context, lag, cost),
                                     !.req[r] = OneLess(req[r]), !.watch = Counted(context, cost)]
  BY DEF Record
<1> DEFINE found == FoundFor(context, lag)
           now == Recorded(context, lag, cost)
           counted == Counted(context, cost)
<1>4. spending' = LedgerOf(s, now, left, counted)
  <2>1. spending = LedgerOf(s, windows, req, watch)
    BY DEF SpendingInv
  <2>2. spending' = [spending EXCEPT !.windows = now, !.req[r] = OneLess(req[r]), !.watch = counted]
    BY <1>3
  <2> DEFINE seen == [spending EXCEPT !.windows = now]
             answered == OneLess(req[r])
  <2>3. spending' = [[seen EXCEPT !.req = [seen.req EXCEPT ![r] = answered]] EXCEPT !.watch = counted]
    BY <2>2
  <2> HIDE DEF s, windows, watch, now, counted, req, answered
  <2>4. seen = LedgerOf(s, now, req, watch)
    BY <2>1 DEF LedgerOf
  <2> HIDE DEF seen
  <2>5. seen.req = req
    BY <2>4, LedgerIs
  <2> QED
    BY <2>3, <2>4, <2>5 DEF LedgerOf, answered
<1>5. lag \in 0..s.lag /\ cost \in Nat /\ s.lag \in Nat
  BY <1>1, SchemeIs DEF Lags
<1>6. DOMAIN windows = DOMAIN s.length /\ DOMAIN found = DOMAIN s.length /\ DOMAIN now = DOMAIN s.length
  BY SpendingParts DEF FoundFor, Recorded
<1>7. Reread(s, windows, found)
  <2>1. found = [w \in DOMAIN found |-> found[w]]
    BY DEF FoundFor
  <2>2. \A w \in DOMAIN windows : found[w] = windows[w] \/ found[w] = Visited(windows[w], w, lag)
    BY DEF FoundFor
  <2> QED
    BY <1>5, <1>6, <2>1, <2>2 DEF Reread
<1>8. SpendingFits(s, found, req, watch)
  BY <1>1, <1>7, RereadKeeps
<1>9. \A w \in DOMAIN s.length :
        IF w \in ToSet(context)
        THEN \E age \in Nat : /\ now[w] = [age |-> age, spend |-> SpendIn(found[w]) + cost]
                              /\ age < s.length[w] + s.lag
                              /\ found[w] # Absent => age = found[w].age
                              /\ now[w] \in OpenWindow /\ SpendIn(now[w]) = SpendIn(found[w]) + cost
        ELSE now[w] = found[w]
  BY <1>5, RecordedIs
<1>10. counted = IF watch.w \in ToSet(context) THEN [watch EXCEPT !.recorded = @ + cost] ELSE watch
  BY DEF Counted
<1>11. now = [w \in DOMAIN now |-> now[w]]
  BY DEF Recorded
<1> HIDE DEF s, windows, req, watch, context, found, now, counted
<1>12. found \in WindowsOf(s) /\ watch \in WatchOf(s) /\ Watched(s, found, watch)
  BY <1>8 DEF SpendingFits
<1>13. now \in WindowsOf(s)
  <2>1. \A w \in DOMAIN s.length : now[w] \in {Absent} \cup OpenWindow
    BY <1>9, <1>12 DEF WindowsOf
  <2> QED
    BY <1>6, <1>11, <2>1 DEF WindowsOf
<1>14. left \in RequestsOf(s) /\ AllHeld(s, now, left) /\ HedgedAlone(s, now, left)
  <2>1. Charges(s, found, now, req[r].context, cost)
    BY <1>1, <1>9, SchemeIs DEF Charges, context
  <2>2. left = [req EXCEPT ![r] = OneLess(@)]
    OBVIOUS
  <2> HIDE DEF left
  <2>3. [req EXCEPT ![r] = OneLess(@)] \in RequestsOf(s) /\ AllHeld(s, now, [req EXCEPT ![r] = OneLess(@)])
        /\ HedgedAlone(s, now, [req EXCEPT ![r] = OneLess(@)])
    BY <1>1, <1>2, <1>8, <2>1, EndKeeps
  <2> QED
    BY <2>2, <2>3, Zenon
<1>15. counted \in WatchOf(s) /\ Watched(s, now, counted)
  <2>1. CASE watch.w \notin ToSet(context)
    <3>1. counted = watch
      BY <1>10, <2>1
    <3>2. watch.w # "none" => now[watch.w] = found[watch.w]
      BY <1>1, <1>9, <1>12, <2>1, SchemeIs DEF WatchOf
    <3> QED
      BY <1>12, <3>1, <3>2 DEF Watched
  <2>2. CASE watch.w \in ToSet(context) /\ watch.w = "none"
    <3>1. counted = [watch EXCEPT !.recorded = @ + cost]
      BY <1>10, <2>2
    <3>2. counted \in WatchOf(s) /\ counted.w = "none"
      BY <1>5, <1>12, <2>2, <3>1 DEF WatchOf
    <3> QED
      BY <3>2 DEF Watched
  <2>3. CASE watch.w \in ToSet(context) /\ watch.w # "none"
    <3>1. watch.w \in DOMAIN s.length
      BY <1>1, <1>12, <2>3, SchemeIs DEF WatchOf
    <3>2. PICK age \in Nat : /\ now[watch.w] = [age |-> age, spend |-> SpendIn(found[watch.w]) + cost]
                             /\ age < s.length[watch.w] + s.lag
                             /\ found[watch.w] # Absent => age = found[watch.w].age
      BY <1>9, <2>3, <3>1
    <3>3. counted = [watch EXCEPT !.recorded = @ + cost]
      BY <1>10, <2>3
    <3>4. /\ counted \in WatchOf(s) /\ counted.w = watch.w /\ counted.age < s.length[watch.w]
          /\ now[watch.w] # Absent /\ \E n \in Nat : WindowsEnded(s, n, now[watch.w], counted)
      BY <1>1, <1>5, <1>12, <2>3, <3>2, <3>3, CountKeeps
    <3> QED
      BY <3>4 DEF Watched
  <2> QED
    BY <2>1, <2>2, <2>3
<1>16. SpendingFits(s, now, left, counted)
  BY <1>1, <1>13, <1>14, <1>15 DEF SpendingFits
<1> HIDE DEF left
<1> QED
  BY <1>4, <1>16, Arrives

\* A request that begins.
LEMMA BegunIs ==
  ASSUME NEW s, NEW context \in Seq(DOMAIN s.length)
  PROVE  LET q == [NewSpender EXCEPT !.st = "running", !.context = context] IN
         /\ q \in SpenderOf(s) /\ q.st = "running" /\ q.copies = 1 /\ q.alone = FALSE /\ q.context = context
<1>1. PICK none \in BOOLEAN : none = FALSE
  OBVIOUS
<1>2. NewSpender = [st |-> "idle", context |-> <<>>, copies |-> 1, alone |-> none]
  BY <1>1 DEF NewSpender
<1>3. [NewSpender EXCEPT !.st = "running", !.context = context]
        = [st |-> "running", context |-> context, copies |-> 1, alone |-> none]
  <2> DEFINE first == [NewSpender EXCEPT !.st = "running"]
  <2>1. first = [st |-> "running", context |-> <<>>, copies |-> 1, alone |-> none]
    BY <1>2
  <2> HIDE DEF first
  <2>2. [first EXCEPT !.context = context] = [st |-> "running", context |-> context, copies |-> 1, alone |-> none]
    BY <2>1
  <2> QED
    BY <2>2 DEF first
<1> QED
  BY <1>1, <1>3 DEF SpenderOf

\* check(): the windows it has looked at, and the request if it passes.
LEMMA CheckKeeps ==
  ASSUME SpendingInv, NEW r \in Spenders, Check(r)
  PROVE  SpendingInv'
<1> DEFINE s == spending.scheme
           windows == spending.windows
           req == spending.req
           watch == spending.watch
<1>1. SpendingFits(s, windows, req, watch) /\ s \in Schemes /\ windows \in WindowsOf(s)
  BY SpendingParts
<1>2. req[r].st = "idle"
  BY DEF Check, Idle
<1>3. PICK context \in s.contexts, lag \in Lags :
        spending' = [spending EXCEPT
          !.windows = CheckedWindows(context, lag),
          !.req = IF UsedUp(context, lag) = {}
                  THEN Joined(r, [NewSpender EXCEPT !.st = "running", !.context = context]) ELSE req]
  BY DEF Check
<1> DEFINE now == CheckedWindows(context, lag)
           q == [NewSpender EXCEPT !.st = "running", !.context = context]
           joined == IF UsedUp(context, lag) = {} THEN Joined(r, q) ELSE req
<1>4. spending' = LedgerOf(s, now, joined, watch)
  <2>1. spending = LedgerOf(s, windows, req, watch)
    BY DEF SpendingInv
  <2>2. spending' = [spending EXCEPT !.windows = now, !.req = joined]
    BY <1>3
  <2> HIDE DEF s, windows, req, watch, now, joined
  <2> QED
    BY <2>1, <2>2 DEF LedgerOf
<1>5. lag \in 0..s.lag /\ lag \in Nat /\ context \in Seq(DOMAIN s.length)
  BY <1>1, SchemeIs DEF Lags
<1>6. DOMAIN windows = DOMAIN s.length /\ DOMAIN now = DOMAIN s.length /\ now = [w \in DOMAIN now |-> now[w]]
  BY SpendingParts DEF CheckedWindows
<1>7. Reread(s, windows, now)
  <2>1. \A w \in DOMAIN windows : now[w] = windows[w] \/ now[w] = Visited(windows[w], w, lag)
    BY DEF CheckedWindows
  <2> QED
    BY <1>5, <1>6, <2>1 DEF Reread
<1>8. SpendingFits(s, now, req, watch)
  BY <1>1, <1>7, RereadKeeps
<1>9. SpendingFits(s, now, joined, watch)
  <2>1. CASE UsedUp(context, lag) # {}
    BY <1>8, <2>1
  <2>2. CASE UsedUp(context, lag) = {}
    <3>2. q \in SpenderOf(s) /\ q.st = "running" /\ q.copies = 1 /\ q.alone = FALSE /\ q.context = context
      BY <1>5, BegunIs
    <3>3. Joins(req, joined, r, q)
      BY <2>2 DEF Joined, Joins
    <3>4. \A w \in DOMAIN s.limit \cap ToSet(context) : SpendIn(now[w]) < s.limit[w]
      <4> SUFFICES ASSUME NEW w \in DOMAIN s.limit \cap ToSet(context)
                   PROVE  SpendIn(now[w]) < s.limit[w]
        OBVIOUS
      <4>1. PICK i \in DOMAIN context : context[i] = w
        BY DEF ToSet
      <4>2. w \in DOMAIN s.length /\ s.limit[w] \in Nat
        BY <1>1, SchemeIs
      <4>3. i \notin UsedUp(context, lag)
        BY <2>2
      <4>4. ~(SpendIn(Visited(windows[w], w, lag)) >= s.limit[w])
        BY <4>1, <4>3 DEF UsedUp, LimitOf
      <4>5. w \in LookedAt(context, lag)
        BY <2>2, <4>1 DEF LookedAt, LimitOf
      <4>6. now[w] = Visited(windows[w], w, lag)
        BY <1>6, <4>2, <4>5 DEF CheckedWindows
      <4>7. SpendIn(now[w]) \in Nat
        BY <1>8, <4>2, AbsentIs DEF SpendingFits, WindowsOf
      <4> QED
        BY <4>2, <4>4, <4>6, <4>7
    <3> HIDE DEF s, req, watch, now, q, joined
    <3> QED
      BY <1>1, <1>2, <1>8, <3>2, <3>3, <3>4, JoinKeeps
  <2> QED
    BY <2>1, <2>2
<1> HIDE DEF s, now, joined, watch
<1> QED
  BY <1>4, <1>9, Arrives

\* should_hedge(): the windows there are, and the request if there is room for it.
LEMMA HedgeKeeps ==
  ASSUME SpendingInv, NEW r \in Spenders, Hedge(r)
  PROVE  SpendingInv'
<1> DEFINE s == spending.scheme
           windows == spending.windows
           req == spending.req
           watch == spending.watch
           seen == DOMAIN LimitOf \cap HedgeWindows \cap ToSet(req[r].context)
           q == [req[r] EXCEPT !.st = "hedged", !.copies = 2, !.alone = \A other \in Spenders \ {r} : Idle(other)]
           now == Snapshot
           room == \A w \in seen : Headroom(now, w)
           value == IF room THEN q ELSE req[r]
           hedged == [req EXCEPT ![r] = value]
<1>1. SpendingFits(s, windows, req, watch) /\ s \in Schemes /\ windows \in WindowsOf(s) /\ req = [p \in Spenders |-> req[p]]
  BY SpendingParts
<1>2. s.hedges /\ req[r].st = "running" /\ req[r].copies = 1
  BY DEF Hedge
<1>3. spending' = [spending EXCEPT !.windows = now, !.req[r] = value]
  BY DEF Hedge
<1>4. spending' = LedgerOf(s, now, hedged, watch)
  <2>1. spending = LedgerOf(s, windows, req, watch)
    BY DEF SpendingInv
  <2> DEFINE looked == [spending EXCEPT !.windows = now]
  <2>2. spending' = [looked EXCEPT !.req = [looked.req EXCEPT ![r] = value]]
    BY <1>3
  <2> HIDE DEF s, windows, req, watch, now, value
  <2>3. looked = LedgerOf(s, now, req, watch)
    BY <2>1 DEF LedgerOf
  <2> HIDE DEF looked
  <2>4. looked.req = req
    BY <2>3, LedgerIs
  <2> QED
    BY <2>2, <2>3, <2>4 DEF LedgerOf
<1>5. DOMAIN windows = DOMAIN s.length /\ DOMAIN now = DOMAIN s.length /\ now = [w \in DOMAIN now |-> now[w]]
  BY SpendingParts DEF Snapshot
<1>6. Reread(s, windows, now)
  <2>1. \A w \in DOMAIN windows : now[w] = Visited(windows[w], w, 0)
    BY DEF Snapshot
  <2>2. 0 \in 0..s.lag
    BY <1>1, SchemeIs
  <2> QED
    BY <1>5, <2>1, <2>2 DEF Reread
<1>7. SpendingFits(s, now, req, watch)
  BY <1>1, <1>6, RereadKeeps
<1>8. SpendingFits(s, now, hedged, watch)
  <2>1. CASE ~room
    <3>1. hedged = req
      BY <1>1, <2>1
    <3> QED
      BY <1>7, <3>1
  <2>2. CASE room
    <3>1. \A w \in DOMAIN s.limit \cap HedgeWindows \cap ToSet(req[r].context) :
            SpendIn(now[w]) + 2 * MostCost < s.limit[w]
      <4> TAKE w \in DOMAIN s.limit \cap HedgeWindows \cap ToSet(req[r].context)
      <4>1. 100 * (SpendIn(now[w]) + 2 * MostCost) < s.limit[w] * (100 - Margin)
        BY <2>2 DEF Headroom, SpendOf, LimitOf
      <4>2. s.limit[w] \in Nat /\ w \in DOMAIN s.length /\ MostCost \in Nat /\ Margin \in 0..99
        BY <1>1, SchemeIs
      <4>3. SpendIn(now[w]) \in Nat
        BY <1>7, <4>2, AbsentIs DEF SpendingFits, WindowsOf
      <4>4. s.limit[w] * (100 - Margin) <= s.limit[w] * 100
        BY <4>2, TimesMore
      <4> HIDE DEF now, s, req
      <4> QED
        BY <4>1, <4>2, <4>3, <4>4
    <3>2. q = [req[r] EXCEPT !.st = "hedged", !.copies = 2, !.alone = \A other \in Spenders \ {r} : req[other].st = "idle"]
      BY DEF Idle
    <3>3. hedged = [req EXCEPT ![r] = q]
      BY <2>2
    <3> HIDE DEF s, req, watch, now, q, hedged
    <3> QED
      BY <1>1, <1>2, <1>7, <3>1, <3>2, <3>3, HedgedKeeps
  <2> QED
    BY <2>1, <2>2
<1> HIDE DEF s, now, hedged, watch
<1> QED
  BY <1>4, <1>8, Arrives

\* reset(): nothing is spent, and the observer begins again.
LEMMA ResetKeeps ==
  ASSUME SpendingInv, ResetLedger
  PROVE  SpendingInv'
<1> DEFINE s == spending.scheme
           windows == spending.windows
           req == spending.req
           watch == spending.watch
           now == [w \in DOMAIN windows |-> IF w = "global" THEN Fresh(0) ELSE Absent]
<1>1. SpendingFits(s, windows, req, watch) /\ s \in Schemes /\ req \in RequestsOf(s)
  BY SpendingParts
<1>2. spending' = LedgerOf(s, now, req, NoWatch)
  <2>1. spending = LedgerOf(s, windows, req, watch)
    BY DEF SpendingInv
  <2>2. spending' = [spending EXCEPT !.windows = now, !.watch = NoWatch]
    BY DEF ResetLedger
  <2> HIDE DEF s, windows, req, watch, now
  <2> QED
    BY <2>1, <2>2 DEF LedgerOf
<1>3. \A w \in DOMAIN s.length : /\ now[w] \in {Absent} \cup OpenWindow /\ SpendIn(now[w]) = 0
                                 /\ SpendIn(windows[w]) \in Nat
  <2> TAKE w \in DOMAIN s.length
  <2>1. w \in DOMAIN windows /\ windows[w] \in {Absent} \cup OpenWindow
    BY SpendingParts DEF WindowsOf
  <2>2. Fresh(0) \in OpenWindow /\ Fresh(0).spend = 0
    BY FreshIs
  <2>3. SpendIn(Absent) = 0 /\ SpendIn(Fresh(0)) = 0
    BY <2>2, AbsentIs
  <2>4. now[w] = Fresh(0) \/ now[w] = Absent
    BY <2>1
  <2> QED
    BY <2>1, <2>2, <2>3, <2>4, AbsentIs
<1>4. now \in WindowsOf(s)
  BY <1>3, SpendingParts DEF WindowsOf
<1> HIDE DEF s, windows, req, watch, now
<1>5. AllHeld(s, now, req)
  <2> SUFFICES ASSUME NEW w \in DOMAIN s.limit
               PROVE  Held(s, req, w, SpendIn(now[w])) /\ Roomy(s, req, w)
    BY DEF AllHeld
  <2>1. Held(s, req, w, SpendIn(windows[w])) /\ Roomy(s, req, w)
    BY <1>1 DEF SpendingFits, AllHeld
  <2>2. w \in DOMAIN s.length
    BY <1>1, SchemeIs
  <2>3. SpendIn(windows[w]) \in Nat
    BY <1>3, <2>2
  <2>4. Held(s, req, w, 0)
    BY <1>1, <2>1, <2>3, EmptyHeld
  <2> QED
    BY <1>3, <2>1, <2>2, <2>4
<1>6. HedgedAlone(s, now, req)
  <2>1. \A r \in Spenders : req[r].copies \in Nat
    BY <1>1 DEF RequestsOf, SpenderOf
  <2>2. \A r \in Spenders : req[r].copies * MostCost \in Nat
    BY <1>1, <2>1, SchemeIs
  <2>3. \A w \in DOMAIN s.limit : w \in DOMAIN s.length /\ s.limit[w] \in Nat
    BY <1>1, SchemeIs
  <2>4. \A w \in DOMAIN s.limit, a \in Nat : SpendIn(windows[w]) + a < s.limit[w] => SpendIn(now[w]) + a < s.limit[w]
    BY <1>3, <2>3
  <2>5. HedgedAlone(s, windows, req)
    BY <1>1 DEF SpendingFits
  <2> QED
    BY <2>2, <2>4, <2>5 DEF HedgedAlone
<1>7. NoWatch \in WatchOf(s) /\ Watched(s, now, NoWatch)
  BY DEF NoWatch, WatchOf, Watched
<1>8. SpendingFits(s, now, req, NoWatch)
  BY <1>1, <1>4, <1>5, <1>6, <1>7 DEF SpendingFits
<1> QED
  BY <1>2, <1>8, Arrives

\* Time only makes windows older.
LEMMA OlderIs ==
  ASSUME SpendingInv, NEW w \in DOMAIN spending.scheme.length
  PROVE  LET window == spending.windows[w] IN
         /\ Older(w) \in {Absent} \cup OpenWindow
         /\ Older(w) = Absent <=> window = Absent
         /\ window # Absent => /\ Older(w) \in OpenWindow /\ Older(w).spend = window.spend
                               /\ Older(w).age <= window.age + 1
         /\ SpendIn(Older(w)) = SpendIn(window)
<1> DEFINE window == spending.windows[w]
<1>1. window \in {Absent} \cup OpenWindow
  BY SpendingParts DEF WindowsOf
<1>2. CASE window = Absent
  BY <1>2 DEF Older
<1>3. CASE window # Absent
  <2>1. window \in OpenWindow /\ window.age \in Nat /\ window.spend \in Nat
    BY <1>1, <1>3, AbsentIs
  <2>2. \A v \in OpenWindow : [v EXCEPT !.age = @ + 1] = [age |-> v.age + 1, spend |-> v.spend]
    BY DEF OpenWindow
  <2>3. Older(w) = window \/ Older(w) = [window EXCEPT !.age = @ + 1]
    BY <1>3 DEF Older
  <2> HIDE DEF window
  <2>4. Older(w) = window \/ Older(w) = [age |-> window.age + 1, spend |-> window.spend]
    BY <2>1, <2>2, <2>3
  <2>5. Older(w) \in OpenWindow /\ Older(w).spend = window.spend /\ Older(w).age <= window.age + 1
    BY <2>1, <2>4 DEF OpenWindow
  <2>6. SpendIn(Older(w)) = SpendIn(window)
    BY <2>1, <2>5, AbsentIs
  <2> QED
    BY <1>3, <2>5, <2>6, AbsentIs DEF window
<1> QED
  BY <1>2, <1>3

\* What an observer is after a tick, and whatever it has counted.
LEMMA WatchTicks ==
  ASSUME SpendingInv, NEW watch \in {Passing} \cup {[NoWatch EXCEPT !.w = w] : w \in DOMAIN LimitOf},
         NEW now, \A w \in DOMAIN spending.scheme.length : now[w] = Older(w)
  PROVE  watch \in WatchOf(spending.scheme) /\ Watched(spending.scheme, now, watch)
<1> DEFINE s == spending.scheme
           old == spending.watch
           len == s.length[old.w]
<1>1. s \in Schemes /\ old \in WatchOf(s) /\ Watched(s, spending.windows, old)
  BY SpendingParts DEF SpendingFits
<1>2. NoWatch \in WatchOf(s) /\ NoWatch.w = "none"
  BY DEF NoWatch, WatchOf
<1>3. CASE watch = NoWatch
  BY <1>2, <1>3 DEF Watched
<1>4. CASE watch \in {[NoWatch EXCEPT !.w = w] : w \in DOMAIN LimitOf}
  <2>1. PICK w \in DOMAIN s.limit : watch = [NoWatch EXCEPT !.w = w]
    BY <1>4 DEF LimitOf
  <2>2. watch = [w |-> w, age |-> 0, recorded |-> 0]
    BY <2>1 DEF NoWatch
  <2>3. s.length[w] \in Nat \ {0}
    BY <1>1, SchemeIs
  <2>4. watch \in WatchOf(s)
    BY <2>2 DEF WatchOf
  <2>5. watch.w = w /\ watch.age < s.length[w] /\ watch.recorded = 0
    BY <2>2, <2>3
  <2> QED
    BY <2>4, <2>5 DEF Watched
<1>5. CASE watch = Passing /\ watch # NoWatch
  <2>1. old.w # "none" /\ old.age + 1 # len /\ watch = [old EXCEPT !.age = @ + 1]
    BY <1>5 DEF Passing
  <2>2. old.w \in DOMAIN s.limit /\ old.age \in Nat /\ old.recorded \in Nat
    BY <1>1, <2>1 DEF WatchOf
  <2>3. old.w \in DOMAIN s.length /\ len \in Nat \ {0} /\ s.lag \in Nat
    BY <1>1, <2>2, SchemeIs
  <2> HIDE DEF old, s, len
  <2>4. watch = [w |-> old.w, age |-> old.age + 1, recorded |-> old.recorded]
    BY <1>1, <2>1 DEF WatchOf
  <2>5. /\ watch.w = old.w /\ watch.age = old.age + 1 /\ watch.recorded = old.recorded
        /\ watch \in WatchOf(s)
    BY <2>2, <2>4 DEF WatchOf
  <2>6. old.age < len
    BY <1>1, <2>1 DEF Watched, len
  <2>7. watch.age < len
    BY <2>1, <2>2, <2>3, <2>5, <2>6
  <2>8. CASE old.recorded = 0
    BY <2>5, <2>7, <2>8 DEF Watched, len, s
  <2>9. CASE old.recorded # 0
    <3> DEFINE window == spending.windows[old.w]
               older == now[old.w]
    <3>1. window # Absent /\ \E n \in Nat : WindowsEnded(s, n, window, old)
      BY <1>1, <2>1, <2>9 DEF Watched
    <3>2. PICK n \in Nat : WindowsEnded(s, n, window, old)
      BY <3>1
    <3>3. window \in OpenWindow
      BY <2>3, <3>1, SpendingParts DEF WindowsOf, s
    <3>4. older \in OpenWindow /\ older.spend = window.spend /\ older.age <= window.age + 1
      BY <2>3, <3>1, OlderIs DEF s
    <3>5. window.age \in Nat /\ older.age \in Nat /\ older # Absent
      BY <3>3, <3>4, AbsentIs
    <3>6. old.recorded <= n * Most(s, old.w) + window.spend /\ n * len <= old.age - window.age + s.lag + len - 1
      BY <3>2 DEF WindowsEnded, len
    <3> HIDE DEF window, older
    <3>7. n * len \in Nat
      BY <2>3
    <3>8. n * len <= watch.age - older.age + s.lag + len - 1
      BY <2>2, <2>3, <2>5, <3>4, <3>5, <3>6, <3>7
    <3>9. WindowsEnded(s, n, older, watch)
      BY <2>5, <3>4, <3>6, <3>8 DEF WindowsEnded, len
    <3> QED
      BY <2>5, <2>7, <3>5, <3>9 DEF Watched, len, older, s
  <2> QED
    BY <2>5, <2>8, <2>9 DEF s
<1> QED
  BY <1>3, <1>4, <1>5

\* Time passes.
LEMMA TickKeeps ==
  ASSUME SpendingInv, SpendingTick
  PROVE  SpendingInv'
<1> DEFINE s == spending.scheme
           windows == spending.windows
           req == spending.req
           now == [w \in DOMAIN windows |-> Older(w)]
<1>1. PICK watch \in {Passing} \cup {[NoWatch EXCEPT !.w = w] : w \in DOMAIN LimitOf} :
        spending' = [spending EXCEPT !.windows = now, !.watch = watch]
  BY DEF SpendingTick
<1>2. SpendingFits(s, windows, req, spending.watch) /\ s \in Schemes /\ req \in RequestsOf(s)
  BY SpendingParts
<1>3. spending' = LedgerOf(s, now, req, watch)
  <2>1. spending = LedgerOf(s, windows, req, spending.watch)
    BY DEF SpendingInv
  <2> DEFINE old == spending.watch
             ticked == [spending EXCEPT !.windows = now]
  <2>2. spending' = [ticked EXCEPT !.watch = watch]
    BY <1>1
  <2> HIDE DEF s, windows, req, now, old
  <2>3. ticked = LedgerOf(s, now, req, old)
    BY <2>1 DEF LedgerOf, old
  <2> HIDE DEF ticked
  <2> QED
    BY <2>2, <2>3 DEF LedgerOf
<1>4. DOMAIN now = DOMAIN s.length /\ \A w \in DOMAIN s.length : now[w] = Older(w)
  BY SpendingParts
<1>5. \A w \in DOMAIN s.length : now[w] \in {Absent} \cup OpenWindow /\ SpendIn(now[w]) = SpendIn(windows[w])
  BY <1>4, OlderIs
<1>6. now \in WindowsOf(s)
  BY <1>4, <1>5 DEF WindowsOf
<1>7. watch \in WatchOf(s) /\ Watched(s, now, watch)
  BY <1>4, WatchTicks
<1> HIDE DEF s, windows, req, now
<1>8. \A w \in DOMAIN s.limit : SpendIn(now[w]) = SpendIn(windows[w])
  BY <1>2, <1>5, SchemeIs
<1>9. AllHeld(s, now, req)
  BY <1>2, <1>8 DEF SpendingFits, AllHeld
<1>10. HedgedAlone(s, now, req)
  BY <1>2, <1>8 DEF SpendingFits, HedgedAlone
<1>11. SpendingFits(s, now, req, watch)
  BY <1>2, <1>6, <1>7, <1>9, <1>10 DEF SpendingFits
<1> QED
  BY <1>3, <1>11, Arrives

\* A fresh ledger, or cost limit.
LEMMA SpendingBegins == SpendingInit => SpendingInv
<1> SUFFICES ASSUME SpendingInit PROVE SpendingInv
  OBVIOUS
<1>1. PICK s \in Schemes : spending = NewSpending(s)
  BY DEF SpendingInit
<1> DEFINE windows == [w \in DOMAIN s.length |-> IF w \in s.present THEN Fresh(0) ELSE Absent]
           req == [r \in Spenders |-> NewSpender]
<1>2. spending = LedgerOf(s, windows, req, NoWatch)
  BY <1>1 DEF NewSpending, LedgerOf, NoWatch
<1>3. Fresh(0) \in OpenWindow /\ Fresh(0).spend = 0
  BY FreshIs
<1>4. \A w \in DOMAIN s.length : windows[w] \in {Absent} \cup OpenWindow /\ SpendIn(windows[w]) = 0
  <2>1. SpendIn(Absent) = 0 /\ SpendIn(Fresh(0)) = 0
    BY <1>3, AbsentIs
  <2>2. \A w \in DOMAIN s.length : windows[w] = Fresh(0) \/ windows[w] = Absent
    OBVIOUS
  <2> QED
    BY <1>3, <2>1, <2>2
<1>5. windows \in WindowsOf(s)
  BY <1>4 DEF WindowsOf
<1>6. req \in RequestsOf(s)
  BY NewSpenderIs DEF RequestsOf
<1>7. NoWatch \in WatchOf(s) /\ Watched(s, windows, NoWatch)
  BY DEF NoWatch, WatchOf, Watched
<1>8. HedgedAlone(s, windows, req)
  BY NewSpenderIs DEF HedgedAlone
<1>9. AllHeld(s, windows, req)
  <2> SUFFICES ASSUME NEW w \in DOMAIN s.limit
               PROVE  Held(s, req, w, SpendIn(windows[w])) /\ Roomy(s, req, w)
    BY DEF AllHeld
  <2>1. Riders(req, w) = {} /\ TwiceRiders(s, req, w) = {}
    BY NewSpenderIs DEF Riders, TwiceRiders
  <2>2. SpendIn(windows[w]) = 0
    BY <1>4, SchemeIs
  <2>3. Roomy(s, req, w)
    BY <2>1 DEF Roomy
  <2>4. CASE s.limit[w] = 0
    BY <2>1, <2>2, <2>3, <2>4 DEF Held
  <2>5. CASE s.limit[w] # 0
    <3>1. s.limit[w] > 0
      BY <2>5, SchemeIs
    <3> QED
      BY <2>2, <2>3, <2>5, <3>1, LoadSmall DEF Held
  <2> QED
    BY <2>4, <2>5
<1>10. SpendingFits(s, windows, req, NoWatch)
  BY <1>5, <1>6, <1>7, <1>8, <1>9 DEF SpendingFits
<1> HIDE DEF windows, req
<1>11. spending.scheme = s /\ spending.windows = windows /\ spending.req = req /\ spending.watch = NoWatch
  BY <1>2, LedgerIs
<1> QED
  BY <1>2, <1>10, <1>11 DEF SpendingInv

\* Every step keeps the invariant.
LEMMA SpendingNextKeeps == SpendingInv /\ [SpendingNext]_spending => SpendingInv'
<1> SUFFICES ASSUME SpendingInv, [SpendingNext]_spending PROVE SpendingInv'
  OBVIOUS
<1>1. CASE \E r \in Spenders : Check(r) \/ Hedge(r) \/ Record(r) \/ EndUncharged(r)
  BY <1>1, CheckKeeps, HedgeKeeps, RecordKeeps, EndUnchargedKeeps
<1>2. CASE ResetLedger
  BY <1>2, ResetKeeps
<1>3. CASE SpendingTick
  BY <1>3, TickKeeps
<1>4. CASE UNCHANGED spending
  BY <1>4 DEF SpendingInv
<1> QED
  BY <1>1, <1>2, <1>3, <1>4 DEF SpendingNext

\* Excess says what Most does.
LEMMA ExcessIs ==
  ASSUME spending.scheme \in Schemes, NEW w \in DOMAIN spending.scheme.limit
  PROVE  Excess(w) = Most(spending.scheme, w)
<1>1. spending.scheme.hedges \in BOOLEAN
  BY SchemeIs
<1>2. CASE ~spending.scheme.hedges
  BY <1>2 DEF Excess, Most, Copies, LimitOf
<1>3. CASE spending.scheme.hedges /\ w \in HedgeWindows
  BY <1>3 DEF Excess, Most, Copies, LimitOf
<1>4. CASE spending.scheme.hedges /\ w \notin HedgeWindows
  BY <1>4 DEF Excess, Most, Copies, LimitOf
<1> QED
  BY <1>1, <1>2, <1>3, <1>4

\* How often a length goes into a span.
LEMMA Quotient ==
  ASSUME NEW n \in Nat, NEW len \in Nat \ {0}, NEW lag \in Nat, n * len <= 2 * len + lag - 2
  PROVE  /\ (len + lag - 2) \div len \in Int
         /\ n <= 1 + (len + lag - 2) \div len
<1> DEFINE q == (len + lag - 2) \div len
<1>1. q \in Int /\ len + lag - 2 < (q + 1) * len
  OBVIOUS
<1> HIDE DEF q
<1>2. SUFFICES n <= 1 + q
  BY <1>1 DEF q
<1>3. SUFFICES ASSUME n >= q + 2
               PROVE  FALSE
  BY <1>1
<1>4. (n - 1) * len = n * len - len
  OBVIOUS
<1>5. (q + 1) * len <= (n - 1) * len
  <2>1. PICK d \in Nat : n - 1 = (q + 1) + d
    <3>1. (n - 1) - (q + 1) \in Nat
      BY <1>1, <1>3
    <3> QED
      BY <1>1, <3>1
  <2>2. (n - 1) * len = (q + 1) * len + d * len /\ d * len \in Nat /\ (q + 1) * len \in Int
    BY <1>1, <2>1
  <2> QED
    BY <2>2
<1>6. n * len \in Nat /\ (q + 1) * len \in Int
  BY <1>1
<1> QED
  BY <1>1, <1>4, <1>5, <1>6

\* What the invariant says of what is spent.
LEMMA SpendingInvSays == SpendingInv => SpendingBounded
<1> SUFFICES ASSUME SpendingInv PROVE SpendingBounded
  OBVIOUS
<1> DEFINE s == spending.scheme
           windows == spending.windows
           req == spending.req
           watch == spending.watch
<1>1. SpendingFits(s, windows, req, watch) /\ s \in Schemes /\ windows \in WindowsOf(s) /\ watch \in WatchOf(s)
  BY SpendingParts
<1>2. \A w \in DOMAIN s.limit : /\ w \in DOMAIN s.length /\ Excess(w) = Most(s, w) /\ Most(s, w) \in Nat
                                /\ windows[w] \in {Absent} \cup OpenWindow /\ SpendIn(windows[w]) \in Nat
                                /\ SpendIn(windows[w]) <= Most(s, w)
  <2> TAKE w \in DOMAIN s.limit
  <2>1. w \in DOMAIN s.length
    BY <1>1, SchemeIs
  <2>2. windows[w] \in {Absent} \cup OpenWindow /\ SpendIn(windows[w]) \in Nat
    BY <1>1, <2>1, AbsentIs DEF WindowsOf
  <2>3. Held(s, req, w, SpendIn(windows[w]))
    BY <1>1 DEF SpendingFits, AllHeld
  <2> QED
    BY <1>1, <2>1, <2>2, <2>3, HeldSays, ExcessIs, MostIs
<1>3. \A w \in DOMAIN LimitOf : SpendOf(spending.windows, w) <= Excess(w)
  BY <1>2 DEF LimitOf, SpendOf
<1>4. watch.w # "none" => watch.recorded <= Met(watch.w) * Excess(watch.w)
  <2> SUFFICES ASSUME watch.w # "none"
               PROVE  watch.recorded <= Met(watch.w) * Excess(watch.w)
    OBVIOUS
  <2> DEFINE w == watch.w
             E == Most(s, w)
             len == s.length[w]
             q == (len + s.lag - 2) \div len
  <2>1. w \in DOMAIN s.limit /\ watch.age \in Nat /\ watch.recorded \in Nat
    BY <1>1 DEF WatchOf
  <2>2. len \in Nat \ {0} /\ s.lag \in Nat /\ E \in Nat /\ Excess(w) = E
    BY <1>1, <1>2, <2>1, SchemeIs
  <2>3. Met(w) = 2 + q
    BY DEF Met
  <2>4. \A n \in Nat : n * len <= 2 * len + s.lag - 2 => q \in Int /\ n <= 1 + q
    BY <2>2, Quotient
  <2>5. watch.age < len
    BY <1>1 DEF SpendingFits, Watched
  <2> HIDE DEF q
  <2>6. PICK n \in Nat : n * len <= 2 * len + s.lag - 2 /\ watch.recorded <= (n + 1) * E
    <3>1. CASE watch.recorded = 0
      <4>0. 0 * len = 0 /\ 0 * E = 0
        BY <2>2
      <4>1. 0 * len <= 2 * len + s.lag - 2
        BY <2>2, <4>0
      <4>2. (0 + 1) * E = E
        BY <2>2
      <4> QED
        BY <2>2, <3>1, <4>1, <4>2
    <3>2. CASE watch.recorded # 0
      <4> DEFINE window == windows[w]
      <4>1. window # Absent /\ \E n \in Nat : WindowsEnded(s, n, window, watch)
        BY <1>1, <3>2 DEF SpendingFits, Watched
      <4>2. PICK n \in Nat : WindowsEnded(s, n, window, watch)
        BY <4>1
      <4>3. window \in OpenWindow /\ SpendIn(window) = window.spend /\ window.age \in Nat /\ window.spend \in Nat
            /\ window.spend <= E
        BY <1>2, <2>1, <4>1, AbsentIs
      <4>4. watch.recorded <= n * E + window.spend /\ n * len <= watch.age - window.age + s.lag + len - 1
        BY <4>2 DEF WindowsEnded
      <4> HIDE DEF window, E, len
      <4>5. (n + 1) * E = n * E + E /\ n * E \in Nat /\ n * len \in Nat
        BY <2>2
      <4>6. watch.recorded <= (n + 1) * E
        BY <2>1, <2>2, <4>3, <4>4, <4>5
      <4>7. n * len <= 2 * len + s.lag - 2
        BY <2>1, <2>2, <2>5, <4>3, <4>4, <4>5
      <4> QED
        BY <4>6, <4>7
    <3> QED
      BY <3>1, <3>2
  <2>7. q \in Int /\ n <= 1 + q
    BY <2>4, <2>6
  <2>8. n + 1 \in Nat /\ 2 + q \in Nat /\ n + 1 <= 2 + q
    BY <2>7
  <2>9. (n + 1) * E <= (2 + q) * E /\ (n + 1) * E \in Nat /\ (2 + q) * E \in Nat
    BY <2>2, <2>8, TimesMore
  <2> HIDE DEF w, E
  <2>10. watch.recorded <= (2 + q) * E
    BY <2>1, <2>6, <2>9
  <2>11. watch.recorded <= Met(w) * Excess(w)
    BY <2>2, <2>3, <2>10
  <2> QED
    BY <2>11 DEF w
<1>5. \A r \in Spenders : req[r].st = "hedged" /\ req[r].alone =>
        \A w \in DOMAIN LimitOf \cap HedgeWindows \cap ToSet(req[r].context) :
          SpendOf(windows, w) + req[r].copies * MostCost < LimitOf[w]
  BY <1>1 DEF SpendingFits, HedgedAlone, SpendOf, LimitOf
<1> QED
  BY <1>3, <1>4, <1>5 DEF SpendingBounded

\* Whatever is in flight, however late it is recorded, by whatever timestamps, and
\* in whatever order the windows are renewed: a window that has a limit, and any
\* interval as long as one, holds no more than the last check let in and what was
\* in flight; and a request hedged alone reaches no limit should_hedge looked at.
THEOREM SpendingAlwaysBounded == ClientSafety => []SpendingBounded
<1>1. ClientInit => SpendingInv
  <2>1. (CHOOSE s \in Schemes : TRUE) \in Schemes
    BY SpendingAssumption DEF SpendingAssumption
  <2>2. ClientInit => SpendingInit
    BY <2>1 DEF ClientInit, SpendingInit
  <2> QED
    BY <2>2, SpendingBegins
<1>2. [ClientNext]_clientVars => [SpendingNext]_spending
  BY DEF ClientNext, clientVars, CallStep, SseStep, FramesStep, ChatStep, RegistryStep,
         RealtimeStep, GuardsStep, SpendingStep, SemanticStep
<1> QED
  BY <1>1, <1>2, SpendingNextKeeps, SpendingInvSays, PTL DEF ClientSafety

-----------------------------------------------------------------------------
(* Realtime: an event keeps what it says, however many relays pass it on.  *)

\* As many positions as are kept have a part with that many up to it.
LEMMA EachPlaceIsTaken ==
  ASSUME NEW parts, NEW n \in Nat, DOMAIN parts = 1..n
  PROVE  /\ Cardinality(KeptParts(parts)) \in Nat
         /\ \A m \in 1..Cardinality(KeptParts(parts)) : \E k \in KeptParts(parts) : PartsUpTo(parts, k) = m
<1> DEFINE Upto(i) == {j \in KeptParts(parts) : j <= i}
<1>1. /\ KeptParts(parts) \subseteq 1..n /\ IsFiniteSet(1..n)
  BY FS_Interval, 0 \in Int, 1 \in Int DEF KeptParts
<1>2. IsFiniteSet(KeptParts(parts)) /\ Cardinality(KeptParts(parts)) \in Nat
  BY <1>1, FS_Subset, FS_CardinalityType
<1>3. \A i \in Nat : IsFiniteSet(Upto(i)) /\ Cardinality(Upto(i)) \in Nat
  <2> TAKE i \in Nat
  <2>1. Upto(i) \subseteq KeptParts(parts)
    OBVIOUS
  <2> QED
    BY <1>2, <2>1, FS_Subset, FS_CardinalityType
<1>4. Upto(n) = KeptParts(parts) /\ Upto(0) = {}
  BY <1>1
<1>5. ASSUME NEW m \in 1..Cardinality(KeptParts(parts))
      PROVE  \E k \in KeptParts(parts) : PartsUpTo(parts, k) = m
  <2> HIDE DEF Upto
  <2> DEFINE T == {i \in Nat : Cardinality(Upto(i)) >= m}
  <2>1. n \in T
    BY <1>2, <1>4
  <2>2. PICK i \in T : \A k \in T : i <= k
    <3>1. T \in SUBSET Nat /\ T # {}
      BY <2>1
    <3> HIDE DEF T
    <3> QED
      BY <3>1, LeastNumber
  <2>3. i \in Nat \ {0}
    <3>1. Cardinality(Upto(0)) = 0
      BY <1>4, FS_EmptySet, Zenon
    <3>2. 0 < m
      BY <1>2
    <3> QED
      BY <2>2, <3>1, <3>2, <1>3
  <2>4. i - 1 \in Nat /\ i - 1 \notin T
    BY <2>2, <2>3
  <2>5. Cardinality(Upto(i - 1)) < m
    BY <1>3, <2>4
  <2>6. i \in KeptParts(parts)
    <3> SUFFICES ASSUME i \notin KeptParts(parts) PROVE FALSE
      OBVIOUS
    <3>1. Upto(i) = Upto(i - 1)
      BY <1>1, <2>3 DEF Upto
    <3> QED
      BY <2>2, <2>5, <3>1, <1>3, <2>3, <2>4
  <2>7. Upto(i) = Upto(i - 1) \cup {i} /\ i \notin Upto(i - 1)
    BY <1>1, <2>3, <2>6 DEF Upto
  <2>8. Cardinality(Upto(i)) = Cardinality(Upto(i - 1)) + 1
    BY <1>3, <2>4, <2>7, FS_AddElement
  <2>9. Cardinality(Upto(i)) = m
    BY <1>3, <2>2, <2>3, <2>4, <2>5, <2>8
  <2> QED
    BY <2>6, <2>9 DEF Upto, PartsUpTo
<1> QED
  BY <1>2, <1>5

\* What the parts of a message become: a list of the kinds there are.
PartKinds == {"text", "audio", "image_url"}
IsContent(content) ==
  \E c \in Nat : DOMAIN content = 1..c /\ content = [n \in 1..c |-> content[n]]
                   /\ \A n \in 1..c : content[n] \in PartKinds

LEMMA ContentOfParts ==
  ASSUME NEW parts, NEW n \in Nat, DOMAIN parts = 1..n
  PROVE  IsContent(ContentParts(parts))
<1> DEFINE c == Cardinality(KeptParts(parts))
           at(m) == CHOOSE k \in KeptParts(parts) : PartsUpTo(parts, k) = m
<1>1. c \in Nat /\ \A m \in 1..c : at(m) \in KeptParts(parts)
  BY EachPlaceIsTaken
<1>2. \A m \in 1..c : PartKind(parts[at(m)]) \in PartKinds
  BY <1>1 DEF KeptParts, PartKind, PartKinds
<1>3. ContentParts(parts) = [m \in 1..c |-> PartKind(parts[at(m)])]
  BY DEF ContentParts
<1> HIDE DEF c, at
<1> QED
  BY <1>1, <1>2, <1>3 DEF IsContent

\* Content that was read is read again as it is.
LEMMA ContentAgain ==
  ASSUME NEW content, IsContent(content)
  PROVE  ContentParts(content) = content
<1>1. PICK c \in Nat : /\ DOMAIN content = 1..c /\ content = [n \in 1..c |-> content[n]]
                       /\ \A n \in 1..c : content[n] \in PartKinds
  BY DEF IsContent
<1>2. \A n \in 1..c : PartKind(content[n]) = content[n] /\ content[n] # "dropped"
  BY <1>1 DEF PartKind, PartKinds
<1>3. KeptParts(content) = 1..c
  BY <1>1, <1>2 DEF KeptParts
<1>4. Cardinality(1..c) = c
  BY FS_Interval, 1 \in Int, c \in Int
<1>5. \A k \in 1..c : PartsUpTo(content, k) = k
  <2> TAKE k \in 1..c
  <2>1. {j \in KeptParts(content) : j <= k} = 1..k
    BY <1>3
  <2>2. Cardinality(1..k) = k
    BY FS_Interval, 1 \in Int, k \in Int
  <2> QED
    BY <2>1, <2>2 DEF PartsUpTo
<1>6. \A n \in 1..c : (CHOOSE k \in KeptParts(content) : PartsUpTo(content, k) = n) = n
  BY <1>3, <1>5
<1>7. ContentParts(content) = [n \in 1..c |-> content[n]]
  BY <1>2, <1>3, <1>4, <1>6 DEF ContentParts
<1> QED
  BY <1>1, <1>7

\* What a number of an event may be: a u32, or absent.
U32Numbers == 0..(U32 - 1) \cup {-1}

\* The parts of an event of a known type that a message was read into.
ReadsAs(kind, fields, ms, content, requests, tokens, reset) ==
  /\ kind \in DOMAIN Fields
  /\ fields = [f \in DOMAIN fields |-> fields[f]]
  /\ Fields[kind] \subseteq DOMAIN fields /\ DOMAIN fields \subseteq Fields[kind] \cup OptionalFields(kind)
  /\ "response.status" \in DOMAIN fields => fields["response.status"] \in ResponseStatuses
  /\ IF kind = "input_audio_buffer.speech_stopped" THEN ms \in 0..(U32 - 1) ELSE ms = 0
  /\ IF kind = "conversation.item.created" THEN IsContent(content) ELSE content = <<>>
  /\ IF kind = "rate_limits.updated"
     THEN requests \in U32Numbers /\ tokens \in U32Numbers /\ reset \in Nat
     ELSE requests = -1 /\ tokens = -1 /\ reset = 0

\* No type of message is called as what is passed on unread; where a speech ends
\* is no field of its event, nor an optional field of another.
LEMMA KnownFields ==
  /\ "raw" \notin DOMAIN Fields
  /\ \A kind \in DOMAIN Fields : Kind(kind) = kind
  /\ "audio_end_ms" \notin Fields["input_audio_buffer.speech_stopped"]
  /\ OptionalFields("input_audio_buffer.speech_stopped") = {}
<1>1. "raw" \notin DOMAIN Fields /\ "conversation.item.added" \notin DOMAIN Fields
  BY DEF Fields, SessionFields, ItemFields, ResponseFields, CallFields, BufferFields
<1>2. Fields["input_audio_buffer.speech_stopped"] = {"item_id"}
  <2>1. BufferFields["input_audio_buffer.speech_stopped"] = {"item_id"}
    BY DEF BufferFields
  <2>2. /\ "input_audio_buffer.speech_stopped" \notin DOMAIN SessionFields
        /\ "input_audio_buffer.speech_stopped" \notin DOMAIN ItemFields
        /\ "input_audio_buffer.speech_stopped" \notin DOMAIN ResponseFields
        /\ "input_audio_buffer.speech_stopped" \notin DOMAIN CallFields
        /\ "input_audio_buffer.speech_stopped" \in DOMAIN BufferFields
    BY DEF SessionFields, ItemFields, ResponseFields, CallFields, BufferFields
  <2> QED
    BY <2>1, <2>2 DEF Fields
<1> QED
  BY <1>1, <1>2 DEF Kind, OptionalFields

\* What is read of the limits an event is written with: the numbers it has, and
\* its time if the requests are told.
LEMMA LimitsAgain ==
  ASSUME NEW requests \in U32Numbers, NEW tokens \in U32Numbers, NEW reset \in Nat, NEW now \in Nat,
         NEW event, event.requests = requests, event.tokens = tokens, event.reset = reset
  PROVE  /\ Remaining(OutLimits(event), "requests") = requests
         /\ Remaining(OutLimits(event), "tokens") = tokens
         /\ requests # -1 => ResetAt(OutLimits(event), now) = reset
         /\ ResetAt(OutLimits(event), now) \in Nat
<1> DEFINE l == OutLimits(event)
           r == Limit("requests", requests, reset)
           t == Limit("tokens", tokens, reset)
<1>1. /\ U32 \in Nat \ {0} /\ Minute \in Nat
  BY RelayAssumption DEF RelayAssumption
<1>2. /\ requests # -1 => requests % U32 = requests
      /\ tokens # -1 => tokens % U32 = tokens
  BY <1>1 DEF U32Numbers
<1>3. /\ r.name = "requests" /\ r.remaining = requests /\ r.reset = reset
      /\ t.name = "tokens" /\ t.remaining = tokens /\ t.reset = reset
  BY DEF Limit
<1>4. now + Minute \in Nat /\ reset # -1
  BY <1>1
<1>5. CASE requests # -1 /\ tokens # -1
  <2>1. l = <<r>> \o <<t>>
    BY <1>5 DEF OutLimits
  <2> HIDE DEF l, r, t
  <2>2. DOMAIN l = {1, 2} /\ l[1] = r /\ l[2] = t
    <3>1. <<r>> \in Seq({r, t}) /\ <<t>> \in Seq({r, t})
      OBVIOUS
    <3>2. /\ Len(<<r>> \o <<t>>) = 2 /\ DOMAIN (<<r>> \o <<t>>) = 1..2
          /\ (<<r>> \o <<t>>)[1] = r /\ (<<r>> \o <<t>>)[2] = t
      BY <3>1
    <3> QED
      BY <2>1, <3>2
  <2>3. LastNamed(l, "requests") = {1} /\ LastNamed(l, "tokens") = {2}
    BY <2>2, <1>3 DEF LastNamed
  <2> QED
    BY <1>2, <1>3, <1>4, <1>5, <2>2, <2>3 DEF Remaining, ResetAt, l
<1>6. CASE requests # -1 /\ tokens = -1
  <2>1. l = <<r>>
    BY <1>6 DEF OutLimits
  <2> HIDE DEF l, r, t
  <2>2. DOMAIN l = {1} /\ l[1] = r
    BY <2>1
  <2>3. LastNamed(l, "requests") = {1} /\ LastNamed(l, "tokens") = {}
    BY <2>2, <1>3 DEF LastNamed
  <2> QED
    BY <1>2, <1>3, <1>4, <1>6, <2>2, <2>3 DEF Remaining, ResetAt, l
<1>7. CASE requests = -1 /\ tokens # -1
  <2>1. l = <<t>>
    BY <1>7 DEF OutLimits
  <2> HIDE DEF l, r, t
  <2>2. DOMAIN l = {1} /\ l[1] = t
    BY <2>1
  <2>3. LastNamed(l, "requests") = {} /\ LastNamed(l, "tokens") = {1}
    BY <2>2, <1>3 DEF LastNamed
  <2> QED
    BY <1>2, <1>3, <1>4, <1>7, <2>2, <2>3 DEF Remaining, ResetAt, l
<1>8. CASE requests = -1 /\ tokens = -1
  <2>1. l = <<>>
    BY <1>8 DEF OutLimits
  <2> HIDE DEF l, r, t
  <2>2. DOMAIN l = {}
    BY <2>1
  <2>3. LastNamed(l, "requests") = {} /\ LastNamed(l, "tokens") = {}
    BY <2>2 DEF LastNamed
  <2> QED
    BY <1>4, <1>8, <2>3 DEF Remaining, ResetAt, l
<1> QED
  BY <1>5, <1>6, <1>7, <1>8

\* The fields of a message that are read: those of its type, and the optional
\* ones it has.
KeptFields(kind, has) == Fields[kind] \cup (OptionalFields(kind) \cap DOMAIN has)

\* A message of a known type is read as its parts; any other is left as it is.
LEMMA ReadParts ==
  ASSUME NEW frame, NEW now \in Nat, Kind(frame.type) \in DOMAIN Fields,
         "audio_end_ms" \in DOMAIN frame.has => frame.has["audio_end_ms"] \in Nat,
         frame.parts \in Seq(STRING),
         frame.limits \in Seq([name : STRING, remaining : Nat \cup {-1}, reset : Nat \cup {-1}])
  PROVE  \E kind, fields, ms, content, requests, tokens, reset :
           /\ Inbound(frame, now) = RelayEvent(kind, fields, ms, content, requests, tokens, reset)
           /\ ReadsAs(kind, fields, ms, content, requests, tokens, reset)
<1> DEFINE kind == Kind(frame.type)
           fields == [f \in KeptFields(kind, frame.has) |-> Read(frame, f)]
           ms == IF kind = "input_audio_buffer.speech_stopped" /\ "audio_end_ms" \in DOMAIN frame.has
                 THEN frame.has["audio_end_ms"] % U32 ELSE 0
           content == IF kind = "conversation.item.created" THEN ContentParts(frame.parts) ELSE <<>>
           requests == IF kind = "rate_limits.updated" THEN Remaining(frame.limits, "requests") ELSE -1
           tokens == IF kind = "rate_limits.updated" THEN Remaining(frame.limits, "tokens") ELSE -1
           reset == IF kind = "rate_limits.updated" THEN ResetAt(frame.limits, now) ELSE 0
<1>1. Inbound(frame, now) = RelayEvent(kind, fields, ms, content, requests, tokens, reset)
  BY DEF Inbound, KeptFields
<1>2. U32 \in Nat \ {0} /\ Minute \in Nat
  BY RelayAssumption DEF RelayAssumption
<1>3. ms \in 0..(U32 - 1) /\ (kind # "input_audio_buffer.speech_stopped" => ms = 0)
  BY <1>2
<1>4. IsContent(ContentParts(frame.parts))
  <2>1. Len(frame.parts) \in Nat /\ DOMAIN frame.parts = 1..Len(frame.parts)
    OBVIOUS
  <2> QED
    BY <2>1, ContentOfParts
<1>5. \A k \in DOMAIN frame.limits : /\ frame.limits[k].remaining \in Nat \cup {-1}
                                     /\ frame.limits[k].reset \in Nat \cup {-1}
  <2> DEFINE Row == [name : STRING, remaining : Nat \cup {-1}, reset : Nat \cup {-1}]
  <2>1. frame.limits \in Seq(Row)
    OBVIOUS
  <2>2. \A row \in Row : row.remaining \in Nat \cup {-1} /\ row.reset \in Nat \cup {-1}
    OBVIOUS
  <2> HIDE DEF Row
  <2>3. \A k \in DOMAIN frame.limits : frame.limits[k] \in Row
    BY <2>1
  <2> QED
    BY <2>2, <2>3
<1>6. \A name : Remaining(frame.limits, name) \in U32Numbers
  <2> TAKE name
  <2>1. CASE \E k \in LastNamed(frame.limits, name) : frame.limits[k].remaining # -1
    <3> DEFINE at == CHOOSE k \in LastNamed(frame.limits, name) : TRUE
    <3>1. at \in LastNamed(frame.limits, name) /\ at \in DOMAIN frame.limits
      BY <2>1 DEF LastNamed
    <3>2. \A k \in LastNamed(frame.limits, name) : k = at
      BY <3>1 DEF LastNamed
    <3>3. frame.limits[at].remaining \in Nat
      BY <1>5, <2>1, <3>1, <3>2
    <3>4. Remaining(frame.limits, name) = frame.limits[at].remaining % U32
      BY <2>1 DEF Remaining
    <3> QED
      BY <1>2, <3>3, <3>4 DEF U32Numbers
  <2>2. CASE ~(\E k \in LastNamed(frame.limits, name) : frame.limits[k].remaining # -1)
    BY <2>2 DEF Remaining, U32Numbers
  <2> QED
    BY <2>1, <2>2
<1>7. ResetAt(frame.limits, now) \in Nat
  <2>1. CASE \E k \in LastNamed(frame.limits, "requests") : frame.limits[k].reset # -1
    <3> DEFINE at == CHOOSE k \in LastNamed(frame.limits, "requests") : TRUE
    <3>1. at \in LastNamed(frame.limits, "requests") /\ at \in DOMAIN frame.limits
      BY <2>1 DEF LastNamed
    <3>2. \A k \in LastNamed(frame.limits, "requests") : k = at
      BY <3>1 DEF LastNamed
    <3>3. frame.limits[at].reset \in Nat
      BY <1>5, <2>1, <3>1, <3>2
    <3> QED
      BY <2>1, <3>3 DEF ResetAt
  <2>2. CASE ~(\E k \in LastNamed(frame.limits, "requests") : frame.limits[k].reset # -1)
    BY <1>2, <2>2 DEF ResetAt
  <2> QED
    BY <2>1, <2>2
<1>8. /\ fields = [f \in DOMAIN fields |-> fields[f]]
      /\ Fields[kind] \subseteq DOMAIN fields /\ DOMAIN fields \subseteq Fields[kind] \cup OptionalFields(kind)
  BY DEF KeptFields
<1>9. "response.status" \in DOMAIN fields => fields["response.status"] \in ResponseStatuses
  BY DEF Read, ResponseStatuses
<1>10. ReadsAs(kind, fields, ms, content, requests, tokens, reset)
  <2>1. /\ IF kind = "input_audio_buffer.speech_stopped" THEN ms \in 0..(U32 - 1) ELSE ms = 0
        /\ IF kind = "conversation.item.created" THEN IsContent(content) ELSE content = <<>>
        /\ IF kind = "rate_limits.updated"
           THEN requests \in U32Numbers /\ tokens \in U32Numbers /\ reset \in Nat
           ELSE requests = -1 /\ tokens = -1 /\ reset = 0
    BY <1>3, <1>4, <1>6, <1>7
  <2> HIDE DEF fields, ms, content, requests, tokens, reset
  <2> QED
    BY <1>8, <1>9, <2>1 DEF ReadsAs
<1> HIDE DEF kind, fields, ms, content, requests, tokens, reset
<1> QED
  BY <1>1, <1>10

\* The time at which the event of an event that was sent on resets.
ResetAgain(kind, requests, reset, event, now) ==
  IF kind = "rate_limits.updated" /\ requests = -1 THEN ResetAt(OutLimits(event), now) ELSE reset

\* An event that is sent on is read again as it was, but for that time.
LEMMA ReadAgain ==
  ASSUME NEW kind, NEW fields, NEW ms, NEW content, NEW requests, NEW tokens, NEW reset, NEW now \in Nat,
         ReadsAs(kind, fields, ms, content, requests, tokens, reset)
  PROVE  LET event == RelayEvent(kind, fields, ms, content, requests, tokens, reset)
             again == ResetAgain(kind, requests, reset, event, now)
         IN /\ Inbound(Outbound(event), now) = RelayEvent(kind, fields, ms, content, requests, tokens, again)
            /\ ReadsAs(kind, fields, ms, content, requests, tokens, again)
<1> DEFINE event == RelayEvent(kind, fields, ms, content, requests, tokens, reset)
           again == ResetAgain(kind, requests, reset, event, now)
           timed == IF kind = "input_audio_buffer.speech_stopped" THEN {"audio_end_ms"} ELSE {}
           has == [f \in DOMAIN fields \cup timed |-> IF f \in timed THEN ms ELSE fields[f]]
           limits == IF kind = "rate_limits.updated" THEN OutLimits(event) ELSE <<>>
           frame == Frame(kind, has, content, limits)
<1>1. /\ event.kind = kind /\ event.fields = fields /\ event.ms = ms /\ event.content = content
      /\ event.requests = requests /\ event.tokens = tokens /\ event.reset = reset
  BY DEF RelayEvent
<1>2. kind \in DOMAIN Fields /\ kind # "raw" /\ Kind(kind) = kind
  BY KnownFields DEF ReadsAs
<1>3. Outbound(event) = frame
  <2> HIDE DEF event
  <2> QED
    BY <1>1, <1>2 DEF Outbound
<1> HIDE DEF event
<1>4. frame.type = kind /\ frame.has = has /\ frame.parts = content /\ frame.limits = limits
  BY DEF Frame
<1>5. /\ DOMAIN has = DOMAIN fields \cup timed /\ timed \cap DOMAIN fields = {}
      /\ timed \cap OptionalFields(kind) = {}
  BY KnownFields DEF ReadsAs, OptionalFields
<1>6. \A f \in DOMAIN fields : f \in DOMAIN has /\ has[f] = fields[f]
  BY <1>5
<1>7. KeptFields(kind, has) = DOMAIN fields
  BY <1>5 DEF KeptFields, ReadsAs
<1>8. kind = "input_audio_buffer.speech_stopped" => "audio_end_ms" \in DOMAIN has /\ has["audio_end_ms"] = ms
  OBVIOUS
<1> HIDE DEF has, limits, frame, timed
<1>9. \A f \in DOMAIN fields : Read(frame, f) = fields[f]
  BY <1>4, <1>6 DEF Read, ReadsAs
<1>10. [f \in KeptFields(kind, has) |-> Read(frame, f)] = fields
  BY <1>7, <1>9 DEF ReadsAs
<1>11. (IF kind = "input_audio_buffer.speech_stopped" /\ "audio_end_ms" \in DOMAIN has
        THEN has["audio_end_ms"] % U32 ELSE 0) = ms
  <2>1. U32 \in Nat \ {0}
    BY RelayAssumption DEF RelayAssumption
  <2>2. ms \in 0..(U32 - 1) => ms % U32 = ms
    BY <2>1
  <2> QED
    BY <1>8, <2>2 DEF ReadsAs
<1>12. (IF kind = "conversation.item.created" THEN ContentParts(content) ELSE <<>>) = content
  BY ContentAgain DEF ReadsAs
<1>13. kind = "rate_limits.updated" =>
         /\ Remaining(limits, "requests") = requests /\ Remaining(limits, "tokens") = tokens
         /\ ResetAt(limits, now) = again /\ again \in Nat
  <2> SUFFICES ASSUME kind = "rate_limits.updated"
               PROVE  /\ Remaining(limits, "requests") = requests /\ Remaining(limits, "tokens") = tokens
                      /\ ResetAt(limits, now) = again /\ again \in Nat
    OBVIOUS
  <2>1. requests \in U32Numbers /\ tokens \in U32Numbers /\ reset \in Nat
    BY DEF ReadsAs
  <2>2. limits = OutLimits(event)
    BY DEF limits
  <2>3. /\ Remaining(OutLimits(event), "requests") = requests
        /\ Remaining(OutLimits(event), "tokens") = tokens
        /\ requests # -1 => ResetAt(OutLimits(event), now) = reset
        /\ ResetAt(OutLimits(event), now) \in Nat
    BY <1>1, <2>1, LimitsAgain
  <2> QED
    BY <2>1, <2>2, <2>3 DEF ResetAgain
<1>14. kind # "rate_limits.updated" => requests = -1 /\ tokens = -1 /\ again = 0
  BY DEF ReadsAs, ResetAgain
<1>15. Inbound(frame, now) = RelayEvent(kind, fields, ms, content, requests, tokens, again)
  <2>1. Inbound(frame, now) =
          RelayEvent(kind, [f \in KeptFields(kind, has) |-> Read(frame, f)],
                IF kind = "input_audio_buffer.speech_stopped" /\ "audio_end_ms" \in DOMAIN has
                THEN has["audio_end_ms"] % U32 ELSE 0,
                IF kind = "conversation.item.created" THEN ContentParts(content) ELSE <<>>,
                IF kind = "rate_limits.updated" THEN Remaining(limits, "requests") ELSE -1,
                IF kind = "rate_limits.updated" THEN Remaining(limits, "tokens") ELSE -1,
                IF kind = "rate_limits.updated" THEN ResetAt(limits, now) ELSE 0)
    BY <1>2, <1>4 DEF Inbound, KeptFields
  <2>2. /\ (IF kind = "rate_limits.updated" THEN Remaining(limits, "requests") ELSE -1) = requests
        /\ (IF kind = "rate_limits.updated" THEN Remaining(limits, "tokens") ELSE -1) = tokens
        /\ (IF kind = "rate_limits.updated" THEN ResetAt(limits, now) ELSE 0) = again
    BY <1>13, <1>14
  <2> HIDE DEF again
  <2> QED
    BY <1>10, <1>11, <1>12, <2>1, <2>2, Zenon
<1>16. ReadsAs(kind, fields, ms, content, requests, tokens, again)
  BY <1>13, <1>14 DEF ReadsAs
<1> QED
  BY <1>3, <1>15, <1>16 DEF event

\* An event and what the provider's message was first read as: a message that is
\* not read, or parts that are the same but for the time of a reset not told.
StillRaw(first, event) ==
  \E payload : /\ Kind(payload.type) \notin DOMAIN Fields
               /\ first = [kind |-> "raw", payload |-> payload] /\ event = first

StillRead(first, event) ==
  \E kind, fields, ms, content, requests, tokens, reset, again :
    /\ first = RelayEvent(kind, fields, ms, content, requests, tokens, reset)
    /\ event = RelayEvent(kind, fields, ms, content, requests, tokens, again)
    /\ ReadsAs(kind, fields, ms, content, requests, tokens, again)
    /\ again = reset \/ (kind = "rate_limits.updated" /\ requests = -1)

Relayed(first, event) == StillRaw(first, event) \/ StillRead(first, event)

\* The message under way: nothing, or an event and its first.
RelayInv ==
  /\ relay = [frame |-> relay.frame, first |-> relay.first, event |-> relay.event,
              hops |-> relay.hops, time |-> relay.time]
  /\ relay.time \in Nat
  /\ \/ relay.event = {} /\ relay.first = {}
     \/ \E first, event : relay.first = {first} /\ relay.event = {event} /\ Relayed(first, event)

\* A message of the provider is read as one that may be sent on.
LEMMA FirstIsRelayed ==
  ASSUME NEW frame \in Frames0, NEW now \in Nat
  PROVE  Relayed(Inbound(frame, now), Inbound(frame, now))
<1> DEFINE event == Inbound(frame, now)
<1>1. CASE Kind(frame.type) \notin DOMAIN Fields
  <2>1. event = [kind |-> "raw", payload |-> frame]
    BY <1>1 DEF Inbound
  <2> HIDE DEF event
  <2> QED
    BY <1>1, <2>1 DEF Relayed, StillRaw, event
<1>2. CASE Kind(frame.type) \in DOMAIN Fields
  <2>1. \E kind, fields, ms, content, requests, tokens, reset :
          /\ event = RelayEvent(kind, fields, ms, content, requests, tokens, reset)
          /\ ReadsAs(kind, fields, ms, content, requests, tokens, reset)
    <3>1. /\ "audio_end_ms" \in DOMAIN frame.has => frame.has["audio_end_ms"] \in Nat
          /\ frame.parts \in Seq(STRING)
          /\ frame.limits \in Seq([name : STRING, remaining : Nat \cup {-1}, reset : Nat \cup {-1}])
      BY RelayAssumption DEF RelayAssumption
    <3> QED
      BY <1>2, <3>1, ReadParts
  <2> HIDE DEF event
  <2>2. StillRead(event, event)
    BY <2>1 DEF StillRead
  <2> QED
    BY <2>2 DEF Relayed, event
<1> QED
  BY <1>1, <1>2

\* An event that may be sent on is read again as one.
LEMMA NextIsRelayed ==
  ASSUME NEW first, NEW event, NEW now \in Nat, Relayed(first, event)
  PROVE  Relayed(first, Inbound(Outbound(event), now))
<1> DEFINE next == Inbound(Outbound(event), now)
<1>1. CASE StillRaw(first, event)
  <2>1. PICK payload : /\ Kind(payload.type) \notin DOMAIN Fields
                       /\ first = [kind |-> "raw", payload |-> payload] /\ event = first
    BY <1>1 DEF StillRaw
  <2>2. event.kind = "raw" /\ event.payload = payload
    BY <2>1
  <2>3. Outbound(event) = payload
    BY <2>2 DEF Outbound
  <2>4. next = [kind |-> "raw", payload |-> payload]
    BY <2>1, <2>3 DEF Inbound
  <2> HIDE DEF next
  <2>5. StillRaw(first, next)
    BY <2>1, <2>4 DEF StillRaw
  <2> QED
    BY <2>5 DEF Relayed, next
<1>2. CASE StillRead(first, event)
  <2>1. PICK kind, fields, ms, content, requests, tokens, reset, again :
          /\ first = RelayEvent(kind, fields, ms, content, requests, tokens, reset)
          /\ event = RelayEvent(kind, fields, ms, content, requests, tokens, again)
          /\ ReadsAs(kind, fields, ms, content, requests, tokens, again)
          /\ again = reset \/ (kind = "rate_limits.updated" /\ requests = -1)
    BY <1>2 DEF StillRead
  <2> DEFINE then == ResetAgain(kind, requests, again, event, now)
  <2>2. /\ next = RelayEvent(kind, fields, ms, content, requests, tokens, then)
        /\ ReadsAs(kind, fields, ms, content, requests, tokens, then)
    BY <2>1, ReadAgain
  <2>3. then = again \/ (kind = "rate_limits.updated" /\ requests = -1)
    BY DEF ResetAgain
  <2> HIDE DEF next, then
  <2>4. then = reset \/ (kind = "rate_limits.updated" /\ requests = -1)
    BY <2>1, <2>3
  <2>5. StillRead(first, next)
    BY <2>1, <2>2, <2>4 DEF StillRead
  <2> QED
    BY <2>5 DEF Relayed, next
<1> QED
  BY <1>1, <1>2 DEF Relayed

\* The invariant holds at first.
LEMMA RelayInvInit == RelayInit => RelayInv
<1> SUFFICES ASSUME RelayInit
             PROVE  RelayInv
  OBVIOUS
<1> DEFINE nothing == Frame("", <<>>, <<>>, <<>>)
<1>1. relay = [frame |-> nothing, first |-> {}, event |-> {}, hops |-> 0, time |-> 0]
  BY DEF RelayInit, NoRelay
<1> HIDE DEF nothing
<1> QED
  BY <1>1 DEF RelayInv

\* Every step keeps it.
LEMMA RelayInvStep ==
  RelayInv /\ [RelayNext]_relay => RelayInv'
<1> SUFFICES ASSUME RelayInv, [RelayNext]_relay
             PROVE  RelayInv'
  OBVIOUS
<1>1. ASSUME Arrive PROVE RelayInv'
  <2>1. PICK frame \in Frames0 :
          relay' = [relay EXCEPT !.frame = frame, !.first = {Inbound(frame, relay.time)},
                                 !.event = {Inbound(frame, relay.time)}]
    BY <1>1 DEF Arrive
  <2> DEFINE event == Inbound(frame, relay.time)
  <2>2. Relayed(event, event)
    BY FirstIsRelayed DEF RelayInv
  <2> HIDE DEF event
  <2>3. relay' = [frame |-> frame, first |-> {event}, event |-> {event},
                  hops |-> relay.hops, time |-> relay.time]
    BY <2>1 DEF RelayInv, event
  <2> QED
    BY <2>2, <2>3 DEF RelayInv
<1>2. ASSUME Forward PROVE RelayInv'
  <2>1. PICK event \in relay.event, time \in relay.time..RelayClock :
          relay' = [relay EXCEPT !.frame = Outbound(event),
                                 !.event = {Inbound(Outbound(event), time)},
                                 !.hops = @ + 1, !.time = time]
    BY <1>2 DEF Forward
  <2> DEFINE next == Inbound(Outbound(event), time)
  <2>2. PICK first : relay.first = {first} /\ relay.event = {event} /\ Relayed(first, event)
    BY DEF RelayInv
  <2>3. time \in Nat
    BY RelayAssumption DEF RelayInv, RelayAssumption
  <2>4. Relayed(first, next)
    BY <2>2, <2>3, NextIsRelayed
  <2> HIDE DEF next
  <2>5. relay' = [frame |-> Outbound(event), first |-> {first}, event |-> {next},
                  hops |-> relay.hops + 1, time |-> time]
    BY <2>1, <2>2 DEF RelayInv, next
  <2> QED
    BY <2>3, <2>4, <2>5 DEF RelayInv
<1>3. ASSUME UNCHANGED relay PROVE RelayInv'
  BY <1>3 DEF RelayInv, Relayed, StillRaw, StillRead
<1> QED
  BY <1>1, <1>2, <1>3 DEF RelayNext

\* What it says of an event is what is promised.
LEMMA RelayInvSays == RelayInv => RelayFaithful
<1> SUFFICES ASSUME RelayInv, NEW event \in relay.event, NEW first \in relay.first
             PROVE  \/ event = first
                    \/ first.kind = "rate_limits.updated" /\ first.requests = -1
                         /\ event = [first EXCEPT !.reset = event.reset]
  BY DEF RelayFaithful
<1>1. Relayed(first, event)
  BY DEF RelayInv
<1>2. CASE StillRaw(first, event)
  BY <1>2 DEF StillRaw
<1>3. CASE StillRead(first, event)
  <2>1. PICK kind, fields, ms, content, requests, tokens, reset, again :
          /\ first = RelayEvent(kind, fields, ms, content, requests, tokens, reset)
          /\ event = RelayEvent(kind, fields, ms, content, requests, tokens, again)
          /\ again = reset \/ (kind = "rate_limits.updated" /\ requests = -1)
    BY <1>3 DEF StillRead
  <2>2. /\ first.kind = kind /\ first.requests = requests /\ event.reset = again
        /\ [first EXCEPT !.reset = again] = event
    BY <2>1 DEF RelayEvent
  <2> QED
    BY <2>1, <2>2
<1> QED
  BY <1>1, <1>2, <1>3 DEF Relayed

\* However many relays pass an event on and however long they take: for any
\* messages, whatever fields, parts and limits they have, it stays as it was read
\* from the provider, but for the time of a reset that was not told.
THEOREM RelayAlwaysFaithful == ClientSafety => []RelayFaithful
<1>1. ClientInit => RelayInit
  BY DEF ClientInit, RelayInit
<1>2. [ClientNext]_clientVars => [RelayNext]_relay
  BY DEF ClientNext, clientVars, CallStep, SseStep, FramesStep, ChatStep, RegistryStep,
         RealtimeStep, GuardsStep, SpendingStep, SemanticStep
<1> QED
  BY <1>1, <1>2, RelayInvInit, RelayInvStep, RelayInvSays, PTL DEF ClientSafety

-----------------------------------------------------------------------------
(* Sse: a streamed answer is decoded as its lines tell, however the network *)
(* cuts it.  First the order of numbers, then lines, then what they tell.   *)

\* How many numbers of a set there are up to one.
Rank(S, i) == Cardinality({j \in S : j <= i})

\* Each number of a finite set has a rank of its own, and each rank its number.
LEMMA Ranks ==
  ASSUME NEW n \in Nat, NEW S \in SUBSET (1..n)
  PROVE  /\ IsFiniteSet(S) /\ Cardinality(S) \in Nat
         /\ \A i \in S : Rank(S, i) \in 1..Cardinality(S)
         /\ \A i, j \in S : i < j => Rank(S, i) < Rank(S, j)
         /\ \A m \in 1..Cardinality(S) : \E k \in S : Rank(S, k) = m
<1> DEFINE Upto(i) == {j \in S : j <= i}
<1>0. \A i \in S : i \in Nat /\ 1 <= i /\ i <= n
  OBVIOUS
<1>1. IsFiniteSet(1..n)
  BY FS_Interval, 0 \in Int, 1 \in Int
<1>2. IsFiniteSet(S) /\ Cardinality(S) \in Nat
  BY <1>1, FS_Subset, FS_CardinalityType
<1>3. \A i : IsFiniteSet(Upto(i)) /\ Cardinality(Upto(i)) \in Nat /\ Cardinality(Upto(i)) <= Cardinality(S)
  <2> TAKE i
  <2>1. Upto(i) \subseteq S
    OBVIOUS
  <2> QED
    BY <1>2, <2>1, FS_Subset, FS_CardinalityType
<1>4. Upto(n) = S /\ Upto(0) = {}
  <2>1. Upto(n) = S
    BY <1>0
  <2>2. \A j \in S : ~(j <= 0)
    BY <1>0
  <2> QED
    BY <2>1, <2>2
<1>5. \A i \in S : i \in Nat \ {0} /\ Upto(i) = Upto(i - 1) \cup {i} /\ i \notin Upto(i - 1)
  <2> TAKE i \in S
  <2>1. i \in Nat \ {0}
    BY <1>0
  <2>2. \A j \in S : j <= i <=> j <= i - 1 \/ j = i
    BY <1>0, <2>1
  <2>3. Upto(i) = Upto(i - 1) \cup {i}
    BY <2>2
  <2>4. ~(i <= i - 1)
    BY <2>1
  <2> QED
    BY <2>1, <2>3, <2>4
<1>6. \A i \in Nat \ {0} : i \notin S => Upto(i) = Upto(i - 1)
  <2> SUFFICES ASSUME NEW i \in Nat \ {0}, i \notin S
               PROVE  Upto(i) = Upto(i - 1)
    OBVIOUS
  <2>1. \A j \in S : j <= i <=> j <= i - 1
    BY <1>0
  <2> QED
    BY <2>1
<1>7. \A i, j \in Nat : i <= j => Upto(i) \subseteq Upto(j)
  <2> SUFFICES ASSUME NEW i \in Nat, NEW j \in Nat, i <= j
               PROVE  Upto(i) \subseteq Upto(j)
    OBVIOUS
  <2>1. \A k \in S : k <= i => k <= j
    BY <1>0
  <2> QED
    BY <2>1
<1> HIDE DEF Upto
<1>8. \A i \in S : Cardinality(Upto(i)) = Cardinality(Upto(i - 1)) + 1
  BY <1>3, <1>5, FS_AddElement
<1>9. ASSUME NEW i \in S, NEW j \in S, i < j
      PROVE  Cardinality(Upto(i)) < Cardinality(Upto(j))
  <2>1. i \in Nat /\ j - 1 \in Nat /\ i <= j - 1
    BY <1>5, <1>9
  <2>2. Cardinality(Upto(i)) <= Cardinality(Upto(j - 1))
    BY <1>3, <1>7, <2>1, FS_Subset
  <2> QED
    BY <1>3, <1>8, <2>2
<1>10. ASSUME NEW m \in 1..Cardinality(S)
       PROVE  \E k \in S : Cardinality(Upto(k)) = m
  <2> DEFINE T == {i \in Nat : Cardinality(Upto(i)) >= m}
  <2>1. n \in T
    BY <1>2, <1>4
  <2>2. PICK i \in T : \A k \in T : i <= k
    <3>1. T \in SUBSET Nat /\ T # {}
      BY <2>1
    <3> HIDE DEF T
    <3> QED
      BY <3>1, LeastNumber
  <2>3. i \in Nat \ {0}
    <3>1. Cardinality(Upto(0)) = 0
      BY <1>4, FS_EmptySet, Zenon
    <3>2. 0 < m
      BY <1>2
    <3> QED
      BY <2>2, <3>1, <3>2, <1>3
  <2>4. i - 1 \in Nat /\ i - 1 \notin T
    BY <2>2, <2>3
  <2>5. Cardinality(Upto(i - 1)) < m
    BY <1>3, <2>4
  <2>6. i \in S
    BY <2>2, <2>5, <1>6, <1>3, <2>3, <2>4
  <2>7. Cardinality(Upto(i)) = m
    BY <1>3, <1>8, <2>2, <2>5, <2>6
  <2> QED
    BY <2>6, <2>7
<1>11. \A i \in S : Cardinality(Upto(i)) \in 1..Cardinality(S)
  BY <1>2, <1>3, <1>8
<1> QED
  BY <1>2, <1>9, <1>10, <1>11 DEF Upto, Rank

\* The number of a rank.
LEMMA Ordered ==
  ASSUME NEW n \in Nat, NEW S \in SUBSET (1..n)
  PROVE  /\ DOMAIN InOrder(S) = 1..Cardinality(S)
         /\ \A k \in 1..Cardinality(S) : InOrder(S)[k] \in S /\ Rank(S, InOrder(S)[k]) = k
         /\ \A i \in S : InOrder(S)[Rank(S, i)] = i
         /\ InOrder(S) \in Seq(1..n) /\ Len(InOrder(S)) = Cardinality(S)
<1> DEFINE c == Cardinality(S)
           at(k) == CHOOSE i \in S : Rank(S, i) = k
<1>1. InOrder(S) = [k \in 1..c |-> at(k)]
  BY DEF InOrder, Rank
<1>2. \A k \in 1..c : at(k) \in S /\ Rank(S, at(k)) = k
  BY Ranks
<1>3. c \in Nat
  BY Ranks
<1> HIDE DEF c, at
<1>4. \A k \in 1..c : InOrder(S)[k] \in S /\ Rank(S, InOrder(S)[k]) = k
  BY <1>1, <1>2
<1>5. ASSUME NEW i \in S
      PROVE  InOrder(S)[Rank(S, i)] = i
  <2> DEFINE j == InOrder(S)[Rank(S, i)]
  <2>1. Rank(S, i) \in 1..c
    BY Ranks DEF c
  <2>2. j \in S /\ Rank(S, j) = Rank(S, i)
    BY <1>4, <2>1
  <2> HIDE DEF j
  <2>3. ~(i < j) /\ ~(j < i)
    <3>1. \A a, b \in S : a < b => Rank(S, a) < Rank(S, b)
      BY Ranks
    <3>2. Rank(S, i) \in Nat
      BY <1>3, <2>1
    <3> QED
      BY <2>2, <3>1, <3>2
  <2>4. i \in Int /\ j \in Int
    BY <2>2
  <2> QED
    BY <2>3, <2>4 DEF j
<1>6. InOrder(S) \in Seq(1..n) /\ Len(InOrder(S)) = c
  <2>1. \A k \in 1..c : at(k) \in 1..n
    BY <1>2
  <2> QED
    BY <1>1, <1>3, <2>1
<1> QED
  BY <1>1, <1>4, <1>5, <1>6 DEF c

\* A number above all others is the last.
LEMMA OrderedMore ==
  ASSUME NEW n \in Nat, NEW S \in SUBSET (1..n)
  PROVE  /\ S \cup {n + 1} \in SUBSET (1..(n + 1))
         /\ Cardinality(S \cup {n + 1}) = Cardinality(S) + 1
         /\ InOrder(S \cup {n + 1})[Cardinality(S) + 1] = n + 1
         /\ \A k \in 1..Cardinality(S) : InOrder(S \cup {n + 1})[k] = InOrder(S)[k]
<1> DEFINE T == S \cup {n + 1}
<1>1. T \in SUBSET (1..(n + 1)) /\ n + 1 \notin S /\ n + 1 \in Nat
  OBVIOUS
<1>2. IsFiniteSet(S) /\ Cardinality(S) \in Nat
  BY Ranks
<1>3. Cardinality(T) = Cardinality(S) + 1
  BY <1>1, <1>2, FS_AddElement
<1>4. \A i \in S : Rank(T, i) = Rank(S, i)
  <2> TAKE i \in S
  <2>1. {j \in T : j <= i} = {j \in S : j <= i}
    OBVIOUS
  <2> QED
    BY <2>1 DEF Rank
<1>5. Rank(T, n + 1) = Cardinality(S) + 1
  <2>1. \A j \in T : j <= n + 1
    BY <1>1
  <2>2. {j \in T : j <= n + 1} = T
    BY <2>1
  <2> QED
    BY <1>3, <2>2 DEF Rank
<1> HIDE DEF T
<1>6. InOrder(T)[Cardinality(S) + 1] = n + 1
  BY <1>1, <1>5, Ordered DEF T
<1>7. \A k \in 1..Cardinality(S) : InOrder(T)[k] = InOrder(S)[k]
  <2> TAKE k \in 1..Cardinality(S)
  <2> DEFINE i == InOrder(S)[k]
  <2>1. i \in S /\ Rank(S, i) = k
    BY Ordered
  <2>2. i \in T /\ Rank(T, i) = k
    BY <1>4, <2>1 DEF T
  <2> HIDE DEF i
  <2>3. InOrder(T)[Rank(T, i)] = i
    BY <1>1, <2>2, Ordered
  <2> QED
    BY <2>2, <2>3 DEF i
<1> QED
  BY <1>1, <1>3, <1>6, <1>7 DEF T

LEMMA OrderedNone == InOrder({}) = <<>> /\ Cardinality({}) = 0
  BY FS_EmptySet DEF InOrder

-----------------------------------------------------------------------------
(* Sse: what a decoder gives, however its text is cut.                     *)

Bytes == Seq(SseSymbols)

\* Sequences and the parts of them.
LEMMA Appended ==
  ASSUME NEW S, NEW s \in Seq(S), NEW x \in S
  PROVE  /\ Append(s, x) \in Seq(S) /\ Len(Append(s, x)) = Len(s) + 1
         /\ DOMAIN Append(s, x) = 1..(Len(s) + 1)
         /\ Append(s, x)[Len(s) + 1] = x
         /\ \A i \in 1..Len(s) : Append(s, x)[i] = s[i]
  OBVIOUS

LEMMA PartOf ==
  ASSUME NEW S, NEW s \in Seq(S), NEW x \in S, NEW a \in Int, NEW b \in Int, 1 <= a, b <= Len(s)
  PROVE  SubSeq(Append(s, x), a, b) = SubSeq(s, a, b)
<1> DEFINE t == Append(s, x)
<1>1. /\ t \in Seq(S) /\ Len(t) = Len(s) + 1 /\ \A i \in 1..Len(s) : t[i] = s[i]
      /\ Len(s) \in Nat
  OBVIOUS
<1> HIDE DEF t
<1>2. \A i \in a..b : s[i] \in S /\ t[i] \in S
  BY <1>1
<1>3. SubSeq(s, a, b) \in Seq(S) /\ SubSeq(t, a, b) \in Seq(S)
  BY <1>2, SubSeqProperties
<1>4. Len(SubSeq(s, a, b)) = Len(SubSeq(t, a, b))
  BY <1>2, SubSeqProperties
<1>5. \A i \in 1..Len(SubSeq(s, a, b)) : SubSeq(s, a, b)[i] = SubSeq(t, a, b)[i]
  <2> TAKE i \in 1..Len(SubSeq(s, a, b))
  <2>1. i \in 1..(b - a + 1)
    <3>1. Len(SubSeq(s, a, b)) = IF a <= b THEN b - a + 1 ELSE 0
      BY <1>2, SubSeqProperties
    <3> QED
      BY <3>1
  <2>2. SubSeq(s, a, b)[i] = s[a + i - 1] /\ SubSeq(t, a, b)[i] = t[a + i - 1]
    BY <1>2, <2>1, SubSeqProperties
  <2>3. a + i - 1 \in 1..Len(s)
    BY <1>1, <2>1
  <2> QED
    BY <1>1, <2>2, <2>3
<1> QED
  BY <1>3, <1>4, <1>5, SeqEqual DEF t

\* A part that goes to the end grows with the sequence.
LEMMA PartGrows ==
  ASSUME NEW S, NEW s \in Seq(S), NEW x \in S, NEW a \in 1..(Len(s) + 1)
  PROVE  SubSeq(Append(s, x), a, Len(s) + 1) = Append(SubSeq(s, a, Len(s)), x)
<1> DEFINE t == Append(s, x)
<1>1. /\ t \in Seq(S) /\ Len(t) = Len(s) + 1 /\ \A i \in 1..Len(s) : t[i] = s[i]
      /\ t[Len(s) + 1] = x /\ Len(s) \in Nat
  OBVIOUS
<1> HIDE DEF t
<1>2. \A i \in a..(Len(s) + 1) : t[i] \in S
  BY <1>1
<1>3. \A i \in a..Len(s) : s[i] \in S
  BY <1>1
<1>4. /\ SubSeq(t, a, Len(s) + 1) \in Seq(S)
      /\ Len(SubSeq(t, a, Len(s) + 1)) = Len(s) + 2 - a
      /\ \A i \in 1..(Len(s) + 2 - a) : SubSeq(t, a, Len(s) + 1)[i] = t[a + i - 1]
  BY <1>1, <1>2, SubSeqProperties
<1>5. /\ SubSeq(s, a, Len(s)) \in Seq(S)
      /\ Len(SubSeq(s, a, Len(s))) = Len(s) + 1 - a
      /\ \A i \in 1..(Len(s) + 1 - a) : SubSeq(s, a, Len(s))[i] = s[a + i - 1]
  BY <1>1, <1>3, SubSeqProperties
<1> DEFINE p == SubSeq(t, a, Len(s) + 1)
           q == SubSeq(s, a, Len(s))
<1> HIDE DEF p, q
<1>6. /\ Append(q, x) \in Seq(S) /\ Len(Append(q, x)) = Len(s) + 2 - a
      /\ \A i \in 1..(Len(s) + 1 - a) : Append(q, x)[i] = q[i]
      /\ Append(q, x)[Len(s) + 2 - a] = x
  BY <1>1, <1>5 DEF q
<1>7. \A i \in 1..(Len(s) + 2 - a) : p[i] = Append(q, x)[i]
  <2> TAKE i \in 1..(Len(s) + 2 - a)
  <2>1. CASE i = Len(s) + 2 - a
    BY <1>1, <1>4, <1>6, <2>1 DEF p
  <2>2. CASE i # Len(s) + 2 - a
    <3>1. i \in 1..(Len(s) + 1 - a) /\ a + i - 1 \in 1..Len(s)
      BY <1>1, <2>2
    <3> QED
      BY <1>1, <1>4, <1>5, <1>6, <3>1 DEF p, q
  <2> QED
    BY <2>1, <2>2
<1> QED
  BY <1>4, <1>6, <1>7, SeqEqual DEF p, q, t

-----------------------------------------------------------------------------
(* Lines.                                                                  *)

\* The ends of lines and the last of them.
LEMMA BreaksIn ==
  ASSUME NEW s \in Bytes
  PROVE  /\ Breaks(s) \in SUBSET (1..Len(s)) /\ Len(s) \in Nat
         /\ LastBreak(s) \in 0..Len(s)
         /\ LastBreak(s) = 0 <=> Breaks(s) = {}
         /\ \A i \in Breaks(s) : i <= LastBreak(s)
         /\ Breaks(s) # {} => LastBreak(s) = InOrder(Breaks(s))[Cardinality(Breaks(s))]
<1> DEFINE B == Breaks(s)
           c == Cardinality(B)
           m == InOrder(B)[c]
<1>1. B \in SUBSET (1..Len(s)) /\ Len(s) \in Nat
  BY DEF Breaks, Bytes
<1>2. ASSUME B # {}
      PROVE  LastBreak(s) = m /\ m \in B /\ \A j \in B : j <= m
  <2>1. c \in Nat /\ c # 0 /\ IsFiniteSet(B)
    BY <1>1, <1>2, Ranks, FS_EmptySet
  <2>2. m \in B /\ Rank(B, m) = c
    BY <1>1, <2>1, Ordered
  <2>3. \A j \in B : Rank(B, j) \in 1..c
    BY <1>1, Ranks
  <2>4. \A i, j \in B : i < j => Rank(B, i) < Rank(B, j)
    BY <1>1, Ranks
  <2> HIDE DEF B, m, c
  <2>5. \A j \in B : j \in Int
    BY <1>1
  <2>6. \A j \in B : j <= m
    <3> TAKE j \in B
    <3>1. ~(m < j)
      BY <2>1, <2>2, <2>3, <2>4
    <3> QED
      BY <2>2, <2>5, <3>1
  <2>7. \A i \in B : (\A j \in B : j <= i) => i = m
    BY <2>2, <2>5, <2>6
  <2>8. (CHOOSE i \in B : \A j \in B : j <= i) = m
    BY <2>2, <2>6, <2>7
  <2> QED
    BY <1>2, <2>2, <2>6, <2>8 DEF LastBreak, B
<1>3. B = {} => LastBreak(s) = 0
  BY DEF LastBreak
<1> HIDE DEF B, m
<1>4. B # {} => m \in 1..Len(s)
  BY <1>1, <1>2
<1> QED
  BY <1>1, <1>2, <1>3, <1>4 DEF B, m

\* What is left of a text and its lines, by the last byte.
LEMMA LastByte ==
  ASSUME NEW s \in Bytes, NEW c \in SseSymbols
  PROVE  /\ Append(s, c) \in Bytes
         /\ Residue(s) \in Bytes
         /\ c # "LF" => /\ Breaks(Append(s, c)) = Breaks(s)
                        /\ Residue(Append(s, c)) = Append(Residue(s), c)
         /\ c = "LF" => /\ Breaks(Append(s, c)) = Breaks(s) \cup {Len(s) + 1}
                        /\ Residue(Append(s, c)) = <<>>
<1> DEFINE t == Append(s, c)
           n == Len(s)
<1>1. /\ t \in Bytes /\ n \in Nat /\ Len(t) = n + 1 /\ t[n + 1] = c
      /\ DOMAIN t = 1..(n + 1) /\ DOMAIN s = 1..n
      /\ \A i \in 1..n : t[i] = s[i]
  BY DEF Bytes
<1>2. LastBreak(s) \in 0..n /\ Breaks(s) \in SUBSET (1..n)
  BY BreaksIn
<1>3. Residue(s) \in Bytes
  <2>1. \A i \in (LastBreak(s) + 1)..n : s[i] \in SseSymbols
    BY <1>1, <1>2 DEF Bytes
  <2> QED
    BY <1>1, <1>2, <2>1, SubSeqProperties DEF Residue, Bytes
<1> HIDE DEF t
<1>4. ASSUME c # "LF"
      PROVE  Breaks(t) = Breaks(s) /\ Residue(t) = Append(Residue(s), c)
  <2>1. Breaks(t) = Breaks(s)
    BY <1>1, <1>4 DEF Breaks
  <2>2. LastBreak(t) = LastBreak(s)
    BY <2>1 DEF LastBreak
  <2>3. Residue(t) = SubSeq(t, LastBreak(s) + 1, n + 1)
    BY <1>1, <2>2 DEF Residue
  <2>4. LastBreak(s) + 1 \in 1..(n + 1)
    BY <1>1, <1>2
  <2> QED
    BY <2>1, <2>3, <2>4, PartGrows DEF Residue, t, Bytes
<1>5. ASSUME c = "LF"
      PROVE  Breaks(t) = Breaks(s) \cup {n + 1} /\ Residue(t) = <<>>
  <2>1. Breaks(t) = Breaks(s) \cup {n + 1}
    BY <1>1, <1>5 DEF Breaks
  <2>2. Cardinality(Breaks(t)) = Cardinality(Breaks(s)) + 1
    BY <1>1, <1>2, <2>1, OrderedMore
  <2>3. InOrder(Breaks(t))[Cardinality(Breaks(t))] = n + 1
    BY <1>1, <1>2, <2>1, <2>2, OrderedMore
  <2>4. LastBreak(t) = n + 1
    BY <1>1, <2>1, <2>3, BreaksIn
  <2> QED
    BY <1>1, <2>1, <2>4, SubSeqEmpty DEF Residue
<1> QED
  BY <1>1, <1>3, <1>4, <1>5 DEF t

\* The lines of a text, by where they end.
LineStart(s, k) == IF k = 1 THEN 1 ELSE InOrder(Breaks(s))[k - 1] + 1

LEMMA LineAt ==
  ASSUME NEW s \in Bytes
  PROVE  /\ Cardinality(Breaks(s)) \in Nat
         /\ DOMAIN Lines(s) = 1..Cardinality(Breaks(s))
         /\ Lines(s) \in Seq(Bytes) /\ Len(Lines(s)) = Cardinality(Breaks(s))
         /\ \A k \in 1..Cardinality(Breaks(s)) :
              /\ LineStart(s, k) \in 1..(Len(s) + 1) /\ InOrder(Breaks(s))[k] \in 1..Len(s)
              /\ Lines(s)[k] = SubSeq(s, LineStart(s, k), InOrder(Breaks(s))[k] - 1)
<1> DEFINE c == Cardinality(Breaks(s))
           ends == InOrder(Breaks(s))
           line(k) == SubSeq(s, LineStart(s, k), ends[k] - 1)
<1>1. Breaks(s) \in SUBSET (1..Len(s)) /\ Len(s) \in Nat
  BY BreaksIn
<1>2. c \in Nat
  BY <1>1, Ranks
<1>3. DOMAIN ends = 1..c /\ \A k \in 1..c : ends[k] \in 1..Len(s)
  BY <1>1, Ordered
<1>4. Lines(s) = [k \in 1..c |-> line(k)]
  BY <1>3 DEF Lines, LineStart
<1> HIDE DEF c, ends
<1>5. \A k \in 1..c : LineStart(s, k) \in 1..(Len(s) + 1)
  <2> TAKE k \in 1..c
  <2>1. CASE k = 1
    BY <1>1, <2>1 DEF LineStart
  <2>2. CASE k # 1
    <3>1. k - 1 \in 1..c
      BY <1>2, <2>2
    <3>2. ends[k - 1] \in 1..Len(s)
      BY <1>3, <3>1
    <3> QED
      BY <1>1, <2>2, <3>2 DEF LineStart, ends
  <2> QED
    BY <2>1, <2>2
<1>6. \A k \in 1..c : line(k) \in Bytes
  <2> TAKE k \in 1..c
  <2>1. LineStart(s, k) \in 1..(Len(s) + 1) /\ ends[k] \in 1..Len(s)
    BY <1>3, <1>5
  <2>2. \A i \in LineStart(s, k)..(ends[k] - 1) : s[i] \in SseSymbols
    BY <1>1, <2>1 DEF Bytes
  <2> QED
    BY <1>1, <2>1, <2>2, SubSeqProperties DEF Bytes
<1> HIDE DEF line
<1>7. Lines(s) \in Seq(Bytes) /\ Len(Lines(s)) = c /\ DOMAIN Lines(s) = 1..c
  BY <1>2, <1>4, <1>6
<1> QED
  BY <1>2, <1>3, <1>4, <1>5, <1>7 DEF c, ends, line

\* A byte that ends no line changes none; one that does makes a line of what
\* was left.
LEMMA LinesGrow ==
  ASSUME NEW s \in Bytes, NEW c \in SseSymbols
  PROVE  /\ c # "LF" => Lines(Append(s, c)) = Lines(s)
         /\ c = "LF" => Lines(Append(s, c)) = Append(Lines(s), Residue(s))
<1> DEFINE t == Append(s, c)
           n == Len(s)
           B == Breaks(s)
           D == Breaks(t)
           m == Cardinality(B)
<1>1. /\ t \in Bytes /\ n \in Nat /\ Len(t) = n + 1 /\ Residue(s) \in Bytes
  BY LastByte, BreaksIn DEF Bytes
<1>2. /\ DOMAIN Lines(s) = 1..m /\ m \in Nat
      /\ Lines(s) \in Seq(Bytes) /\ Len(Lines(s)) = m
      /\ \A k \in 1..m : /\ LineStart(s, k) \in 1..(n + 1) /\ InOrder(B)[k] \in 1..n
                         /\ Lines(s)[k] = SubSeq(s, LineStart(s, k), InOrder(B)[k] - 1)
  BY LineAt
<1>3. /\ DOMAIN Lines(t) = 1..Cardinality(D)
      /\ Lines(t) \in Seq(Bytes) /\ Len(Lines(t)) = Cardinality(D)
      /\ \A k \in 1..Cardinality(D) : Lines(t)[k] = SubSeq(t, LineStart(t, k), InOrder(D)[k] - 1)
  BY <1>1, LineAt
<1>4. \A k \in 1..m : SubSeq(t, LineStart(s, k), InOrder(B)[k] - 1) = Lines(s)[k]
  <2> TAKE k \in 1..m
  <2>1. /\ LineStart(s, k) \in 1..(n + 1) /\ InOrder(B)[k] \in 1..n
        /\ Lines(s)[k] = SubSeq(s, LineStart(s, k), InOrder(B)[k] - 1)
    BY <1>2
  <2>2. /\ LineStart(s, k) \in Int /\ InOrder(B)[k] - 1 \in Int
        /\ 1 <= LineStart(s, k) /\ InOrder(B)[k] - 1 <= Len(s)
    BY <1>1, <2>1
  <2> QED
    BY <2>1, <2>2, PartOf DEF Bytes
<1>5. B \in SUBSET (1..n)
  BY BreaksIn
<1>6. ASSUME c # "LF"
      PROVE  Lines(t) = Lines(s)
  <2>1. D = B
    BY <1>6, LastByte
  <2>2. \A k \in 1..m : LineStart(t, k) = LineStart(s, k)
    BY <2>1 DEF LineStart
  <2> HIDE DEF t, B, D, m, n
  <2>3. \A k \in 1..m : Lines(t)[k] = Lines(s)[k]
    BY <1>3, <1>4, <2>1, <2>2 DEF m
  <2>4. Len(Lines(t)) = Len(Lines(s)) /\ Len(Lines(s)) = m
    BY <1>2, <1>3, <2>1 DEF m
  <2> QED
    BY <1>2, <1>3, <2>3, <2>4, SeqEqual
<1>7. ASSUME c = "LF"
      PROVE  Lines(t) = Append(Lines(s), Residue(s))
  <2>1. D = B \cup {n + 1}
    BY <1>7, LastByte
  <2>2. /\ Cardinality(D) = m + 1
        /\ InOrder(D)[m + 1] = n + 1
        /\ \A k \in 1..m : InOrder(D)[k] = InOrder(B)[k]
    <3> HIDE DEF t, D, B, n
    <3>1. /\ Cardinality(B \cup {n + 1}) = Cardinality(B) + 1
          /\ InOrder(B \cup {n + 1})[Cardinality(B) + 1] = n + 1
          /\ \A k \in 1..Cardinality(B) : InOrder(B \cup {n + 1})[k] = InOrder(B)[k]
      BY <1>1, <1>5, OrderedMore
    <3> QED
      BY <2>1, <3>1
  <2>3. \A k \in 1..m : LineStart(t, k) = LineStart(s, k)
    <3> TAKE k \in 1..m
    <3>1. k # 1 => k - 1 \in 1..m
      BY <1>2
    <3> QED
      BY <2>2, <3>1 DEF LineStart
  <2>4. LineStart(t, m + 1) = LastBreak(s) + 1
    <3>1. CASE B = {}
      <4>1. m = 0
        BY <3>1, OrderedNone
      <4> QED
        BY <3>1, <4>1, BreaksIn DEF LineStart
    <3>2. CASE B # {}
      <4>1. m # 0
        BY <3>2, <1>5, <1>1, Ranks, FS_EmptySet
      <4>2. m \in 1..m /\ m + 1 # 1 /\ (m + 1) - 1 = m
        BY <1>2, <4>1
      <4>3. LineStart(t, m + 1) = InOrder(D)[m] + 1
        BY <4>2 DEF LineStart
      <4> QED
        BY <2>2, <3>2, <4>2, <4>3, BreaksIn
    <3> QED
      BY <3>1, <3>2
  <2>5. LastBreak(s) \in 0..n
    BY BreaksIn
  <2>6. SubSeq(t, LastBreak(s) + 1, (n + 1) - 1) = Residue(s)
    <3>1. /\ LastBreak(s) + 1 \in Int /\ n \in Int /\ 1 <= LastBreak(s) + 1 /\ n <= Len(s)
          /\ (n + 1) - 1 = n
      BY <1>1, <2>5
    <3>2. SubSeq(t, LastBreak(s) + 1, n) = SubSeq(s, LastBreak(s) + 1, n)
      BY <3>1, PartOf DEF Bytes
    <3> QED
      BY <3>1, <3>2 DEF Residue
  <2> DEFINE more == Append(Lines(s), Residue(s))
  <2>7. /\ more \in Seq(Bytes) /\ Len(more) = m + 1 /\ more[m + 1] = Residue(s)
        /\ \A k \in 1..m : more[k] = Lines(s)[k]
    BY <1>1, <1>2, Appended
  <2> HIDE DEF t, B, D, m, n, more
  <2>8. \A k \in 1..(m + 1) : Lines(t)[k] = more[k]
    <3> TAKE k \in 1..(m + 1)
    <3>1. CASE k = m + 1
      BY <1>2, <1>3, <2>2, <2>4, <2>6, <2>7, <3>1
    <3>2. CASE k # m + 1
      <4>1. k \in 1..m
        BY <1>2, <3>2
      <4> QED
        BY <1>3, <1>4, <2>2, <2>3, <2>7, <4>1
    <3> QED
      BY <3>1, <3>2
  <2>9. Lines(t) = more
    BY <1>3, <2>2, <2>7, <2>8, SeqEqual
  <2> QED
    BY <2>9 DEF more
<1> QED
  BY <1>6, <1>7 DEF t

\* A text without line ends has no lines, and what is left of one is such.
LEMMA NoLines ==
  ASSUME NEW s \in Bytes
  PROVE  /\ Breaks(s) = {} => Lines(s) = <<>> /\ Residue(s) = s
         /\ Breaks(Residue(s)) = {}
<1>1. Len(s) \in Nat /\ LastBreak(s) \in 0..Len(s)
  BY BreaksIn
<1>2. ASSUME Breaks(s) = {}
      PROVE  Lines(s) = <<>> /\ Residue(s) = s
  <2>1. Len(Lines(s)) = 0 /\ Lines(s) \in Seq(Bytes)
    BY <1>2, LineAt, OrderedNone
  <2>2. LastBreak(s) = 0
    BY <1>2, BreaksIn
  <2>3. Residue(s) = SubSeq(s, 1, Len(s))
    BY <2>2 DEF Residue
  <2> QED
    BY <2>1, <2>3, SubSeqFull DEF Bytes
<1>3. Breaks(Residue(s)) = {}
  <2> SUFFICES ASSUME NEW i \in Breaks(Residue(s)) PROVE FALSE
    OBVIOUS
  <2> DEFINE r == Residue(s)
             a == LastBreak(s)
  <2>1. \A j \in (a + 1)..Len(s) : s[j] \in SseSymbols
    BY <1>1 DEF Bytes
  <2>2. /\ r \in Seq(SseSymbols) /\ Len(r) = Len(s) - a
        /\ \A j \in 1..(Len(s) - a) : r[j] = s[a + j]
    BY <1>1, <2>1, SubSeqProperties DEF Residue
  <2>3. i \in 1..Len(r) /\ r[i] = "LF"
    BY <2>2 DEF Breaks
  <2> HIDE DEF r, a
  <2>4. s[a + i] = "LF" /\ a + i \in 1..Len(s) /\ a + i > a
    BY <1>1, <2>2, <2>3 DEF a
  <2>5. a + i \in Breaks(s)
    BY <2>4 DEF Breaks, Bytes
  <2>6. a + i <= a
    BY <2>5, BreaksIn DEF a
  <2> QED
    BY <1>1, <2>4, <2>6 DEF a
<1> QED
  BY <1>2, <1>3

-----------------------------------------------------------------------------
(* Recursive functions.                                                    *)

\* Working off no line changes nothing, and one line more is one step more.
LEMMA TakesOneMore ==
  ASSUME NEW S, NEW lines \in Seq(S), NEW x \in S, NEW begun
  PROVE  /\ TakeLines(begun, <<>>) = begun
         /\ TakeLines(begun, Append(lines, x)) = TakeLine(TakeLines(begun, lines), x)
<1> DEFINE Step(f, ls, k) == IF k = 0 THEN begun ELSE TakeLine(f[k - 1], ls[k])
           Takes(f, ls, n) == f = [k \in 0..n |-> Step(f, ls, k)]
           TakesAll(ls) == CHOOSE f : Takes(f, ls, Len(ls))
<1>1. \A ls : TakeLines(begun, ls) = TakesAll(ls)[Len(ls)]
  BY DEF TakeLines
<1>2. ASSUME NEW ls \in Seq(S)
      PROVE  \A n \in 0..Len(ls) : \E f : Takes(f, ls, n)
  <2> DEFINE Bad == {n \in 0..Len(ls) : \A f : ~Takes(f, ls, n)}
  <2>0. Len(ls) \in Nat
    OBVIOUS
  <2> HIDE DEF Takes
  <2> SUFFICES ASSUME Bad # {} PROVE FALSE
    OBVIOUS
  <2>1. PICK n \in Bad : \A h \in Bad : n <= h
    <3>1. Bad \in SUBSET Nat
      BY <2>0
    <3> HIDE DEF Bad
    <3> QED
      BY <3>1, LeastNumber
  <2>2. CASE n = 0
    <3>1. Takes([k \in 0..0 |-> begun], ls, 0)
      BY DEF Takes
    <3> QED
      BY <2>1, <2>2, <3>1
  <2>3. CASE n > 0
    <3>1. n \in 1..Len(ls) /\ n - 1 \in 0..Len(ls) /\ n - 1 \notin Bad
      BY <2>0, <2>1, <2>3
    <3>2. PICK f : Takes(f, ls, n - 1)
      BY <3>1
    <3> DEFINE g == [k \in 0..n |-> IF k = n THEN TakeLine(f[n - 1], ls[n]) ELSE f[k]]
    <3>3. \A k \in 0..(n - 1) : f[k] = Step(f, ls, k)
      BY <3>2 DEF Takes
    <3>4. \A k \in 0..n : g[k] = Step(g, ls, k)
      <4> HIDE DEF Step
      <4> TAKE k \in 0..n
      <4>1. CASE k = n
        <5>1. g[n] = TakeLine(f[n - 1], ls[n]) /\ g[n - 1] = f[n - 1]
          BY <3>1
        <5> QED
          BY <2>3, <4>1, <5>1 DEF Step
      <4>2. CASE k # n
        <5>1. k \in 0..(n - 1) /\ g[k] = f[k]
          BY <3>1, <4>2
        <5>2. k # 0 => k - 1 \in 0..(n - 1) /\ g[k - 1] = f[k - 1]
          BY <3>1, <4>2
        <5> QED
          BY <3>3, <5>1, <5>2 DEF Step
      <4> QED
        BY <4>1, <4>2
    <3>5. Takes(g, ls, n)
      <4> HIDE DEF Step
      <4> QED
        BY <3>4 DEF Takes
    <3> HIDE DEF g
    <3> QED
      BY <2>1, <3>5
  <2> QED
    BY <2>0, <2>1, <2>2, <2>3
<1>3. ASSUME NEW ls \in Seq(S)
      PROVE  \A k \in 0..Len(ls) : TakesAll(ls)[k] = Step(TakesAll(ls), ls, k)
  <2>1. Len(ls) \in 0..Len(ls)
    OBVIOUS
  <2>2. \E f : Takes(f, ls, Len(ls))
    <3> HIDE DEF Takes
    <3> QED
      BY <1>2, <2>1
  <2>3. Takes(TakesAll(ls), ls, Len(ls))
    <3> HIDE DEF Takes
    <3> QED
      BY <2>2
  <2> HIDE DEF TakesAll, Step
  <2> QED
    BY <2>3
<1> HIDE DEF TakesAll
<1> DEFINE more == Append(lines, x)
<1>4. more \in Seq(S) /\ Len(more) = Len(lines) + 1 /\ Len(lines) \in Nat
      /\ more[Len(lines) + 1] = x /\ \A k \in 1..Len(lines) : more[k] = lines[k]
  OBVIOUS
<1> HIDE DEF more
<1>5. \A k \in 0..Len(lines) : TakesAll(more)[k] = TakesAll(lines)[k]
  <2> DEFINE Bad == {k \in 0..Len(lines) : TakesAll(more)[k] # TakesAll(lines)[k]}
  <2> SUFFICES ASSUME Bad # {} PROVE FALSE
    OBVIOUS
  <2>1. PICK k \in Bad : \A h \in Bad : k <= h
    <3>1. Bad \in SUBSET Nat
      BY <1>4
    <3> HIDE DEF Bad
    <3> QED
      BY <3>1, LeastNumber
  <2>2. k \in 0..Len(lines) /\ k \in 0..Len(more)
    BY <1>4, <2>1
  <2>3. TakesAll(more)[k] = Step(TakesAll(more), more, k) /\ TakesAll(lines)[k] = Step(TakesAll(lines), lines, k)
    <3> HIDE DEF Step
    <3> QED
      BY <1>3, <1>4, <2>2
  <2>4. k # 0
    BY <2>1, <2>3
  <2>5. k - 1 \in 0..Len(lines) /\ k - 1 \notin Bad /\ k \in 1..Len(lines)
    BY <1>4, <2>1, <2>2, <2>4
  <2>6. TakesAll(more)[k - 1] = TakesAll(lines)[k - 1] /\ more[k] = lines[k]
    BY <1>4, <2>5
  <2> QED
    BY <2>1, <2>3, <2>4, <2>6
<1>6. TakeLines(begun, more) = TakeLine(TakeLines(begun, lines), x)
  <2>1. Len(lines) + 1 \in 0..Len(more) /\ Len(lines) + 1 # 0 /\ (Len(lines) + 1) - 1 = Len(lines)
        /\ Len(lines) \in 0..Len(lines)
    BY <1>4
  <2>2. TakesAll(more)[Len(lines) + 1] = TakeLine(TakesAll(more)[Len(lines)], more[Len(lines) + 1])
    BY <1>3, <1>4, <2>1
  <2> QED
    BY <1>1, <1>4, <1>5, <2>1, <2>2
<1>7. TakeLines(begun, <<>>) = begun
  <2>1. <<>> \in Seq(S) /\ Len(<<>>) = 0
    OBVIOUS
  <2>2. \A k \in 0..Len(<<>>) : TakesAll(<<>>)[k] = Step(TakesAll(<<>>), <<>>, k)
    <3> HIDE DEF Step
    <3> QED
      BY <1>3, <2>1
  <2>3. TakesAll(<<>>)[0] = begun
    <3>1. 0 \in 0..Len(<<>>)
      BY <2>1
    <3>2. TakesAll(<<>>)[0] = Step(TakesAll(<<>>), <<>>, 0)
      <4> HIDE DEF Step
      <4> QED
        BY <2>2, <3>1
    <3> QED
      BY <3>2
  <2> QED
    BY <1>1, <2>1, <2>3
<1> QED
  BY <1>6, <1>7 DEF more

\* No values make none, and one value more is joined to the others.
LEMMA JoinsOneMore ==
  ASSUME NEW S, NEW lines \in Seq(S), NEW x \in S
  PROVE  /\ JoinedData(<<>>) = <<>>
         /\ JoinedData(Append(lines, x)) = IF lines = <<>> THEN x ELSE Append(JoinedData(lines), "LF") \o x
<1> DEFINE Step(f, ls, k) == IF k = 0 THEN <<>> ELSE IF k = 1 THEN ls[1] ELSE Append(f[k - 1], "LF") \o ls[k]
           JoinsUp(f, ls, n) == f = [k \in 0..n |-> Step(f, ls, k)]
           JoinsAll(ls) == CHOOSE f : JoinsUp(f, ls, Len(ls))
<1>1. \A ls : JoinedData(ls) = JoinsAll(ls)[Len(ls)]
  BY DEF JoinedData
<1>2. ASSUME NEW ls \in Seq(S)
      PROVE  \A n \in 0..Len(ls) : \E f : JoinsUp(f, ls, n)
  <2> DEFINE Bad == {n \in 0..Len(ls) : \A f : ~JoinsUp(f, ls, n)}
  <2>0. Len(ls) \in Nat
    OBVIOUS
  <2> HIDE DEF JoinsUp
  <2> SUFFICES ASSUME Bad # {} PROVE FALSE
    OBVIOUS
  <2>1. PICK n \in Bad : \A h \in Bad : n <= h
    <3>1. Bad \in SUBSET Nat
      BY <2>0
    <3> HIDE DEF Bad
    <3> QED
      BY <3>1, LeastNumber
  <2>2. CASE n = 0
    <3>1. JoinsUp([k \in 0..0 |-> <<>>], ls, 0)
      BY DEF JoinsUp
    <3> QED
      BY <2>1, <2>2, <3>1
  <2>3. CASE n > 0
    <3>1. n \in 1..Len(ls) /\ n - 1 \in 0..Len(ls) /\ n - 1 \notin Bad
      BY <2>0, <2>1, <2>3
    <3>2. PICK f : JoinsUp(f, ls, n - 1)
      BY <3>1
    <3> DEFINE Next(h, k) == IF k = 1 THEN ls[1] ELSE Append(h[k - 1], "LF") \o ls[k]
               g == [k \in 0..n |-> IF k = n THEN Next(f, n) ELSE f[k]]
    <3>3. \A k \in 0..(n - 1) : f[k] = Step(f, ls, k)
      BY <3>2 DEF JoinsUp
    <3>4. \A k \in 0..n : g[k] = Step(g, ls, k)
      <4> HIDE DEF Step
      <4> TAKE k \in 0..n
      <4>1. CASE k = n
        <5>1. g[n] = Next(f, n) /\ g[n - 1] = f[n - 1] /\ n \in Nat /\ n # 0
          BY <3>1
        <5> QED
          BY <2>3, <4>1, <5>1 DEF Step
      <4>2. CASE k # n
        <5>1. k \in 0..(n - 1) /\ g[k] = f[k]
          BY <3>1, <4>2
        <5>2. k # 0 => k - 1 \in 0..(n - 1) /\ g[k - 1] = f[k - 1]
          BY <3>1, <4>2
        <5> QED
          BY <3>3, <5>1, <5>2 DEF Step
      <4> QED
        BY <4>1, <4>2
    <3>5. JoinsUp(g, ls, n)
      <4> HIDE DEF Step
      <4> QED
        BY <3>4 DEF JoinsUp
    <3> HIDE DEF g
    <3> QED
      BY <2>1, <3>5
  <2> QED
    BY <2>0, <2>1, <2>2, <2>3
<1>3. ASSUME NEW ls \in Seq(S)
      PROVE  \A k \in 0..Len(ls) : JoinsAll(ls)[k] = Step(JoinsAll(ls), ls, k)
  <2>1. Len(ls) \in 0..Len(ls)
    OBVIOUS
  <2>2. \E f : JoinsUp(f, ls, Len(ls))
    <3> HIDE DEF JoinsUp
    <3> QED
      BY <1>2, <2>1
  <2>3. JoinsUp(JoinsAll(ls), ls, Len(ls))
    <3> HIDE DEF JoinsUp
    <3> QED
      BY <2>2
  <2> HIDE DEF JoinsAll, Step
  <2> QED
    BY <2>3
<1> HIDE DEF JoinsAll
<1> DEFINE more == Append(lines, x)
<1>4. more \in Seq(S) /\ Len(more) = Len(lines) + 1 /\ Len(lines) \in Nat
      /\ more[Len(lines) + 1] = x /\ \A k \in 1..Len(lines) : more[k] = lines[k]
  OBVIOUS
<1> HIDE DEF more
<1>5. \A k \in 0..Len(lines) : JoinsAll(more)[k] = JoinsAll(lines)[k]
  <2> DEFINE Bad == {k \in 0..Len(lines) : JoinsAll(more)[k] # JoinsAll(lines)[k]}
  <2> SUFFICES ASSUME Bad # {} PROVE FALSE
    OBVIOUS
  <2>1. PICK k \in Bad : \A h \in Bad : k <= h
    <3>1. Bad \in SUBSET Nat
      BY <1>4
    <3> HIDE DEF Bad
    <3> QED
      BY <3>1, LeastNumber
  <2>2. k \in 0..Len(lines) /\ k \in 0..Len(more)
    BY <1>4, <2>1
  <2>3. JoinsAll(more)[k] = Step(JoinsAll(more), more, k) /\ JoinsAll(lines)[k] = Step(JoinsAll(lines), lines, k)
    <3> HIDE DEF Step
    <3> QED
      BY <1>3, <1>4, <2>2
  <2>4. k # 0
    BY <2>1, <2>3
  <2>5. k - 1 \in 0..Len(lines) /\ k - 1 \notin Bad /\ k \in 1..Len(lines)
    BY <1>4, <2>1, <2>2, <2>4
  <2>6. JoinsAll(more)[k - 1] = JoinsAll(lines)[k - 1] /\ more[k] = lines[k]
    BY <1>4, <2>5
  <2> QED
    BY <2>1, <2>3, <2>4, <2>6
<1>6. JoinedData(more) = IF lines = <<>> THEN x ELSE Append(JoinedData(lines), "LF") \o x
  <2>1. Len(lines) + 1 \in 0..Len(more) /\ Len(lines) + 1 # 0 /\ (Len(lines) + 1) - 1 = Len(lines)
        /\ Len(lines) \in 0..Len(lines)
    BY <1>4
  <2>2. JoinsAll(more)[Len(lines) + 1] = Step(JoinsAll(more), more, Len(lines) + 1)
    <3> HIDE DEF Step
    <3> QED
      BY <1>3, <1>4, <2>1
  <2>3. JoinsAll(more)[Len(lines)] = JoinsAll(lines)[Len(lines)]
    BY <1>5, <2>1
  <2>4. lines = <<>> <=> Len(lines) = 0
    OBVIOUS
  <2>5. CASE Len(lines) = 0
    <3>1. Len(lines) + 1 = 1 /\ lines = <<>>
      BY <2>4, <2>5
    <3>2. JoinsAll(more)[1] = more[1]
      BY <2>2, <3>1
    <3>3. JoinedData(more) = x
      BY <1>1, <1>4, <3>1, <3>2
    <3> QED
      BY <3>1, <3>3
  <2>6. CASE Len(lines) # 0
    <3>1. Len(lines) + 1 > 1 /\ Len(lines) + 1 # 1 /\ Len(lines) + 1 # 0
      BY <1>4, <2>6
    <3>2. JoinsAll(more)[Len(lines) + 1] = Append(JoinsAll(more)[Len(lines)], "LF") \o more[Len(lines) + 1]
      BY <2>1, <2>2, <3>1
    <3> QED
      BY <1>1, <1>4, <2>3, <2>4, <2>6, <3>2
  <2> QED
    BY <2>5, <2>6
<1>7. JoinedData(<<>>) = <<>>
  <2>1. <<>> \in Seq(S) /\ Len(<<>>) = 0
    OBVIOUS
  <2>2. \A k \in 0..Len(<<>>) : JoinsAll(<<>>)[k] = Step(JoinsAll(<<>>), <<>>, k)
    <3> HIDE DEF Step
    <3> QED
      BY <1>3, <2>1
  <2>3. JoinsAll(<<>>)[0] = <<>>
    <3>1. 0 \in 0..Len(<<>>)
      BY <2>1
    <3>2. JoinsAll(<<>>)[0] = Step(JoinsAll(<<>>), <<>>, 0)
      <4> HIDE DEF Step
      <4> QED
        BY <2>2, <3>1
    <3> QED
      BY <3>2
  <2> QED
    BY <1>1, <2>1, <2>3
<1> QED
  BY <1>6, <1>7 DEF more

-----------------------------------------------------------------------------
(* What lines tell, by the last of them.                                   *)

EventType == [data : Bytes, event : Bytes]

\* A non-empty set of numbers up to n has a largest.
LEMMA Largest ==
  ASSUME NEW n \in Nat, NEW S \in SUBSET (1..n), S # {}
  PROVE  \E m \in S : \A j \in S : j <= m
<1> DEFINE c == Cardinality(S)
           m == InOrder(S)[c]
<1>1. c \in Nat /\ c # 0
  BY Ranks, FS_EmptySet
<1>2. m \in S /\ Rank(S, m) = c
  BY <1>1, Ordered
<1>3. /\ \A i \in S : Rank(S, i) \in 1..c
      /\ \A i, j \in S : i < j => Rank(S, i) < Rank(S, j)
  BY Ranks
<1>4. \A i \in S : i \in Int
  OBVIOUS
<1> HIDE DEF m, c
<1>5. \A j \in S : ~(m < j)
  BY <1>1, <1>2, <1>3, <1>4
<1>6. \A j \in S : j <= m
  BY <1>2, <1>4, <1>5
<1> QED
  BY <1>2, <1>6

\* What is trimmed of a line, and what follows its field's name, are bytes.
LEMMA ValuesAreBytes ==
  ASSUME NEW line \in Bytes
  PROVE  Trim(line) \in Bytes /\ (~Blank(line) => Value(line) \in Bytes)
<1> DEFINE kept == {i \in DOMAIN line : line[i] # "CR"}
           a == CHOOSE i \in kept : \A j \in kept : i <= j
           b == CHOOSE i \in kept : \A j \in kept : i >= j
<1>1. kept \in SUBSET (1..Len(line)) /\ Len(line) \in Nat
  BY DEF Bytes
<1>2. CASE kept = {}
  <2>1. Trim(line) = <<>>
    BY <1>2 DEF Trim
  <2> QED
    BY <2>1 DEF Blank, Bytes
<1>3. CASE kept # {}
  <2>1. \E i \in kept : \A j \in kept : i <= j
    <3>1. kept \in SUBSET Nat
      BY <1>1
    <3> HIDE DEF kept
    <3> QED
      BY <1>3, <3>1, LeastNumber
  <2>2. \E i \in kept : \A j \in kept : i >= j
    <3> HIDE DEF kept
    <3>1. PICK i \in kept : \A j \in kept : j <= i
      BY <1>1, <1>3, Largest
    <3>2. \A j \in kept : j \in Int
      BY <1>1
    <3> QED
      BY <3>1, <3>2
  <2>3. a \in kept /\ b \in kept /\ a <= b
    <3> HIDE DEF kept
    <3> QED
      BY <2>1, <2>2
  <2>4. Trim(line) = SubSeq(line, a, b)
    BY <1>3 DEF Trim
  <2>5. a \in 1..Len(line) /\ b \in 1..Len(line)
    BY <1>1, <2>3
  <2> HIDE DEF a, b, kept
  <2>6. \A i \in a..b : line[i] \in SseSymbols
    BY <1>1, <2>5 DEF Bytes
  <2>7. Trim(line) \in Bytes
    BY <2>4, <2>5, <2>6, SubSeqProperties DEF Bytes
  <2>8. Trim(line) # <<>> => Tail(Trim(line)) \in Bytes
    BY <2>7, HeadTailProperties DEF Bytes
  <2> QED
    BY <2>7, <2>8 DEF Blank, Value
<1> QED
  BY <1>2, <1>3

\* The lines before one more are the lines there were.
LEMMA LinesBefore ==
  ASSUME NEW lines \in Seq(Bytes), NEW x \in Bytes
  PROVE  /\ \A b \in 1..Len(lines) : SubSeq(Append(lines, x), 1, b - 1) = SubSeq(lines, 1, b - 1)
         /\ SubSeq(Append(lines, x), 1, (Len(lines) + 1) - 1) = lines
         /\ SubSeq(lines, 1, Len(lines)) = lines
<1>1. Len(lines) \in Nat
  OBVIOUS
<1>2. ASSUME NEW b \in 0..Len(lines)
      PROVE  SubSeq(Append(lines, x), 1, b) = SubSeq(lines, 1, b)
  <2>1. 1 \in Int /\ b \in Int /\ 1 <= 1 /\ b <= Len(lines)
    BY <1>1
  <2> QED
    BY <2>1, PartOf
<1>3. \A b \in 1..Len(lines) : b - 1 \in 0..Len(lines)
  BY <1>1
<1>4. (Len(lines) + 1) - 1 = Len(lines) /\ Len(lines) \in 0..Len(lines)
  BY <1>1
<1>5. SubSeq(lines, 1, Len(lines)) = lines
  BY SubSeqFull
<1>6. SubSeq(Append(lines, x), 1, Len(lines)) = lines
  BY <1>2, <1>4, <1>5
<1> QED
  BY <1>2, <1>3, <1>4, <1>5, <1>6

\* The data fields, the ends of events and the types are those there were and what
\* the line is; all but the ends are forgotten when it ends one.
LEMMA OneLineMore ==
  ASSUME NEW lines \in Seq(Bytes), NEW x \in Bytes
  PROVE  LET n == Len(lines)
             more == Append(lines, x)
             ends == Blank(x) /\ Datas(lines) # {}
         IN /\ n \in Nat /\ Datas(lines) \in SUBSET (1..n) /\ Closes(lines) \in SUBSET (1..n)
            /\ Types(lines) \in SUBSET (1..n)
            /\ Blank(x) => Datas(more) = {}
            /\ ~Blank(x) /\ ~Is(x, "data") => Datas(more) = Datas(lines)
            /\ Is(x, "data") => Datas(more) = Datas(lines) \cup {n + 1}
            /\ ends => Closes(more) = Closes(lines) \cup {n + 1} /\ Types(more) = {}
            /\ ~ends => /\ Closes(more) = Closes(lines)
                        /\ Types(more) = Types(lines) \cup (IF Is(x, "event") THEN {n + 1} ELSE {})
<1> DEFINE n == Len(lines)
           more == Append(lines, x)
           ends == Blank(x) /\ Datas(lines) # {}
<1>1. /\ n \in Nat /\ DOMAIN lines = 1..n /\ DOMAIN more = 1..(n + 1) /\ Len(more) = n + 1
      /\ more[n + 1] = x /\ \A k \in 1..n : more[k] = lines[k]
  OBVIOUS
<1>2. /\ \A b \in 1..n : SubSeq(more, 1, b - 1) = SubSeq(lines, 1, b - 1)
      /\ SubSeq(more, 1, (n + 1) - 1) = lines
  BY LinesBefore
<1> HIDE DEF more, n
<1>3. /\ Datas(lines) \in SUBSET (1..n) /\ Closes(lines) \in SUBSET (1..n) /\ Types(lines) \in SUBSET (1..n)
  BY <1>1 DEF Datas, Closes, Types
<1>4. Is(x, "data") => ~Blank(x)
  BY DEF Is, Blank
<1>5. Blank(x) => Datas(more) = {}
  <2> SUFFICES ASSUME Blank(x), NEW d \in Datas(more) PROVE FALSE
    OBVIOUS
  <2>1. d \in 1..(n + 1) /\ \A k \in d..(n + 1) : ~Blank(more[k])
    BY <1>1 DEF Datas
  <2>2. n + 1 \in d..(n + 1)
    BY <1>1, <2>1
  <2> QED
    BY <1>1, <2>1, <2>2
<1>6. ASSUME ~Blank(x)
      PROVE  Datas(more) = Datas(lines) \cup (IF Is(x, "data") THEN {n + 1} ELSE {})
  <2>1. \A d \in 1..n : d \in Datas(more) <=> d \in Datas(lines)
    <3> TAKE d \in 1..n
    <3>1. \A k : k \in d..(n + 1) <=> k \in d..n \/ k = n + 1
      BY <1>1
    <3>2. \A k \in d..n : more[k] = lines[k]
      BY <1>1
    <3> QED
      BY <1>1, <1>6, <3>1, <3>2 DEF Datas, n
  <2>2. n + 1 \in Datas(more) <=> Is(x, "data")
    <3>1. \A k \in (n + 1)..(n + 1) : k = n + 1
      BY <1>1
    <3>2. n + 1 \in 1..(n + 1)
      BY <1>1
    <3> QED
      BY <1>1, <1>6, <3>1, <3>2 DEF Datas
  <2>3. Datas(more) \subseteq 1..(n + 1) /\ n + 1 \notin Datas(lines)
    BY <1>1, <1>3 DEF Datas
  <2>4. \A d \in 1..(n + 1) : d \in 1..n \/ d = n + 1
    BY <1>1
  <2> QED
    BY <1>3, <2>1, <2>2, <2>3, <2>4
<1>7. Closes(more) = Closes(lines) \cup (IF ends THEN {n + 1} ELSE {})
  <2>1. \A b \in 1..n : b \in Closes(more) <=> b \in Closes(lines)
    <3> TAKE b \in 1..n
    <3>1. b \in DOMAIN more /\ b \in DOMAIN lines /\ more[b] = lines[b]
      BY <1>1
    <3>2. Datas(SubSeq(more, 1, b - 1)) = Datas(SubSeq(lines, 1, b - 1))
      BY <1>2
    <3> QED
      BY <3>1, <3>2 DEF Closes
  <2>2. n + 1 \in Closes(more) <=> ends
    <3>1. n + 1 \in DOMAIN more /\ more[n + 1] = x
      BY <1>1
    <3>2. Datas(SubSeq(more, 1, (n + 1) - 1)) = Datas(lines)
      BY <1>2
    <3> QED
      BY <3>1, <3>2 DEF Closes
  <2>3. Closes(more) \subseteq 1..(n + 1)
    BY <1>1 DEF Closes
  <2>4. \A d \in 1..(n + 1) : d \in 1..n \/ d = n + 1
    BY <1>1
  <2> QED
    BY <1>3, <2>1, <2>2, <2>3, <2>4
<1>8. Types(more) = IF ends THEN {} ELSE Types(lines) \cup (IF Is(x, "event") THEN {n + 1} ELSE {})
  <2>1. CASE ends
    <3> SUFFICES ASSUME NEW e \in Types(more) PROVE FALSE
      BY <2>1
    <3>1. e \in 1..(n + 1) /\ n + 1 < e
      BY <1>1, <1>7, <2>1 DEF Types
    <3> QED
      BY <1>1, <3>1
  <2>2. CASE ~ends
    <3>1. Closes(more) = Closes(lines) /\ \A c \in Closes(lines) : c < n + 1
      BY <1>1, <1>3, <1>7, <2>2
    <3>2. \A e \in 1..n : e \in Types(more) <=> e \in Types(lines)
      BY <1>1, <3>1 DEF Types
    <3>3. n + 1 \in Types(more) <=> Is(x, "event")
      BY <1>1, <3>1 DEF Types
    <3>4. Types(more) \subseteq 1..(n + 1)
      BY <1>1 DEF Types
    <3>5. \A d \in 1..(n + 1) : d \in 1..n \/ d = n + 1
      BY <1>1
    <3> QED
      BY <1>3, <2>2, <3>2, <3>3, <3>4, <3>5
  <2> QED
    BY <2>1, <2>2
<1>9. n = Len(lines) /\ more = Append(lines, x)
  BY DEF n, more
<1> HIDE DEF ends
<1>10. ends <=> Blank(x) /\ Datas(lines) # {}
  BY DEF ends
<1> QED
  BY <1>1, <1>3, <1>4, <1>5, <1>6, <1>7, <1>8, <1>9, <1>10

\* The values of the data fields since the last blank line, and the type that holds.
Values(lines) ==
  [k \in DOMAIN InOrder(Datas(lines)) |-> Value(lines[InOrder(Datas(lines))[k]])]
TypeGiven(lines) ==
  IF Types(lines) = {} THEN <<>>
  ELSE Value(lines[CHOOSE e \in Types(lines) : \A f \in Types(lines) : f <= e])

\* A data field adds its value, a blank line forgets the values.
LEMMA ValuesMore ==
  ASSUME NEW lines \in Seq(Bytes), NEW x \in Bytes
  PROVE  /\ Values(lines) \in Seq(Bytes)
         /\ Values(lines) = <<>> <=> Datas(lines) = {}
         /\ Blank(x) => Values(Append(lines, x)) = <<>>
         /\ ~Blank(x) /\ ~Is(x, "data") => Values(Append(lines, x)) = Values(lines)
         /\ Is(x, "data") => Values(Append(lines, x)) = Append(Values(lines), Value(x))
<1> DEFINE n == Len(lines)
           more == Append(lines, x)
           D == Datas(lines)
           c == Cardinality(D)
<1>1. /\ n \in Nat /\ DOMAIN lines = 1..n
      /\ more[n + 1] = x /\ \A k \in 1..n : more[k] = lines[k]
      /\ \A k \in 1..n : lines[k] \in Bytes
  OBVIOUS
<1>2. /\ D \in SUBSET (1..n)
      /\ Blank(x) => Datas(more) = {}
      /\ ~Blank(x) /\ ~Is(x, "data") => Datas(more) = D
      /\ Is(x, "data") => Datas(more) = D \cup {n + 1}
  BY OneLineMore
<1>3. \A d \in D : Is(lines[d], "data")
  BY DEF Datas
<1>4. /\ c \in Nat /\ DOMAIN InOrder(D) = 1..c
      /\ \A k \in 1..c : InOrder(D)[k] \in D
  <2>1. c \in Nat
    BY <1>1, <1>2, Ranks
  <2> QED
    BY <1>1, <1>2, <2>1, Ordered
<1>5. c = 0 <=> D = {}
  <2>1. IsFiniteSet(D)
    BY <1>1, <1>2, Ranks
  <2> QED
    BY <2>1, FS_EmptySet
<1> HIDE DEF more, D, c, n
<1>6. Values(lines) = [k \in 1..c |-> Value(lines[InOrder(D)[k]])]
  BY <1>4 DEF Values, D
<1>7. \A k \in 1..c : InOrder(D)[k] \in 1..n /\ Value(lines[InOrder(D)[k]]) \in Bytes
  <2> TAKE k \in 1..c
  <2>1. InOrder(D)[k] \in D /\ InOrder(D)[k] \in 1..n
    BY <1>2, <1>4
  <2>2. Is(lines[InOrder(D)[k]], "data") /\ lines[InOrder(D)[k]] \in Bytes
    BY <1>1, <1>3, <2>1
  <2> QED
    BY <2>1, <2>2, ValuesAreBytes DEF Is, Blank
<1>8. Values(lines) \in Seq(Bytes) /\ Len(Values(lines)) = c
  BY <1>4, <1>6, <1>7
<1>9. Values(lines) = <<>> <=> D = {}
  BY <1>4, <1>5, <1>8
<1>10. Blank(x) => Values(more) = <<>>
  <2> HAVE Blank(x)
  <2>1. Datas(more) = {}
    BY <1>2
  <2> QED
    BY <2>1, OrderedNone DEF Values
<1>11. ASSUME ~Blank(x), ~Is(x, "data") PROVE Values(more) = Values(lines)
  <2>1. Values(more) = [k \in 1..c |-> Value(more[InOrder(D)[k]])]
    BY <1>2, <1>4, <1>11 DEF Values
  <2>2. \A k \in 1..c : more[InOrder(D)[k]] = lines[InOrder(D)[k]]
    BY <1>1, <1>7
  <2> QED
    BY <1>6, <2>1, <2>2
<1>12. ASSUME Is(x, "data") PROVE Values(more) = Append(Values(lines), Value(x))
  <2> DEFINE E == D \cup {n + 1}
  <2>1. /\ E \in SUBSET (1..(n + 1)) /\ Cardinality(E) = c + 1
        /\ InOrder(E)[c + 1] = n + 1
        /\ \A k \in 1..c : InOrder(E)[k] = InOrder(D)[k]
    BY <1>1, <1>2, OrderedMore DEF c
  <2>2. DOMAIN InOrder(E) = 1..(c + 1)
    <3>1. n + 1 \in Nat
      BY <1>1
    <3> QED
      BY <2>1, <3>1, Ordered
  <2> HIDE DEF E
  <2>3. Values(more) = [k \in 1..(c + 1) |-> Value(more[InOrder(E)[k]])]
    BY <1>2, <1>12, <2>2 DEF Values, E
  <2>4. \A k \in 1..c : Value(more[InOrder(E)[k]]) = Values(lines)[k]
    BY <1>1, <1>6, <1>7, <2>1
  <2>5. Value(more[InOrder(E)[c + 1]]) = Value(x)
    BY <1>1, <2>1
  <2>6. Value(x) \in Bytes
    BY <1>12, ValuesAreBytes DEF Is, Blank
  <2>7. /\ Append(Values(lines), Value(x)) \in Seq(Bytes)
        /\ DOMAIN Append(Values(lines), Value(x)) = 1..(c + 1)
        /\ Append(Values(lines), Value(x))[c + 1] = Value(x)
        /\ \A k \in 1..c : Append(Values(lines), Value(x))[k] = Values(lines)[k]
    BY <1>8, <2>6, Appended
  <2>8. \A k \in 1..(c + 1) : Value(more[InOrder(E)[k]]) = Append(Values(lines), Value(x))[k]
    <3>1. \A k \in 1..(c + 1) : k \in 1..c \/ k = c + 1
      BY <1>4
    <3> QED
      BY <2>4, <2>5, <2>7, <3>1
  <2>9. Append(Values(lines), Value(x)) = [k \in 1..(c + 1) |-> Append(Values(lines), Value(x))[k]]
    <3> DEFINE v == Append(Values(lines), Value(x))
    <3>1. v \in Seq(Bytes) /\ DOMAIN v = 1..(c + 1)
      BY <2>7
    <3> HIDE DEF v
    <3>2. v = [k \in 1..(c + 1) |-> v[k]]
      BY <3>1
    <3> QED
      BY <3>2 DEF v
  <2> QED
    BY <2>3, <2>8, <2>9
<1> QED
  BY <1>8, <1>9, <1>10, <1>11, <1>12 DEF more, D

\* The type is the last that is given, until an event ends.
LEMMA TypeMore ==
  ASSUME NEW lines \in Seq(Bytes), NEW x \in Bytes
  PROVE  LET ends == Blank(x) /\ Datas(lines) # {} IN
         /\ ends => TypeGiven(Append(lines, x)) = <<>>
         /\ ~ends /\ Is(x, "event") => TypeGiven(Append(lines, x)) = Value(x)
         /\ ~ends /\ ~Is(x, "event") => TypeGiven(Append(lines, x)) = TypeGiven(lines)
<1> DEFINE n == Len(lines)
           more == Append(lines, x)
           ends == Blank(x) /\ Datas(lines) # {}
           T == Types(lines)
           last(S) == CHOOSE e \in S : \A f \in S : f <= e
<1>1. /\ n \in Nat
      /\ more[n + 1] = x /\ \A k \in 1..n : more[k] = lines[k]
  OBVIOUS
<1>2. /\ T \in SUBSET (1..n)
      /\ ends => Types(more) = {}
      /\ ~ends => Types(more) = T \cup (IF Is(x, "event") THEN {n + 1} ELSE {})
  BY OneLineMore
<1> HIDE DEF more, n, ends, T
<1>3. ends => TypeGiven(more) = <<>>
  BY <1>2 DEF TypeGiven
<1>4. ASSUME ~ends, Is(x, "event") PROVE TypeGiven(more) = Value(x)
  <2> DEFINE E == T \cup {n + 1}
  <2>1. n + 1 \in E /\ \A f \in E : f <= n + 1
    BY <1>1, <1>2
  <2>2. \A e \in E : (\A f \in E : f <= e) => e = n + 1
    BY <1>1, <1>2
  <2> HIDE DEF E
  <2>3. last(E) = n + 1
    BY <2>1, <2>2
  <2>4. E # {} /\ Types(more) = E
    BY <1>2, <1>4, <2>1 DEF E
  <2> QED
    BY <1>1, <2>3, <2>4 DEF TypeGiven
<1>5. ASSUME ~ends, ~Is(x, "event") PROVE TypeGiven(more) = TypeGiven(lines)
  <2>1. Types(more) = T
    BY <1>2, <1>5
  <2>2. CASE T = {}
    BY <2>1, <2>2 DEF TypeGiven, T
  <2>3. CASE T # {}
    <3>1. last(T) \in T
      BY <1>1, <1>2, <2>3, Largest
    <3>2. more[last(T)] = lines[last(T)]
      BY <1>1, <1>2, <3>1
    <3> QED
      BY <2>1, <2>3, <3>2 DEF TypeGiven, T
  <2> QED
    BY <2>2, <2>3
<1> QED
  BY <1>3, <1>4, <1>5 DEF more, ends

\* The event that is told is a record of the two.
LEMMA ToldIs ==
  ASSUME NEW lines
  PROVE  EventTold(lines) = [data |-> JoinedData(Values(lines)), event |-> TypeGiven(lines)]
BY DEF EventTold, Values, TypeGiven

\* What one more line does to the event that is told.
LEMMA ToldMore ==
  ASSUME NEW lines \in Seq(Bytes), NEW x \in Bytes
  PROVE  LET told == EventTold(lines)
             more == EventTold(Append(lines, x))
         IN /\ Blank(x) /\ Datas(lines) # {} => more = NoEvent
            /\ Blank(x) /\ Datas(lines) = {} => more = told
            /\ Is(x, "data") /\ Datas(lines) = {} =>
                 more = [data |-> Value(x), event |-> told.event] /\ told.data = <<>>
            /\ Is(x, "data") /\ Datas(lines) # {} =>
                 more = [data |-> Append(told.data, "LF") \o Value(x), event |-> told.event]
            /\ Is(x, "event") => more = [data |-> told.data, event |-> Value(x)]
            /\ ~Blank(x) /\ ~Is(x, "data") /\ ~Is(x, "event") => more = told
<1> DEFINE values == Values(lines)
           type == TypeGiven(lines)
           more == Append(lines, x)
           has == Datas(lines) # {}
<1>1. EventTold(lines) = [data |-> JoinedData(values), event |-> type]
  BY ToldIs
<1>2. EventTold(more) = [data |-> JoinedData(Values(more)), event |-> TypeGiven(more)]
  BY ToldIs
<1>3. EventTold(lines).data = JoinedData(values) /\ EventTold(lines).event = type
  BY <1>1
<1>4. /\ values \in Seq(Bytes)
      /\ values = <<>> <=> ~has
      /\ Blank(x) => Values(more) = <<>>
      /\ ~Blank(x) /\ ~Is(x, "data") => Values(more) = values
      /\ Is(x, "data") => Values(more) = Append(values, Value(x))
  BY ValuesMore
<1>5. /\ Blank(x) /\ has => TypeGiven(more) = <<>>
      /\ ~(Blank(x) /\ has) /\ Is(x, "event") => TypeGiven(more) = Value(x)
      /\ ~(Blank(x) /\ has) /\ ~Is(x, "event") => TypeGiven(more) = type
  BY TypeMore
<1>6. JoinedData(<<>>) = <<>>
  BY JoinsOneMore
<1>7. Is(x, "data") =>
        JoinedData(Append(values, Value(x))) = IF values = <<>> THEN Value(x) ELSE Append(JoinedData(values), "LF") \o Value(x)
  <2> HAVE Is(x, "data")
  <2>1. Value(x) \in Bytes
    BY ValuesAreBytes DEF Is, Blank
  <2> QED
    BY <1>4, <2>1, JoinsOneMore
<1>8. /\ Is(x, "data") => ~Blank(x) /\ ~Is(x, "event")
      /\ Is(x, "event") => ~Blank(x) /\ ~Is(x, "data")
  <2>1. "data" # "event"
    OBVIOUS
  <2> QED
    BY <2>1 DEF Is, Blank
<1>9. NoEvent = [data |-> <<>>, event |-> <<>>]
  BY DEF NoEvent
<1> HIDE DEF values, type, more, has
<1>10. Blank(x) /\ has => EventTold(more) = NoEvent
  BY <1>2, <1>4, <1>5, <1>6, <1>9
<1>11. Blank(x) /\ ~has => EventTold(more) = EventTold(lines)
  BY <1>1, <1>2, <1>4, <1>5, <1>8
<1>12. Is(x, "data") /\ ~has =>
         EventTold(more) = [data |-> Value(x), event |-> EventTold(lines).event] /\ EventTold(lines).data = <<>>
  BY <1>2, <1>3, <1>4, <1>5, <1>6, <1>7, <1>8
<1>13. Is(x, "data") /\ has =>
         EventTold(more) = [data |-> Append(EventTold(lines).data, "LF") \o Value(x), event |-> EventTold(lines).event]
  BY <1>2, <1>3, <1>4, <1>5, <1>7, <1>8
<1>14. Is(x, "event") => EventTold(more) = [data |-> EventTold(lines).data, event |-> Value(x)]
  BY <1>2, <1>3, <1>4, <1>5, <1>8
<1>15. ~Blank(x) /\ ~Is(x, "data") /\ ~Is(x, "event") => EventTold(more) = EventTold(lines)
  BY <1>1, <1>2, <1>4, <1>5
<1> QED
  BY <1>10, <1>11, <1>12, <1>13, <1>14, <1>15 DEF more, has

\* The events that lines may tell.
Tolds == {EventTold(lines) : lines \in Seq(Bytes)}

\* One more line adds the event it ends, if it ends one.
LEMMA EventsMore ==
  ASSUME NEW lines \in Seq(Bytes), NEW x \in Bytes
  PROVE  /\ EventsOf(lines) \in Seq(Tolds) /\ EventTold(lines) \in Tolds
         /\ EventsOf(<<>>) = <<>>
         /\ EventsOf(Append(lines, x)) = IF Blank(x) /\ Datas(lines) # {}
                                         THEN Append(EventsOf(lines), EventTold(lines)) ELSE EventsOf(lines)
<1> DEFINE n == Len(lines)
           more == Append(lines, x)
           C == Closes(lines)
           c == Cardinality(C)
           ends == Blank(x) /\ Datas(lines) # {}
<1>1. n \in Nat
  OBVIOUS
<1>2. /\ C \in SUBSET (1..n)
      /\ ends => Closes(more) = C \cup {n + 1}
      /\ ~ends => Closes(more) = C
  BY OneLineMore
<1>3. /\ \A b \in 1..n : SubSeq(more, 1, b - 1) = SubSeq(lines, 1, b - 1)
      /\ SubSeq(more, 1, (n + 1) - 1) = lines
  BY LinesBefore
<1>4. \A b \in 1..n : SubSeq(lines, 1, b - 1) \in Seq(Bytes)
  <2> TAKE b \in 1..n
  <2>1. 1 \in Int /\ b - 1 \in Int /\ b - 1 <= Len(lines)
    BY <1>1
  <2>2. \A i \in 1..(b - 1) : lines[i] \in Bytes
    BY <1>1
  <2> QED
    BY <2>1, <2>2, SubSeqProperties
<1>5. c \in Nat
  BY <1>1, <1>2, Ranks
<1>6. /\ DOMAIN InOrder(C) = 1..c
      /\ \A k \in 1..c : InOrder(C)[k] \in C
  BY <1>1, <1>2, <1>5, Ordered
<1>7. EventTold(lines) \in Tolds
  BY DEF Tolds
<1>8. EventsOf(<<>>) = <<>>
  <2> DEFINE told(k) == EventTold(SubSeq(<<>>, 1, InOrder({})[k] - 1))
  <2>1. Closes(<<>>) = {}
    BY DEF Closes
  <2>2. DOMAIN InOrder({}) = {}
    BY OrderedNone
  <2>3. EventsOf(<<>>) = [k \in {} |-> told(k)]
    BY <2>1, <2>2 DEF EventsOf
  <2> HIDE DEF told
  <2> QED
    BY <2>3
<1> HIDE DEF n, more, C, c, ends
<1>9. EventsOf(lines) = [k \in 1..c |-> EventTold(SubSeq(lines, 1, InOrder(C)[k] - 1))]
  BY <1>6 DEF EventsOf, C
<1>10. \A k \in 1..c : EventTold(SubSeq(lines, 1, InOrder(C)[k] - 1)) \in Tolds
  BY <1>2, <1>4, <1>6 DEF Tolds
<1>11. EventsOf(lines) \in Seq(Tolds) /\ Len(EventsOf(lines)) = c
  <2> HIDE DEF Tolds
  <2> QED
    BY <1>5, <1>9, <1>10
<1>12. ASSUME ~ends PROVE EventsOf(more) = EventsOf(lines)
  <2>1. EventsOf(more) = [k \in 1..c |-> EventTold(SubSeq(more, 1, InOrder(C)[k] - 1))]
    BY <1>2, <1>6, <1>12 DEF EventsOf
  <2>2. \A k \in 1..c : SubSeq(more, 1, InOrder(C)[k] - 1) = SubSeq(lines, 1, InOrder(C)[k] - 1)
    BY <1>2, <1>3, <1>6
  <2> QED
    BY <1>9, <2>1, <2>2
<1>13. ASSUME ends PROVE EventsOf(more) = Append(EventsOf(lines), EventTold(lines))
  <2> DEFINE E == C \cup {n + 1}
             given == Append(EventsOf(lines), EventTold(lines))
  <2>1. /\ E \in SUBSET (1..(n + 1)) /\ Cardinality(E) = c + 1
        /\ InOrder(E)[c + 1] = n + 1
        /\ \A k \in 1..c : InOrder(E)[k] = InOrder(C)[k]
    BY <1>1, <1>2, OrderedMore DEF c
  <2>2. DOMAIN InOrder(E) = 1..(c + 1)
    <3>1. n + 1 \in Nat
      BY <1>1
    <3> QED
      BY <2>1, <3>1, Ordered
  <2> HIDE DEF E
  <2>3. EventsOf(more) = [k \in 1..(c + 1) |-> EventTold(SubSeq(more, 1, InOrder(E)[k] - 1))]
    BY <1>2, <1>13, <2>2 DEF EventsOf, E
  <2>4. /\ given \in Seq(Tolds)
        /\ DOMAIN given = 1..(c + 1) /\ given[c + 1] = EventTold(lines)
        /\ \A k \in 1..c : given[k] = EventsOf(lines)[k]
    <3> HIDE DEF Tolds
    <3> QED
      BY <1>7, <1>11, Appended
  <2> HIDE DEF given
  <2>5. \A k \in 1..c : EventTold(SubSeq(more, 1, InOrder(E)[k] - 1)) = given[k]
    <3> TAKE k \in 1..c
    <3>1. InOrder(C)[k] \in 1..n /\ InOrder(E)[k] = InOrder(C)[k]
      BY <1>2, <1>6, <2>1
    <3>2. SubSeq(more, 1, InOrder(E)[k] - 1) = SubSeq(lines, 1, InOrder(C)[k] - 1)
      BY <1>3, <3>1
    <3> QED
      BY <1>9, <2>4, <3>2
  <2>6. EventTold(SubSeq(more, 1, InOrder(E)[c + 1] - 1)) = given[c + 1]
    BY <1>3, <2>1, <2>4
  <2>7. \A k \in 1..(c + 1) : EventTold(SubSeq(more, 1, InOrder(E)[k] - 1)) = given[k]
    <3>1. \A k \in 1..(c + 1) : k \in 1..c \/ k = c + 1
      BY <1>5
    <3> QED
      BY <2>5, <2>6, <3>1
  <2>8. given = [k \in 1..(c + 1) |-> given[k]]
    BY <2>4
  <2>9. EventsOf(more) = given
    BY <2>3, <2>7, <2>8
  <2> QED
    BY <2>9 DEF given
<1> QED
  BY <1>7, <1>8, <1>11, <1>12, <1>13 DEF more, ends

\* What decode() has done follows the lines, after the events given before.
Follows(done, given, lines) ==
  /\ done = [bad |-> done.bad, has |-> done.has, current |-> done.current, events |-> done.events]
  /\ done.bad = FALSE /\ done.has \in BOOLEAN /\ (done.has <=> Datas(lines) # {})
  /\ done.current = EventTold(lines)
  /\ done.events \in Seq(Tolds) /\ EventsOf(lines) = given \o done.events

\* A record that follows the lines.
LEMMA FollowsBy ==
  ASSUME NEW lines, NEW given, NEW has \in BOOLEAN, NEW events \in Seq(Tolds), NEW current, NEW next,
         next = [bad |-> FALSE, has |-> has, current |-> current, events |-> events],
         has <=> Datas(lines) # {}, current = EventTold(lines), EventsOf(lines) = given \o events
  PROVE  Follows(next, given, lines)
<1>1. next.bad = FALSE /\ next.has = has /\ next.current = current /\ next.events = events
  OBVIOUS
<1>2. next = [bad |-> next.bad, has |-> next.has, current |-> next.current, events |-> next.events]
  BY <1>1
<1> QED
  BY <1>1, <1>2 DEF Follows

\* Working off a line keeps up with it, unless it is no text.
LEMMA FollowsOneMore ==
  ASSUME NEW lines \in Seq(Bytes), NEW x \in Bytes, NEW given \in Seq(Tolds), NEW done,
         Follows(done, given, lines)
  PROVE  /\ Utf8(x) => Follows(TakeLine(done, x), given, Append(lines, x))
         /\ ~Utf8(x) => TakeLine(done, x).bad
<1> DEFINE more == Append(lines, x)
           next == TakeLine(done, x)
           field == Trim(x)
<1>1. PICK has \in BOOLEAN, events \in Seq(Tolds) :
        /\ done = [bad |-> FALSE, has |-> has, current |-> EventTold(lines), events |-> events]
        /\ has <=> Datas(lines) # {}
        /\ EventsOf(lines) = given \o events
  BY DEF Follows
<1>2. CASE ~Utf8(x)
  <2>1. next = [done EXCEPT !.bad = TRUE]
    BY <1>2 DEF TakeLine
  <2>2. next.bad
    BY <1>1, <2>1
  <2> QED
    BY <1>2, <2>2
<1>3. ASSUME Utf8(x) PROVE Follows(next, given, more)
  <2>1. /\ EventsOf(lines) \in Seq(Tolds) /\ EventTold(lines) \in Tolds
        /\ EventsOf(more) = IF Blank(x) /\ has THEN Append(EventsOf(lines), EventTold(lines)) ELSE EventsOf(lines)
    BY <1>1, EventsMore
  <2>2. /\ Blank(x) => Datas(more) = {}
        /\ ~Blank(x) /\ ~Is(x, "data") => Datas(more) = Datas(lines)
        /\ Is(x, "data") => Datas(more) # {}
    BY OneLineMore
  <2>3. /\ Blank(x) /\ has => EventTold(more) = NoEvent
        /\ Blank(x) /\ ~has => EventTold(more) = EventTold(lines)
        /\ Is(x, "data") /\ ~has =>
             EventTold(more) = [data |-> Value(x), event |-> EventTold(lines).event] /\ EventTold(lines).data = <<>>
        /\ Is(x, "data") /\ has =>
             EventTold(more) = [data |-> Append(EventTold(lines).data, "LF") \o Value(x), event |-> EventTold(lines).event]
        /\ Is(x, "event") => EventTold(more) = [data |-> EventTold(lines).data, event |-> Value(x)]
        /\ ~Blank(x) /\ ~Is(x, "data") /\ ~Is(x, "event") => EventTold(more) = EventTold(lines)
    BY <1>1, ToldMore
  <2>4. EventTold(lines) = [data |-> EventTold(lines).data, event |-> EventTold(lines).event]
    BY DEF EventTold
  <2> DEFINE told == EventTold(lines)
  <2>5. /\ Is(x, "data") <=> field # <<>> /\ field[1] = "data"
        /\ Is(x, "event") <=> field # <<>> /\ field[1] = "event"
        /\ Blank(x) <=> field = <<>>
        /\ Value(x) = Tail(field)
        /\ "data" # "event"
    BY DEF Is, Blank, Value
  <2>6. done.bad = FALSE /\ done.has = has /\ done.current = told /\ done.events = events
    BY <1>1
  <2> DEFINE Rec(h, c, e) == [bad |-> FALSE, has |-> h, current |-> c, events |-> e]
  <2> HIDE DEF told, more
  <2>8. CASE Blank(x) /\ has
    <3>1. next = [done EXCEPT !.events = Append(@, done.current), !.current = NoEvent, !.has = FALSE]
      BY <1>3, <2>5, <2>6, <2>8 DEF TakeLine
    <3> DEFINE all == Append(events, EventTold(lines))
    <3>2. next = Rec(FALSE, NoEvent, all)
      BY <1>1, <3>1
    <3>3. all \in Seq(Tolds) /\ given \o all = Append(given \o events, EventTold(lines))
      BY <2>1
    <3>4. EventsOf(more) = given \o all /\ Datas(more) = {} /\ NoEvent = EventTold(more) /\ FALSE \in BOOLEAN
      BY <1>1, <2>1, <2>2, <2>3, <2>8, <3>3
    <3> HIDE DEF all, next
    <3> QED
      BY <3>2, <3>3, <3>4, FollowsBy
  <2>9. CASE Blank(x) /\ ~has
    <3>1. next = done
      BY <1>3, <2>5, <2>6, <2>9 DEF TakeLine
    <3>2. next = Rec(FALSE, EventTold(lines), events)
      BY <1>1, <2>9, <3>1
    <3>3. EventsOf(more) = given \o events /\ Datas(more) = {} /\ EventTold(lines) = EventTold(more) /\ FALSE \in BOOLEAN
      BY <1>1, <2>1, <2>2, <2>3, <2>9
    <3> HIDE DEF next
    <3> QED
      BY <3>2, <3>3, FollowsBy
  <2>10. CASE Is(x, "data")
    <3> DEFINE joined == IF has THEN Append(told.data, "LF") ELSE told.data
    <3>1. next = [done EXCEPT !.current.data = joined \o Value(x), !.has = TRUE]
      BY <1>3, <2>5, <2>6, <2>10 DEF TakeLine
    <3> DEFINE all == [data |-> joined \o Value(x), event |-> told.event]
    <3>2. next = Rec(TRUE, all, events)
      BY <1>1, <2>4, <3>1 DEF told
    <3>3. ~has => <<>> \o Value(x) = Value(x)
      <4>1. Value(x) \in Bytes
        BY <2>5, <2>10, ValuesAreBytes
      <4> QED
        BY <4>1 DEF Bytes
    <3>4. all = EventTold(more)
      <4>1. CASE has
        BY <2>3, <2>10, <4>1 DEF told
      <4>2. CASE ~has
        BY <2>3, <2>10, <3>3, <4>2 DEF told
      <4> QED
        BY <4>1, <4>2
    <3>5. EventsOf(more) = given \o events /\ Datas(more) # {}
      BY <1>1, <2>1, <2>2, <2>5, <2>10
    <3> HIDE DEF all, next
    <3> QED
      BY <3>2, <3>4, <3>5, TRUE \in BOOLEAN, FollowsBy
  <2>11. CASE Is(x, "event")
    <3>1. next = [done EXCEPT !.current.event = Value(x)]
      BY <1>3, <2>5, <2>6, <2>11 DEF TakeLine
    <3> DEFINE all == [data |-> told.data, event |-> Value(x)]
    <3>2. next = Rec(has, all, events)
      BY <1>1, <2>4, <3>1 DEF told
    <3>3. all = EventTold(more)
      BY <2>3, <2>11 DEF told
    <3>4. EventsOf(more) = given \o events /\ Datas(more) = Datas(lines)
      BY <1>1, <2>1, <2>2, <2>5, <2>11
    <3>5. has <=> Datas(more) # {}
      BY <1>1, <3>4
    <3> HIDE DEF all, next
    <3> QED
      BY <3>2, <3>3, <3>4, <3>5, FollowsBy
  <2>12. CASE ~Blank(x) /\ ~Is(x, "data") /\ ~Is(x, "event")
    <3>1. next = done
      BY <1>3, <2>5, <2>6, <2>12 DEF TakeLine
    <3>2. next = Rec(has, EventTold(lines), events)
      BY <1>1, <3>1
    <3>3. EventsOf(more) = given \o events /\ (has <=> Datas(more) # {}) /\ EventTold(lines) = EventTold(more)
      BY <1>1, <2>1, <2>2, <2>3, <2>12
    <3> HIDE DEF next
    <3> QED
      BY <3>2, <3>3, FollowsBy
  <2> QED
    BY <2>8, <2>9, <2>10, <2>11, <2>12
<1> QED
  BY <1>2, <1>3

-----------------------------------------------------------------------------
(* A chunk is decoded.                                                     *)

\* A part takes one more byte, behind what is put before it.
LEMMA PartNext ==
  ASSUME NEW text \in Bytes, NEW before \in Bytes, NEW a \in 1..Len(text), NEW u \in (a - 1)..(Len(text) - 1)
  PROVE  /\ SubSeq(text, a, u) \in Bytes /\ before \o SubSeq(text, a, u) \in Bytes
         /\ text[u + 1] \in SseSymbols
         /\ SubSeq(text, a, u + 1) = Append(SubSeq(text, a, u), text[u + 1])
         /\ before \o SubSeq(text, a, u + 1) = Append(before \o SubSeq(text, a, u), text[u + 1])
<1> DEFINE piece == SubSeq(text, a, u)
           c == text[u + 1]
<1>1. Len(text) \in Nat /\ u + 1 \in a..Len(text) /\ c \in SseSymbols /\ u \in Int /\ a \in Int
  BY DEF Bytes
<1>2. \A i \in a..u : text[i] \in SseSymbols
  BY <1>1 DEF Bytes
<1>3. piece \in Bytes
  BY <1>1, <1>2, SubSeqProperties DEF Bytes
<1>4. SubSeq(text, a, u + 1) = SubSeq(text, a, (u + 1) - 1) \o <<c>>
  BY <1>1, SubSeqRecursiveSecond DEF Bytes
<1>5. (u + 1) - 1 = u
  BY <1>1
<1> HIDE DEF c, piece
<1>6. <<c>> \in Bytes
  BY <1>1 DEF Bytes
<1>7. before \o (piece \o <<c>>) = (before \o piece) \o <<c>>
  BY <1>3, <1>6, ConcatAssociative DEF Bytes
<1>8. before \o piece \in Bytes
  BY <1>3, ConcatProperties DEF Bytes
<1>9. Append(piece, c) = piece \o <<c>> /\ Append(before \o piece, c) = (before \o piece) \o <<c>>
  BY <1>1, <1>3, <1>8, AppendIsConcat DEF Bytes
<1> QED
  BY <1>1, <1>3, <1>4, <1>5, <1>7, <1>8, <1>9 DEF piece, c

\* What is bad stays bad, and a line that is no text makes it so.
LEMMA BadStays ==
  ASSUME NEW done, NEW x, "bad" \in DOMAIN done, done.bad \/ ~Utf8(x)
  PROVE  "bad" \in DOMAIN TakeLine(done, x) /\ TakeLine(done, x).bad
<1>1. TakeLine(done, x) = [done EXCEPT !.bad = TRUE]
  BY DEF TakeLine
<1> QED
  BY <1>1

\* What was worked off of the bytes behind those kept is what the text says.
Decodes(bytes, text, given, begun) ==
  LET done == TakeLines(begun, Lines(bytes)) IN
  /\ bytes \in Bytes /\ text \in Bytes /\ Residue(bytes) = Residue(text)
  /\ "bad" \in DOMAIN done
  /\ \/ done.bad /\ (begun.bad \/ \E k \in DOMAIN Lines(text) : ~Utf8(Lines(text)[k]))
     \/ Follows(done, given, Lines(text))
  /\ \E more \in Seq(Tolds) : EventsOf(Lines(text)) = given \o more

\* One more byte keeps it so.
LEMMA DecodesOneMore ==
  ASSUME NEW bytes, NEW text, NEW given \in Seq(Tolds), NEW begun, NEW c \in SseSymbols,
         Decodes(bytes, text, given, begun)
  PROVE  Decodes(Append(bytes, c), Append(text, c), given, begun)
<1> DEFINE done == TakeLines(begun, Lines(bytes))
           next == TakeLines(begun, Lines(Append(bytes, c)))
           lines == Lines(text)
           x == Residue(text)
<1>1. /\ bytes \in Bytes /\ text \in Bytes /\ Residue(bytes) = x
      /\ "bad" \in DOMAIN done
      /\ \/ done.bad /\ (begun.bad \/ \E k \in DOMAIN lines : ~Utf8(lines[k]))
         \/ Follows(done, given, lines)
      /\ \E more \in Seq(Tolds) : EventsOf(lines) = given \o more
  BY DEF Decodes
<1>2. /\ Append(bytes, c) \in Bytes /\ Append(text, c) \in Bytes /\ x \in Bytes
      /\ Residue(Append(bytes, c)) = Residue(Append(text, c))
  <2>1. Append(bytes, c) \in Bytes /\ Append(text, c) \in Bytes /\ x \in Bytes
    BY <1>1, LastByte
  <2>2. CASE c = "LF"
    BY <1>1, <2>2, LastByte
  <2>3. CASE c # "LF"
    BY <1>1, <2>3, LastByte
  <2> QED
    BY <2>1, <2>2, <2>3
<1>3. CASE c # "LF"
  <2>1. Lines(Append(bytes, c)) = Lines(bytes) /\ Lines(Append(text, c)) = lines
    BY <1>1, <1>3, LinesGrow
  <2> HIDE DEF lines
  <2> QED
    BY <1>1, <1>2, <2>1 DEF Decodes
<1>4. CASE c = "LF"
  <2>1. /\ Lines(Append(bytes, c)) = Append(Lines(bytes), x)
        /\ Lines(Append(text, c)) = Append(lines, x)
    BY <1>1, <1>4, LinesGrow
  <2>2. Lines(bytes) \in Seq(Bytes) /\ lines \in Seq(Bytes)
    BY <1>1, LineAt
  <2>3. next = TakeLine(done, x)
    BY <1>2, <2>1, <2>2, TakesOneMore
  <2> DEFINE longer == Append(lines, x)
  <2> HIDE DEF done, next, lines, x
  <2>4. \E more \in Seq(Tolds) : EventsOf(longer) = given \o more
    <3>1. PICK more \in Seq(Tolds) : EventsOf(lines) = given \o more
      BY <1>1
    <3>2. /\ EventTold(lines) \in Tolds
          /\ EventsOf(longer) = EventsOf(lines) \/ EventsOf(longer) = Append(EventsOf(lines), EventTold(lines))
      BY <1>2, <2>2, EventsMore
    <3>3. Append(more, EventTold(lines)) \in Seq(Tolds)
          /\ Append(given \o more, EventTold(lines)) = given \o Append(more, EventTold(lines))
      <4> HIDE DEF Tolds
      <4> QED
        BY <3>2
    <3> QED
      BY <3>1, <3>2, <3>3
  <2>5. DOMAIN longer = 1..(Len(lines) + 1) /\ longer[Len(lines) + 1] = x
        /\ \A k \in 1..Len(lines) : longer[k] = lines[k]
        /\ DOMAIN lines = 1..Len(lines) /\ Len(lines) \in Nat
    BY <1>2, <2>2, Appended
  <2> HIDE DEF longer
  <2>6. (\E k \in DOMAIN lines : ~Utf8(lines[k])) => \E k \in DOMAIN longer : ~Utf8(longer[k])
    <3> SUFFICES ASSUME NEW k \in DOMAIN lines, ~Utf8(lines[k]) PROVE \E j \in DOMAIN longer : ~Utf8(longer[j])
      OBVIOUS
    <3>1. k \in DOMAIN longer /\ longer[k] = lines[k]
      BY <2>5
    <3> QED
      BY <3>1
  <2>7. ~Utf8(x) => \E k \in DOMAIN longer : ~Utf8(longer[k])
    <3>1. Len(lines) + 1 \in DOMAIN longer
      BY <2>5
    <3> QED
      BY <2>5, <3>1
  <2>8. /\ "bad" \in DOMAIN next
        /\ \/ next.bad /\ (begun.bad \/ \E k \in DOMAIN longer : ~Utf8(longer[k]))
           \/ Follows(next, given, longer)
    <3>1. CASE done.bad /\ (begun.bad \/ \E k \in DOMAIN lines : ~Utf8(lines[k]))
      <4>1. "bad" \in DOMAIN next /\ next.bad
        BY <1>1, <2>3, <3>1, BadStays
      <4> QED
        BY <2>6, <3>1, <4>1
    <3>2. CASE Follows(done, given, lines) /\ ~Utf8(x)
      <4>1. "bad" \in DOMAIN next /\ next.bad
        BY <1>1, <2>3, <3>2, BadStays
      <4> QED
        BY <2>7, <3>2, <4>1
    <3>3. CASE Follows(done, given, lines) /\ Utf8(x)
      <4>1. Follows(next, given, longer)
        BY <1>2, <2>2, <2>3, <3>3, FollowsOneMore DEF longer
      <4>2. "bad" \in DOMAIN next
        <5>1. next = [bad |-> next.bad, has |-> next.has, current |-> next.current, events |-> next.events]
          BY <4>1 DEF Follows
        <5>2. "bad" \in DOMAIN [bad |-> next.bad, has |-> next.has, current |-> next.current, events |-> next.events]
          OBVIOUS
        <5> QED
          BY <5>1, <5>2
      <4> QED
        BY <4>1, <4>2
    <3> QED
      BY <1>1, <3>1, <3>2, <3>3
  <2>9. Lines(Append(text, c)) = longer /\ next = TakeLines(begun, Lines(Append(bytes, c)))
    BY <2>1 DEF longer, next
  <2> QED
    BY <1>2, <2>4, <2>8, <2>9 DEF Decodes
<1> QED
  BY <1>3, <1>4

\* A chunk of any length does.
LEMMA DecodesAll ==
  ASSUME NEW text \in Bytes, NEW fed \in 0..Len(text), NEW upto \in (fed + 1)..Len(text), NEW given \in Seq(Tolds),
         NEW begun, NEW buf, Decodes(buf, SubSeq(text, 1, fed), given, begun)
  PROVE  Decodes(buf \o SubSeq(text, fed + 1, upto), SubSeq(text, 1, upto), given, begun)
<1> DEFINE DecodesUpTo(u) == Decodes(buf \o SubSeq(text, fed + 1, u), SubSeq(text, 1, u), given, begun)
           Bad == {u \in fed..Len(text) : ~DecodesUpTo(u)}
<1>1. Len(text) \in Nat /\ fed \in Nat /\ upto \in fed..Len(text) /\ fed + 1 \in 1..Len(text) /\ 1 \in 1..Len(text)
  BY DEF Bytes
<1>2. buf \in Bytes
  BY DEF Decodes
<1>3. DecodesUpTo(fed)
  <2>1. SubSeq(text, fed + 1, fed) = <<>>
    BY <1>1, SubSeqEmpty
  <2>2. buf \o <<>> = buf
    BY <1>2 DEF Bytes
  <2> QED
    BY <2>1, <2>2
<1>4. ASSUME NEW u \in fed..(Len(text) - 1), DecodesUpTo(u) PROVE DecodesUpTo(u + 1)
  <2> DEFINE c == text[u + 1]
  <2>1. u \in ((fed + 1) - 1)..(Len(text) - 1) /\ u \in (1 - 1)..(Len(text) - 1)
    BY <1>1, <1>4
  <2>2. /\ c \in SseSymbols
        /\ buf \o SubSeq(text, fed + 1, u + 1) = Append(buf \o SubSeq(text, fed + 1, u), c)
    BY <1>1, <1>2, <2>1, PartNext
  <2>3. SubSeq(text, 1, u + 1) = Append(SubSeq(text, 1, u), c)
    <3>1. \A a \in 1..Len(text), w \in Nat :
            w \in (a - 1)..(Len(text) - 1) => SubSeq(text, a, w + 1) = Append(SubSeq(text, a, w), text[w + 1])
      BY <1>2, PartNext
    <3>2. u \in Nat
      BY <1>1
    <3> QED
      BY <1>1, <2>1, <3>1, <3>2
  <2> QED
    BY <1>4, <2>2, <2>3, DecodesOneMore
<1> HIDE DEF DecodesUpTo
<1>5. Bad = {}
  <2> SUFFICES ASSUME Bad # {} PROVE FALSE
    OBVIOUS
  <2>1. Bad \in SUBSET Nat
    BY <1>1
  <2> HIDE DEF Bad
  <2>2. PICK m \in Bad : \A k \in Bad : m <= k
    BY <2>1, LeastNumber
  <2>3. m \in fed..Len(text) /\ ~DecodesUpTo(m)
    BY <2>2 DEF Bad
  <2>4. m # fed
    BY <1>3, <2>3
  <2>5. m - 1 \in fed..(Len(text) - 1) /\ (m - 1) + 1 = m /\ m - 1 \in fed..Len(text)
    BY <1>1, <2>3, <2>4
  <2>6. DecodesUpTo(m - 1)
    <3>1. m - 1 \notin Bad
      BY <2>1, <2>2, <2>5, <1>1
    <3> QED
      BY <2>5, <3>1 DEF Bad
  <2>7. DecodesUpTo((m - 1) + 1)
    BY <1>4, <2>5, <2>6
  <2> QED
    BY <2>3, <2>5, <2>7
<1> QED
  BY <1>1, <1>5 DEF DecodesUpTo

\* What is kept of the text before and what was found in it are where decoding
\* goes on.
LEMMA DecodesFrom ==
  ASSUME NEW text \in Bytes, NEW given \in Seq(Tolds), NEW bad \in BOOLEAN, NEW has \in BOOLEAN,
         has <=> Datas(Lines(text)) # {}, EventsOf(Lines(text)) = given
  PROVE  Decodes(Residue(text), text, given, Begun(bad, has, EventTold(Lines(text))))
<1> DEFINE buf == Residue(text)
           lines == Lines(text)
           begun == Begun(bad, has, EventTold(lines))
<1>1. buf \in Bytes
  BY LastByte DEF SseSymbols
<1>2. Lines(buf) = <<>> /\ Residue(buf) = buf
  <2>1. Breaks(buf) = {}
    BY NoLines
  <2> QED
    BY <1>1, <2>1, NoLines
<1>3. TakeLines(begun, Lines(buf)) = begun
  <2>1. <<>> \in Seq(Bytes)
    OBVIOUS
  <2> QED
    BY <1>1, <1>2, <2>1, TakesOneMore
<1>4. begun = [bad |-> bad, has |-> has, current |-> EventTold(lines), events |-> <<>>]
  BY DEF Begun
<1>5. given \o <<>> = given /\ <<>> \in Seq(Tolds)
  <2> HIDE DEF Tolds
  <2> QED
    OBVIOUS
<1> HIDE DEF begun, lines, buf
<1>6. bad \/ Follows(begun, given, lines)
  <2> SUFFICES ASSUME bad = FALSE PROVE Follows(begun, given, lines)
    OBVIOUS
  <2>1. begun = [bad |-> FALSE, has |-> has, current |-> EventTold(lines), events |-> <<>>]
    BY <1>4
  <2>2. (has <=> Datas(lines) # {}) /\ EventsOf(lines) = given \o <<>>
    BY <1>5 DEF lines
  <2> QED
    BY <1>5, <2>1, <2>2, FollowsBy
<1>7. "bad" \in DOMAIN begun /\ (bad => begun.bad)
  BY <1>4
<1>8. \E more \in Seq(Tolds) : EventsOf(lines) = given \o more
  BY <1>5 DEF lines
<1>9. /\ Residue(buf) = Residue(text) /\ Lines(text) = lines
  BY <1>2 DEF buf, lines
<1> QED
  BY <1>1, <1>3, <1>6, <1>7, <1>8, <1>9 DEF Decodes, buf, begun, lines

\* At a clean end the event that has data is given, and is the last of the text as
\* if blank lines had followed.
LEMMA ClosedText ==
  ASSUME NEW text \in Bytes, Residue(text) \in {<<>>, <<"CR">>}
  PROVE  Events(Append(Append(text, "LF"), "LF")) =
           IF Datas(Lines(text)) # {} THEN Append(EventsOf(Lines(text)), EventTold(Lines(text)))
           ELSE EventsOf(Lines(text))
<1> DEFINE one == Append(text, "LF")
           lines == Lines(text)
           x == Residue(text)
<1>1. "LF" \in SseSymbols
  BY DEF SseSymbols
<1>2. one \in Bytes /\ x \in Bytes /\ Residue(one) = <<>> /\ Lines(one) = Append(lines, x)
  BY <1>1, LastByte, LinesGrow
<1>3. Lines(Append(one, "LF")) = Append(Lines(one), <<>>)
  BY <1>1, <1>2, LinesGrow
<1>4. Blank(<<>>) /\ Blank(<<"CR">>)
  <2>1. {i \in DOMAIN <<>> : <<>>[i] # "CR"} = {}
    OBVIOUS
  <2>2. {i \in DOMAIN <<"CR">> : <<"CR">>[i] # "CR"} = {}
    OBVIOUS
  <2> QED
    BY <2>1, <2>2 DEF Blank, Trim
<1>5. Blank(x)
  BY <1>4
<1>6. lines \in Seq(Bytes) /\ Append(lines, x) \in Seq(Bytes) /\ <<>> \in Bytes
  <2>1. lines \in Seq(Bytes)
    BY LineAt
  <2> QED
    BY <1>2, <2>1 DEF Bytes
<1> HIDE DEF lines, x, one
<1>7. EventsOf(Append(lines, x)) = IF Datas(lines) # {} THEN Append(EventsOf(lines), EventTold(lines)) ELSE EventsOf(lines)
  BY <1>2, <1>5, <1>6, EventsMore
<1>8. Datas(Append(lines, x)) = {}
  BY <1>2, <1>5, <1>6, OneLineMore
<1>9. EventsOf(Append(Append(lines, x), <<>>)) = EventsOf(Append(lines, x))
  BY <1>6, <1>8, EventsMore
<1> QED
  BY <1>2, <1>3, <1>7, <1>9 DEF Events, lines, one

\* What is given is a part of what there is.
LEMMA GivenPart ==
  ASSUME NEW given \in Seq(Tolds), NEW more \in Seq(Tolds)
  PROVE  Len(given) <= Len(given \o more) /\ given = SubSeq(given \o more, 1, Len(given))
<1> DEFINE all == given \o more
           n == Len(given)
<1>1. /\ n \in Nat /\ all \in Seq(Tolds) /\ Len(all) = n + Len(more) /\ Len(more) \in Nat
      /\ \A i \in 1..n : all[i] = given[i] /\ all[i] \in Tolds
  <2> HIDE DEF Tolds
  <2>1. n \in Nat /\ Len(more) \in Nat
    OBVIOUS
  <2>2. all \in Seq(Tolds) /\ Len(all) = n + Len(more)
    BY ConcatProperties
  <2>3. \A i \in 1..n : all[i] = given[i] /\ given[i] \in Tolds
    BY <2>1, ConcatProperties
  <2> QED
    BY <2>1, <2>2, <2>3
<1> HIDE DEF all, n, Tolds
<1>2. /\ SubSeq(all, 1, n) \in Seq(Tolds) /\ Len(SubSeq(all, 1, n)) = n
      /\ \A i \in 1..n : SubSeq(all, 1, n)[i] = all[i]
  <2>1. /\ SubSeq(all, 1, n) \in Seq(Tolds)
        /\ Len(SubSeq(all, 1, n)) = IF 1 <= n THEN n - 1 + 1 ELSE 0
        /\ \A i \in 1..(n - 1 + 1) : SubSeq(all, 1, n)[i] = all[1 + i - 1]
    BY <1>1, SubSeqProperties
  <2> QED
    BY <1>1, <2>1
<1>3. given = SubSeq(all, 1, n)
  BY <1>1, <1>2, SeqEqual DEF n
<1> QED
  BY <1>1, <1>3 DEF all, n

\* The first of the events that wait is the next that is given.
LEMMA NextGiven ==
  ASSUME NEW given \in Seq(Tolds), NEW more \in Seq(Tolds), more # <<>>
  PROVE  /\ Append(given, Head(more)) \in Seq(Tolds) /\ Tail(more) \in Seq(Tolds)
         /\ Append(given, Head(more)) \o Tail(more) = given \o more
<1> HIDE DEF Tolds
<1>1. Head(more) \in Tolds /\ Tail(more) \in Seq(Tolds)
  OBVIOUS
<1> DEFINE h == Head(more)
           t == Tail(more)
<1>2. more = <<h>> \o t
  OBVIOUS
<1> HIDE DEF h, t
<1>3. (given \o <<h>>) \o t = given \o (<<h>> \o t)
  <2>1. <<h>> \in Seq(Tolds) /\ t \in Seq(Tolds)
    BY <1>1 DEF h, t
  <2> QED
    BY <2>1, ConcatAssociative
<1>4. Append(given, h) = given \o <<h>> /\ Append(given, h) \in Seq(Tolds)
  BY <1>1 DEF h
<1> QED
  BY <1>1, <1>2, <1>3, <1>4 DEF h, t

-----------------------------------------------------------------------------
(* The decoder.                                                            *)

\* What holds of the decoder and its stream: while it is open, the bytes that are
\* kept and the event that is begun are what the text so far leaves, and the events
\* given or waiting are those it tells.
SseTyped(s) ==
  /\ s = [text |-> s.text, fed |-> s.fed, buf |-> s.buf, has |-> s.has, current |-> s.current,
          pending |-> s.pending, out |-> s.out, st |-> s.st, overflow |-> s.overflow, lost |-> s.lost]
  /\ s.text \in Bytes /\ s.fed \in 0..Len(s.text)
  /\ s.pending \in Seq(Tolds) /\ s.out \in Seq(Tolds)
SseOpen(s, text) ==
  /\ s.buf = Residue(text) /\ s.has \in BOOLEAN /\ (s.has <=> Datas(Lines(text)) # {})
  /\ s.current = EventTold(Lines(text)) /\ EventsOf(Lines(text)) = s.out \o s.pending
SseEnded(s, text) ==
  /\ s.out = Events(Append(Append(text, "LF"), "LF")) /\ s.pending = <<>>
  /\ Residue(text) \in {<<>>, <<"CR">>}
SseFailed(s, text) ==
  /\ s.pending = <<>> /\ \E more \in Seq(Tolds) : EventsOf(Lines(text)) = s.out \o more
  /\ s.lost \/ s.overflow \/ Residue(text) # <<>> \/ \E k \in DOMAIN Lines(text) : ~Utf8(Lines(text)[k])
SseFits(s) ==
  LET text == SubSeq(s.text, 1, s.fed) IN
  /\ SseTyped(s)
  /\ s.st = "open" => SseOpen(s, text)
  /\ s.st = "end" => SseEnded(s, text)
  /\ s.st \notin {"open", "end"} => SseFailed(s, text)
SseInv == SseFits(sse)

\* A stream that fits is sound.
LEMMA SseFitsIsSound == SseInv => SseSound
<1> SUFFICES ASSUME SseInv PROVE SseSound
  OBVIOUS
<1> DEFINE text == SubSeq(sse.text, 1, sse.fed)
           given == sse.out \o sse.pending
<1>1. /\ sse.out \in Seq(Tolds) /\ sse.pending \in Seq(Tolds)
      /\ sse.st = "open" => SseOpen(sse, text)
      /\ sse.st = "end" => SseEnded(sse, text)
      /\ sse.st \notin {"open", "end"} => SseFailed(sse, text)
  BY DEF SseInv, SseFits, SseTyped
<1>2. sse.pending = <<>> => given = sse.out
  <2> HIDE DEF Tolds
  <2> QED
    BY <1>1
<1> HIDE DEF text, given
<1>3. CASE sse.st = "open"
  <2>1. given = Events(text)
    BY <1>1, <1>3 DEF SseOpen, Events, given
  <2> QED
    BY <1>3, <2>1 DEF SseSound, text, given
<1>4. CASE sse.st = "end"
  <2>1. given = Events(Append(Append(text, "LF"), "LF")) /\ Residue(text) \in {<<>>, <<"CR">>}
    BY <1>1, <1>2, <1>4 DEF SseEnded
  <2> QED
    BY <1>4, <2>1 DEF SseSound, text, given
<1>5. CASE sse.st \notin {"open", "end"}
  <2>1. /\ given = sse.out /\ \E more \in Seq(Tolds) : EventsOf(Lines(text)) = sse.out \o more
        /\ sse.lost \/ sse.overflow \/ Residue(text) # <<>> \/ \E k \in DOMAIN Lines(text) : ~Utf8(Lines(text)[k])
    BY <1>1, <1>2, <1>5 DEF SseFailed
  <2>2. Len(given) <= Len(Events(text)) /\ given = SubSeq(Events(text), 1, Len(given))
    BY <1>1, <2>1, GivenPart DEF Events
  <2> QED
    BY <1>5, <2>1, <2>2 DEF SseSound, text, given
<1> QED
  BY <1>3, <1>4, <1>5

\* A chunk decoded behind the bytes kept is the text so far.
LEMMA ChunkDecoded ==
  ASSUME SseInv, sse.st = "open", sse.pending = <<>>, NEW upto \in (sse.fed + 1)..Len(sse.text)
  PROVE  LET chunk == SubSeq(sse.text, sse.fed + 1, upto)
             text == SubSeq(sse.text, 1, upto)
             done == DecodeChunk(chunk)
         IN /\ text \in Bytes /\ Residue(sse.buf \o chunk) = Residue(text)
            /\ \E more \in Seq(Tolds) : EventsOf(Lines(text)) = sse.out \o more
            /\ done.bad => \/ Len(sse.buf) + Len(chunk) > MaxBuffer
                           \/ \E k \in DOMAIN Lines(text) : ~Utf8(Lines(text)[k])
            /\ ~done.bad => Follows(done, sse.out, Lines(text))
<1> DEFINE chunk == SubSeq(sse.text, sse.fed + 1, upto)
           text == SubSeq(sse.text, 1, upto)
           before == SubSeq(sse.text, 1, sse.fed)
           done == DecodeChunk(chunk)
           over == Len(sse.buf \o chunk) > MaxBuffer
           begun == Begun(over, sse.has, sse.current)
<1>1. /\ sse.text \in Bytes /\ sse.fed \in 0..Len(sse.text) /\ sse.out \in Seq(Tolds)
      /\ sse.buf = Residue(before) /\ sse.has \in BOOLEAN /\ (sse.has <=> Datas(Lines(before)) # {})
      /\ sse.current = EventTold(Lines(before)) /\ EventsOf(Lines(before)) = sse.out \o <<>>
  BY DEF SseInv, SseFits, SseTyped, SseOpen
<1>2. Len(sse.text) \in Nat /\ sse.fed \in Nat /\ upto \in Nat
  BY <1>1 DEF Bytes
<1>3. before \in Bytes /\ text \in Bytes /\ chunk \in Bytes
  <2>1. /\ \A i \in 1..sse.fed : sse.text[i] \in SseSymbols
        /\ \A i \in 1..upto : sse.text[i] \in SseSymbols
        /\ \A i \in (sse.fed + 1)..upto : sse.text[i] \in SseSymbols
    BY <1>1, <1>2 DEF Bytes
  <2>2. sse.fed \in Int /\ upto \in Int /\ sse.fed + 1 \in Int /\ 1 \in Int
    BY <1>2
  <2> QED
    BY <2>1, <2>2, SubSeqProperties DEF Bytes
<1>4. sse.buf \in Bytes
  BY <1>1, <1>3, LastByte DEF SseSymbols
<1>5. Len(sse.buf \o chunk) = Len(sse.buf) + Len(chunk)
  BY <1>3, <1>4, ConcatProperties DEF Bytes
<1>6. over \in BOOLEAN /\ sse.out \o <<>> = sse.out
  <2> HIDE DEF Tolds
  <2> QED
    BY <1>1
<1> HIDE DEF before, text, chunk, over
<1>7. Decodes(sse.buf, before, sse.out, begun)
  BY <1>1, <1>3, <1>6, DecodesFrom
<1>8. Decodes(sse.buf \o chunk, text, sse.out, begun)
  BY <1>1, <1>7, DecodesAll DEF before, text, chunk
<1>9. begun.bad = over
  BY DEF Begun
<1>10. done = TakeLines(begun, Lines(sse.buf \o chunk))
  BY DEF DecodeChunk, over
<1> HIDE DEF begun, done
<1>11. /\ Residue(sse.buf \o chunk) = Residue(text)
       /\ \E more \in Seq(Tolds) : EventsOf(Lines(text)) = sse.out \o more
       /\ \/ done.bad /\ (begun.bad \/ \E k \in DOMAIN Lines(text) : ~Utf8(Lines(text)[k]))
          \/ Follows(done, sse.out, Lines(text))
  BY <1>8, <1>10 DEF Decodes
<1>12. Follows(done, sse.out, Lines(text)) => done.bad = FALSE
  BY DEF Follows
<1>13. over => Len(sse.buf) + Len(chunk) > MaxBuffer
  BY <1>5 DEF over
<1> QED
  BY <1>3, <1>9, <1>11, <1>12, <1>13 DEF text, chunk, done

\* A chunk keeps it so.
LEMMA FeedFits ==
  ASSUME SseInv, Feed
  PROVE  SseInv'
<1> SUFFICES SseFits(sse')
  BY DEF SseInv
<1>1. PICK upto \in (sse.fed + 1)..Len(sse.text) :
        LET chunk == SubSeq(sse.text, sse.fed + 1, upto)
            done == DecodeChunk(chunk)
        IN sse' = IF done.bad
                  THEN [sse EXCEPT !.st = "error", !.fed = upto,
                                   !.overflow = Len(sse.buf) + Len(chunk) > MaxBuffer]
                  ELSE [sse EXCEPT !.fed = upto, !.buf = Residue(sse.buf \o chunk), !.has = done.has,
                                   !.current = done.current, !.pending = done.events]
  BY DEF Feed
<1> DEFINE chunk == SubSeq(sse.text, sse.fed + 1, upto)
           done == DecodeChunk(chunk)
           text == SubSeq(sse.text, 1, upto)
           over == Len(sse.buf) + Len(chunk) > MaxBuffer
           next == sse'
<1>2. sse.st = "open" /\ sse.pending = <<>>
  BY DEF Feed
<1>3. /\ text \in Bytes /\ Residue(sse.buf \o chunk) = Residue(text)
      /\ \E more \in Seq(Tolds) : EventsOf(Lines(text)) = sse.out \o more
      /\ done.bad => over \/ \E k \in DOMAIN Lines(text) : ~Utf8(Lines(text)[k])
      /\ ~done.bad => Follows(done, sse.out, Lines(text))
  BY <1>2, ChunkDecoded
<1>4. /\ SseTyped(sse) /\ upto \in 0..Len(sse.text)
      /\ sse = [text |-> sse.text, fed |-> sse.fed, buf |-> sse.buf, has |-> sse.has, current |-> sse.current,
                pending |-> sse.pending, out |-> sse.out, st |-> sse.st, overflow |-> sse.overflow, lost |-> sse.lost]
  <2>1. SseTyped(sse)
    BY DEF SseInv, SseFits
  <2>2. Len(sse.text) \in Nat
    BY <2>1 DEF SseTyped, Bytes
  <2> QED
    BY <2>1, <2>2 DEF SseTyped
<1>5. CASE done.bad
  <2>1. next = [sse EXCEPT !.st = "error", !.fed = upto, !.overflow = over]
    BY <1>1, <1>5
  <2> HIDE DEF over, next
  <2>2. next = [text |-> sse.text, fed |-> upto, buf |-> sse.buf, has |-> sse.has, current |-> sse.current,
                pending |-> sse.pending, out |-> sse.out, st |-> "error", overflow |-> over, lost |-> sse.lost]
    BY <1>4, <2>1
  <2> HIDE DEF text, done, chunk
  <2>3. /\ next.text = sse.text /\ next.fed = upto /\ next.pending = sse.pending /\ next.out = sse.out
        /\ next.st = "error" /\ next.overflow = over
    BY <2>2
  <2>4. SseTyped(next)
    BY <1>4, <2>2, <2>3 DEF SseTyped
  <2>5. SseFailed(next, text)
    BY <1>2, <1>3, <1>5, <2>3 DEF SseFailed
  <2> QED
    BY <2>3, <2>4, <2>5 DEF SseFits, text, next
<1>6. CASE ~done.bad
  <2>1. next = [sse EXCEPT !.fed = upto, !.buf = Residue(sse.buf \o chunk), !.has = done.has,
                           !.current = done.current, !.pending = done.events]
    BY <1>1, <1>6
  <2> HIDE DEF over, next, text, done
  <2>2. next = [text |-> sse.text, fed |-> upto, buf |-> Residue(text), has |-> done.has, current |-> done.current,
                pending |-> done.events, out |-> sse.out, st |-> sse.st, overflow |-> sse.overflow, lost |-> sse.lost]
    BY <1>3, <1>4, <2>1
  <2> HIDE DEF chunk
  <2>3. /\ next.text = sse.text /\ next.fed = upto /\ next.pending = done.events /\ next.out = sse.out
        /\ next.st = sse.st /\ next.buf = Residue(text) /\ next.has = done.has /\ next.current = done.current
        /\ next.overflow = sse.overflow /\ next.lost = sse.lost
    BY <2>2
  <2>4. /\ done.has \in BOOLEAN /\ (done.has <=> Datas(Lines(text)) # {})
        /\ done.current = EventTold(Lines(text))
        /\ done.events \in Seq(Tolds) /\ EventsOf(Lines(text)) = sse.out \o done.events
    BY <1>3, <1>6 DEF Follows
  <2>5. next = [text |-> next.text, fed |-> next.fed, buf |-> next.buf, has |-> next.has, current |-> next.current,
                pending |-> next.pending, out |-> next.out, st |-> next.st, overflow |-> next.overflow, lost |-> next.lost]
    BY <2>2, <2>3
  <2>6. SseTyped(next)
    BY <1>4, <2>3, <2>4, <2>5 DEF SseTyped
  <2>7. SseOpen(next, text)
    BY <2>3, <2>4 DEF SseOpen
  <2> QED
    BY <1>2, <2>3, <2>6, <2>7 DEF SseFits, text, next
<1> QED
  BY <1>5, <1>6

\* So does an event that is taken.
LEMMA PopFits ==
  ASSUME SseInv, PopPending
  PROVE  SseInv'
<1> SUFFICES SseFits(sse')
  BY DEF SseInv
<1> DEFINE next == sse'
           text == SubSeq(sse.text, 1, sse.fed)
           out == Append(sse.out, Head(sse.pending))
           pending == Tail(sse.pending)
<1>1. sse.pending # <<>> /\ next = [sse EXCEPT !.out = out, !.pending = pending]
  BY DEF PopPending
<1>2. /\ sse.text \in Bytes /\ sse.fed \in 0..Len(sse.text)
      /\ sse.pending \in Seq(Tolds) /\ sse.out \in Seq(Tolds)
      /\ sse = [text |-> sse.text, fed |-> sse.fed, buf |-> sse.buf, has |-> sse.has, current |-> sse.current,
                pending |-> sse.pending, out |-> sse.out, st |-> sse.st, overflow |-> sse.overflow, lost |-> sse.lost]
  BY DEF SseInv, SseFits, SseTyped
<1>3. sse.st = "open" /\ SseOpen(sse, text)
  BY <1>1 DEF SseInv, SseFits, SseEnded, SseFailed
<1>4. out \in Seq(Tolds) /\ pending \in Seq(Tolds) /\ out \o pending = sse.out \o sse.pending
  BY <1>1, <1>2, NextGiven
<1> HIDE DEF next, out, pending, text
<1>5. next = [text |-> sse.text, fed |-> sse.fed, buf |-> sse.buf, has |-> sse.has, current |-> sse.current,
              pending |-> pending, out |-> out, st |-> sse.st, overflow |-> sse.overflow, lost |-> sse.lost]
  BY <1>1, <1>2
<1>6. /\ next.text = sse.text /\ next.fed = sse.fed /\ next.buf = sse.buf /\ next.has = sse.has
      /\ next.current = sse.current /\ next.pending = pending /\ next.out = out /\ next.st = sse.st
      /\ next.overflow = sse.overflow /\ next.lost = sse.lost
  BY <1>5
<1>7. next = [text |-> next.text, fed |-> next.fed, buf |-> next.buf, has |-> next.has, current |-> next.current,
              pending |-> next.pending, out |-> next.out, st |-> next.st, overflow |-> next.overflow, lost |-> next.lost]
  BY <1>5, <1>6
<1>8. SseTyped(next) /\ SseOpen(next, text)
  BY <1>2, <1>3, <1>4, <1>6, <1>7 DEF SseTyped, SseOpen
<1> QED
  BY <1>3, <1>6, <1>8 DEF SseFits, text, next

\* And the end of the connection.
LEMMA CloseFits ==
  ASSUME SseInv, Close
  PROVE  SseInv'
<1> SUFFICES SseFits(sse')
  BY DEF SseInv
<1> DEFINE next == sse'
           text == SubSeq(sse.text, 1, sse.fed)
           lines == Lines(text)
           out == IF sse.has THEN Append(sse.out, sse.current) ELSE sse.out
<1>1. sse.st = "open" /\ sse.pending = <<>> /\ next = AtEnd
  BY DEF Close
<1>2. /\ sse.text \in Bytes /\ sse.fed \in 0..Len(sse.text)
      /\ sse.pending \in Seq(Tolds) /\ sse.out \in Seq(Tolds)
      /\ sse = [text |-> sse.text, fed |-> sse.fed, buf |-> sse.buf, has |-> sse.has, current |-> sse.current,
                pending |-> sse.pending, out |-> sse.out, st |-> sse.st, overflow |-> sse.overflow, lost |-> sse.lost]
  BY DEF SseInv, SseFits, SseTyped
<1>3. /\ sse.buf = Residue(text) /\ sse.has \in BOOLEAN /\ (sse.has <=> Datas(lines) # {})
      /\ sse.current = EventTold(lines) /\ EventsOf(lines) = sse.out \o sse.pending
  BY <1>1 DEF SseInv, SseFits, SseOpen
<1>4. sse.out \o <<>> = sse.out /\ <<>> \in Seq(Tolds)
  <2> HIDE DEF Tolds
  <2> QED
    BY <1>2
<1>5. EventsOf(lines) = sse.out
  BY <1>1, <1>3, <1>4
<1>6. text \in Bytes
  <2>1. Len(sse.text) \in Nat /\ sse.fed \in Int /\ 1 \in Int /\ \A i \in 1..sse.fed : sse.text[i] \in SseSymbols
    BY <1>2 DEF Bytes
  <2> QED
    BY <2>1, SubSeqProperties DEF Bytes
<1>7. CASE sse.buf \notin {<<>>, <<"CR">>}
  <2>1. next = [sse EXCEPT !.st = "error"]
    BY <1>1, <1>7 DEF AtEnd
  <2> HIDE DEF next, text, lines
  <2>2. next = [text |-> sse.text, fed |-> sse.fed, buf |-> sse.buf, has |-> sse.has, current |-> sse.current,
                pending |-> sse.pending, out |-> sse.out, st |-> "error", overflow |-> sse.overflow, lost |-> sse.lost]
    BY <1>2, <2>1
  <2>3. /\ next.text = sse.text /\ next.fed = sse.fed /\ next.pending = sse.pending /\ next.out = sse.out
        /\ next.st = "error"
    BY <2>2
  <2>4. next = [text |-> next.text, fed |-> next.fed, buf |-> next.buf, has |-> next.has, current |-> next.current,
                pending |-> next.pending, out |-> next.out, st |-> next.st, overflow |-> next.overflow, lost |-> next.lost]
    BY <2>2
  <2>5. SseTyped(next)
    BY <1>2, <2>3, <2>4 DEF SseTyped
  <2>6. Residue(text) # <<>> /\ \E more \in Seq(Tolds) : EventsOf(Lines(text)) = sse.out \o more
    BY <1>3, <1>4, <1>5, <1>7 DEF lines
  <2>7. SseFailed(next, text)
    BY <1>1, <2>3, <2>6 DEF SseFailed
  <2> QED
    BY <2>3, <2>5, <2>7 DEF SseFits, text, next
<1>8. CASE sse.buf \in {<<>>, <<"CR">>}
  <2>1. next = [sse EXCEPT !.st = "end", !.out = out]
    BY <1>1, <1>8 DEF AtEnd
  <2>2. out = Events(Append(Append(text, "LF"), "LF"))
    BY <1>3, <1>5, <1>6, <1>8, ClosedText
  <2>3. out \in Seq(Tolds)
    <3>1. EventTold(lines) \in Tolds
      <4>1. lines \in Seq(Bytes)
        BY <1>6, LineAt
      <4> QED
        BY <4>1 DEF Tolds
    <3> HIDE DEF Tolds
    <3> QED
      BY <1>2, <1>3, <3>1
  <2> HIDE DEF next, text, lines, out
  <2>4. next = [text |-> sse.text, fed |-> sse.fed, buf |-> sse.buf, has |-> sse.has, current |-> sse.current,
                pending |-> sse.pending, out |-> out, st |-> "end", overflow |-> sse.overflow, lost |-> sse.lost]
    BY <1>2, <2>1
  <2>5. /\ next.text = sse.text /\ next.fed = sse.fed /\ next.pending = sse.pending /\ next.out = out
        /\ next.st = "end"
    BY <2>4
  <2>6. next = [text |-> next.text, fed |-> next.fed, buf |-> next.buf, has |-> next.has, current |-> next.current,
                pending |-> next.pending, out |-> next.out, st |-> next.st, overflow |-> next.overflow, lost |-> next.lost]
    BY <2>4
  <2>7. SseTyped(next)
    BY <1>2, <2>3, <2>5, <2>6 DEF SseTyped
  <2>8. SseEnded(next, text)
    BY <1>1, <1>3, <1>8, <2>2, <2>5 DEF SseEnded
  <2> QED
    BY <2>5, <2>7, <2>8 DEF SseFits, text, next
<1> QED
  BY <1>7, <1>8

\* And its failure.
LEMMA FailFits ==
  ASSUME SseInv, Fail
  PROVE  SseInv'
<1> SUFFICES SseFits(sse')
  BY DEF SseInv
<1> DEFINE next == sse'
           text == SubSeq(sse.text, 1, sse.fed)
<1>1. sse.st = "open" /\ sse.pending = <<>> /\ next = [sse EXCEPT !.st = "error", !.lost = TRUE]
  BY DEF Fail
<1>2. /\ sse.text \in Bytes /\ sse.fed \in 0..Len(sse.text)
      /\ sse.pending \in Seq(Tolds) /\ sse.out \in Seq(Tolds)
      /\ sse = [text |-> sse.text, fed |-> sse.fed, buf |-> sse.buf, has |-> sse.has, current |-> sse.current,
                pending |-> sse.pending, out |-> sse.out, st |-> sse.st, overflow |-> sse.overflow, lost |-> sse.lost]
  BY DEF SseInv, SseFits, SseTyped
<1>3. EventsOf(Lines(text)) = sse.out \o sse.pending
  BY <1>1 DEF SseInv, SseFits, SseOpen
<1> HIDE DEF next, text
<1>4. next = [text |-> sse.text, fed |-> sse.fed, buf |-> sse.buf, has |-> sse.has, current |-> sse.current,
              pending |-> sse.pending, out |-> sse.out, st |-> "error", overflow |-> sse.overflow, lost |-> TRUE]
  BY <1>1, <1>2
<1>5. /\ next.text = sse.text /\ next.fed = sse.fed /\ next.pending = sse.pending /\ next.out = sse.out
      /\ next.st = "error" /\ next.lost
  BY <1>4
<1>6. next = [text |-> next.text, fed |-> next.fed, buf |-> next.buf, has |-> next.has, current |-> next.current,
              pending |-> next.pending, out |-> next.out, st |-> next.st, overflow |-> next.overflow, lost |-> next.lost]
  BY <1>4, <1>5
<1>7. SseTyped(next) /\ SseFailed(next, text)
  BY <1>1, <1>2, <1>3, <1>5, <1>6 DEF SseTyped, SseFailed
<1> QED
  BY <1>5, <1>7 DEF SseFits, text, next

\* A stream that has not begun fits.
LEMMA SseBegins ==
  ASSUME NEW text \in Bytes
  PROVE  SseFits(NoStream(text))
<1> DEFINE s == NoStream(text)
<1>1. text \in Bytes
  OBVIOUS
<1>2. s = [text |-> text, fed |-> 0, buf |-> <<>>, has |-> FALSE, current |-> NoEvent,
           pending |-> <<>>, out |-> <<>>, st |-> "open", overflow |-> FALSE, lost |-> FALSE]
  BY DEF NoStream
<1> HIDE DEF s
<1>3. /\ s.text = text /\ s.fed = 0 /\ s.buf = <<>> /\ s.has = FALSE /\ s.current = NoEvent
      /\ s.pending = <<>> /\ s.out = <<>> /\ s.st = "open"
  BY <1>2
<1>4. SseTyped(s)
  <2>1. s = [text |-> s.text, fed |-> s.fed, buf |-> s.buf, has |-> s.has, current |-> s.current,
             pending |-> s.pending, out |-> s.out, st |-> s.st, overflow |-> s.overflow, lost |-> s.lost]
    BY <1>2
  <2>2. <<>> \in Seq(Tolds)
    <3> HIDE DEF Tolds
    <3> QED
      OBVIOUS
  <2>3. 0 \in 0..Len(text)
    BY <1>1 DEF Bytes
  <2> QED
    BY <1>1, <1>3, <2>1, <2>2, <2>3 DEF SseTyped
<1>5. SubSeq(s.text, 1, s.fed) = <<>>
  BY <1>3, SubSeqEmpty
<1>6. <<>> \in Bytes /\ Breaks(<<>>) = {}
  BY DEF Bytes, Breaks
<1>7. Lines(<<>>) = <<>> /\ Residue(<<>>) = <<>>
  BY <1>6, NoLines
<1>8. Datas(<<>>) = {} /\ Types(<<>>) = {}
  BY DEF Datas, Types
<1>9. EventTold(<<>>) = NoEvent /\ EventsOf(<<>>) = <<>>
  <2>1. <<>> \in Seq(Bytes)
    OBVIOUS
  <2>2. Values(<<>>) = <<>> /\ EventsOf(<<>>) = <<>>
    BY <1>6, <1>8, <2>1, ValuesMore, EventsMore
  <2>3. TypeGiven(<<>>) = <<>>
    BY <1>8 DEF TypeGiven
  <2>4. JoinedData(<<>>) = <<>>
    BY <1>6, <2>1, JoinsOneMore
  <2> QED
    BY <2>2, <2>3, <2>4, ToldIs DEF NoEvent
<1>10. <<>> \o <<>> = <<>>
  OBVIOUS
<1>11. SseOpen(s, <<>>)
  <2>1. FALSE \in BOOLEAN /\ ~FALSE
    OBVIOUS
  <2> QED
    BY <1>3, <1>7, <1>8, <1>9, <1>10, <2>1 DEF SseOpen
<1>12. SseFits(s)
  BY <1>3, <1>4, <1>5, <1>11 DEF SseFits
<1> QED
  BY <1>12 DEF s

\* Every step of the decoder and its stream keeps it so.
LEMMA SseStays == SseInv /\ [SseNext]_sse => SseInv'
<1> SUFFICES ASSUME SseInv, [SseNext]_sse PROVE SseInv'
  OBVIOUS
<1>1. CASE SseNext
  BY <1>1, PopFits, FeedFits, CloseFits, FailFits DEF SseNext
<1>2. CASE UNCHANGED sse
  BY <1>2 DEF SseInv
<1> QED
  BY <1>1, <1>2

\* However the network cuts a streamed answer, ends it early or fails, the consumer
\* is given the events of its lines, in order, each once (sse.rs: SseDecoder::decode
\* and finish, SseStream::poll_next).
THEOREM SseAlwaysSound == ClientSafety => []SseSound
<1>1. ClientInit => SseInv
  <2> SUFFICES ASSUME ClientInit PROVE SseInv
    OBVIOUS
  <2>1. PICK text \in SseTexts \cup {<<>>} : sse = NoStream(text)
    BY DEF ClientInit, SseInit
  <2>2. text \in Bytes
    <3>1. <<>> \in Bytes /\ SseTexts \subseteq Bytes
      BY SseAssumption DEF SseAssumption, Bytes
    <3> QED
      BY <2>1, <3>1
  <2> QED
    BY <2>1, <2>2, SseBegins DEF SseInv
<1>2. [ClientNext]_clientVars => [SseNext]_sse
  BY DEF ClientNext, clientVars, CallStep, SseStep, FramesStep, ChatStep, RegistryStep,
         RealtimeStep, GuardsStep, SpendingStep, SemanticStep
<1> QED
  BY <1>1, <1>2, SseStays, SseFitsIsSound, PTL DEF ClientSafety

===============================================================================
