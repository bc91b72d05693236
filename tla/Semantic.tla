------------------------------ MODULE Semantic -------------------------------
(***************************************************************************)
(* The semantic tier of the cache (tower/cache.rs, CacheService;           *)
(* vectorstore/memory.rs): a request whose text was not seen before is     *)
(* answered with the answer to a similar one.  Two stores take part, the   *)
(* answers by hash and the vectors by the same hash, and they are read and *)
(* written in steps between which other requests go on, entries expire and *)
(* embeddings fail.                                                        *)
(*                                                                         *)
(* A request's content is a record; a text is what a strategy of           *)
(* tower/hash.rs makes of it, and different texts may have one hash.  The  *)
(* store's own order of eviction is in Cache.                              *)
(***************************************************************************)
EXTENDS Integers, FiniteSets

CONSTANTS
  Askers,       \* requests in flight, reused for ever
  Contents,     \* [kind, model, messages, params, tenant, user, tools]
  Setups,       \* [strategy, semantic, bypassed]: how a cache is set up
  HashOf(_),    \* a text's hash
  Similarity(_, _), \* cosine of the embeddings of two texts, in hundredths
  Threshold     \* similarity_threshold

ASSUME SemanticAssumption == Contents # {}

VARIABLE
  tier          \* the setup, both stores and the requests, see NewTier

Nothing == [is |-> "nothing"]

-----------------------------------------------------------------------------
(* What a request is known by.                                             *)

Semantics == tier.setup.semantic

\* decide(): a policy knows a request's model, its tenant and whether it is
\* streamed.  It is given no metadata, so that StandardCachePolicy, which would
\* look there for a "no-store", bypasses nothing; a policy of one's own may.
Bypass(setup, c) == c.model \in setup.bypassed

\* strategy_key: only chats and embeddings have one; a chat without a tenant is
\* given the one its user names.
Tenant(c) == IF c.tenant # "" \/ c.kind # "chat" THEN c.tenant ELSE c.user

KeyedIn(setup, c) == ~Bypass(setup, c) /\ c.kind \in {"chat", "embed"}
Keyed(c) == KeyedIn(tier.setup, c)

\* SystemPromptAwareStrategy leaves out the tenant, TenantScopedStrategy marks
\* its absence.  The system prompt is one of the messages, the parameters tell a
\* chat from an embedding; tools are no part of it.
TextIn(setup, c) ==
  LET tenant == CASE setup.strategy = "system_prompt" -> ""
                  [] setup.strategy = "tenant" /\ Tenant(c) = "" -> "__global__"
                  [] OTHER -> Tenant(c)
  IN <<c.kind, c.model, c.messages, c.params, tenant>>
Text(c) == TextIn(tier.setup, c)

-----------------------------------------------------------------------------
(* The stores.                                                             *)

\* A hash is enough.
GetByHash(hash, text) == tier.answers[hash]

\* CacheStore::get compares the text.
Get(hash, text) ==
  LET entry == tier.answers[hash] IN
  IF entry # Nothing /\ entry.text = text THEN entry ELSE Nothing

\* search(query, 1, threshold): one of the most similar.
Best(text) ==
  LET Near(h) == IF tier.vectors[h] = Nothing THEN -1 ELSE Similarity(text, tier.vectors[h].text)
      near == {h \in DOMAIN tier.vectors : tier.vectors[h] # Nothing /\ Near(h) >= Threshold}
  IN {tier.vectors[h] : h \in {h \in near : \A g \in near : Near(g) <= Near(h)}}

Texts == UNION {{<<c.kind, c.model, c.messages, c.params, tenant>> :
                   tenant \in {"", "__global__", c.tenant, c.user}} : c \in Contents}
Hashes == {HashOf(text) : text \in Texts}

-----------------------------------------------------------------------------
(* CacheService::call.                                                     *)

NewAsker == [st |-> "idle", content |-> CHOOSE c \in Contents : TRUE, found |-> Nothing,
             answer |-> Nothing, state |-> "none"]

NewTier(setup) ==
  [setup |-> setup, answers |-> [h \in Hashes |-> Nothing], vectors |-> [h \in Hashes |-> Nothing],
   req |-> [r \in Askers |-> NewAsker]]

Goes(r, q) == tier' = [tier EXCEPT !.req[r] = q]

\* call(): the inner future is made at once, and dropped when the cache answers.
Call(r) ==
  /\ tier.req[r].st = "idle"
  /\ \E c \in Contents : Goes(r, [NewAsker EXCEPT !.st = IF Keyed(c) THEN "exact" ELSE "inner", !.content = c])

Answered(q, entry, state) == [q EXCEPT !.st = "answered", !.answer = entry.answer, !.state = state]

LookExact(r) ==
  LET q == tier.req[r]
      entry == Get(HashOf(Text(q.content)), Text(q.content))
  IN /\ q.st = "exact"
     /\ Goes(r, IF entry # Nothing THEN Answered(q, entry, "ExactHit")
                ELSE [q EXCEPT !.st = IF Semantics THEN "search" ELSE "inner"])

\* The text is embedded, which may fail, and the vectors are searched.
Search(r) ==
  /\ tier.req[r].st = "search"
  /\ \/ Goes(r, [tier.req[r] EXCEPT !.st = "inner"])
     \/ Best(Text(tier.req[r].content)) = {} /\ Goes(r, [tier.req[r] EXCEPT !.st = "inner"])
     \/ \E best \in Best(Text(tier.req[r].content)) :
          Goes(r, [tier.req[r] EXCEPT !.st = "found", !.found = best])

\* The answer of what was found, by its hash and its text: it may be gone.
LookFound(r) ==
  LET q == tier.req[r]
      entry == Get(HashOf(q.found.text), q.found.text)
  IN /\ q.st = "found"
     /\ Goes(r, IF entry # Nothing THEN Answered(q, entry, "SemanticHit") ELSE [q EXCEPT !.st = "inner"])

\* The provider answers this very request, or fails.
InnerAnswers(r) ==
  LET q == tier.req[r] IN
  /\ q.st = "inner"
  /\ \/ Goes(r, [q EXCEPT !.st = IF Keyed(q.content) THEN "put" ELSE "answered",
                          !.answer = [for |-> q.content], !.state = "Miss"])
     \/ Goes(r, NewAsker)

\* put(), whatever the hash held before; then set_ttl().
Put(r) ==
  LET q == tier.req[r]
      text == Text(q.content)
  IN /\ q.st = "put"
     /\ tier' = [tier EXCEPT !.answers[HashOf(text)] = [is |-> "answer", text |-> text, answer |-> q.answer],
                             !.req[r].st = IF Semantics THEN "update" ELSE "answered"]

\* The text is embedded once more; if that fails, or the store takes no vector
\* of that length, there is an answer without a vector.
UpdateVector(r) ==
  LET q == tier.req[r]
      text == Text(q.content)
  IN /\ q.st = "update"
     /\ \/ tier' = [tier EXCEPT !.vectors[HashOf(text)] = [is |-> "vector", text |-> text],
                                !.req[r].st = "answered"]
        \/ Goes(r, [q EXCEPT !.st = "answered"])

\* The caller takes the answer, or drops the request wherever it is.
Leave(r) ==
  /\ tier.req[r].st # "idle"
  /\ Goes(r, NewAsker)

\* An answer expires or is evicted; its vector stays.
Vanish(h) ==
  /\ tier.answers[h] # Nothing
  /\ tier' = [tier EXCEPT !.answers[h] = Nothing]

TierInit == tier \in {NewTier(setup) : setup \in Setups}
TierNext ==
  \/ \E r \in Askers : Call(r) \/ LookExact(r) \/ Search(r) \/ LookFound(r) \/ InnerAnswers(r)
                         \/ Put(r) \/ UpdateVector(r) \/ Leave(r)
  \/ \E h \in Hashes : Vanish(h)

-----------------------------------------------------------------------------
(* Properties.                                                             *)

\* Whatever expires, collides or is overwritten between the steps: an exact hit
\* answers a request of the same text, a semantic hit one whose text is similar
\* enough, and a miss this request; a request that bypasses the cache is not
\* answered from it, and every answer that is kept is filed under its own hash.  Of
\* the vectors nothing is said: a hash that collides may find another text's answer,
\* whose similarity is measured then.
AnswersFit ==
  /\ \A r \in Askers : LET q == tier.req[r] IN
       q.st = "answered" =>
         CASE q.state = "ExactHit" -> Keyed(q.content) /\ Text(q.answer.for) = Text(q.content)
           [] q.state = "SemanticHit" -> /\ Semantics /\ Keyed(q.content)
                                         /\ Similarity(Text(q.content), Text(q.answer.for)) >= Threshold
           [] OTHER -> q.answer.for = q.content
  /\ \A h \in DOMAIN tier.answers : tier.answers[h] # Nothing =>
       Text(tier.answers[h].answer.for) = tier.answers[h].text /\ HashOf(tier.answers[h].text) = h
=============================================================================
