------------------------------- MODULE Registry -------------------------------
(***************************************************************************)
(* Who a client talks to: the model registry fetched from models.dev and   *)
(* replaced whole (provider/mod.rs), the custom providers registered by    *)
(* the application (provider/custom.rs), the outbound policy               *)
(* (provider/outbound_policy.rs), and Client::new (client/mod.rs), which   *)
(* resolves a provider out of all of them while other threads change them. *)
(* Every lock of the code is held within one action; a client built with   *)
(* an explicit API type looks the custom providers up twice, so its        *)
(* construction is two actions, and a connection is two more, before and   *)
(* after its name is looked up.  Of a snapshot the model keeps the time it *)
(* was fetched: its data is replaced whole with it.  An option is a set of *)
(* at most one value, and "none" stands for an absent name or API type.    *)
(***************************************************************************)
EXTENDS Integers, Sequences, SequencesExt, FiniteSets

CONSTANTS
    Fetchers,   \* the tasks that call registry() or refresh_registry()
    Builders,   \* the threads that build a client
    Customs,    \* custom provider configurations
    Requests,   \* client configurations to build
    KeysSet,    \* the providers whose API key variable is set
    Horizon,    \* bound on the clock
    MaxEdits,   \* bound on the changes made to the custom providers
    MaxChanges  \* bound on these and the changes of the policy together

VARIABLE reg

ChatType == "OpenAIChatCompletions"
ApiTypes == {ChatType, "OpenAIResponses", "AnthropicMessages", "BedrockConverse"}
Policies == {"off", "deny_private", "allowlist"}

ASSUME RegistryAssumption == \A r \in Requests : r.type \in ApiTypes \cup {"none"}

RegInit ==
    reg = [now |-> 0, snapshot |-> {},
           fetch |-> [f \in Fetchers |-> [phase |-> "idle"]],
           customs |-> <<>>, edits |-> 0, policy |-> "off", turns |-> 0,
           client |-> [b \in Builders |-> [phase |-> "unbuilt"]]]

-----------------------------------------------------------------------------
(* The registry snapshot. *)

Tick ==
    /\ reg.now < Horizon
    /\ reg' = [reg EXCEPT !.now = @ + 1]

\* registry() returns a snapshot it finds; refresh_registry() always fetches.
BeginFetch(f, op) ==
    /\ reg.fetch[f].phase = "idle"
    /\ op = "registry" => reg.snapshot = {}
    /\ reg' = [reg EXCEPT !.fetch[f] = [phase |-> "asking", op |-> op]]

\* The answer is parsed and stamped with the time before the lock is taken.
Fetched(f) ==
    /\ reg.fetch[f].phase = "asking"
    /\ reg' = [reg EXCEPT !.fetch[f] =
                  [phase |-> "fetched", op |-> @.op,
                   at |-> reg.now]]

\* A transport, size or parse error leaves the snapshot as it was.
FetchFails(f) ==
    /\ reg.fetch[f].phase = "asking"
    /\ reg' = [reg EXCEPT !.fetch[f] = [phase |-> "idle"]]

NewestUnchecked(op, at, snapshot) == {at}

\* registry() keeps a snapshot fetched later than its own; refresh does not look.
Newest(op, at, snapshot) ==
    IF op = "registry" /\ \E s \in snapshot : s > at THEN snapshot ELSE {at}

Install(f) ==
    /\ reg.fetch[f].phase = "fetched"
    /\ reg' = [reg EXCEPT !.snapshot = Newest(reg.fetch[f].op, reg.fetch[f].at, @),
                          !.fetch[f] = [phase |-> "idle"]]

-----------------------------------------------------------------------------
(* Custom providers. *)

SetPolicy(p) ==
    /\ p # reg.policy /\ reg.edits + reg.turns < MaxChanges
    /\ reg' = [reg EXCEPT !.policy = p, !.turns = @ + 1]

\* validate_url_with_policy: a literal private address is refused by every
\* policy but Off, and an allowlist refuses what it does not name.
Allowed(policy, url) ==
    \/ policy = "off"
    \/ /\ url # "private_literal"
       /\ policy = "allowlist" => url = "listed"

Effective(c) == IF c.types = <<>> THEN <<ChatType>> ELSE c.types
DefaultType(c) == IF c.default = "none" THEN Effective(c)[1] ELSE c.default

Valid(c) ==
    /\ c.name # "" /\ c.url # "" /\ "" \notin c.models
    /\ c.default # "none" => c.default \in Range(Effective(c))

MayEdit == reg.edits < MaxEdits /\ reg.edits + reg.turns < MaxChanges

\* A configuration replaces the one of its name where that one stands.
Registered(c, ps) ==
    IF \E i \in DOMAIN ps : ps[i].name = c.name
    THEN [i \in DOMAIN ps |-> IF ps[i].name = c.name THEN c ELSE ps[i]]
    ELSE Append(ps, c)

Register(c) ==
    /\ MayEdit
    /\ Valid(c) /\ Allowed(reg.policy, c.url)
    /\ reg' = [reg EXCEPT !.customs = Registered(c, @), !.edits = @ + 1]

\* Names are unique: the one of that name goes.
Unregister(name) ==
    /\ MayEdit
    /\ \E i \in DOMAIN reg.customs :
          /\ reg.customs[i].name = name
          /\ reg' = [reg EXCEPT !.customs = RemoveAt(@, i), !.edits = @ + 1]

Clear ==
    /\ MayEdit /\ reg.customs # <<>>
    /\ reg' = [reg EXCEPT !.customs = <<>>, !.edits = @ + 1]

\* A provider instance: the API type it is bound to, those it offers, and those
\* it has a codec for.
Instance(kind, name, url, type, offers, codecs) ==
    [kind |-> kind, name |-> name, url |-> url, type |-> type,
     offers |-> offers, codecs |-> codecs]

\* from_config binds the type asked for ("any": the configuration's default).
Bind(c, filter) ==
    Instance("custom", c.name, c.url,
             IF filter = "any" THEN DefaultType(c) ELSE filter,
             Range(Effective(c)), Range(Effective(c)))

\* detect_in_slice: the one of that name, else every one that serves the model.
\* Several are the error AmbiguousProvider.
Detect(ps, name, model, filter) ==
    LET able    == {i \in DOMAIN ps : filter = "any" \/ filter \in Range(Effective(ps[i]))}
        named   == {i \in able : ps[i].name = name}
        serving == {i \in able : model \in ps[i].models}
    IN  IF named # {} THEN {Bind(ps[Min(named)], filter)} ELSE {Bind(ps[i], filter) : i \in serving}

-----------------------------------------------------------------------------
(* The provider of a client. *)

OpenAI(type) == Instance("builtin", "openai", "openai", type,
                         {ChatType, "OpenAIResponses"}, {type})

AnthropicNative == Instance("builtin", "anthropic", "anthropic", "AnthropicMessages",
                      {"AnthropicMessages"}, {"AnthropicMessages"})

\* The adapter that lets Chat Completions flow over the Messages protocol.
AnthropicChat == Instance("builtin", "anthropic", "anthropic", ChatType, {ChatType}, {ChatType})

Bedrock == Instance("builtin", "bedrock", "bedrock", "BedrockConverse",
                    {"BedrockConverse"}, {"BedrockConverse"})

\* A provider the registry lists speaks Chat Completions.
Listed(name) == Instance("listed", name, "listed", ChatType, {ChatType}, {ChatType})

\* get_provider: a custom provider, a built-in one, one the registry lists.
GetProvider(name) ==
    LET custom == Detect(reg.customs, name, "", "any")
    IN  IF custom # {} THEN custom
        ELSE CASE name = "openai"    -> {OpenAI(ChatType)}
               [] name = "anthropic" -> {AnthropicNative}
               [] name = "bedrock"   -> {Bedrock}
               [] name = "listed"    -> {Listed(name) : s \in reg.snapshot}
               [] OTHER              -> {}

\* The built-in instances create_provider binds to the type asked for.
BoundBuiltin(name, type) ==
    CASE name = "openai" ->
            IF type \in {ChatType, "OpenAIResponses"} THEN {OpenAI(type)} ELSE {}
      [] name = "anthropic" ->
            IF type = ChatType THEN {AnthropicChat}
            ELSE IF type = "AnthropicMessages" THEN {AnthropicNative} ELSE {}
      [] OTHER -> {}

\* Client::new on a resolved provider: Bedrock validates its credentials, a key
\* to be loaded must be set, and the resolver is guarded if the policy is on.
Built(b, r, p) ==
    LET named == IF r.url = "none" THEN p ELSE [p EXCEPT !.url = r.url]
    IN  IF \/ p.name = "bedrock" /\ p.kind = "builtin" /\ "bedrock" \notin KeysSet
           \/ r.loadsKey /\ p.kind # "custom" /\ p.name \notin KeysSet
        THEN [phase |-> "failed", request |-> r]
        ELSE [phase |-> "built", request |-> r, provider |-> named,
              guarded |-> reg.policy # "off", overlapped |-> FALSE, lookup |-> {}, reached |-> FALSE]

Resolved(b, r, found) ==
    reg' = [reg EXCEPT !.client[b] =
               IF found = {} THEN [phase |-> "failed", request |-> r]
               ELSE Built(b, r, CHOOSE p \in found : TRUE)]

\* The custom provider of the configuration, bound without a look at what it offers.
OwnCustom(r) ==
    {Bind(c, IF r.type = "none" THEN DefaultType(c) ELSE r.type) : c \in r.custom}

\* No name: the configuration's custom provider, else OpenAI.
BuildUnnamed(b, r) ==
    /\ reg.client[b].phase = "unbuilt" /\ r.name = "none"
    /\ Resolved(b, r, CASE r.custom # {} -> OwnCustom(r)
                        [] r.custom = {} /\ r.url # "none" /\ r.type # "none" ->
                              BoundBuiltin("openai", r.type)
                        [] OTHER -> {OpenAI(ChatType)})

\* A name and no API type; a configured custom provider stands in for an unknown name.
BuildNamed(b, r) ==
    /\ reg.client[b].phase = "unbuilt" /\ r.name # "none" /\ r.type = "none"
    /\ Resolved(b, r, IF GetProvider(r.name) # {} THEN GetProvider(r.name) ELSE OwnCustom(r))

\* A name and an API type, first look: a custom provider that offers the type, or
\* a built-in one; any other name takes a second look.
BuildTyped(b, r) ==
    LET custom == Detect(reg.customs, r.name, "", r.type)
    IN  /\ reg.client[b].phase = "unbuilt" /\ r.name # "none" /\ r.type # "none"
        /\ IF custom = {} /\ r.name \notin {"openai", "anthropic"}
           THEN reg' = [reg EXCEPT !.client[b] =
                           [phase |-> "looking", request |-> r, seen |-> reg.edits]]
           ELSE Resolved(b, r, IF custom # {} THEN custom ELSE BoundBuiltin(r.name, r.type))

\* The second look takes what get_provider finds if it offers the type.
Offering(found, type) == {p \in found : type \in p.offers}

LookAgain(b) ==
    LET r     == reg.client[b].request
        found == Offering(GetProvider(r.name), r.type)
        next  == IF found = {} THEN [phase |-> "failed", request |-> r]
                 ELSE Built(b, r, CHOOSE p \in found : TRUE)
    IN  /\ reg.client[b].phase = "looking"
        /\ reg' = [reg EXCEPT !.client[b] =
                      IF next.phase = "built"
                      THEN [next EXCEPT !.overlapped = reg.client[b].seen # reg.edits]
                      ELSE next]

\* A connection to a name that resolves to private addresses: a guarded resolver
\* copies the policy and asks the DNS, an unguarded one asks and never looks.
BeginLookup(b) ==
    LET k == reg.client[b]
    IN  /\ k.phase = "built" /\ k.provider.url = "private_name" /\ k.lookup = {}
        /\ reg' = [reg EXCEPT !.client[b] =
                      [k EXCEPT !.lookup = {[policy |-> IF k.guarded THEN reg.policy ELSE "off", turn |-> reg.turns]},
                                !.reached = FALSE]]

\* The DNS answers or fails: the addresses are checked against the copy.
Connect(b) ==
    LET k == reg.client[b]
    IN  /\ k.phase = "built"
        /\ \E lookup \in k.lookup, answered \in BOOLEAN :
              reg' = [reg EXCEPT !.client[b] =
                         [k EXCEPT !.lookup = {}, !.reached = answered /\ lookup.policy = "off"]]

\* The application drops a client and may build another.
DropClient(b) ==
    /\ reg.client[b].phase \in {"built", "failed"}
    /\ reg' = [reg EXCEPT !.client[b] = [phase |-> "unbuilt"]]

RegNext ==
    \/ Tick \/ Clear
    \/ \E f \in Fetchers : Fetched(f) \/ FetchFails(f) \/ Install(f)
    \/ \E f \in Fetchers, op \in {"registry", "refresh"} : BeginFetch(f, op)
    \/ \E p \in Policies : SetPolicy(p)
    \/ \E c \in Customs : Register(c) \/ Unregister(c.name)
    \/ \E b \in Builders, r \in Requests :
          BuildUnnamed(b, r) \/ BuildNamed(b, r) \/ BuildTyped(b, r)
    \/ \E b \in Builders : LookAgain(b) \/ BeginLookup(b) \/ Connect(b) \/ DropClient(b)

-----------------------------------------------------------------------------
\* Who a name or a model stands for never depends on the order in which the
\* custom providers were registered: the application hears of an ambiguity
\* (custom.rs:165) instead of the one that happened to come first.
DetectIgnoresOrder ==
    \A n \in {c.name : c \in Customs} \cup {""}, m \in UNION {c.models : c \in Customs},
       t \in ApiTypes \cup {"any"} :
        Detect(reg.customs, n, m, t) = Detect(Reverse(reg.customs), n, m, t)

\* A client asked to speak an API type holds a provider bound to it, with a codec
\* for it (mod.rs:918), whatever was registered meanwhile, but for two cases the
\* code leaves open: a custom provider registered between the two looks, and one
\* handed over in the configuration, which no one checks.
BoundAsAsked ==
    \A b \in Builders :
        LET k == reg.client[b]
        IN  (/\ k.phase = "built" /\ ~k.overlapped
             /\ k.request.type # "none" /\ k.request.name # "none")
            => k.provider.type = k.request.type /\ k.request.type \in k.provider.codecs

\* A guarded client that reaches a private address now.
Reaches(b) ==
    /\ reg.client[b].phase = "built" /\ reg'.client[b].phase = "built"
    /\ reg.client[b].guarded /\ ~reg.client[b].reached /\ reg'.client[b].reached

\* registry() never puts back an older snapshot over one fetched later.  A client
\* built under a policy reaches a private address while a policy holds only if
\* the policy was changed since the lookup of that very connection began: the
\* resolver's copy (outbound_policy.rs:402) outlives no connection, and a change
\* reaches the clients that were built before it.
SteppedForward ==
    /\ \A f \in Fetchers :
          (reg.fetch[f].phase = "fetched" /\ reg.fetch[f].op = "registry"
             /\ reg'.fetch[f].phase = "idle")
          => \A s \in reg.snapshot, t \in reg'.snapshot : s <= t
    /\ \A b \in Builders :
          Reaches(b) => \/ reg.policy = "off"
                        \/ \E lookup \in reg.client[b].lookup : lookup.turn # reg.turns

\* What the documentation says of the resolver (outbound_policy.rs:351, 376): every
\* lookup is checked against the current policy, and a change of it is visible at once.
PolicyVisibleAtOnce == [][\A b \in Builders : Reaches(b) => reg.policy = "off"]_reg

\* The three together: whom a client talks to is settled by what was asked and
\* registered; timing decides only while a look or a lookup is under way.
RegistrySound ==
    /\ []DetectIgnoresOrder
    /\ []BoundAsAsked
    /\ [][SteppedForward]_reg
===============================================================================
