------------------------------- MODULE MCClient -------------------------------
(***************************************************************************)
(* The parts of a client, each on inputs small enough to be gone through   *)
(* one by one and rich enough for every branch of it.                      *)
(***************************************************************************)
EXTENDS Client

\* Every class of status, and waits that grow, that shrink and that have no end.
MCStatuses == {200, 400, 401, 404, 408, 409, 429, 500, 501, 503}
MCWaits == {[initial |-> 1, multiplier |-> 2, max |-> 3, timeout |-> 4],
            [initial |-> 4, multiplier |-> 2, max |-> 2, timeout |-> 5],
            [initial |-> 1, multiplier |-> 2, max |-> 2, timeout |-> NoTimeout]}

\* Every text of four symbols, and longer ones with two events.
Symbols == {"LF", "CR", "data", "event", "u", "v"}
MCTexts ==
  UNION {[1..n -> Symbols] : n \in 1..4} \cup
  { <<"event", "x", "LF", "LF", "data", "x", "LF", "data", "v", "LF">>,
    <<"event", "x", "LF", "LF", "data", "x", "LF", "CR", "LF", "data", "CR", "LF">>,
    <<"data", "x", "LF", "data", "u", "v", "CR", "LF", "LF", "note", "LF", "data", "LF", "LF">>,
    <<"data", "LF", "LF", "data", "x", "LF", "event", "LF", "LF", "x", "u">> }

\* Frames of any size, one after the other.
EventFrame(kind, size) == [kind |-> kind, size |-> size]
Laid(sized) ==
  [k \in DOMAIN sized |-> [kind |-> sized[k].kind,
                          end |-> FoldLeft(LAMBDA n, f : n + f.size, 0, SubSeq(sized, 1, k))]]
MCStreams ==
  {Laid(sized) : sized \in
  [1..2 -> {EventFrame("event", 2), EventFrame("event", 3), EventFrame("corrupt", 2),
            EventFrame("other", 2), EventFrame("bad_length", 2)}]
  \cup {<<EventFrame("event", 4), EventFrame("event", 2), EventFrame("event", 3)>>}}

\* Contents of every kind, calls with unclean ids, replies with gaps between calls.
Says(type, id, pieces) == Block(type, 0, id, pieces)
MCSayings ==
  { Message("user", TRUE, <<"text">>, <<>>, ""),
    Message("user", FALSE, <<"text", "url_image", "audio", "document">>, <<>>, ""),
    Message("system", TRUE, <<"text">>, <<>>, ""),
    Message("developer", FALSE, <<"text", "document">>, <<>>, ""),
    Message("assistant", FALSE, <<"text">>, <<[id |-> "a.b", args |-> <<"x">>]>>, "") }
MCReplies ==
  { Reply(<<Says("text", "", <<"p">>), Says("tool_use", "c1", <<>>), Says("thinking", "", <<"t">>),
            Says("tool_use", "c2", <<"q", "r">>)>>, "tool_use", 2, 1, 3),
    Reply(<<Says("text", "", <<"p", "q">>), Says("text", "", <<"r">>)>>, "end_turn", 2, 0, 1),
    Reply(<<Says("server_tool_use", "c3", <<"q">>)>>, "refusal", 1, 0, 1),
    Reply(<<>>, "guardrail_intervened", 1, 0, 0),
    Reply(<<Says("thinking", "", <<"q">>)>>, "max_tokens", 1, 1, 0) }
Asked(tools, choice, effort, max, format) ==
  [tools |-> tools, choice |-> choice, effort |-> effort, max |-> max, format |-> format]
MCOptions ==
  { Asked(TRUE, "none", "low", 1024, "text"), Asked(TRUE, "required", "absent", 0, "json_object"),
    Asked(FALSE, "absent", "high", 0, "text") }

\* Two configurations of one name, one that takes a built-in name, one invalid.
Custom(name, url, models, types, default) ==
  [name |-> name, url |-> url, models |-> models, types |-> types, default |-> default]
MCCustoms ==
  { Custom("mine", "private_name", {"m"}, <<>>, "none"),
    Custom("mine", "listed", {"m"}, <<"OpenAIResponses", ChatType>>, ChatType),
    Custom("openai", "private_literal", {"m", "n"}, <<"AnthropicMessages">>, "none"),
    Custom("mine", "listed", {}, <<>>, "OpenAIResponses") }
Request(name, type, url, custom, loadsKey) ==
  [name |-> name, type |-> type, url |-> url, custom |-> custom, loadsKey |-> loadsKey]
MCRequests ==
  { Request("mine", "OpenAIResponses", "none", {}, FALSE),
    Request("mine", "none", "none", {Custom("other", "private_name", {}, <<>>, "none")}, FALSE),
    Request("openai", "OpenAIResponses", "private_name", {}, TRUE),
    Request("none", "OpenAIResponses", "private_name", {}, TRUE),
    Request("none", "none", "none", {}, FALSE),
    Request("bedrock", "BedrockConverse", "none", {}, FALSE),
    Request("anthropic", ChatType, "none", {}, TRUE),
    Request("listed", ChatType, "none", {}, FALSE) }

\* Every type of message, bare and with its fields; limits told in part and twice.
AllFields ==
  [f \in {"response_id", "item_id", "session.id", "item.id", "response.id", "delta", "response.status",
          "code", "session.instructions", "call_id", "event_id"} |-> "v"]
MCFrames0 ==
  {Frame(t, has, parts, <<>>) : t \in DOMAIN Fields \cup {"conversation.item.added", "other.type"},
                                has \in {<<>>, AllFields}, parts \in {<<>>, <<"input_text", "file", "audio">>}}
  \cup {Frame("input_audio_buffer.speech_stopped", [f \in {"audio_end_ms"} |-> n], <<>>, <<>>) : n \in {3, 9}}
  \cup {Frame("response.done", [f \in {"response.status"} |-> s], <<>>, <<>>) : s \in ResponseStatuses}
  \cup {Frame("rate_limits.updated", <<>>, <<>>, l) :
          l \in {<<Limit("tokens", 3, 5)>>, <<Limit("requests", 10, -1), Limit("tokens", 3, 5)>>,
                 <<Limit("requests", 1, 4), Limit("requests", -1, 7)>>}}

Payload(values, frame, length, field) == [values |-> values, frame |-> frame, length |-> length, field |-> field]

\* Two redactors, every built-in check, and CEL expressions that fail, block, mutate.
Guard(kind, stages) ==
  [kind |-> kind, stages |-> stages, word |-> "", action |-> "", code |-> 0, list |-> {}, max |-> 0,
   failOpen |-> FALSE, outcome |-> "", payload |-> Payload({}, {}, 0, "")]
MCGuardrails ==
  { [Guard("regex", Stages) EXCEPT !.word = "ssn", !.action = "redact"],
    [Guard("regex", {"Output", "OutputChunk"}) EXCEPT !.word = "mail", !.action = "redact"],
    [Guard("regex", {"Input"}) EXCEPT !.word = "mail", !.action = "block", !.code = 7],
    [Guard("allow_list", {"Input"}) EXCEPT !.list = {"acme"}],
    [Guard("deny_list", {"Input"}) EXCEPT !.list = {"evil"}],
    [Guard("length", {"Output"}) EXCEPT !.max = 1],
    Guard("injection", {"Input"}),
    [Guard("cel", Stages) EXCEPT !.outcome = "error"],
    [Guard("cel", {"Input"}) EXCEPT !.outcome = "word", !.word = "ssn", !.action = "block", !.code = 9],
    [Guard("cel", {"Input", "Output"}) EXCEPT !.outcome = "word", !.word = "mail", !.action = "mutate",
                                             !.payload = Payload({"ssn"}, {}, 1, "")] }
MCPayloads ==
  { Payload({"ssn", "mail"}, {}, 1, "evil"), Payload({"ssn"}, {"mail"}, 2, "acme"),
    Payload({"forget"}, {"ssn"}, 1, "") }

\* A cost limit with a short and a long window, a ledger whose model is used up
\* first and one with a user, with timestamps that lag and with none that do.
MCSchemes ==
  { CostLimit([w \in {"minute", "hour"} |-> IF w = "hour" THEN 2 ELSE 1],
              [w \in {"minute", "hour", "day"} |-> IF w = "minute" THEN 1 ELSE 2]),
    Ledger({<<"global", "m1">>}, {"global", "m1"},
           [w \in {"global", "m1"} |-> IF w = "m1" THEN 2 ELSE 3], 2, 2),
    Ledger({<<"global", "user">>}, {"global", "user"},
           [w \in {"global", "user"} |-> IF w = "user" THEN 3 ELSE 4], 2, 0),
    Ledger({<<"global">>, <<"global", "user">>}, {"global", "user"},
           [w \in {"global", "user"} |-> IF w = "user" THEN 3 ELSE 4], 1, 0) }

\* Requests that differ in their tenant, in their tools, in being streamed; hashes
\* that collide whatever is asked; texts that differ only in their tenant are similar.
Content(kind, model, messages, tenant, user, tools) ==
  [kind |-> kind, model |-> model, messages |-> messages, params |-> "p",
   tenant |-> tenant, user |-> user, tools |-> tools]
MCContents ==
  { Content("chat", "m", "hi", "a", "", ""), Content("chat", "m", "hi", "", "b", ""),
    Content("chat", "m", "hi", "a", "", "t"), Content("chat", "m", "bye", "", "", ""),
    Content("chat_stream", "m", "hi", "a", "", ""), Content("embed", "m0", "bye", "", "b", "") }
MCHashOf(text) == IF text[5] = "b" THEN 2 ELSE 1
MCSimilarity(s, t) == CASE s = t -> 100 [] s # t /\ s[1] = t[1] /\ s[3] = t[3] -> 97 [] OTHER -> 20
Setup(strategy, semantic, bypassed) == [strategy |-> strategy, semantic |-> semantic, bypassed |-> bypassed]
MCSetups ==
  { Setup("exact", TRUE, {"m0"}), Setup("tenant", FALSE, {}), Setup("system_prompt", FALSE, {}) }

===============================================================================
