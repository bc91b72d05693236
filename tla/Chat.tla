-------------------------------- MODULE Chat --------------------------------
(***************************************************************************)
(* A conversation in OpenAI's terms held with a provider that has its own: *)
(* Anthropic through the compatibility adapter                             *)
(* (provider/anthropic/compat.rs, compat_convert.rs) or Bedrock Converse   *)
(* (provider/bedrock/mod.rs).  The caller adds messages; the history is    *)
(* converted and asked; the reply is converted back, whole or event by     *)
(* event, and becomes part of the history.                                 *)
(*                                                                         *)
(* A text is the sequence of the pieces it is streamed in.  The arguments  *)
(* of a tool call are JSON: an empty object is no piece at all, since a    *)
(* whole reply writes "{}" for it, a stream nothing, and both are read     *)
(* back as {}.                                                             *)
(***************************************************************************)
EXTENDS Integers, Sequences, FiniteSets, SequencesExt, Positions

CONSTANTS
  Providers,    \* those a conversation is held with: "anthropic", "bedrock"
  Sayings,      \* messages a caller adds, see Message
  Replies,      \* what a provider replies, see Reply
  Options,      \* [tools, choice, effort, max, format] of a request
  MaxHistory,   \* messages in a history
  CleanIds,     \* ids of tool calls that sanitize_tool_call_id leaves alone
  CallIds,      \* all ids of tool calls
  Pieces        \* of texts, parts and arguments

VARIABLE
  chat          \* the conversation, see NoChat

\* types/mod.rs: a content is a string (plain) or parts; a tool message names a
\* call, an assistant message may make calls.
Message(role, plain, content, calls, id) ==
  [role |-> role, plain |-> plain, content |-> content, calls |-> calls, id |-> id]

\* What a provider says: blocks [type, id, pieces], why it stopped, and tokens.
Reply(blocks, stop, input, cached, output) ==
  [blocks |-> blocks, stop |-> stop, input |-> input, cached |-> cached, output |-> output]

\* Only assistants call; a saying is no result, see Say.
Said == [type : {"text", "thinking", "tool_use", "server_tool_use", "other"},
         from : {0}, id : CallIds \cup {""}, pieces : Seq(Pieces)]
Caller(roles, ids) ==
  {m \in [role : roles, plain : BOOLEAN, content : Seq(Pieces),
          calls : Seq([id : CallIds \cup {""}, args : Seq(Pieces)]), id : ids] :
     m.role = "assistant" \/ m.calls = <<>>}
ASSUME ChatAssumption ==
  /\ Sayings \subseteq Caller({"user", "assistant", "system", "developer"}, {""})
  /\ Replies \subseteq [blocks : Seq(Said), stop : STRING, input : Nat, cached : Nat, output : Nat]
  /\ Options \subseteq [tools : BOOLEAN, choice : STRING, effort : STRING, max : Nat, format : STRING]
  /\ Options # {} /\ {"text", "document"} \subseteq Pieces /\ {"", "_"} \subseteq CleanIds

-----------------------------------------------------------------------------
(* The history, converted for the provider p.  Every block remembers the   *)
(* message it is from.                                                     *)

Anthropic(p) == p = "anthropic"

Sanitize(id) == IF id \in CleanIds THEN id ELSE "_"

Block(type, from, id, pieces) == [type |-> type, from |-> from, id |-> id, pieces |-> pieces]

\* Parts neither provider takes: audio, and what only answers hold.
PartType(p, part) ==
  CASE part \in {"text", "document"} -> part
    [] part = "data_image" -> "image"
    [] part = "url_image" -> IF Anthropic(p) THEN "image" ELSE "text"
    [] OTHER -> "none"

UserBlocks(p, m, from) ==
  IF m.plain THEN <<Block("text", from, "", m.content)>>
  ELSE LET kept == Picked(m.content, {k \in DOMAIN m.content : PartType(p, m.content[k]) # "none"})
       IN [k \in DOMAIN kept |-> Block(PartType(p, kept[k]), from, "", <<kept[k]>>)]

\* Parts of an assistant message are not looked at, only a string is.
AssistantBlocks(m, from) ==
  LET text == IF m.plain /\ m.content # <<>> THEN <<Block("text", from, "", m.content)>> ELSE <<>>
      uses == [k \in DOMAIN m.calls |-> Block("tool_use", from, m.calls[k].id, m.calls[k].args)]
  IN IF text \o uses = <<>> THEN <<Block("text", from, "", <<>>)>> ELSE text \o uses

\* Anthropic is given the texts and images of a result, any other part as an empty
\* text; Bedrock only the text of a string.
ResultParts(p) == IF Anthropic(p) THEN {"text", "data_image", "url_image"} ELSE {}
ToolBlocks(p, m, from) ==
  <<Block("tool_result", from, IF Anthropic(p) THEN Sanitize(m.id) ELSE m.id,
          IF m.plain THEN m.content
          ELSE Picked(m.content, {k \in DOMAIN m.content : m.content[k] \in ResultParts(p)}))>>

SystemBlocks(p, m, from) ==
  LET parts == IF m.plain THEN <<m.content>> ELSE [k \in DOMAIN m.content |-> <<m.content[k]>>]
      taken == {k \in DOMAIN parts : IF Anthropic(p) THEN parts[k] # <<>> ELSE m.plain \/ parts[k] = <<"text">>}
      kept == Picked(parts, taken)
  IN [k \in DOMAIN kept |-> Block("text", from, "", kept[k])]

IsSystem(m) == m.role \in {"system", "developer"}

Converted(p, m, from) ==
  CASE m.role = "user" -> [role |-> "user", content |-> UserBlocks(p, m, from)]
    [] m.role = "tool" -> [role |-> "user", content |-> ToolBlocks(p, m, from)]
    [] OTHER -> [role |-> "assistant", content |-> AssistantBlocks(m, from)]

\* merge_consecutive_same_role keeps only the last of equal roles.
MergeLast(p, done, m) ==
  IF Anthropic(p) /\ done # <<>> /\ done[Len(done)].role = m.role
  THEN [done EXCEPT ![Len(done)] = m] ELSE Append(done, m)

\* A message joins the one before it, if that is of its role, for Anthropic.
Merge(p, done, m) ==
  IF Anthropic(p) /\ done # <<>> /\ done[Len(done)].role = m.role
  THEN [done EXCEPT ![Len(done)].content = @ \o m.content] ELSE Append(done, m)

Messages(p, history) ==
  LET upto[k \in 0..Len(history)] ==
        IF k = 0 THEN <<>>
        ELSE IF IsSystem(history[k]) THEN upto[k - 1] ELSE Merge(p, upto[k - 1], Converted(p, history[k], k))
  IN upto[Len(history)]

\* What a response format other than text adds: an instruction.
JsonBlocks(options) == IF options.format = "text" THEN <<>> ELSE <<Block("text", 0, "", <<"json">>)>>

System(p, history, options) ==
  LET blocks == FlattenSeq([k \in DOMAIN history |->
                              IF IsSystem(history[k]) THEN SystemBlocks(p, history[k], k) ELSE <<>>])
  IN IF Anthropic(p) THEN JsonBlocks(options) \o blocks ELSE blocks \o JsonBlocks(options)

\* The rest of the request: tools, tool_choice, thinking budget, max_tokens (0
\* for none).
Budget(effort) == CASE effort = "absent" -> 0 [] effort = "low" -> 1024 [] effort = "high" -> 16384 [] OTHER -> 4096

DefaultMaxTokens == 4096

ToolChoice(choice) ==
  CASE choice \in {"absent", "none"} -> "absent" [] choice = "required" -> "any"
    [] choice = "function" -> "tool" [] OTHER -> "auto"

MessagesSettings(options) ==
  LET budget == Budget(options.effort)
      max == IF options.max = 0 THEN DefaultMaxTokens ELSE options.max
  IN [tools |-> options.tools /\ options.choice # "none", choice |-> ToolChoice(options.choice),
      thinking |-> budget, max |-> IF max <= budget THEN budget + 1 ELSE max]

\* Converse is told no choice, and max_tokens as they were asked for.
ConverseSettings(options) ==
  [tools |-> options.tools, choice |-> "absent", thinking |-> Budget(options.effort), max |-> options.max]

Settings(p, options) == IF Anthropic(p) THEN MessagesSettings(options) ELSE ConverseSettings(options)

-----------------------------------------------------------------------------
(* The reply, converted as a whole.                                        *)

FinishReason(p, stop) ==
  CASE stop = "tool_use" -> "tool_calls"
    [] stop = "max_tokens" -> "length"
    [] stop = "content_filtered" -> "content_filter"
    [] stop = "refusal" /\ Anthropic(p) -> "content_filter"
    [] stop = "guardrail_intervened" /\ ~Anthropic(p) -> "content_filter"
    [] OTHER -> "stop"

IsUse(p, block) == block.type = "tool_use" \/ (block.type = "server_tool_use" /\ Anthropic(p))

TextOf(blocks) ==
  FlattenSeq([k \in DOMAIN blocks |-> IF blocks[k].type = "text" THEN blocks[k].pieces ELSE <<>>])
Uses(p, blocks) == Picked(blocks, {k \in DOMAIN blocks : IsUse(p, blocks[k])})

\* The prompt counts what was written to or read from the provider's cache, for
\* Anthropic; Bedrock's inputTokens are taken as they are.
Prompt(p, reply) == IF Anthropic(p) THEN reply.input + reply.cached ELSE reply.input

WholeReply(p, reply) ==
  LET uses == Uses(p, reply.blocks) IN
  [text |-> TextOf(reply.blocks),
   calls |-> [k \in DOMAIN uses |-> [id |-> uses[k].id, args |-> uses[k].pieces]],
   finish |-> FinishReason(p, reply.stop), prompt |-> Prompt(p, reply), completion |-> reply.output]

-----------------------------------------------------------------------------
(* The reply as events, and the chunk each becomes.                        *)

Event(type, index, id, piece) == [type |-> type, index |-> index, id |-> id, piece |-> piece]

\* The events of a reply by their place: the start of the message, of every block
\* its start, its pieces and its stop, and two that end the message.
EventAt(reply, at) ==
  LET block == reply.blocks[at.block] IN
  CASE at.block = 0 -> Event("message_start", 0, "", "")
    [] at.block \in DOMAIN reply.blocks /\ at.piece = 0 -> Event("start", at.block - 1, block.id, block.type)
    [] at.block \in DOMAIN reply.blocks /\ at.piece \in DOMAIN block.pieces ->
         Event(block.type, at.block - 1, "", block.pieces[at.piece])
    [] at.block \in DOMAIN reply.blocks /\ at.piece > Len(block.pieces) -> Event("stop", at.block - 1, "", "")
    [] at.block > Len(reply.blocks) -> Event(IF at.piece = 0 THEN "message_delta" ELSE "last", 0, "", "")

LastPiece(reply, block) ==
  CASE block = 0 -> 0
    [] block \in DOMAIN reply.blocks -> Len(reply.blocks[block].pieces) + 1
    [] block > Len(reply.blocks) -> 1

EventAfter(reply, at) ==
  IF at.piece < LastPiece(reply, at.block) THEN [at EXCEPT !.piece = @ + 1] ELSE [block |-> at.block + 1, piece |-> 0]

AllTold(reply, at) == at.block > Len(reply.blocks) + 1

NoChunks == [text |-> <<>>, calls |-> [k \in {} |-> <<>>], finish |-> "none", prompt |-> 0, completion |-> 0]

\* What a caller adds up: contents in order, the calls by their index, the last
\* finish_reason, the sums of the usages.
AddText(sum, piece) == [sum EXCEPT !.text = Append(@, piece)]
StartCall(sum, index, id) ==
  [sum EXCEPT !.calls = [k \in DOMAIN @ \cup {index} |-> IF k = index THEN [id |-> id, args |-> <<>>] ELSE @[k]]]

AddArguments(sum, index, piece) == [sum EXCEPT !.calls[index].args = Append(@, piece)]

\* What both do: the index of a tool call is that of its block; thinking, pings
\* and stops are dropped.
AfterBlockEvent(p, sum, event) ==
  LET started == Block(event.piece, 0, event.id, <<>>)
  IN CASE event.type = "start" /\ IsUse(p, started) -> StartCall(sum, event.index, event.id)
       [] event.type = "text" -> AddText(sum, event.piece)
       [] event.type \in {"tool_use", "server_tool_use"} /\ event.index \in DOMAIN sum.calls ->
            AddArguments(sum, event.index, event.piece)
       [] OTHER -> sum

\* parse_anthropic_event_as_chat_chunk.
AfterMessagesEvent(p, sum, event, reply) ==
  CASE event.type = "message_start" -> [sum EXCEPT !.prompt = Prompt(p, reply)]
    [] event.type = "message_delta" ->
         [sum EXCEPT !.finish = FinishReason(p, reply.stop), !.completion = reply.output]
    [] OTHER -> AfterBlockEvent(p, sum, event)

\* parse_bedrock_stream_event: the finish with messageStop, the tokens with the
\* metadata.
AfterConverseEvent(p, sum, event, reply) ==
  CASE event.type = "message_delta" -> [sum EXCEPT !.finish = FinishReason(p, reply.stop)]
    [] event.type = "last" -> [sum EXCEPT !.prompt = Prompt(p, reply), !.completion = reply.output]
    [] OTHER -> AfterBlockEvent(p, sum, event)

AfterEvent(p, sum, event, reply) ==
  IF Anthropic(p) THEN AfterMessagesEvent(p, sum, event, reply) ELSE AfterConverseEvent(p, sum, event, reply)

\* The sum as a message, its calls in the order of their index.
Summed(sum, reply) ==
  LET calls == InOrder({k \in DOMAIN reply.blocks : k - 1 \in DOMAIN sum.calls})
  IN [sum EXCEPT !.calls = [k \in DOMAIN calls |-> sum.calls[calls[k] - 1]]]

-----------------------------------------------------------------------------

\* The place of the first event; a reply that comes whole stays there.
NoPlace == [block |-> 0, piece |-> 0]

NoChat(provider) ==
  [provider |-> provider, st |-> "open", history |-> <<>>, said |-> <<>>,
   options |-> CHOOSE o \in Options : TRUE, reply |-> Reply(<<>>, "end_turn", 0, 0, 0),
   at |-> NoPlace, sum |-> NoChunks]

Open == chat.st \in {"open", "answered", "failed"}

\* The results of the calls a message made.
ResultsTo(message) ==
  {Message("tool", plain, IF plain THEN <<"text">> ELSE <<"text", "document">>, <<>>, called.id) :
     called \in ToSet(message.calls), plain \in BOOLEAN}

\* The caller adds a message: a saying, or the result of a call made before.
Say ==
  /\ Open /\ Len(chat.history) < MaxHistory
  /\ \E m \in Sayings \cup UNION {ResultsTo(message) : message \in ToSet(chat.history)} :
       chat' = [chat EXCEPT !.st = "open", !.history = Append(@, m), !.said = Append(@, m)]

\* An empty history is a bad request, for Anthropic.
Ask ==
  /\ Open /\ Len(chat.history) < MaxHistory
  /\ \E o \in Options :
       chat' = [chat EXCEPT !.options = o,
                            !.st = IF Anthropic(chat.provider) /\ chat.history = <<>> THEN "failed" ELSE "asked"]

\* The converted reply goes into the history; an empty text is null in it.
Told(whole) == Message("assistant", TRUE, whole.text, whole.calls, "")

AnswerWhole ==
  /\ chat.st = "asked"
  /\ \E reply \in Replies :
       chat' = [chat EXCEPT !.st = "answered", !.reply = reply, !.at = NoPlace,
                            !.history = Append(@, Told(WholeReply(chat.provider, reply))), !.said = Append(@, reply)]

AnswerStreaming ==
  /\ chat.st = "asked"
  /\ \E reply \in Replies :
       chat' = [chat EXCEPT !.st = "streaming", !.reply = reply, !.at = NoPlace, !.sum = NoChunks]

\* The next event becomes a chunk, or nothing.
Deliver ==
  /\ chat.st = "streaming" /\ ~AllTold(chat.reply, chat.at)
  /\ chat' = [chat EXCEPT !.at = EventAfter(chat.reply, @),
                          !.sum = AfterEvent(chat.provider, @, EventAt(chat.reply, chat.at), chat.reply)]

StreamEnds ==
  /\ chat.st = "streaming" /\ AllTold(chat.reply, chat.at)
  /\ chat' = [chat EXCEPT !.st = "answered", !.history = Append(@, Told(Summed(chat.sum, chat.reply))),
                          !.said = Append(@, chat.reply)]

\* An error event, or an event that is not the JSON it should be.
StreamFails ==
  /\ chat.st = "streaming"
  /\ chat' = [chat EXCEPT !.st = "failed"]

ChatInit == \E p \in Providers : chat = NoChat(p)
ChatNext == Say \/ Ask \/ AnswerWhole \/ AnswerStreaming \/ Deliver \/ StreamEnds \/ StreamFails

-----------------------------------------------------------------------------
(* Properties.                                                             *)

\* A reply that was streamed means what it would have meant whole: the same text,
\* the same calls with their arguments, finish reason and tokens.
StreamMeansWhole ==
  chat.st = "answered" /\ chat.at # NoPlace =>
    Summed(chat.sum, chat.reply) = WholeReply(chat.provider, chat.reply)

IsReply(told) == "blocks" \in DOMAIN told

AllBlocks(messages) == FlattenSeq([k \in DOMAIN messages |-> messages[k].content])
From(blocks, k) == Picked(blocks, {i \in DOMAIN blocks : blocks[i].from = k})
CallsOf(p, blocks) ==
  LET uses == Uses(p, blocks) IN [c \in DOMAIN uses |-> [id |-> uses[c].id, args |-> uses[c].pieces]]

\* What a message of the caller has that its provider is given: a string whole; of
\* parts, those of a user but for audio and the like, of a result the texts and
\* images for Anthropic and nothing for Bedrock, of an assistant none.
GivenParts(p, role) ==
  CASE role = "user" -> {"text", "data_image", "url_image", "document"}
    [] role = "tool" /\ Anthropic(p) -> {"text", "data_image", "url_image"}
    [] OTHER -> {}
GivenOf(p, m) ==
  LET content == IF m.plain THEN m.content
                 ELSE Picked(m.content, {k \in DOMAIN m.content : m.content[k] \in GivenParts(p, m.role)})
  IN CASE content = <<>> -> <<>>
       [] content # <<>> /\ m.role = "user" /\ ~m.plain -> [k \in DOMAIN content |-> <<content[k]>>]
       [] OTHER -> <<content>>

\* What blocks hold but for calls, without those that are empty.
ContentsOf(blocks) ==
  LET full == Picked(blocks, {k \in DOMAIN blocks : blocks[k].type # "tool_use" /\ blocks[k].pieces # <<>>})
  IN [k \in DOMAIN full |-> full[k].pieces]

\* The request carries the conversation in its order and under its roles, and
\* Anthropic's roles alternate.  Of a message of the caller it has what GivenOf names,
\* neither more nor less, and its calls with their arguments; the rest is lost
\* without a word.  What the provider said before comes back to it: its text, and
\* each tool call with its id and its arguments.
RequestKeeps(p, history, said) ==
  LET messages == Messages(p, history)
      blocks == AllBlocks(messages)
      Role(k) == IF history[k].role = "assistant" THEN "assistant" ELSE "user"
  IN /\ \A i, j \in DOMAIN blocks : i < j => blocks[i].from <= blocks[j].from
     /\ \A i \in DOMAIN messages : \A b \in DOMAIN messages[i].content :
          messages[i].role = Role(messages[i].content[b].from)
     /\ Anthropic(p) => \A i \in DOMAIN messages : i > 1 => messages[i].role # messages[i - 1].role
     /\ \A k \in DOMAIN history :
          LET kept == From(blocks, k) IN
          CASE IsSystem(history[k]) -> kept = <<>>
            [] IsReply(said[k]) ->
                 TextOf(kept) = TextOf(said[k].blocks) /\ CallsOf(p, kept) = CallsOf(p, said[k].blocks)
            [] ~IsSystem(history[k]) /\ ~IsReply(said[k]) ->
                 ContentsOf(kept) = GivenOf(p, history[k]) /\ CallsOf(p, kept) = history[k].calls

\* The texts of a system message; of its other parts nothing is promised, and
\* Bedrock is given none.
Instructions(m) ==
  IF m.plain THEN {m.content} \ {<<>>} ELSE {<<m.content[i]>> : i \in {j \in DOMAIN m.content : m.content[j] = "text"}}

\* Every instruction is among those of the request, in the order of the messages,
\* whatever is between them, and one to answer in JSON if that is asked for.
InstructionsKept(p, history, options) ==
  LET blocks == System(p, history, options) IN
  /\ \A i, j \in DOMAIN blocks : i < j /\ blocks[j].from # 0 => blocks[i].from <= blocks[j].from
  /\ \A k \in DOMAIN history : IsSystem(history[k]) =>
       \A text \in Instructions(history[k]) : \E i \in DOMAIN blocks : blocks[i].from = k /\ blocks[i].pieces = text
  /\ (\E i \in DOMAIN blocks : blocks[i].from = 0) <=> options.format # "text"

\* Before every result the request holds the call it is of, under the id the caller
\* gave both.  The provider is told that they belong together unless it is Anthropic
\* and the id is not clean: the result's is sanitized, the call's is not.
ResultsAnswerCalls(p, history) ==
  LET blocks == AllBlocks(Messages(p, history))
  IN \A i \in DOMAIN blocks : blocks[i].type = "tool_result" =>
       \E j \in 1..(i - 1) :
         /\ blocks[j].type = "tool_use" /\ blocks[j].id = history[blocks[i].from].id
         /\ blocks[j].id = blocks[i].id <=> (Anthropic(p) => blocks[j].id \in CleanIds)

\* Anthropic's budget for thinking fits into max_tokens, and a request that
\* forbids tools offers none.
SettingsFit(p, options) ==
  Anthropic(p) => /\ Settings(p, options).thinking < Settings(p, options).max
                  /\ options.choice = "none" => ~Settings(p, options).tools

\* However a conversation goes, the caller is told what the provider said, the
\* provider exactly what RequestKeeps and InstructionsKept name of what the caller
\* said, and the results of calls go where ResultsAnswerCalls says.
ChatFaithful ==
  /\ StreamMeansWhole
  /\ RequestKeeps(chat.provider, chat.history, chat.said)
  /\ InstructionsKept(chat.provider, chat.history, chat.options)
  /\ ResultsAnswerCalls(chat.provider, chat.history)
  /\ SettingsFit(chat.provider, chat.options)
=============================================================================
