------------------------------ MODULE Realtime -------------------------------
(***************************************************************************)
(* A relay of OpenAI's realtime protocol (realtime/mod.rs, openai.rs): a    *)
(* message of the provider is translated into an event, the event into a   *)
(* message for whoever listens, who may be a relay too.                    *)
(*                                                                         *)
(* A message has a type, those of its fields that are there, the parts of  *)
(* an item's content and the limits of a rate_limits message.              *)
(***************************************************************************)
EXTENDS Integers, Sequences, FiniteSets

CONSTANTS
  Frames0,      \* what the provider may send
  U32,          \* 2^32: the numbers a u32 holds
  Minute,       \* the time a limit is taken to reset in, if nothing is said
  MaxHops,      \* relays in a row
  RelayClock    \* bound on the time a relay takes

\* What as_array and as_u64 take of a message, the rest being absent: lists and
\* natural numbers.  No time of a reset lies before 1970.
RelayAssumption ==
  /\ U32 \in Nat \ {0} /\ Minute \in Nat /\ MaxHops \in Nat /\ RelayClock \in Nat
  /\ \A frame \in Frames0 :
       /\ "audio_end_ms" \in DOMAIN frame.has => frame.has["audio_end_ms"] \in Nat
       /\ frame.parts \in Seq(STRING)
       /\ frame.limits \in Seq([name : STRING, remaining : Nat \cup {-1}, reset : Nat \cup {-1}])
ASSUME RelayAssumption

VARIABLE
  relay         \* the message under way, see NoRelay

-----------------------------------------------------------------------------
(* What an event keeps of a message, by the type of it.                    *)

SessionFields ==
  [t \in {"session.created", "session.updated"} |->
     IF t = "session.created" THEN {"session.id", "session.model"} ELSE {"session.id"}]

ItemFields ==
  [t \in {"conversation.item.created", "conversation.item.deleted"} |->
     IF t = "conversation.item.created" THEN {"item.id", "item.role"} ELSE {"item_id"}]

ResponseFields ==
  [t \in {"response.created", "response.done", "response.text.delta", "response.audio.delta",
          "response.audio_transcript.delta", "response.text.done", "response.audio.done",
          "response.audio_transcript.done"} |->
     CASE t = "response.created" -> {"response.id"}
       [] t = "response.done" -> {"response.id", "response.status"}
       [] t = "response.text.done" -> {"response_id", "text"}
       [] t = "response.audio.done" -> {"response_id"}
       [] t = "response.audio_transcript.done" -> {"response_id", "transcript"}
       [] OTHER -> {"response_id", "delta"}]

CallFields ==
  [t \in {"response.function_call_arguments.delta", "response.function_call_arguments.done"} |->
     {"response_id", "call_id"} \cup
       IF t = "response.function_call_arguments.delta" THEN {"delta"} ELSE {"name", "arguments"}]

BufferFields ==
  [t \in {"input_audio_buffer.append", "input_audio_buffer.commit", "input_audio_buffer.clear",
          "input_audio_buffer.speech_started", "input_audio_buffer.speech_stopped"} |->
     CASE t = "input_audio_buffer.append" -> {"audio"}
       [] t \in {"input_audio_buffer.commit", "input_audio_buffer.clear"} -> {}
       [] OTHER -> {"item_id"}]

Fields ==
  [t \in UNION {DOMAIN SessionFields, DOMAIN ItemFields, DOMAIN ResponseFields, DOMAIN CallFields,
                DOMAIN BufferFields, {"rate_limits.updated", "error"}} |->
     CASE t \in DOMAIN SessionFields -> SessionFields[t]
       [] t \in DOMAIN ItemFields -> ItemFields[t]
       [] t \in DOMAIN ResponseFields -> ResponseFields[t]
       [] t \in DOMAIN CallFields -> CallFields[t]
       [] t \in DOMAIN BufferFields -> BufferFields[t]
       [] t = "rate_limits.updated" -> {}
       [] t = "error" -> {"code", "message"}]

\* Fields an event has only if the message has them.
OptionalFields(type) ==
  CASE type = "session.updated" -> {"session.instructions"}
    [] type = "error" -> {"event_id"}
    [] OTHER -> {}

\* A message that has only what is said.
Frame(type, has, parts, limits) == [type |-> type, has |-> has, parts |-> parts, limits |-> limits]

-----------------------------------------------------------------------------
(* translate_inbound.                                                      *)

\* The newer name of an item's creation.
Kind(type) == IF type = "conversation.item.added" THEN "conversation.item.created" ELSE type

ResponseStatuses == {"cancelled", "failed", "incomplete", "completed"}

\* What stands for a field that is missing or unknown.
Read(frame, field) ==
  LET there == field \in DOMAIN frame.has IN
  CASE field = "response.status" ->
         IF there /\ frame.has[field] \in ResponseStatuses THEN frame.has[field] ELSE "completed"
    [] field = "code" -> IF there THEN frame.has[field] ELSE "unknown"
    [] OTHER -> IF there THEN frame.has[field] ELSE ""

PartKind(part) ==
  CASE part \in {"text", "input_text"} -> "text"
    [] part \in {"audio", "input_audio"} -> "audio"
    [] part = "image_url" -> "image_url"
    [] OTHER -> "dropped"

\* The positions of the parts that are kept, and how many come up to one.
KeptParts(parts) == {k \in DOMAIN parts : PartKind(parts[k]) # "dropped"}
PartsUpTo(parts, k) == Cardinality({j \in KeptParts(parts) : j <= k})

\* parse_content_parts: parts of other kinds are dropped.
ContentParts(parts) ==
  [n \in 1..Cardinality(KeptParts(parts)) |->
     PartKind(parts[CHOOSE k \in KeptParts(parts) : PartsUpTo(parts, k) = n])]

\* The last limit of a name counts; only that of the requests says when it
\* resets, and one without reset_at in a minute.  -1 is an absent number.
LastNamed(limits, name) ==
  {k \in DOMAIN limits : /\ limits[k].name = name
                         /\ \A j \in DOMAIN limits : limits[j].name = name => j <= k}

Remaining(limits, name) ==
  IF \E k \in LastNamed(limits, name) : limits[k].remaining # -1
  THEN limits[CHOOSE k \in LastNamed(limits, name) : TRUE].remaining % U32 ELSE -1

ResetAt(limits, now) ==
  IF \E k \in LastNamed(limits, "requests") : limits[k].reset # -1
  THEN limits[CHOOSE k \in LastNamed(limits, "requests") : TRUE].reset ELSE now + Minute

\* An event: the end of a speech has its time, an item its content, limits
\* their numbers and the one time of their reset.
RelayEvent(kind, fields, ms, content, requests, tokens, reset) ==
  [kind |-> kind, fields |-> fields, ms |-> ms, content |-> content,
   requests |-> requests, tokens |-> tokens, reset |-> reset]

\* The event of a message; a type it does not know leaves the message as it is.
Inbound(frame, now) ==
  LET kind == Kind(frame.type)
      known == kind \in DOMAIN Fields
      kept == Fields[kind] \cup (OptionalFields(kind) \cap DOMAIN frame.has)
  IN IF ~known THEN [kind |-> "raw", payload |-> frame]
     ELSE RelayEvent(
            kind, [f \in kept |-> Read(frame, f)],
            IF kind = "input_audio_buffer.speech_stopped" /\ "audio_end_ms" \in DOMAIN frame.has
            THEN frame.has["audio_end_ms"] % U32 ELSE 0,
            IF kind = "conversation.item.created" THEN ContentParts(frame.parts) ELSE <<>>,
            IF kind = "rate_limits.updated" THEN Remaining(frame.limits, "requests") ELSE -1,
            IF kind = "rate_limits.updated" THEN Remaining(frame.limits, "tokens") ELSE -1,
            IF kind = "rate_limits.updated" THEN ResetAt(frame.limits, now) ELSE 0)

-----------------------------------------------------------------------------
(* translate_outbound.                                                     *)

Limit(name, remaining, reset) == [name |-> name, remaining |-> remaining, reset |-> reset]

\* The time is written with the tokens alone.
OutLimitsTokens(event) ==
  (IF event.requests # -1 THEN <<Limit("requests", event.requests, -1)>> ELSE <<>>)
    \o (IF event.tokens # -1 THEN <<Limit("tokens", event.tokens, event.reset)>> ELSE <<>>)

\* A limit is written if its number is there, each with the one time there is.
OutLimits(event) ==
  (IF event.requests # -1 THEN <<Limit("requests", event.requests, event.reset)>> ELSE <<>>)
    \o (IF event.tokens # -1 THEN <<Limit("tokens", event.tokens, event.reset)>> ELSE <<>>)

\* The message for an event.  Its time goes through seconds in an f64, which
\* returns the milliseconds of a time of our days.
Outbound(event) ==
  IF event.kind = "raw" THEN event.payload
  ELSE LET timed == IF event.kind = "input_audio_buffer.speech_stopped" THEN {"audio_end_ms"} ELSE {}
       IN Frame(event.kind,
                [f \in DOMAIN event.fields \cup timed |->
                   IF f \in timed THEN event.ms ELSE event.fields[f]],
                event.content,
                IF event.kind = "rate_limits.updated" THEN OutLimits(event) ELSE <<>>)

-----------------------------------------------------------------------------

NoRelay == [frame |-> Frame("", <<>>, <<>>, <<>>), first |-> {}, event |-> {}, hops |-> 0, time |-> 0]

\* A message of the provider; one without a type is an error and no event.
Arrive ==
  /\ relay.event = {} /\ relay.hops = 0
  /\ \E frame \in Frames0 :
       LET event == Inbound(frame, relay.time) IN
       relay' = [relay EXCEPT !.frame = frame, !.first = {event}, !.event = {event}]

\* It is sent on, which takes time, and read again.
Forward ==
  /\ relay.event # {} /\ relay.hops < MaxHops
  /\ \E event \in relay.event, time \in relay.time..RelayClock :
       LET frame == Outbound(event) IN
       relay' = [relay EXCEPT !.frame = frame, !.event = {Inbound(frame, time)},
                              !.hops = @ + 1, !.time = time]

RelayInit == relay = NoRelay
RelayNext == Arrive \/ Forward

-----------------------------------------------------------------------------
(* Properties.                                                             *)

\* An event that is relayed arrives as it was read from the provider, however
\* often and slowly it is passed on: only when a limit's reset is not told for
\* the requests does every relay put it off by the time it took.
RelayFaithful ==
  \A event \in relay.event, first \in relay.first :
    \/ event = first
    \/ first.kind = "rate_limits.updated" /\ first.requests = -1
         /\ event = [first EXCEPT !.reset = event.reset]
=============================================================================
