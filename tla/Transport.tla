----------------------------- MODULE Transport ------------------------------
(***************************************************************************)
(* One call of the client from its method to its result: client/impls/*,   *)
(* the shared steps of client/mod.rs, http/request.rs with its retries     *)
(* (http/retry.rs) and the errors a status becomes (error.rs).  On top of   *)
(* it the loop that polls a batch (impls/batch.rs).                        *)
(*                                                                         *)
(* Calls share nothing but the connection pool, so one is enough.  Time is *)
(* counted in half seconds: the jitter halves a second at most.            *)
(***************************************************************************)
EXTENDS Integers, Sequences, FiniteSets

CONSTANTS
  MaxRetries,   \* ClientConfig.max_retries
  Second,       \* the first backoff, 2 half seconds
  BackoffCap,   \* 30 s
  ServerCap,    \* 60 s
  RetryAfters,  \* values of the Retry-After header
  NoHeader,     \* no such header, or an HTTP date
  Latency,      \* ClientConfig.timeout: longest time to an answer
  Statuses,     \* statuses a provider answers with
  WaitConfigs,  \* WaitForBatchConfigs
  NoTimeout     \* timeout_secs is None

ASSUME TransportAssumption ==
  /\ MaxRetries \in Nat /\ Second \in Nat /\ BackoffCap \in Nat /\ ServerCap \in Nat
  /\ RetryAfters \subseteq Nat /\ NoHeader \notin Nat /\ Latency \in Nat
  /\ Statuses \subseteq 100..599 /\ NoTimeout \notin Nat
  /\ WaitConfigs # {}
  /\ WaitConfigs \subseteq [initial : Nat, multiplier : Nat, max : Nat, timeout : Nat \cup {NoTimeout}]

VARIABLES
  call,   \* the call, see NewCall
  wait    \* the polling loop, see NoWait

callVars == <<call, wait>>

-----------------------------------------------------------------------------
(* The senders of http/: whether they retry, and how they read the answer.  *)

Sender(verb, retries, body) == [verb |-> verb, retries |-> retries, body |-> body]

PostJson == Sender("POST", TRUE, "json")
PostBinary == Sender("POST", TRUE, "bytes")
PostMultipart == Sender("POST", FALSE, "json")
GetJson == Sender("GET", TRUE, "json")
GetBinary == Sender("GET", TRUE, "bytes")
DeleteJson == Sender("DELETE", TRUE, "json")
PostStream == Sender("POST", TRUE, "stream")

(* The methods.  How a request is prepared: by a codec when the provider   *)
(* has one, else by prepare_request ("either"); by prepare_request; by a   *)
(* codec when it has one, else directly ("codec_or_direct"); by a codec or  *)
(* not at all ("codec"); directly; or as a form.  The raw form of a call,   *)
(* from embed to ocr, goes the same way as the call.                       *)

Method(name, way, by) == [name |-> name, way |-> way, by |-> by]

Chat == Method("chat", "either", PostJson)
ChatStream == Method("chat_stream", "either", PostStream)
ChatRaw == Method("chat_raw", "prepared", PostJson)
ChatStreamRaw == Method("chat_stream_raw", "prepared", PostStream)
EmbedMethods == {Method("embed", "prepared", PostJson)}
ImageMethods == {Method("image", "prepared", PostJson)}
ModerationMethods == {Method("moderate", "prepared", PostJson)}
RerankMethods == {Method("rerank", "prepared", PostJson)}
SearchMethods == {Method("search", "prepared", PostJson)}
OcrMethods == {Method("ocr", "prepared", PostJson)}
AudioMethods == {Method("speech", "prepared", PostBinary), Method("transcribe", "prepared", PostJson)}
MessageMethods == {Method("create_message", "codec", PostJson),
                   Method("create_message_stream", "codec", PostStream)}
CreateResponse == Method("create_response", "codec_or_direct", PostJson)
ResponseMethods == {Method("create_response_stream", "codec", PostStream),
                    Method("retrieve_response", "direct", GetJson), Method("cancel_response", "direct", PostJson)}
FileMethods == {Method("create_file", "form", PostMultipart), Method("delete_file", "direct", DeleteJson),
                Method("list_files", "direct", GetJson), Method("file_content", "direct", GetBinary)}
RetrieveBatch == Method("retrieve_batch", "direct", GetJson)
BatchMethods == {Method("create_batch", "direct", PostJson), RetrieveBatch,
                 Method("list_batches", "direct", GetJson), Method("cancel_batch", "direct", PostJson)}
ModelMethods == {Method("list_models", "direct", GetJson)}

Methods ==
  {Chat, ChatStream, ChatRaw, ChatStreamRaw, CreateResponse}
    \cup EmbedMethods \cup ImageMethods \cup ModerationMethods \cup RerankMethods
    \cup SearchMethods \cup OcrMethods \cup AudioMethods \cup MessageMethods
    \cup ResponseMethods \cup FileMethods \cup BatchMethods \cup ModelMethods

-----------------------------------------------------------------------------
(* Errors.                                                                 *)

\* HiLlmError::from_status; what a 400 or 422 is depends on the body.
ErrorsOf(status) ==
  CASE status \in {401, 403} -> {"Authentication"}
    [] status = 429 -> {"RateLimited"}
    [] status \in {400, 422} -> {"BadRequest", "ContextWindowExceeded", "ContentPolicy"}
    [] status = 404 -> {"NotFound"}
    [] status = 408 -> {"Timeout"}
    [] status \in 502..504 -> {"ServiceUnavailable"}
    [] status \in (400..499) \ {400, 401, 403, 404, 408, 422, 429} -> {"BadRequest"}
    [] OTHER -> {"ServerError"}

Transient(error) == error \in {"RateLimited", "ServiceUnavailable", "Timeout", "ServerError", "Network"}

Success(status) == status \in 200..299

-----------------------------------------------------------------------------
(* Retries.                                                                *)

Lesser(a, b) == IF a <= b THEN a ELSE b
Greater(a, b) == IF a >= b THEN a ELSE b

\* A factor from 0.5 to 1.
Jittered(delay) == (delay \div 2)..delay

Retried == {429, 500, 502, 503, 504}

\* A Retry-After is obeyed however long it is.
DelaysUncapped(status, attempt, after) ==
  IF status = 429 /\ after # NoHeader THEN {after}
  ELSE Jittered(Lesser(Second * 2^attempt, BackoffCap))

\* should_retry: whether there is a delay, and the delays it may be.
ShouldRetry(status, attempt) == attempt < MaxRetries /\ status \in Retried

Delays(status, attempt, after) ==
  IF status = 429 /\ after # NoHeader THEN {Lesser(after, ServerCap)}
  ELSE Jittered(Lesser(Second * 2^attempt, BackoffCap))

-----------------------------------------------------------------------------

\* log is what the provider answered, 0 for no answer.
NewCall(method) ==
  [st |-> "validate", method |-> method, attempt |-> 0, delay |-> 0, log |-> <<>>, result |-> "none"]

NoWait == [st |-> "none", cfg |-> CHOOSE c \in WaitConfigs : TRUE, interval |-> 0, elapsed |-> 0]

CallInit ==
  /\ call = [NewCall(Chat) EXCEPT !.st = "done", !.result = "ok"]
  /\ wait = NoWait

Ends(result) == [call EXCEPT !.st = "done", !.delay = 0, !.result = result]

Begin ==
  /\ call.st = "done" /\ wait.st \in {"none", "done"}
  /\ \E m \in Methods : call' = NewCall(m)
  /\ wait' = NoWait

\* What is found out before anything is sent: no codec, no model or a model of
\* another provider, a body the codec or transform_request refuses.
Prepare(codec, modelOk, bodyOk) ==
  LET way == call.method.way
      prepared == way = "prepared" \/ (way = "either" /\ ~codec)
      encoded == prepared \/ (codec /\ way \in {"either", "codec", "codec_or_direct"})
  IN CASE way = "codec" /\ ~codec -> Ends("EndpointNotSupported")
       [] (prepared /\ ~modelOk) \/ (encoded /\ ~bodyOk) -> Ends("BadRequest")
       [] OTHER -> [call EXCEPT !.st = "auth"]

Validate ==
  /\ call.st = "validate"
  /\ \E codec, modelOk, bodyOk \in BOOLEAN : call' = Prepare(codec, modelOk, bodyOk)
  /\ UNCHANGED wait

\* resolve_auth_header: the credential provider may fail.  The form is built
\* after it.
ResolveAuth ==
  /\ call.st = "auth"
  /\ \/ call' = [call EXCEPT !.st = "send"]
     \/ call' = Ends("Authentication")
     \/ call.method.way = "form" /\ call' = Ends("BadRequest")
  /\ UNCHANGED wait

\* The clock of a polling loop with a timeout.
Passes(ticks) ==
  IF wait.st = "polling" /\ wait.cfg.timeout # NoTimeout
  THEN [wait EXCEPT !.elapsed = @ + ticks] ELSE wait

\* What follows an answer: with_retry, or the single attempt of a form.
AfterAnswer(status, after, error) ==
  LET logged == [call EXCEPT !.log = Append(@, status)] IN
  IF Success(status)
  THEN {IF call.method.by.body = "stream" THEN [logged EXCEPT !.st = "done", !.result = "ok"]
        ELSE [logged EXCEPT !.st = "decode"]}
  ELSE IF call.method.by.retries /\ ShouldRetry(status, call.attempt)
  THEN {[logged EXCEPT !.st = "backoff", !.attempt = @ + 1, !.delay = d] :
          d \in Delays(status, call.attempt, after)}
  ELSE {[logged EXCEPT !.st = "done", !.result = error]}

\* A request is sent and answered after a while.
Send ==
  /\ call.st = "send"
  /\ \E status \in Statuses, after \in RetryAfters \cup {NoHeader}, spent \in 0..Latency :
       \E error \in ErrorsOf(status) :
         /\ call' \in AfterAnswer(status, after, error)
         /\ wait' = Passes(spent)

\* A lost answer is retried like a refusal: the request may be served twice.
LoseAndResend ==
  /\ call.st = "send"
  /\ wait' = Passes(0)
  /\ call' = IF call.attempt < MaxRetries
             THEN [call EXCEPT !.attempt = @ + 1, !.log = Append(@, 0)]
             ELSE [Ends("Network") EXCEPT !.log = Append(@, 0)]

\* It is lost, refused by the outbound policy or too late: reqwest's error ends
\* the call, it is not retried.
Lose ==
  /\ call.st = "send"
  /\ \E spent \in 0..Latency : wait' = Passes(spent)
  /\ call' = [Ends("Network") EXCEPT !.log = Append(@, 0)]

Backoff ==
  /\ call.st = "backoff"
  /\ call' = [call EXCEPT !.st = "send", !.delay = 0]
  /\ wait' = Passes(call.delay)

\* The body is cut off, too long, not JSON, or not what the codec expects.
Decode ==
  /\ call.st = "decode"
  /\ \E result \in {"ok", "Network", "Streaming"}
                     \cup (IF call.method.by.body = "json" THEN {"Serialization"} ELSE {}) :
       call' = Ends(result)
  /\ UNCHANGED wait

-----------------------------------------------------------------------------
(* wait_for_batch_impl.                                                    *)

Poll(w) ==
  /\ call' = NewCall(RetrieveBatch)
  /\ wait' = [w EXCEPT !.st = "polling"]

BeginWait ==
  /\ call.st = "done" /\ wait.st \in {"none", "done"}
  /\ \E c \in WaitConfigs : Poll([NoWait EXCEPT !.cfg = c, !.interval = c.initial])

TimedOut == wait.cfg.timeout # NoTimeout /\ wait.elapsed >= wait.cfg.timeout

\* The poll has answered.  Any error of it ends the loop; the timeout counts
\* only after a poll, and does not shorten the sleep.
Polled ==
  /\ wait.st = "polling" /\ call.st = "done"
  /\ UNCHANGED call
  /\ \/ call.result # "ok" /\ wait' = [wait EXCEPT !.st = "done"]
     \/ call.result = "ok"    \* completed, failed, expired or cancelled
          /\ wait' = [wait EXCEPT !.st = "done"]
     \/ call.result = "ok" /\ wait' = [wait EXCEPT !.st = IF TimedOut THEN "done" ELSE "asleep"]

Repoll ==
  /\ wait.st = "asleep"
  /\ LET slept == IF wait.cfg.timeout = NoTimeout THEN 0 ELSE wait.interval IN
     Poll([wait EXCEPT !.elapsed = @ + slept,
                       !.interval = Lesser(@ * wait.cfg.multiplier, wait.cfg.max)])

Proceeds ==
  \/ Validate \/ ResolveAuth \/ Send \/ Lose \/ Backoff \/ Decode
  \/ Polled \/ Repoll

CallNext == Begin \/ BeginWait \/ Proceeds

-----------------------------------------------------------------------------
(* Properties.                                                             *)

\* A request is sent again only when the provider said it did not serve it (429
\* or a 5xx it retries), never after a lost answer, at most MaxRetries times and
\* a form once; the caller gets what the last answer means, and an error worth a
\* retry only when the retries are used up.
RetriesEndRight ==
  LET sent == Len(call.log)
      retries == IF call.method.by.retries THEN MaxRetries ELSE 0
  IN /\ sent <= retries + 1
     /\ \A i \in 1..(sent - 1) : call.log[i] \in Retried
     /\ call.st = "done" /\ sent > 0 =>
          LET last == call.log[sent] IN
          /\ call.result = "ok" => Success(last)
          /\ last \in Retried => sent = retries + 1
          /\ last # 0 /\ ~Success(last) => call.result \in ErrorsOf(last)
          /\ last \in Retried \cup {0} => Transient(call.result)

\* The longest a poll takes: its answers and its backoffs.
LongestPoll == (MaxRetries + 1) * Latency + MaxRetries * Greater(BackoffCap, ServerCap)

\* wait_for_batch with a timeout takes no longer than the timeout, one interval
\* and one poll, which takes that long; an interval is the first or at most the
\* largest.
WaitBounded(poll) ==
  wait.st # "none" /\ wait.cfg.timeout # NoTimeout =>
    wait.elapsed <= wait.cfg.timeout + Greater(wait.cfg.initial, wait.cfg.max) + poll

\* A wait with a timeout ends, whatever the batch does, and within its bound.
WaitEnds ==
  /\ (wait.st = "polling" /\ wait.cfg.timeout # NoTimeout) ~> (wait.st \in {"none", "done"})
  /\ []WaitBounded(LongestPoll)
=============================================================================
