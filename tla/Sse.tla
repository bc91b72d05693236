-------------------------------- MODULE Sse ---------------------------------
(***************************************************************************)
(* A streamed answer as it is decoded: server-sent events (sse.rs).  The   *)
(* network may cut the bytes anywhere, end the stream early or fail.       *)
(*                                                                         *)
(* A text is a sequence of symbols: the line ends "LF" and "CR", "data" and *)
(* "event" for the start of such a field, "note" for the start of any other *)
(* field or a comment, "x" for a character, and "u", "v" for the two bytes  *)
(* of one that takes two.                                                  *)
(***************************************************************************)
EXTENDS Integers, Sequences, FiniteSets, Positions

CONSTANTS
  SseTexts,      \* what a provider may send
  MaxBuffer   \* SSE_BUFFER_MAX_BYTES

\* The bytes of a text, as far as the decoder tells them apart.
SseSymbols == {"LF", "CR", "data", "event", "note", "x", "u", "v"}

SseAssumption == SseTexts \subseteq Seq(SseSymbols) /\ MaxBuffer \in Nat
ASSUME SseAssumption

VARIABLE
  sse         \* the decoder and its stream, see NoStream

-----------------------------------------------------------------------------
(* Lines.                                                                  *)

Breaks(s) == {i \in DOMAIN s : s[i] = "LF"}
LastBreak(s) == IF Breaks(s) = {} THEN 0 ELSE CHOOSE i \in Breaks(s) : \A j \in Breaks(s) : j <= i
Residue(s) == SubSeq(s, LastBreak(s) + 1, Len(s))

\* The complete lines of s, without their ends.
Lines(s) ==
  LET ends == InOrder(Breaks(s))
      start(k) == IF k = 1 THEN 1 ELSE ends[k - 1] + 1
  IN [k \in DOMAIN ends |-> SubSeq(s, start(k), ends[k] - 1)]

Utf8(line) ==
  /\ \A i \in DOMAIN line : line[i] = "u" => i < Len(line) /\ line[i + 1] = "v"
  /\ \A i \in DOMAIN line : line[i] = "v" => i > 1 /\ line[i - 1] = "u"

\* str::trim takes the CR of a line too, wherever it stands at an end.
Trim(line) ==
  LET kept == {i \in DOMAIN line : line[i] # "CR"} IN
  IF kept = {} THEN <<>>
  ELSE SubSeq(line, CHOOSE i \in kept : \A j \in kept : i <= j,
                    CHOOSE i \in kept : \A j \in kept : i >= j)

\* EventBuilder: one that has taken no field.
NoEvent == [data |-> <<>>, event |-> <<>>]

\* One line is worked off; done holds what decode() has found so far.
TakeLine(done, line) ==
  LET field == Trim(line)
      value == Tail(field)
      joined == IF done.has THEN Append(done.current.data, "LF") ELSE done.current.data
  IN IF done.bad \/ ~Utf8(line) THEN [done EXCEPT !.bad = TRUE]
     ELSE CASE field = <<>> /\ done.has ->
                 [done EXCEPT !.events = Append(@, done.current), !.current = NoEvent, !.has = FALSE]
            [] field # <<>> /\ field[1] = "data" ->
                 [done EXCEPT !.current.data = joined \o value, !.has = TRUE]
            [] field # <<>> /\ field[1] = "event" -> [done EXCEPT !.current.event = value]
            [] OTHER -> done

\* The lines are worked off one by one.
TakeLines(begun, lines) ==
  LET done[k \in 0..Len(lines)] == IF k = 0 THEN begun ELSE TakeLine(done[k - 1], lines[k])
  IN done[Len(lines)]

Begun(bad, has, current) == [bad |-> bad, has |-> has, current |-> current, events |-> <<>>]

\* The bytes kept from the chunk before are forgotten.
DecodeAlone(chunk) ==
  TakeLines(Begun(Len(sse.buf \o chunk) > MaxBuffer, sse.has, sse.current), Lines(chunk))

\* SseDecoder::decode on the bytes it kept and a chunk.
DecodeChunk(chunk) ==
  TakeLines(Begun(Len(sse.buf \o chunk) > MaxBuffer, sse.has, sse.current),
            Lines(sse.buf \o chunk))

-----------------------------------------------------------------------------
(* SseStream.                                                              *)

NoStream(text) ==
  [text |-> text, fed |-> 0, buf |-> <<>>, has |-> FALSE, current |-> NoEvent,
   pending |-> <<>>, out |-> <<>>, st |-> "open", overflow |-> FALSE, lost |-> FALSE]

\* Events decoded in one chunk wait until they are asked for.
PopPending ==
  /\ sse.pending # <<>>
  /\ sse' = [sse EXCEPT !.out = Append(@, Head(sse.pending)), !.pending = Tail(@)]

\* A chunk arrives.  After an error the stream is over, and what the chunk held
\* before it is gone.
Feed ==
  /\ sse.st = "open" /\ sse.pending = <<>>
  /\ \E upto \in (sse.fed + 1)..Len(sse.text) :
       LET chunk == SubSeq(sse.text, sse.fed + 1, upto)
           done == DecodeChunk(chunk)
       IN sse' = IF done.bad
                 THEN [sse EXCEPT !.st = "error", !.fed = upto,
                                  !.overflow = Len(sse.buf) + Len(chunk) > MaxBuffer]
                 ELSE [sse EXCEPT !.fed = upto, !.buf = Residue(sse.buf \o chunk), !.has = done.has,
                                  !.current = done.current, !.pending = done.events]

\* finish(): an unfinished line is an error, an event without its blank line
\* is not.
AtEnd ==
  IF sse.buf \notin {<<>>, <<"CR">>} THEN [sse EXCEPT !.st = "error"]
  ELSE [sse EXCEPT !.st = "end", !.out = IF sse.has THEN Append(@, sse.current) ELSE @]

\* The connection ends, at the end of the text or before; or it fails.
Close ==
  /\ sse.st = "open" /\ sse.pending = <<>>
  /\ sse' = AtEnd

Fail ==
  /\ sse.st = "open" /\ sse.pending = <<>>
  /\ sse' = [sse EXCEPT !.st = "error", !.lost = TRUE]

SseInit == sse \in {NoStream(text) : text \in SseTexts}
SseNext == PopPending \/ Feed \/ Close \/ Fail

-----------------------------------------------------------------------------
(* Properties.                                                             *)

\* What a line says.
Blank(line) == Trim(line) = <<>>
Is(line, name) == Trim(line) # <<>> /\ Trim(line)[1] = name
Value(line) == Tail(Trim(line))

\* The data fields since the last blank line.
Datas(lines) ==
  {d \in DOMAIN lines : Is(lines[d], "data") /\ \A k \in d..Len(lines) : ~Blank(lines[k])}

\* The blank lines that complete an event: those with a data field before them.
Closes(lines) == {b \in DOMAIN lines : Blank(lines[b]) /\ Datas(SubSeq(lines, 1, b - 1)) # {}}

\* The types given since the last event.
Types(lines) == {e \in DOMAIN lines : Is(lines[e], "event") /\ \A c \in Closes(lines) : c < e}

\* The values of data fields make one, with line ends between them.
JoinedData(values) ==
  LET upto[k \in 0..Len(values)] ==
        IF k = 0 THEN <<>>
        ELSE IF k = 1 THEN values[1] ELSE Append(upto[k - 1], "LF") \o values[k]
  IN upto[Len(values)]

\* The event that lines which do not end with it tell: its type is the last one
\* given since the event before it, so a type given without data is carried over.
EventTold(lines) ==
  LET datas == InOrder(Datas(lines)) IN
  [data |-> JoinedData([k \in DOMAIN datas |-> Value(lines[datas[k]])]),
   event |-> IF Types(lines) = {} THEN <<>>
             ELSE Value(lines[CHOOSE e \in Types(lines) : \A f \in Types(lines) : f <= e])]

\* The events of a text, told from its lines at once.
EventsOf(lines) ==
  LET ends == InOrder(Closes(lines)) IN
  [k \in DOMAIN ends |-> EventTold(SubSeq(lines, 1, ends[k] - 1))]

Events(text) == EventsOf(Lines(text))

\* However the network cuts a text, the consumer is given the events of its lines,
\* in order, each once and none that is incomplete; one without its blank line
\* only at a clean end; and an error only for bytes that are not UTF-8, a line cut
\* off at the end, more than the buffer holds, or a failed connection.
SseSound ==
  LET text == SubSeq(sse.text, 1, sse.fed)
      given == sse.out \o sse.pending
      closed == Events(Append(Append(text, "LF"), "LF"))
  IN CASE sse.st = "open" -> given = Events(text)
       [] sse.st = "end" -> given = closed /\ Residue(text) \in {<<>>, <<"CR">>}
       [] OTHER -> /\ Len(given) <= Len(Events(text)) /\ given = SubSeq(Events(text), 1, Len(given))
                   /\ \/ sse.lost \/ sse.overflow
                      \/ Residue(text) # <<>>
                      \/ \E k \in DOMAIN Lines(text) : ~Utf8(Lines(text)[k])

=============================================================================
