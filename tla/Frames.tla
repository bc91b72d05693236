------------------------------- MODULE Frames -------------------------------
(***************************************************************************)
(* The parser of an AWS event stream (http/eventstream.rs): frames of bytes *)
(* that arrive in chunks cut anywhere, some of them corrupted, read by a   *)
(* consumer that goes on after an error.                                   *)
(***************************************************************************)
EXTENDS Integers, Sequences, FiniteSets

CONSTANTS
  Streams,    \* what a provider may send: sequences of frames [kind, end]
  MinFrame,   \* MIN_FRAME_SIZE
  MaxFrames   \* EVENT_STREAM_BUFFER_MAX_BYTES

FrameKinds == {"event", "corrupt", "other", "bad_length"}

\* A frame begins where the one before it ends, and is MinFrame long at least.
ASSUME FramesAssumption ==
  /\ MinFrame \in Nat \ {0} /\ MaxFrames \in Nat
  /\ Streams \subseteq Seq([kind : FrameKinds, end : Nat])
  /\ \A stream \in Streams : \A k \in 1..Len(stream) :
       /\ MinFrame <= stream[k].end
       /\ \A j \in 1..(k - 1) : stream[j].end + MinFrame <= stream[k].end

VARIABLE
  frames      \* the parser, see NoFrames

\* The buffer holds buf bytes, beginning with those of frame number next; the
\* connection has delivered seen bytes.
NoFrames(stream) ==
  [stream |-> stream, next |-> 1, buf |-> 0, seen |-> 0, inner |-> "open", done |-> FALSE,
   ended |-> FALSE, chunks |-> <<>>, errors |-> 0, overflow |-> FALSE]

\* Where a frame begins, and how long it is.
Start(k) == IF k = 1 THEN 0 ELSE frames.stream[k - 1].end
Size(k) == frames.stream[k].end - Start(k)
Total == Start(Len(frames.stream) + 1)

\* Frames whose length field is out of range: nobody knows where they end.
InRange(frame) == frame.kind # "bad_length"

\* What a whole frame gives.  A wrong checksum or headers that do not parse, an
\* exception, text that is not UTF-8 and a payload parse_event refuses are
\* errors; other message types and events without a chunk give nothing.
Gives(frame) ==
  CASE frame.kind = "event" -> "chunk"
    [] frame.kind = "corrupt" -> "error"
    [] OTHER -> "nothing"

\* Errors are told apart up to two.
Erring == [frames EXCEPT !.errors = IF @ < 2 THEN @ + 1 ELSE @]

AtFrame == frames.buf >= MinFrame
This == frames.stream[frames.next]

ReportLength ==
  /\ ~frames.ended /\ AtFrame /\ ~InRange(This)
  /\ frames' = Erring

TakeFrame ==
  /\ ~frames.ended /\ AtFrame /\ InRange(This) /\ frames.buf >= Size(frames.next)
  /\ LET from == IF Gives(This) = "error" THEN Erring ELSE frames IN
     frames' = [from EXCEPT !.next = @ + 1, !.buf = @ - Size(frames.next),
                            !.chunks = IF Gives(This) = "chunk" THEN Append(@, frames.next) ELSE @]

\* No whole frame is in the buffer.
NeedsMore == ~frames.ended /\ (AtFrame => InRange(This) /\ frames.buf < Size(frames.next))

\* After the end: what is left over is an error, once.
FinishFrames ==
  /\ NeedsMore /\ frames.done
  /\ frames' = IF frames.buf > 0 THEN [Erring EXCEPT !.buf = 0] ELSE [frames EXCEPT !.ended = TRUE]

\* A chunk; one the buffer has no room for is dropped and ends the stream.
ReceiveChunk ==
  /\ NeedsMore /\ ~frames.done /\ frames.inner = "open"
  /\ \E n \in 1..(Total - frames.seen) :
       frames' = IF frames.buf + n > MaxFrames
                 THEN [Erring EXCEPT !.done = TRUE, !.overflow = TRUE]
                 ELSE [frames EXCEPT !.buf = @ + n, !.seen = @ + n]

\* The connection fails: an error, and the stream is polled again.
ReceiveError ==
  /\ NeedsMore /\ ~frames.done /\ frames.inner = "open"
  /\ frames' = [Erring EXCEPT !.inner = "failed"]

\* Left over bytes are not looked at.
ReceiveEndSilent ==
  /\ NeedsMore /\ ~frames.done
  /\ frames' = [frames EXCEPT !.done = TRUE, !.ended = TRUE]

ReceiveEnd ==
  /\ NeedsMore /\ ~frames.done
  /\ frames' = [frames EXCEPT !.done = TRUE, !.ended = (frames.buf = 0)]

FramesInit == frames \in {NoFrames(stream) : stream \in Streams}
FramesNext == ReportLength \/ TakeFrame \/ FinishFrames \/ ReceiveChunk \/ ReceiveError \/ ReceiveEnd

-----------------------------------------------------------------------------
(* Properties.                                                             *)

\* However the bytes are cut, every event frame that has arrived whole is given
\* once, in order and none left out, and a corrupted one costs only itself; bytes
\* left over at the end are never passed over in silence.
FramesSound ==
  LET stream == frames.stream
      whole == {k \in DOMAIN stream : stream[k].end <= frames.seen}
      events == {k \in whole : Gives(stream[k]) = "chunk" /\ \A j \in 1..k : InRange(stream[j])}
      given == {frames.chunks[i] : i \in DOMAIN frames.chunks}
  IN /\ given \subseteq events
     /\ \A i, j \in DOMAIN frames.chunks : i < j => frames.chunks[i] < frames.chunks[j]
     /\ \A k \in events : (\E g \in given : k < g) => k \in given
     /\ frames.ended => /\ given = events
                        /\ frames.errors = 0 => frames.seen \in {0} \cup {stream[k].end : k \in whole}
=============================================================================
