----------------------------- MODULE MediaClient -----------------------------
(***************************************************************************)
(* A client as the RTC server sees it (apps/rtc, rtc_server.rs,             *)
(* MediaClient), and the operations on it.                                  *)
(*                                                                         *)
(* A frame is named by its number; its stream is number*4 + 1.  Of the QUIC *)
(* connection (quiche, external) the model keeps how many bytes it takes    *)
(* now (room: the congestion window and the flow control of the client) and *)
(* how many bytes of each frame it has taken.                               *)
(***************************************************************************)
EXTENDS Integers, Sequences, FiniteSetsExt, Functions, TLC

CONSTANTS FRAME_INTERVAL, \* 33 ms
          FRAME_SIZE,     \* args.frame_size
          MAX_STREAMS,    \* initial_max_streams_bidi of the client, 9000
          Window          \* what an idle connection takes

ASSUME MediaAssumption ==
  /\ FRAME_INTERVAL \in Nat /\ FRAME_SIZE \in Nat \ {0}
  /\ MAX_STREAMS \in Nat \ {0} /\ Window \in Nat \ {0}

\* MediaClient::new.  asked: stats.start_time is there.  elapsed: the time since
\* last_frame_time; more than FRAME_INTERVAL is all the same.
New == [request_frames |-> 0, frame_count |-> 0, elapsed |-> 0, asked |-> FALSE,
        partial_sent |-> <<>>, draining |-> FALSE, room |-> Window, taken |-> <<>>]

AllFramesSent(m) == m.frame_count = m.request_frames

\* stream_send on the stream of frame k with size bytes: the connection takes what
\* it has room for (Error::Done when that is nothing).
StreamSend(m, k, size) ==
  LET written == Min({size, m.room})
  IN  [m EXCEPT !.room = @ - written, !.taken[k] = @ + written]

\* Mutation: a frame that is put on the connection only in part is not remembered.
SendNextFrameForgetting(m) ==
  LET k    == m.frame_count + 1
      next == [m EXCEPT !.frame_count = k, !.taken = Append(@, 0)]
  IN  IF AllFramesSent(m) THEN m
      ELSE IF k >= MAX_STREAMS THEN next
      ELSE [StreamSend(next, k, FRAME_SIZE) EXCEPT !.elapsed = 0]

\* send_next_frame.  The first frame is on the second stream, so that the stream
\* of frame MAX_STREAMS is beyond the limit: stream_send fails, and the frame is
\* counted but never sent.
SendNextFrame(m) ==
  LET k    == m.frame_count + 1
      next == [m EXCEPT !.frame_count = k, !.taken = Append(@, 0)]
      sent == StreamSend(next, k, FRAME_SIZE)
      rest == FRAME_SIZE - sent.taken[k]
  IN  IF AllFramesSent(m) THEN m
      ELSE IF k >= MAX_STREAMS THEN next
      ELSE [sent EXCEPT !.elapsed = 0,
                        !.partial_sent = IF rest > 0 THEN (k :> rest) @@ @ ELSE @]

\* Mutation: the frame counts as sent at the instant it was due.
OnTimeoutBurst(m) ==
  IF m.elapsed > FRAME_INTERVAL
  THEN [SendNextFrame(m) EXCEPT !.elapsed = m.elapsed]
  ELSE m

\* on_timeout: send the next frame if FRAME_INTERVAL - elapsed is negative.
OnTimeout(m) ==
  IF ~AllFramesSent(m) /\ m.elapsed > FRAME_INTERVAL THEN SendNextFrame(m) ELSE m

\* handle_new_request for "GetN n".
HandleNewRequest(m, n) ==
  SendNextFrame([m EXCEPT !.asked = TRUE, !.request_frames = n])

\* Mutation: the rest of a frame is dropped once some of it could be written.
HandleWritableOnce(m, k) ==
  IF k \notin DOMAIN m.partial_sent THEN m
  ELSE LET sent == StreamSend(m, k, m.partial_sent[k])
       IN  IF sent.room = m.room THEN m
           ELSE [sent EXCEPT !.partial_sent = Restrict(@, DOMAIN @ \ {k})]

\* handle_writable on the stream of frame k.
HandleWritable(m, k) ==
  IF k \notin DOMAIN m.partial_sent THEN m
  ELSE LET sent == StreamSend(m, k, m.partial_sent[k])
           rest == m.partial_sent[k] - (sent.taken[k] - m.taken[k])
       IN  [sent EXCEPT !.partial_sent = IF rest = 0 THEN Restrict(@, DOMAIN @ \ {k})
                                                     ELSE [@ EXCEPT ![k] = rest]]

\* The loop over conn.writable(), in whatever order the streams are listed.
HandleAllWritable(m, order) ==
  LET upto[i \in 0..Len(order)] ==
        IF i = 0 THEN m ELSE HandleWritable(upto[i-1], order[i])
  IN  upto[Len(order)]

\* Frames the connection has accepted, wholly or in part.
FramesGiven(m) == Min({m.frame_count, MAX_STREAMS - 1})

\* What the connection has taken of a frame and what waits for room make up the
\* frame: no byte of it is lost or sent twice (send_next_frame, handle_writable).
Accounted(m) ==
  /\ DOMAIN m.partial_sent \subseteq 1..FramesGiven(m)
  /\ \A k \in 1..FramesGiven(m) :
       IF k \in DOMAIN m.partial_sent
       THEN m.partial_sent[k] > 0 /\ m.taken[k] + m.partial_sent[k] = FRAME_SIZE
       ELSE m.taken[k] = FRAME_SIZE
=============================================================================
