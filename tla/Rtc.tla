--------------------------------- MODULE Rtc ---------------------------------
(***************************************************************************)
(* The RTC application on quiche: the server (apps/rtc, rtc_server.rs) and  *)
(* its clients (rtc_client.rs), over a network that loses, repeats and      *)
(* delays datagrams.                                                        *)
(*                                                                         *)
(* The server keeps a MediaClient per connection.  A client connects with   *)
(* an Initial packet, is told to retry with a token, asks for a number of   *)
(* frames once the connection is established, reads the frames and closes   *)
(* the connection after the last one.  QUIC itself (quiche, external)       *)
(* carries the request and the frames reliably while both ends live; the    *)
(* Initial packets and the close are datagrams of the model.                *)
(***************************************************************************)
EXTENDS MediaClient, SequencesExt

CONSTANTS Clients,
          Requests,     \* for each client, numbers of frames it may ask for
          Leaving,      \* states in which a client may die
          LateInitials  \* whether the network repeats Initial packets later on

ASSUME RtcAssumption ==
  /\ Requests \in [Clients -> SUBSET Nat]
  /\ Leaving \subseteq {"retrying", "asking", "reading"}
  /\ LateInitials \in BOOLEAN

VARIABLES clients,      \* the server's map: its MediaClients
          server,       \* "up" or "panicked"
          peer,         \* the client processes
          net,          \* for each client, the datagrams on their way
          acks          \* for each client, bytes read that the server does not know of

vars == <<clients, server, peer, net, acks>>

Frames == 1..Max({1} \union UNION {Requests[c] : c \in Clients})

\* Every client has sent its first packet.
Init ==
  /\ clients = <<>> /\ server = "up"
  /\ \E n \in [Clients -> Frames \union {0}] :
       /\ \A c \in Clients : n[c] \in Requests[c]
       /\ peer = [c \in Clients |-> [state |-> "connecting", request_frames |-> n[c],
                                    got |-> [k \in Frames |-> 0], recved_frames |-> 0]]
  /\ net = [c \in Clients |-> {"initial"}]
  /\ acks = [c \in Clients |-> 0]

Known == DOMAIN clients
Up == server = "up"
Sends(c, d) == net' = [net EXCEPT ![c] = @ \union {d}]
Update(c, m) == clients' = [clients EXCEPT ![c] = m]

-----------------------------------------------------------------------------
(* The server.                                                              *)

\* An Initial packet without a token.  Its connection id leads to the connection
\* it began, if that is there already; otherwise the client has to retry.
RecvInitial(c) ==
  /\ Up /\ "initial" \in net[c] /\ c \notin Known
  /\ Sends(c, "retry")
  /\ UNCHANGED <<clients, server, peer, acks>>

\* An Initial packet with the token: accept the connection.  The packet may
\* be delivered once more later on.
RecvToken(c) ==
  /\ Up /\ "token" \in net[c] /\ c \notin Known
  /\ clients' = (c :> New) @@ clients
  /\ net' = [net EXCEPT ![c] = @ \ (IF LateInitials THEN {} ELSE {"token"})]
  /\ UNCHANGED <<server, peer, acks>>

\* The request of an established connection.
RecvRequest(c) ==
  /\ Up /\ c \in Known /\ peer[c].state = "asking"
  /\ Update(c, HandleNewRequest(clients[c], peer[c].request_frames))
  /\ peer' = [peer EXCEPT ![c].state = "reading"]
  /\ UNCHANGED <<server, net, acks>>

\* Acknowledgements: the connection has room again, so its streams are writable.
RecvAcks(c) ==
  /\ Up /\ c \in Known /\ acks[c] > 0
  /\ LET m == [clients[c] EXCEPT !.room = @ + acks[c]]
     IN  \E order \in SetToSeqs(DOMAIN m.partial_sent) : Update(c, HandleAllWritable(m, order))
  /\ acks' = [acks EXCEPT ![c] = 0]
  /\ UNCHANGED <<server, peer, net>>

\* The close of the client: the connection drains.
RecvClose(c) ==
  /\ Up /\ c \in Known /\ "close" \in net[c]
  /\ Update(c, [clients[c] EXCEPT !.draining = TRUE])
  /\ net' = [net EXCEPT ![c] = @ \ {"close"}]
  /\ UNCHANGED <<server, peer, acks>>

\* Nothing is under way between the two ends.
Quiet(c) ==
  /\ c \in Known => /\ AllFramesSent(clients[c]) /\ clients[c].partial_sent = <<>>
                    /\ \A k \in DOMAIN clients[c].taken : clients[c].taken[k] = peer[c].got[k]
  /\ acks[c] = 0

\* Connections whose QUIC timer may end them: they drain, or nothing has come from
\* the client for the idle timeout of 5 s, a time in which every pause of a live
\* exchange is over.
Ending == {c \in Known : \/ clients[c].draining
                         \/ peer[c].state \in {"closed", "left", "gone"}
                         \/ peer[c].state = "reading" /\ Quiet(c)}

\* Mutation: a connection stays while a frame is not written in full.
CollectWritten(after, closed) ==
  LET kept == {c \in Known : c \notin closed \/ after[c].partial_sent # <<>>} IN
  /\ clients' = Restrict(after, kept)
  /\ server' = IF \A c \in Known \ kept : after[c].asked THEN server ELSE "panicked"
  /\ acks' = [c \in Clients |-> IF c \in kept THEN acks[c] ELSE 0]

\* The end of an iteration: closed connections are collected, after finish_request,
\* whose print_stats panics without the time of a request.
Collect(after, closed) ==
  LET kept == Known \ closed IN
  /\ clients' = Restrict(after, kept)
  /\ server' = IF \A c \in closed : after[c].asked THEN server ELSE "panicked"
  /\ acks' = [c \in Clients |-> IF c \in kept THEN acks[c] ELSE 0]

\* The poll timed out: on_timeout of every client.  QUIC timers (external) may
\* fire at any time; those of the connections in closed end them.
Timeout(closed) ==
  /\ Up
  /\ Collect([c \in Known |-> OnTimeout(clients[c])], closed)
  /\ UNCHANGED <<peer, net>>

-----------------------------------------------------------------------------
(* A client.                                                                *)

\* The Retry packet: connect again, with the token.  Later Retry packets are
\* ignored, so the first Initial packet no longer matters.
ClientRetry(c) ==
  /\ peer[c].state = "connecting" /\ "retry" \in net[c]
  /\ peer' = [peer EXCEPT ![c].state = "retrying"]
  /\ net' = [net EXCEPT ![c] = {"token"}]
  /\ UNCHANGED <<clients, server, acks>>

\* The connection is established: the request goes out at once.
ClientAsk(c) ==
  /\ peer[c].state = "retrying" /\ c \in Known
  /\ peer' = [peer EXCEPT ![c].state = "asking"]
  /\ UNCHANGED <<clients, server, net, acks>>

\* Bytes of frame k come.  The end of a stream counts as a frame received; after
\* the last one the connection is closed.
ClientRead(c, k) ==
  /\ peer[c].state = "reading" /\ c \in Known /\ k \in DOMAIN clients[c].taken
  /\ \E n \in 1..(clients[c].taken[k] - peer[c].got[k]) :
       LET got    == peer[c].got[k] + n
           recved == peer[c].recved_frames + (IF got = FRAME_SIZE THEN 1 ELSE 0)
           done   == got = FRAME_SIZE /\ recved = peer[c].request_frames
       IN  /\ peer' = [peer EXCEPT ![c].got[k] = got, ![c].recved_frames = recved,
                                   ![c].state = IF done THEN "closed" ELSE @]
           /\ IF done THEN Sends(c, "close") /\ UNCHANGED acks
                      ELSE acks' = [acks EXCEPT ![c] = @ + n] /\ UNCHANGED net
  /\ UNCHANGED <<clients, server>>

\* The connection has been closed, or the client has waited for the idle timeout:
\* the loop ends.
ClientEnd(c) ==
  /\ \/ peer[c].state = "closed"
     \/ peer[c].state = "reading" /\ Quiet(c)
  /\ peer' = [peer EXCEPT ![c].state = "gone"]
  /\ UNCHANGED <<clients, server, net, acks>>

-----------------------------------------------------------------------------
(* Faults, time and the whole.                                              *)

\* The client dies.
Leave(c) ==
  /\ peer[c].state \in Leaving
  /\ peer' = [peer EXCEPT ![c].state = "left"]
  /\ UNCHANGED <<clients, server, net, acks>>

\* The close is lost; other datagrams are sent again until they arrive.
LoseClose(c) ==
  /\ "close" \in net[c]
  /\ net' = [net EXCEPT ![c] = @ \ {"close"}]
  /\ UNCHANGED <<clients, server, peer, acks>>

Tick ==
  /\ \E c \in Known : clients[c].elapsed <= FRAME_INTERVAL
  /\ clients' = [c \in Known |->
                   [clients[c] EXCEPT !.elapsed = Min({@ + 1, FRAME_INTERVAL + 1})]]
  /\ UNCHANGED <<server, peer, net, acks>>

Server(c) == RecvInitial(c) \/ RecvToken(c) \/ RecvRequest(c) \/ RecvAcks(c) \/ RecvClose(c)
Client(c) == ClientRetry(c) \/ ClientAsk(c) \/ ClientEnd(c) \/ \E k \in Frames : ClientRead(c, k)
Fault(c)  == Leave(c) \/ LoseClose(c)

\* Every client has come and gone.
AllOver == /\ Known = {} /\ \A c \in Clients : peer[c].state \in {"left", "gone"}
           /\ UNCHANGED vars

Next == \/ \E c \in Clients : Server(c) \/ Client(c) \/ Fault(c)
        \/ \E closed \in SUBSET Ending : Timeout(closed)
        \/ Tick \/ AllOver

Spec == Init /\ [][Next]_vars

\* QUIC sends again what is lost, so that packets, acknowledgements and frames
\* come in the end, each client's independently of the others; time passes, and
\* the server's poll finds no event again and again, so that its timers run.
FairSpec ==
  /\ Spec /\ WF_vars(Tick) /\ WF_vars(Timeout({}))
  /\ \A c \in Clients :
       /\ WF_vars(Server(c)) /\ WF_vars(Client(c))
       /\ WF_vars(\E closed \in SUBSET Ending : c \in closed /\ Timeout(closed))

-----------------------------------------------------------------------------
(* Properties.                                                              *)

\* However the frames compete for the room of the connection, no byte of a frame
\* is lost or written twice (partial_sent in send_next_frame and handle_writable).
FramesAccounted == \A c \in Known : Accounted(clients[c])

\* The session of client c.
Session(c) == IF c \in Known THEN clients[c] ELSE New
Schedule(c) == INSTANCE FrameSchedule
  WITH wanted <- Session(c).request_frames, given <- FramesGiven(Session(c)),
       gap <- Session(c).elapsed

\* "30fps. 1 frame every 33ms.": each client gets the frames it asked for, one
\* after the other and never sooner, whatever the other clients, the room on the
\* connection and the timers do.
KeepsSchedule ==
  /\ \A c \in Clients : Schedule(c)!Init
  /\ [][\A c \in Clients : Schedule(c)!Next \/ UNCHANGED Schedule(c)!vars]_vars

\* A client that stays gets all the frames it asked for, if they are fewer than
\* the limit on streams.
RequestsAreServed ==
  \A c \in Clients :
    peer[c].state = "reading" /\ peer[c].request_frames \in 1..(MAX_STREAMS - 1)
      ~> peer[c].recved_frames = peer[c].request_frames \/ peer[c].state = "left"

\* "Garbage collect closed connections.": no connection stays in the map, whether
\* its client closes it, loses the close on the way, waits in vain or dies.
SessionsEnd == \A c \in Clients : c \in Known ~> c \notin Known

\* "Stream's response is fully writted into QUIC lib." (the comment in
\* finish_request, called for every connection that is collected).
FinishedIsWritten ==
  [][\A c \in Known : (c \notin DOMAIN clients' \/ server' # server) =>
       clients[c].asked /\ AllFramesSent(clients[c]) /\ clients[c].partial_sent = <<>>]_vars
=============================================================================
