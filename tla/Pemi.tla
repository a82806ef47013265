-------------------------------- MODULE Pemi --------------------------------
(***************************************************************************)
(* The proxy (pemi/src/lib.rs, PEMI) and its event loop (bin/main.rs): the  *)
(* table of connections, the heap of access times that finds the idle ones, *)
(* the tracking of QUIC handshakes, and the retransmission tasks.           *)
(*                                                                         *)
(* A datagram is the sequence of the kinds of its QUIC packets (module      *)
(* QuicTracking; module QuicDatagram reads its octets).  What a connection  *)
(* does with a datagram is the subject of module Conn: here it may set or   *)
(* clear the timer of the connection and find some losses.                  *)
(*                                                                         *)
(* hs is the environment: how far the handshake between the two ends of a   *)
(* pair of addresses has come on the wire, which PEMI may have missed.      *)
(***************************************************************************)
EXTENDS QuicTracking, FiniteSets, Functions

CONSTANTS Pairs,               \* pairs of addresses, that is ConnIds
          IDLE_TIMEOUT,        \* 120 s
          RetransRateLimit,    \* 0.1, a ratio <<p, q>>
          RATE_LIMIT_PKTS,     \* 100: no limit up to so many packets
          ClientDatagrams, ServerDatagrams,
          Delays,              \* timers set by connections, from now
          MaxLosses,           \* losses found by one event
          MaxTime, MaxPkts, LastArrival

ASSUME PemiAssumption ==
  /\ IDLE_TIMEOUT \in Nat \ {0}
  /\ RetransRateLimit \in Nat \X (Nat \ {0}) /\ RATE_LIMIT_PKTS \in Nat
  /\ Delays \subseteq Nat \ {0} /\ MaxLosses \in Nat
  /\ MaxTime \in Nat /\ MaxPkts \in Nat /\ LastArrival \in Nat

VARIABLES now,
          conns,               \* the table of connections
          access_times,        \* heap of pairs <<time, ConnId>>
          retrans_tasks,       \* tasks of this iteration of the loop: the
                               \* connection and its number of packets
          pkts, retrans_pkts,  \* stats
          proxy_only,          \* option: forward and do nothing else
          pc,                  \* what the loop does next, or how it ended
          hs,                  \* environment: progress of the handshakes
          odd,                 \* history: pairs PEMI has not seen the ordinary
                               \* course of a connection of
          ended_by             \* history: the pair of the datagram that ended the loop

vars == <<now, conns, access_times, retrans_tasks, pkts, retrans_pkts, proxy_only, pc, hs,
          odd, ended_by>>

None == -1                     \* no timer
-----------------------------------------------------------------------------
(* Tracking of the handshake: quic_conn_process.                            *)

\* A connection: end is taken for its client, recorded is whether the queue to the
\* server has had a packet, answered whether the server RTT is measured.
NewConn(end) ==
  [state |-> "Initialed", client |-> end, last_access |-> now, timer |-> None,
   recorded |-> FALSE, answered |-> FALSE]

\* The table cs with connection c for the pair p.
Insert(cs, p, c) == [q \in DOMAIN cs \union {p} |-> IF q = p THEN c ELSE cs[q]]

\* quic_conn_process on the connection of the pair p, if there is one.
Track(p, end, datagram) ==
  LET known == p \in DOMAIN conns
  IN  QuicConnProcess(IF known THEN conns[p].state ELSE "None",
                      known /\ end = conns[p].client, datagram)

\* The table after it: a connection is created, or accessed unless the datagram is
\* empty.
Tracked(p, end, datagram) ==
  LET state == Track(p, end, datagram).state
      known == p \in DOMAIN conns
  IN  CASE datagram = <<>> \/ (~known /\ state = "None") -> conns
        [] datagram # <<>> /\ ~known /\ state # "None" ->
             Insert(conns, p, [NewConn(end) EXCEPT !.state = state])
        [] OTHER -> [conns EXCEPT ![p].state = state, ![p].last_access = now]

-----------------------------------------------------------------------------
(* Idle connections.                                                        *)

\* Mutation: strictly longer than the timeout.
DueStrictly(at) == {e \in at : now - e[1] > IDLE_TIMEOUT}

\* The entries of the heap at that remove_idle_conns looks into.
Due(at) == {e \in at : now - e[1] >= IDLE_TIMEOUT}

\* Mutation: the time in the heap is taken for the last access.
IdleConnsByHeap(cs, at) == {e[2] : e \in Due(at)}

\* The connections of the table cs among them that are idle indeed.
IdleConns(cs, at) == {p \in {e[2] : e \in Due(at)} : now - cs[p].last_access >= IDLE_TIMEOUT}

\* remove_idle_conns: idle connections leave both the table and the heap, the
\* other ones that were due are put back under the current time.
WithoutIdle(cs, at) == Restrict(cs, DOMAIN cs \ IdleConns(cs, at))

\* Mutation: the old entry is not popped.
AccessTimesAfterKeeping(cs, at) ==
  {e \in at : e[2] \notin IdleConns(cs, at)}
    \union {<<now, e[2]>> : e \in {d \in Due(at) : d[2] \notin IdleConns(cs, at)}}

\* The heap after remove_idle_conns.
AccessTimesAfter(cs, at) ==
  (at \ Due(at)) \union {<<now, e[2]>> : e \in {d \in Due(at) : d[2] \notin IdleConns(cs, at)}}

-----------------------------------------------------------------------------
(* The event loop.                                                          *)

\* What the environment may send: the handshake starts with the client's Initial
\* packet, the server answers with its own, and only then the rest is sent.
Opens(datagram) == datagram # <<>> /\ datagram[1] = "Initial"
Starts(end, datagram) == end = "client" /\ Opens(datagram)

MaySend(p, end, datagram) ==
  \/ Starts(end, datagram)
  \/ hs[p] = "answered"
  \/ end = "server" /\ Opens(datagram) /\ hs[p] = "started"

\* A datagram out of the ordinary course: an empty one, one that does not parse, or a
\* handshake packet of a connection PEMI does not know, because PEMI was started
\* later or took it for idle.
Odd(p, end, datagram) ==
  \/ datagram = <<>> \/ \E i \in DOMAIN datagram : datagram[i] \in {"Cut", "LongCid"}
  \/ Opens(datagram) /\ "Short" \in Range(datagram)
  \/ /\ ~Starts(end, datagram) /\ p \notin DOMAIN conns
     /\ Range(datagram) \intersect {"Initial", "Handshake"} # {}

HandshakeGoesOn(p, end, datagram) ==
  hs' = [hs EXCEPT ![p] =
           IF end = "client" /\ Opens(datagram) /\ p \notin DOMAIN conns THEN "started"
           ELSE IF end = "server" /\ "Handshake" \in Range(datagram) THEN "answered"
           ELSE @]

\* Mutation: nothing is recorded for the measurement of the server RTT.
ProcessUdpPacketUnrecorded(c, end, timer) ==
  IF proxy_only THEN c
  ELSE [c EXCEPT !.timer = timer, !.answered = @ \/ end # c.client]

\* process_udp_packet, as far as it concerns this module: the first packet of the
\* server is compared with the packets of the client.
ProcessUdpPacket(c, end, timer) ==
  IF proxy_only THEN c
  ELSE [c EXCEPT !.timer = timer,
                 !.recorded = @ \/ end = c.client,
                 !.answered = @ \/ end # c.client]

\* The first packet of the server, from which the server RTT is measured.
FirstAnswer(c, end) == ~proxy_only /\ end # c.client /\ ~c.answered

Timers == {None} \union {now + d : d \in Delays}

\* process_packet
ProcessPacket(p, end, datagram) ==
  LET res  == Track(p, end, datagram).res
      read == Tracked(p, end, datagram)
      at   == IF p \in DOMAIN read \ DOMAIN conns
              THEN access_times \union {<<now, p>>} ELSE access_times
  IN
  /\ pc = "select"
  /\ now <= LastArrival /\ pkts < MaxPkts
  /\ MaySend(p, end, datagram)
  /\ HandshakeGoesOn(p, end, datagram)
  /\ odd' = IF Odd(p, end, datagram) THEN odd \union {p} ELSE odd
  /\ pkts' = pkts + 1
  /\ \/ \* not QUIC: forwarded and forgotten
        /\ res \in {"InvalidState", "MayNotQUIC"}
        /\ conns' = read /\ access_times' = at
        /\ UNCHANGED <<retrans_tasks, pc>>
     \/ \* the error ends main(), a panic the process
        /\ res \in {"BufferTooShort"} \union Panics
        /\ pc' = IF res = "BufferTooShort" THEN "Exited" ELSE res
        /\ conns' = read /\ access_times' = at
        /\ UNCHANGED retrans_tasks
     \/ \* the connection of the datagram is missing
        /\ res = "Ok" /\ p \notin DOMAIN read
        /\ pc' = "NoConnection"
        /\ UNCHANGED <<conns, access_times, retrans_tasks>>
     \/ \* the oldest packet of the queue to the server is missing
        /\ res = "Ok" /\ p \in DOMAIN read
        /\ FirstAnswer(read[p], end) /\ ~read[p].recorded
        /\ pc' = "NothingRecorded"
        /\ conns' = read /\ access_times' = at
        /\ UNCHANGED retrans_tasks
     \/ /\ res = "Ok" /\ p \in DOMAIN read
        /\ FirstAnswer(read[p], end) => read[p].recorded
        /\ \E timer \in Timers, losses \in 0..MaxLosses :
             LET cs == [read EXCEPT ![p] = ProcessUdpPacket(@, end, timer)]
             IN  /\ proxy_only => losses = 0
                 /\ retrans_tasks' = {[conn |-> p, pkts |-> n] : n \in {losses} \ {0}}
                 /\ pc' = IF losses = 0 THEN "select" ELSE "retrans"
                 /\ conns' = WithoutIdle(cs, at)
                 /\ access_times' = AccessTimesAfter(cs, at)
  /\ ended_by' = IF pc' \in {"select", "retrans"} THEN {} ELSE {p}
  /\ UNCHANGED <<now, retrans_pkts, proxy_only>>

\* The timer of the connection of p has fired.
TimerFires(p) == conns[p].timer # None /\ conns[p].timer <= now

\* timeout() is zero: the oldest entry of the heap is due, or a connection's timer.
TimeoutIsZero == Due(access_times) # {} \/ \E p \in DOMAIN conns : TimerFires(p)

\* process_timeout: idle connections are removed, then the connections whose
\* timer fired find their losses.
ProcessTimeout ==
  /\ pc = "select" /\ TimeoutIsZero
  /\ LET cs    == WithoutIdle(conns, access_times)
         fired == {p \in DOMAIN cs : TimerFires(p)}
     IN  \E timers \in [fired -> Timers], losses \in [fired -> 0..MaxLosses] :
           /\ conns' = [p \in DOMAIN cs |->
                          IF p \in fired THEN [cs[p] EXCEPT !.timer = timers[p]] ELSE cs[p]]
           /\ retrans_tasks' = {[conn |-> p, pkts |-> losses[p]] : p \in {q \in fired : losses[q] > 0}}
  /\ access_times' = AccessTimesAfter(conns, access_times)
  /\ pc' = IF retrans_tasks' = {} THEN "select" ELSE "retrans"
  /\ UNCHANGED <<now, pkts, retrans_pkts, proxy_only, hs, odd, ended_by>>

\* Mutation: the limit is looked at once per task.
LimitedWithinTask(retrans) ==
  retrans_pkts * RetransRateLimit[2] > pkts * RetransRateLimit[1] /\ pkts > RATE_LIMIT_PKTS

\* match_retrans_limit, applied only after the first RATE_LIMIT_PKTS packets.
Limited(retrans) ==
  retrans * RetransRateLimit[2] > pkts * RetransRateLimit[1] /\ pkts > RATE_LIMIT_PKTS

\* process_retrans_task for one of the tasks: its packets, unless the limit is
\* reached, are sent and recorded with the connection, whose timer may change.
\* The tasks of process_timeout come in the order of a hash map: any.
ProcessRetransTask(task) ==
  LET retrans[i \in 0..task.pkts] ==
        IF i = 0 THEN retrans_pkts
        ELSE IF Limited(retrans[i-1]) THEN retrans[i-1] ELSE retrans[i-1] + 1
  IN  /\ pc = "retrans"
      /\ retrans_tasks' = retrans_tasks \ {task}
      /\ retrans_pkts' = retrans[task.pkts]
      /\ IF retrans_pkts' > retrans_pkts /\ task.conn \notin DOMAIN conns
         THEN pc' = "NoConnection" /\ ended_by' = {task.conn} /\ UNCHANGED conns
         ELSE /\ pc' = IF retrans_tasks' = {} THEN "select" ELSE "retrans"
              /\ \/ UNCHANGED conns
                 \/ /\ retrans_pkts' > retrans_pkts
                    /\ \E timer \in Timers : conns' = [conns EXCEPT ![task.conn].timer = timer]
              /\ UNCHANGED ended_by
      /\ UNCHANGED <<now, access_times, pkts, proxy_only, hs, odd>>

Init ==
  /\ now = 0
  /\ conns = <<>> /\ access_times = {} /\ retrans_tasks = {}
  /\ pkts = 0 /\ retrans_pkts = 0
  /\ proxy_only \in BOOLEAN
  /\ pc = "select"
  /\ hs \in [Pairs -> {"none", "started", "answered"}]
  /\ odd = {} /\ ended_by = {}

\* Mutation: the heap does not wake the loop up, only the timer of a connection does.
TickForConns ==
  /\ pc = "select" /\ ~TimeoutIsZero
  /\ now < MaxTime /\ \E p \in DOMAIN conns : conns[p].timer # None
  /\ now' = now + 1
  /\ UNCHANGED <<conns, access_times, retrans_tasks, pkts, retrans_pkts, proxy_only, pc, hs,
                 odd, ended_by>>

\* The loop looks at the timers before it waits: none is overdue when time passes.
Tick ==
  /\ pc = "select" /\ ~TimeoutIsZero
  /\ now < MaxTime
  /\ now' = now + 1
  /\ UNCHANGED <<conns, access_times, retrans_tasks, pkts, retrans_pkts, proxy_only, pc, hs,
                 odd, ended_by>>

Packet ==
  \E p \in Pairs :
    \/ \E datagram \in ClientDatagrams : ProcessPacket(p, "client", datagram)
    \/ \E datagram \in ServerDatagrams : ProcessPacket(p, "server", datagram)
Retransmission == \E task \in retrans_tasks : ProcessRetransTask(task)

Next == Tick \/ Packet \/ ProcessTimeout \/ Retransmission

Spec == Init /\ [][Next]_vars

\* Time passes, and the loop serves its timers and its tasks.
FairSpec == Spec /\ WF_vars(Tick \/ ProcessTimeout \/ Retransmission)

-----------------------------------------------------------------------------
(* Properties.                                                              *)

\* The heap and the table agree: every connection has exactly one entry and every
\* entry a connection, which remove_idle_conns expects ("the connection must
\* exist") and which timeout() relies on when it takes an empty heap for no
\* connection.
HeapMatchesConns ==
  /\ {e[2] : e \in access_times} = DOMAIN conns
  /\ \A d, e \in access_times : d[2] = e[2] => d = e

\* In the ordinary course the connection of a retransmission task is still there when
\* the task is processed, though process_packet removes idle connections in
\* between (record_retrans_packet expects it).
TaskConnsExist == \A task \in retrans_tasks : task.conn \in DOMAIN conns \union odd

\* A connection is forgotten less than two idle timeouts after its last packet,
\* although the heap is not updated when packets come.
ForgottenInTime == \A p \in DOMAIN conns : now - conns[p].last_access < 2 * IDLE_TIMEOUT

\* A connection that had a packet within the idle timeout is never removed.
ActiveConnsStay ==
  [][\A p \in DOMAIN conns \ DOMAIN conns' : now - conns[p].last_access >= IDLE_TIMEOUT]_vars

\* Past the first RATE_LIMIT_PKTS packets, retransmissions exceed the limit by at
\* most one packet at the time they are sent, even within one task.
RetransRateIsLimited ==
  [][pkts > RATE_LIMIT_PKTS /\ retrans_pkts' > retrans_pkts =>
       (retrans_pkts' - 1) * RetransRateLimit[2] <= pkts * RetransRateLimit[1]]_vars


\* "when received the first server packet, the client queue must have packets(the
\* 1st is the Initial packet)": the comment on the unwrap in process_udp_packet.
FirstAnswerFindsInitial == pc = "NothingRecorded" => ended_by \subseteq odd

\* Once no packet comes any more all connections are removed.
IdleConnsAreRemoved == []<>(DOMAIN conns = {} \/ pc \notin {"select", "retrans"})
=============================================================================
