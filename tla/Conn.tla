-------------------------------- MODULE Conn --------------------------------
(***************************************************************************)
(* One connection (pemi/src/conn.rs, Conn) and what the event loop does     *)
(* with it: packets from the client and the server, the timer, the ICMP     *)
(* calibration of the RTT, and the retransmissions.                         *)
(*                                                                         *)
(* The queue of packets to the client is the PacketQueue of that module; it *)
(* is called with whatever client_rtt is at that point of the handler.  Of  *)
(* the queue of packets to the server only the oldest timestamp and the     *)
(* length are ever read.  The verdict of the congestion controller on a     *)
(* server packet (too fast or not) is an input.                             *)
(*                                                                         *)
(* One iteration of the event loop is a handler (packet, timer), then the   *)
(* making of the retransmission task, then the retransmissions: pc says     *)
(* which comes next, and nothing else happens in between.                   *)
(***************************************************************************)
EXTENDS Flowlet, FiniteSetsExt

CONSTANTS FLOWLET_MAX_PKTS, WHEN_MEASURE_ELICITING_THRESHOLD, QUEUE_LIMIT, INIT_INTERVAL,
          FlowletIntervalFactor, FlowletEndFactor, Rtts, LastArrival,
          MaxTime, MaxPackets, MaxReplies,
          DELAY_kGranularity,     \* 1 ms
          DELAY_kPacketThreshold, \* 3
          ClientSizes,            \* sizes of the packets from the client
          ServerSizes,            \* and from the server
          Verdicts,               \* verdicts of the congestion controller
          CalibrationSamples,     \* RTTs measured by ICMP
          MaxServerPackets        \* bound on the packets from the server

ASSUME ConnAssumption ==
  /\ DELAY_kGranularity \in Nat /\ DELAY_kPacketThreshold \in Nat \ {0}
  /\ ClientSizes \subseteq Nat /\ ServerSizes \subseteq Nat
  /\ Verdicts \subseteq BOOLEAN
  /\ CalibrationSamples \subseteq Nat \ {0}
  /\ MaxServerPackets \in Nat

VARIABLES now, packets, flowlets, detected_loss, processed, reply_nums,
          last_packet_time, smoothed_interval, eliciting_threshold, panicked,
          state,                  \* "Initialed" or "Handshaked"
          last_access,            \* when the last packet came
          client_rtt, server_rtt, \* zero: not measured yet
          to_server_queue,        \* timestamps of the packets of the other queue
          to_server_pkt_num,      \* packets from the client
          min_pkt_size, server_bytes, client_bytes,
          dominant_direction, last_dominant_check,
          overspeed, overspeed_begin,
          delayed_ack_queue,      \* client packets held back
          last_rtt_calibration,
          pc,                     \* what the event loop does next
          retrans_task,           \* numbers of the packets to retransmit
          forwarded,              \* history: client packets, as they were forwarded
          resent                  \* history: pairs of a packet and its retransmission

queueVars  == <<packets, flowlets, detected_loss, processed, reply_nums,
                last_packet_time, smoothed_interval, eliciting_threshold, panicked>>
measureVars == <<min_pkt_size, server_bytes, client_bytes, dominant_direction,
                 last_dominant_check>>
ackVars    == <<delayed_ack_queue, forwarded>>
speedVars  == <<overspeed, overspeed_begin>>
loopVars   == <<pc, retrans_task, resent>>
vars == <<now, queueVars, state, last_access, client_rtt, server_rtt, to_server_queue,
          to_server_pkt_num, measureVars, speedVars, ackVars, last_rtt_calibration, loopVars>>

\* The to-client queue, called with the given RTT.
Q(reply_rtt) == INSTANCE PacketQueue

None == -1      \* Option::None for an instant
MaxSize == 100  \* usize::MAX: larger than any packet

-----------------------------------------------------------------------------
(* RTT and dominant direction.                                              *)

\* Mutation: fractions of a tick are cut off.
UpdatedRttTruncated(rtt, samples) ==
  LET upto[i \in 0..Len(samples)] ==
        IF i = 0 THEN rtt
        ELSE IF upto[i-1] = 0 THEN samples[i]
        ELSE (upto[i-1] * 7) \div 8 + samples[i] \div 8
  IN  upto[Len(samples)]

\* update_client_rtt with each sample in turn.
UpdatedRtt(rtt, samples) ==
  LET upto[i \in 0..Len(samples)] ==
        IF i = 0 THEN rtt
        ELSE IF upto[i-1] = 0 THEN samples[i]
        ELSE MulF64(upto[i-1], <<7, 8>>) + MulF64(samples[i], <<1, 8>>)
  IN  upto[Len(samples)]

\* The client RTT once the first packets of both sides have been compared.
FirstClientRtt ==
  IF client_rtt = 0 /\ server_rtt # 0 THEN Since(now, packets[1].timestamp) ELSE client_rtt

\* measure_dominant_direction, with rtt the end-to-end RTT: the direction is
\* checked when that time has passed since the last check.
MeasureDominantDirection(from, size, rtt) ==
  LET smaller == size < min_pkt_size
      excess(side) == IF from = side /\ ~smaller THEN size - min_pkt_size ELSE 0
      client  == client_bytes + excess("client")
      server  == server_bytes + excess("server")
      check   == now - last_dominant_check >= rtt
  IN  /\ min_pkt_size' = IF smaller THEN size ELSE min_pkt_size
      /\ client_bytes' = IF check THEN 0 ELSE client
      /\ server_bytes' = IF check THEN 0 ELSE server
      /\ last_dominant_check' = IF check THEN now ELSE last_dominant_check
      /\ dominant_direction' =
           CASE check /\ client * 2 < server -> "ToClient"
             [] check /\ server * 2 < client -> "ToServer"
             [] OTHER -> dominant_direction

-----------------------------------------------------------------------------
(* Delayed acknowledgements.                                                *)

\* The thresholds grow once the sender has been too fast, since begin, for an RTT.
Aggressive(ack, begin) == now - begin > ack.e2e_rtt
PktThresh(ack, begin)  == IF Aggressive(ack, begin) THEN DELAY_kPacketThreshold * 2
                                                    ELSE DELAY_kPacketThreshold
TimeThresh(ack, begin) == Max({MulF64(ack.e2e_rtt, IF Aggressive(ack, begin) THEN <<5, 4>> ELSE <<9, 8>>),
                               DELAY_kGranularity})

\* Mutation: the queue is sent from its back.
SentAcksReversed(acks, tooFast, begin) ==
  LET n == Len(acks) IN
  IF ~tooFast THEN acks
  ELSE IF n >= 2 /\ (\/ n > PktThresh(acks[1], begin)
                     \/ now - acks[1].forward_ts > TimeThresh(acks[1], begin))
  THEN [i \in 1..n |-> acks[n + 1 - i]]
  ELSE <<>>

\* Mutation: nothing is sent when the sender is no longer too fast.
SentAcksOnlyIfFast(acks, tooFast, begin) ==
  LET n == Len(acks) IN
  IF tooFast /\ n >= 2 /\ (\/ n > PktThresh(acks[1], begin)
                           \/ now - acks[1].forward_ts > TimeThresh(acks[1], begin))
  THEN <<acks[n]>> \o SubSeq(acks, 1, n - 1)
  ELSE <<>>

\* What check_delayed_acks sends of the queue acks: all of them or none.  When
\* the sender is too fast the last one goes first.
SentAcks(acks, tooFast, begin) ==
  LET n == Len(acks) IN
  IF ~tooFast THEN acks
  ELSE IF n >= 2 /\ (\/ n > PktThresh(acks[1], begin)
                     \/ now - acks[1].forward_ts > TimeThresh(acks[1], begin))
  THEN <<acks[n]>> \o SubSeq(acks, 1, n - 1)
  ELSE <<>>

\* Forward the packets first, then check_delayed_acks.
CheckDelayedAcks(first, acks, tooFast, begin) ==
  LET sent == SentAcks(acks, tooFast, begin) IN
  /\ forwarded' = forwarded \o first \o [i \in DOMAIN sent |-> sent[i].num]
  /\ delayed_ack_queue' = IF sent = <<>> THEN acks ELSE <<>>

-----------------------------------------------------------------------------
(* Handlers.                                                                *)

\* The event loop is waiting and a packet comes.  Two packets have different
\* timestamps, except that the packet that creates the connection is also the
\* first one it processes.
PacketComes ==
  /\ pc = "select" /\ ~panicked
  /\ now <= LastArrival
  /\ now > last_access \/ to_server_queue = <<>>
  /\ last_access' = now
  /\ pc' = "task"
  /\ UNCHANGED <<now, last_rtt_calibration, retrans_task, resent>>

\* The packet limit of the queue to the server: add() panics, the process is gone.
ClientPacketOverflows ==
  /\ pc = "select" /\ ~panicked
  /\ now <= LastArrival /\ now > last_access
  /\ server_rtt = 0 /\ Len(to_server_queue) > QUEUE_LIMIT
  /\ panicked' = TRUE
  /\ UNCHANGED <<now, packets, flowlets, detected_loss, processed, reply_nums,
                 last_packet_time, smoothed_interval, eliciting_threshold, state, last_access,
                 client_rtt, server_rtt, to_server_queue, to_server_pkt_num, measureVars,
                 speedVars, ackVars, last_rtt_calibration, loopVars>>

\* A packet from the client: hold it back or forward it, then process_udp_packet.
ClientPacket(size) ==
  LET rtt  == FirstClientRtt
      num  == to_server_pkt_num + 1
      held == overspeed /\ state = "Handshaked"      \* need_reorder_ack
      ack  == [num |-> num, forward_ts |-> now, e2e_rtt |-> client_rtt + server_rtt]
  IN  /\ PacketComes
      /\ server_rtt = 0 => Len(to_server_queue) <= QUEUE_LIMIT
      /\ MeasureDominantDirection("client", size, rtt + server_rtt)
      /\ to_server_queue' = IF server_rtt = 0 THEN Append(to_server_queue, now) ELSE to_server_queue
      /\ to_server_pkt_num' = num
      /\ Q(rtt)!CheckReply
      /\ client_rtt' = UpdatedRtt(rtt, Q(rtt)!ReplySamples)
      /\ IF held THEN CheckDelayedAcks(<<>>, Append(delayed_ack_queue, ack), overspeed, overspeed_begin)
                 ELSE CheckDelayedAcks(<<num>>, delayed_ack_queue, overspeed, overspeed_begin)
      /\ UNCHANGED <<state, server_rtt, speedVars>>

\* A packet from the server, with the verdict tooFast of the congestion
\* controller.  The Handshake packet of the server is seen only once.
ServerPacket(size, tooFast) ==
  /\ to_server_queue # <<>>                  \* the client's packet came first
  /\ processed - Cardinality(resent) < MaxServerPackets
  /\ PacketComes
  /\ state' \in {state, "Handshaked"}
  /\ server_rtt' = IF server_rtt = 0 THEN Since(now, to_server_queue[1]) ELSE server_rtt
  /\ MeasureDominantDirection("server", size, client_rtt + server_rtt')
  /\ overspeed' = IF client_rtt = 0 THEN overspeed ELSE tooFast
  /\ overspeed_begin' = IF client_rtt = 0 \/ (tooFast /\ overspeed_begin # None) THEN overspeed_begin
                        ELSE IF tooFast THEN now ELSE None
  /\ Q(client_rtt)!Add(TRUE)
  /\ IF panicked' THEN UNCHANGED ackVars
                  ELSE CheckDelayedAcks(<<>>, delayed_ack_queue, overspeed', overspeed_begin')
  /\ UNCHANGED <<client_rtt, to_server_queue, to_server_pkt_num>>

\* Mutation: the timer runs before the RTT is measured.
OnTimeoutUnmeasured ==
  /\ pc = "select"
  /\ flowlets # <<>> /\ Q(client_rtt)!Timeout = 0
  /\ Q(client_rtt)!OnTimeout
  /\ client_rtt' = UpdatedRtt(client_rtt, Q(client_rtt)!TimeoutSamples)
  /\ pc' = "task"
  /\ UNCHANGED <<now, state, last_access, server_rtt, to_server_queue, to_server_pkt_num,
                 measureVars, speedVars, ackVars, last_rtt_calibration, retrans_task, resent>>

\* process_timeout: the event loop found the timer at zero.
OnTimeout ==
  /\ pc = "select"
  /\ client_rtt # 0 /\ flowlets # <<>> /\ Q(client_rtt)!Timeout = 0
  /\ Q(client_rtt)!OnTimeout
  /\ client_rtt' = UpdatedRtt(client_rtt, Q(client_rtt)!TimeoutSamples)
  /\ pc' = "task"
  /\ UNCHANGED <<now, state, last_access, server_rtt, to_server_queue, to_server_pkt_num,
                 measureVars, speedVars, ackVars, last_rtt_calibration, retrans_task, resent>>

\* rtt_calibration with a sample that comes at least an RTT after the last one
\* used; others are ignored.
RttCalibration(sample) ==
  /\ pc = "select" /\ ~panicked
  /\ now <= LastArrival
  /\ now - last_rtt_calibration >= sample + server_rtt
  /\ last_rtt_calibration' = now
  /\ IF Abs(sample - client_rtt) > Q(sample)!TimeoutAddition
     THEN Q(client_rtt)!ResetDueToRttDeviation /\ client_rtt' = sample
     ELSE UNCHANGED <<queueVars, client_rtt>>
  /\ UNCHANGED <<now, state, last_access, server_rtt, to_server_queue, to_server_pkt_num,
                 measureVars, speedVars, ackVars, loopVars>>

\* to_client_retrans_task: the losses become a task, or are dropped when the
\* direction is not protected or the sender is too fast.
ToClientRetransTask ==
  /\ pc = "task" /\ ~panicked
  /\ retrans_task' = IF dominant_direction = "ToClient" /\ ~overspeed THEN detected_loss ELSE {}
  /\ detected_loss' = {}
  /\ pc' = IF retrans_task' = {} THEN "select" ELSE "retrans"
  /\ UNCHANGED <<now, packets, flowlets, processed, reply_nums, last_packet_time,
                 smoothed_interval, eliciting_threshold, panicked, state, last_access,
                 client_rtt, server_rtt, to_server_queue, to_server_pkt_num, measureVars,
                 speedVars, ackVars, last_rtt_calibration, resent>>

\* Mutation: the retransmission is recorded like a packet of the server.
ProcessRetransTaskRaw(skip) ==
  /\ pc = "retrans" /\ ~panicked
  /\ retrans_task' = retrans_task \ {Min(retrans_task)}
  /\ pc' = IF retrans_task' = {} THEN "select" ELSE "retrans"
  /\ IF skip THEN UNCHANGED <<queueVars, resent>>
             ELSE /\ Q(client_rtt)!Add(TRUE)
                  /\ resent' = resent \union {<<Min(retrans_task), processed'>>}
  /\ UNCHANGED <<now, state, last_access, client_rtt, server_rtt, to_server_queue,
                 to_server_pkt_num, measureVars, speedVars, ackVars, last_rtt_calibration>>

\* One round of process_retrans_task: send the packet and record it, or skip it
\* because of the limit on the rate of retransmissions.
ProcessRetransTask(skip) ==
  /\ pc = "retrans" /\ ~panicked
  /\ retrans_task' = retrans_task \ {Min(retrans_task)}
  /\ pc' = IF retrans_task' = {} THEN "select" ELSE "retrans"
  /\ IF skip THEN UNCHANGED <<queueVars, resent>>
             ELSE /\ Q(client_rtt)!Add(FALSE)
                  /\ resent' = resent \union {<<Min(retrans_task), processed'>>}
  /\ UNCHANGED <<now, state, last_access, client_rtt, server_rtt, to_server_queue,
                 to_server_pkt_num, measureVars, speedVars, ackVars, last_rtt_calibration>>

-----------------------------------------------------------------------------
(* The connection.                                                          *)

\* Conn::new
Init ==
  /\ now = 0
  /\ packets = <<>> /\ flowlets = <<>> /\ detected_loss = {}
  /\ processed = 0 /\ reply_nums = 0
  /\ last_packet_time = 0 /\ smoothed_interval = INIT_INTERVAL
  /\ eliciting_threshold = 1 /\ panicked = FALSE
  /\ state = "Initialed" /\ last_access = 0
  /\ client_rtt = 0 /\ server_rtt = 0
  /\ to_server_queue = <<>> /\ to_server_pkt_num = 0
  /\ min_pkt_size = MaxSize /\ server_bytes = 0 /\ client_bytes = 0
  /\ dominant_direction = "None" /\ last_dominant_check = 0
  /\ overspeed = FALSE /\ overspeed_begin = None
  /\ delayed_ack_queue = <<>>
  /\ last_rtt_calibration = 0
  /\ pc = "select" /\ retrans_task = {}
  /\ forwarded = <<>> /\ resent = {}

\* The front flowlet's timer has not fired yet.
TimerWaits == client_rtt # 0 /\ flowlets # <<>> /\ 1 \notin Q(client_rtt)!Expired

\* The connection is created by a packet, so time passes only after that one.
\* Beyond the bound MaxTime it passes only for a timer that waits for it.
Tick ==
  /\ pc = "select" /\ to_server_queue # <<>>
  /\ now < MaxTime \/ TimerWaits
  /\ now' = now + 1
  /\ UNCHANGED <<queueVars, state, last_access, client_rtt, server_rtt, to_server_queue,
                 to_server_pkt_num, measureVars, speedVars, ackVars, last_rtt_calibration,
                 loopVars>>

Packet == \/ ClientPacketOverflows
          \/ \E size \in ClientSizes : ClientPacket(size)
          \/ \E size \in ServerSizes, tooFast \in Verdicts : ServerPacket(size, tooFast)
Calibration == \E sample \in CalibrationSamples : RttCalibration(sample)
Retransmission == ToClientRetransTask \/ \E skip \in BOOLEAN : ProcessRetransTask(skip)

Next == Tick \/ Packet \/ Calibration \/ OnTimeout \/ Retransmission

Spec == Init /\ [][Next]_vars

\* Time passes, however busy the loop is; an expired timer is served and an
\* iteration of the event loop comes to its end.  No fairness on packets: either
\* side may fall silent.
FairSpec == Spec /\ SF_vars(Tick) /\ WF_vars(OnTimeout) /\ WF_vars(Retransmission)

-----------------------------------------------------------------------------
(* Properties.                                                              *)

\* "when server_rtt > 0(measured), the server queue must have packets" (the
\* comment on the unwrap of oldest_ts in process_udp_packet): the queue to the
\* client is not empty when the client RTT is first measured.
FirstRttFindsPackets == server_rtt # 0 /\ client_rtt = 0 => packets # <<>>

\* Once the client RTT has been measured it is never zero ("not measured") again,
\* whatever the samples, the smoothing and the calibrations.
RttStaysMeasured == [][client_rtt # 0 => client_rtt' # 0]_vars

\* The numbers of the client's packets that are held back.
DelayedNums == [i \in DOMAIN delayed_ack_queue |-> delayed_ack_queue[i].num]

Forwarding == INSTANCE AckForwarder
  WITH accepted <- to_server_pkt_num, held <- DelayedNums, delivered <- forwarded

\* Delaying and reordering ("send the tail ack first", then "other acks in order",
\* check_delayed_acks) lose and duplicate no packet of the client, and a packet is
\* overtaken by at most one later packet: the connection implements AckForwarder.
ForwardsAcks == Forwarding!Spec

Repairing == INSTANCE LossRepair
  WITH sent <- processed, waiting <- detected_loss \union retrans_task, copies <- resent

\* Through loss detection by replies and by the timer, tasks, calibrations and
\* the recording of retransmissions among the server's packets, a packet is
\* retransmitted at most once and a retransmission never is: the connection
\* implements LossRepair.
RepairsLosses == Repairing!Spec

\* While the process runs, packets are held back only if the handshake is over and
\* the sender is too fast, so that the unwrap of overspeed_begin in
\* check_delayed_acks finds an instant, and never more of them than the larger
\* packet threshold.
HeldOnlyWhileOverspeed ==
  /\ delayed_ack_queue # <<>> => panicked \/ (overspeed /\ state = "Handshaked")
  /\ overspeed <=> overspeed_begin # None
  /\ Len(delayed_ack_queue) <= 2 * DELAY_kPacketThreshold

\* With a measured RTT the queue to the client empties again and again once the
\* server is silent: the retransmissions, queued like other packets, do not feed
\* further ones for ever.
QueueSettles == []<>(packets = <<>> \/ client_rtt = 0 \/ panicked)

\* "Check the delayed acks and send if the delay time or packet number threshold
\* is met" (the comment on check_delayed_acks): a packet held back is sent in the
\* end.
DelayedAcksAreSent == delayed_ack_queue # <<>> ~> delayed_ack_queue = <<>>
=============================================================================
