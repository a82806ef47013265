----------------------------- MODULE PacketQueue -----------------------------
(***************************************************************************)
(* The queue of packets that PEMI forwarded in one direction and that wait  *)
(* for a reply (pemi/src/queue.rs, PacketQueue).  Packets are grouped into  *)
(* flowlets; client packets are credited to a flowlet as replies; when a    *)
(* flowlet is over, because a later one is answered or because its timer    *)
(* fired, its lost packets move to detected_loss.                           *)
(*                                                                         *)
(* Every operation takes the current RTT to the client as an argument.  The *)
(* argument is the variable reply_rtt, owned by the connection (Conn's      *)
(* client_rtt), which may change between any two calls; `now' is the clock  *)
(* from which every timestamp is read.                                      *)
(*                                                                         *)
(* detected_loss is a queue in the code.  Packets enter it in the order of  *)
(* their numbers (they leave `packets' from its front), so it is the set of *)
(* its numbers here and its front is its least element.                     *)
(***************************************************************************)
EXTENDS Flowlet, Functions

CONSTANTS FLOWLET_MAX_PKTS,                  \* 100 in the code
          WHEN_MEASURE_ELICITING_THRESHOLD,  \* 50
          QUEUE_LIMIT,                       \* 1000: longer queues panic
          INIT_INTERVAL,                     \* 1 ms
          FlowletIntervalFactor,             \* ratios <<p, q>>: 2.0 and
          FlowletEndFactor,                  \* 0.5 unless set by options
          Rtts,                              \* the values reply_rtt may take
          MaxTime, MaxPackets, MaxReplies,   \* bounds of the model
          LastArrival                        \* no call from a packet after this

Ratio == Nat \X (Nat \ {0})

ASSUME PacketQueueAssumption ==
  /\ FLOWLET_MAX_PKTS \in Nat
  /\ WHEN_MEASURE_ELICITING_THRESHOLD \in Nat \ {0}
  /\ QUEUE_LIMIT \in Nat
  /\ INIT_INTERVAL \in Nat
  /\ FlowletIntervalFactor \in Ratio /\ FlowletEndFactor \in Ratio
  /\ Rtts \subseteq Nat
  /\ MaxTime \in Nat /\ MaxPackets \in Nat /\ MaxReplies \in Nat /\ LastArrival \in Nat

VARIABLES now,                  \* the clock
          reply_rtt,            \* the RTT the caller passes
          packets,              \* forwarded packets, oldest first
          flowlets,             \* their flowlets, oldest first
          detected_loss,        \* numbers of the packets to retransmit
          processed,            \* packets ever added: the last packet number
          reply_nums,           \* replies ever checked
          last_packet_time,     \* when the last raw packet was added
          smoothed_interval,    \* smoothed gap between raw packets
          eliciting_threshold,  \* packets the client takes to reply, 1 or 2
          panicked              \* add() has panicked: the process is gone

queueVars == <<packets, flowlets, detected_loss, processed, reply_nums,
               last_packet_time, smoothed_interval, eliciting_threshold, panicked>>
vars == <<now, reply_rtt, queueVars>>

Packet == [number : Nat, timestamp : Nat, raw : BOOLEAN]
FlowletRecord == [pkt_nums : Seq(Nat), reply_pkt_times : Seq(Nat),
                  begin_time : Nat, end_time : Nat, complete : BOOLEAN]

TypeOK ==
  /\ now \in Nat /\ reply_rtt \in Nat
  /\ packets \in Seq(Packet)
  /\ flowlets \in Seq(FlowletRecord)
  /\ detected_loss \in SUBSET Nat
  /\ processed \in Nat /\ reply_nums \in Nat
  /\ last_packet_time \in Nat /\ smoothed_interval \in Nat
  /\ eliciting_threshold \in {1, 2}
  /\ panicked \in BOOLEAN

-----------------------------------------------------------------------------
(* Reading the queue.                                                       *)

FlowletTimeout(interval) == MulF64(interval, FlowletIntervalFactor)

\* What flowlet_end_timeout adds to the RTT.
TimeoutAddition == MulF64(FlowletTimeout(smoothed_interval), FlowletEndFactor)
FlowletEndTimeout == reply_rtt + TimeoutAddition

\* Mutation: the operands swapped.
TimeoutSwapped == Since(now, flowlets[1].end_time + FlowletEndTimeout)

\* timeout(): ticks until the front flowlet's timer fires.  Zero once it fired.
Timeout == Since(flowlets[1].end_time + FlowletEndTimeout, now)

\* get_packet(): the packets are numbered consecutively.
GetPacket(num) == packets[num - packets[1].number + 1]

SentPktTimes(fl) == [i \in DOMAIN fl.pkt_nums |-> GetPacket(fl.pkt_nums[i]).timestamp]

\* How many of the indices 1, 2, ... in a row are in S, a finite set.
Leading(n, S) == CHOOSE k \in 0..n : (1..k) \subseteq S /\ (k+1) \notin S

-----------------------------------------------------------------------------
(* Completing flowlets.                                                     *)

\* The packet numbers of the first k flowlets.
NumbersOf(fls, k) == UNION {Range(fls[i].pkt_nums) : i \in 1..k}

\* Mutation: the packets are copied, not popped.
CompleteFlowletsKeepingPackets(fls, k) ==
  LET lossed == UNION {LossedPkts(fls[i], SentPktTimes(fls[i]), reply_rtt, eliciting_threshold)
                         : i \in 1..k}
  IN  /\ flowlets' = SubSeq(fls, k + 1, Len(fls))
      /\ detected_loss' = detected_loss \union
           {n \in lossed : \E i \in 1..Len(packets) : packets[i].number = n /\ packets[i].raw}
      /\ UNCHANGED packets

\* complete_one_flowlet k times, that is remove_a_complete_flowlet with the
\* verdict on each: the packets leave the queue and the lost ones that are not
\* retransmissions themselves become losses to repair.
CompleteFlowlets(fls, k) ==
  LET popped == Cardinality(NumbersOf(fls, k))   \* one packet per number
      lossed == UNION {LossedPkts(fls[i], SentPktTimes(fls[i]), reply_rtt, eliciting_threshold)
                         : i \in 1..k}
  IN  /\ packets' = SubSeq(packets, popped + 1, Len(packets))
      /\ flowlets' = SubSeq(fls, k + 1, Len(fls))
      /\ detected_loss' = detected_loss \union
           {n \in lossed : \E i \in 1..popped : packets[i].number = n /\ packets[i].raw}

\* The RTT samples complete_one_flowlet returns, k times.
SamplesOf(fls, k) ==
  LET upto[i \in 0..k] ==
        IF i = 0 THEN <<>>
        ELSE upto[i-1] \o RttSamples(fls[i], SentPktTimes(fls[i]), reply_rtt)
  IN  upto[k]

-----------------------------------------------------------------------------
(* Operations.                                                              *)

Init ==
  /\ now = 0 /\ reply_rtt \in Rtts
  /\ packets = <<>> /\ flowlets = <<>> /\ detected_loss = {}
  /\ processed = 0 /\ reply_nums = 0
  /\ last_packet_time = 0
  /\ smoothed_interval = INIT_INTERVAL
  /\ eliciting_threshold = 1
  /\ panicked = FALSE

\* record_packet_interval
RecordPacketInterval ==
  /\ last_packet_time' = now
  /\ smoothed_interval' = MulF64(smoothed_interval, <<7, 8>>)
                            + MulF64(Since(now, last_packet_time), <<1, 8>>)

\* Mutation: as many packets as are missing a reply, not just 2.
ElicitingThresholdUncapped(sent) ==
  IF reply_nums < (sent * 3) \div 5 THEN 1 + sent - reply_nums ELSE 1

\* measure_eliciting_threshold: does the client reply to at least 60% of the
\* packets?
MeasuredElicitingThreshold(sent) == IF reply_nums < (sent * 3) \div 5 THEN 2 ELSE 1

\* The flowlets once packet number num is added: it opens one if there is none
\* or if it comes later than the flowlet timeout after the newest packet.
AddToFlowlet(num, interval) ==
  LET n == Len(flowlets) IN
  IF packets # <<>> /\ Since(now, packets[Len(packets)].timestamp) <= FlowletTimeout(interval)
  THEN [flowlets EXCEPT ![n] = FlowletAdd(@, num, now)]
  ELSE Append(flowlets, NewFlowlet(num, now))

\* add(): a raw packet has a payload, a retransmission has none.
Add(raw) ==
  /\ ~panicked
  /\ processed < MaxPackets
  /\ IF raw THEN RecordPacketInterval
            ELSE UNCHANGED <<last_packet_time, smoothed_interval>>
  /\ processed' = processed + 1
  /\ eliciting_threshold' =
       IF processed' % WHEN_MEASURE_ELICITING_THRESHOLD = 0
       THEN MeasuredElicitingThreshold(processed')
       ELSE eliciting_threshold
  /\ IF Len(packets) > QUEUE_LIMIT
     THEN panicked' = TRUE /\ UNCHANGED <<flowlets, packets>>
     ELSE /\ flowlets' = AddToFlowlet(processed', smoothed_interval')
          /\ packets' = Append(packets, [number |-> processed', timestamp |-> now, raw |-> raw])
          /\ UNCHANGED panicked
  /\ UNCHANGED <<detected_loss, reply_nums>>

\* The window in which replies to a flowlet are expected.
InWindow(fl) == fl.begin_time + reply_rtt <= now /\ now <= fl.end_time + reply_rtt

\* How far outside its window the reply comes.
ReplyError(fl) == IF now > fl.end_time + reply_rtt
                  THEN now - fl.end_time - reply_rtt
                  ELSE fl.begin_time + reply_rtt - now

\* The flowlet a reply is credited to when there are several: the first whose
\* window it falls into, else the first of the nearest ones.
ReplyedFlowlet ==
  LET n       == Len(flowlets)
      exact   == {i \in 1..n : InWindow(flowlets[i])}
      nearest == {i \in 1..n : \A j \in 1..n : ReplyError(flowlets[i]) <= ReplyError(flowlets[j])}
      found   == IF exact # {} THEN exact ELSE nearest
  IN  CHOOSE i \in found : \A j \in found : i <= j

TooEarly == /\ now < flowlets[1].begin_time + reply_rtt - TimeoutAddition
            /\ flowlets[1].reply_pkt_times = <<>>
TooLate  == now > flowlets[Len(flowlets)].end_time + reply_rtt + TimeoutAddition

\* Mutation: the flowlets before the replied one are not marked.
CreditReplyKeepingEarlier ==
  LET r == IF Len(flowlets) = 1 THEN 1 ELSE ReplyedFlowlet
  IN  [i \in 1..Len(flowlets) |-> IF i = r THEN AddReply(flowlets[i], now) ELSE flowlets[i]]

\* The flowlets after check_reply has credited the reply and marked flowlets as
\* complete: a lone flowlet if it is too long, else all those before the replied.
CreditReply ==
  LET r == IF Len(flowlets) = 1 THEN 1 ELSE ReplyedFlowlet
      Replyed(fl) == AddReply(fl, now)
  IN  [i \in 1..Len(flowlets) |->
         IF i = r
         THEN IF Len(flowlets) = 1 /\ Len(flowlets[i].pkt_nums) > FLOWLET_MAX_PKTS
              THEN SetAsComplete(Replyed(flowlets[i]))
              ELSE Replyed(flowlets[i])
         ELSE IF i < r THEN SetAsComplete(flowlets[i]) ELSE flowlets[i]]

\* check_reply()
CheckReply ==
  /\ ~panicked
  /\ reply_nums < MaxReplies
  /\ reply_nums' = reply_nums + 1
  /\ IF flowlets = <<>> \/ TooEarly \/ TooLate
     THEN UNCHANGED <<packets, flowlets, detected_loss>>
     ELSE LET credited == CreditReply
              complete == {i \in 1..Len(credited) : credited[i].complete}
          IN  CompleteFlowlets(credited, Leading(Len(credited), complete))
  /\ UNCHANGED <<processed, last_packet_time, smoothed_interval, eliciting_threshold, panicked>>

\* The RTT samples check_reply returns.
ReplySamples ==
  IF flowlets = <<>> \/ TooEarly \/ TooLate THEN <<>>
  ELSE LET credited == CreditReply
       IN  SamplesOf(credited, Leading(Len(credited), {i \in 1..Len(credited) : credited[i].complete}))

\* Mutation: the RTT left out of the timer.
ExpiredWithoutRtt == {i \in 1..Len(flowlets) : now > flowlets[i].end_time + TimeoutAddition}

\* The flowlets whose timer has fired.
Expired == {i \in 1..Len(flowlets) : now > flowlets[i].end_time + FlowletEndTimeout}

\* on_timeout(): complete flowlets from the front while their timer has fired.
OnTimeout ==
  /\ ~panicked
  /\ CompleteFlowlets(flowlets, Leading(Len(flowlets), Expired))
  /\ UNCHANGED <<processed, reply_nums, last_packet_time, smoothed_interval,
                 eliciting_threshold, panicked>>

\* The RTT samples on_timeout returns.
TimeoutSamples == SamplesOf(flowlets, Leading(Len(flowlets), Expired))

\* Mutation: the packets of the dropped flowlets stay.
ResetKeepingPackets ==
  /\ ~panicked
  /\ LET replied == {i \in 1..Len(flowlets) : flowlets[i].reply_pkt_times # <<>>}
     IN  flowlets' = SubSeq(flowlets, Leading(Len(flowlets), replied) + 1, Len(flowlets))
  /\ UNCHANGED <<packets, detected_loss, processed, reply_nums, last_packet_time,
                 smoothed_interval, eliciting_threshold, panicked>>

\* reset_due_to_rtt_deviation(): drop flowlets from the front while they have
\* replies.
ResetDueToRttDeviation ==
  /\ ~panicked
  /\ LET replied == {i \in 1..Len(flowlets) : flowlets[i].reply_pkt_times # <<>>}
         k       == Leading(Len(flowlets), replied)
     IN  /\ flowlets' = SubSeq(flowlets, k + 1, Len(flowlets))
         /\ packets' = SubSeq(packets, Cardinality(NumbersOf(flowlets, k)) + 1, Len(packets))
  /\ UNCHANGED <<detected_loss, processed, reply_nums, last_packet_time,
                 smoothed_interval, eliciting_threshold, panicked>>

\* pop_retransmit_front()
PopRetransmitFront ==
  /\ ~panicked
  /\ detected_loss # {}
  /\ detected_loss' = detected_loss \ {CHOOSE n \in detected_loss : \A m \in detected_loss : n <= m}
  /\ UNCHANGED <<packets, flowlets, processed, reply_nums, last_packet_time,
                 smoothed_interval, eliciting_threshold, panicked>>

-----------------------------------------------------------------------------
(* The queue under any sequence of calls, at any times and with any RTTs.   *)

Tick == now < MaxTime /\ now' = now + 1 /\ UNCHANGED <<reply_rtt, queueVars>>

RttChange == reply_rtt' \in Rtts \ {reply_rtt} /\ UNCHANGED <<now, queueVars>>

\* The calls made when a packet comes.
Arrival ==
  /\ now <= LastArrival
  /\ \/ Add(TRUE)
     \/ Add(FALSE)
     \/ CheckReply
     \/ ResetDueToRttDeviation
  /\ UNCHANGED <<now, reply_rtt>>

\* The event loop calls on_timeout only when timeout() is zero.
TimerFires ==
  /\ flowlets # <<>> /\ Timeout = 0
  /\ OnTimeout
  /\ UNCHANGED <<now, reply_rtt>>

Retransmit == PopRetransmitFront /\ UNCHANGED <<now, reply_rtt>>

Next == Tick \/ RttChange \/ Arrival \/ TimerFires \/ Retransmit

Spec == Init /\ [][Next]_vars

-----------------------------------------------------------------------------
(* Properties.                                                              *)

FirstNumber(fl) == fl.pkt_nums[1]
LastNumber(fl)  == fl.pkt_nums[Len(fl.pkt_nums)]

\* The packets pkts are numbered consecutively up to last.
Consecutive(pkts, last) == \A i \in 1..Len(pkts) : pkts[i].number = last - Len(pkts) + i

\* The packets pkts are numbered consecutively up to last and the flowlets fls,
\* each a range of numbers, list them all, once and in order.
Partition(fls, pkts, last) ==
  /\ Consecutive(pkts, last)
  /\ \A i \in 1..Len(fls) :
       /\ fls[i].pkt_nums # <<>>
       /\ \A k \in 1..Len(fls[i].pkt_nums) : fls[i].pkt_nums[k] = FirstNumber(fls[i]) + k - 1
  /\ \A i, j \in 1..Len(fls) : i < j => LastNumber(fls[i]) < FirstNumber(fls[j])
  /\ NumbersOf(fls, Len(fls)) = (last - Len(pkts) + 1)..last

\* The flowlets, read from front to back, list exactly the queued packets.  That
\* is what get_packet's index arithmetic relies on, what the assertions of
\* remove_a_complete_flowlet and reset_due_to_rtt_deviation state of each packet
\* they pop, and what add() means by "no any flowlet(thus no any packet)".
FlowletsPartitionPackets == ~panicked => Partition(flowlets, packets, processed)

\* Replies are only ever held by the oldest flowlet, and no flowlet is left
\* marked complete: a reply to a later flowlet completes and removes all earlier
\* ones before check_reply returns.
OnlyFrontIsReplied ==
  \A i \in 1..Len(flowlets) :
    /\ ~flowlets[i].complete
    /\ i > 1 => flowlets[i].reply_pkt_times = <<>>

\* The flowlets fls span the times of the packets pkts and do not overlap.
InTimeOrder(fls, pkts) ==
  /\ \A i \in 1..Len(fls) :
       /\ fls[i].begin_time = pkts[FirstNumber(fls[i]) - pkts[1].number + 1].timestamp
       /\ fls[i].end_time = pkts[LastNumber(fls[i]) - pkts[1].number + 1].timestamp
       /\ fls[i].begin_time <= fls[i].end_time
       /\ fls[i].end_time <= now
  /\ \A i, j \in 1..Len(fls) : i < j => fls[i].end_time < fls[j].begin_time

\* Flowlets do not overlap in time: each spans the time from its first to its
\* last packet and ends before the next begins, so that the front flowlet's
\* timer is always the first to fire.
FlowletsAreOrderedInTime == ~panicked => InTimeOrder(flowlets, packets)

\* A packet reported lost has left the queue for good and was reported once: the
\* numbers in detected_loss lie below those still queued.
LossesLeftTheQueue ==
  \A n \in detected_loss : n <= processed - Len(packets)

\* No packet is declared lost before the reply to the end of its flowlet was
\* due, however the RTT changes between calls.  The one exception is a flowlet
\* longer than FLOWLET_MAX_PKTS, which check_reply completes at once.
NoLossBeforeReplyIsDue ==
  [][\A n \in detected_loss' \ detected_loss :
       \E i \in 1..Len(flowlets) :
         /\ n \in Range(flowlets[i].pkt_nums)
         /\ \/ flowlets[i].end_time + reply_rtt < now
            \/ Len(flowlets[i].pkt_nums) > FLOWLET_MAX_PKTS]_vars

\* "Delete all flowlets that have found a reply; only leave flowlets that have no
\* reply yet": although the loop stops at the first flowlet without a reply, no
\* replied flowlet survives a reset.
ResetDropsEveryRepliedFlowlet ==
  [][ResetDueToRttDeviation =>
       \A i \in 1..Len(flowlets') : flowlets'[i].reply_pkt_times = <<>>]_vars
=============================================================================
