-------------------------- MODULE PacketQueue_proofs --------------------------
(***************************************************************************)
(* The theorems about the packet queue, for every value of its constants:   *)
(* for any number of packets and replies, any times, RTTs and factors.      *)
(***************************************************************************)
EXTENDS PacketQueueAdd_proofs

-----------------------------------------------------------------------------
(* Completing flowlets.                                                     *)

\* complete_one_flowlet, k times on the flowlets as credited: what is left is
\* again a partition in time order, and what was lost has left the queue.
LEMMA CompleteKeeps ==
  ASSUME IInv, ~panicked, NEW fls \in Seq(FlowletRecord), SameSpans(fls, flowlets),
         NEW k \in 0..Len(fls), CompleteFlowlets(fls, k)
  PROVE  /\ flowlets' \in Seq(FlowletRecord) /\ IsSuffix(flowlets', fls, k)
         /\ packets' \in Seq(Packet) /\ detected_loss' \in SUBSET Nat
         /\ Partition(flowlets', packets', processed) /\ InTimeOrder(flowlets', packets')
         /\ \A n \in detected_loss' : n <= processed - Len(packets')
<1>1. /\ flowlets \in Seq(FlowletRecord) /\ packets \in Seq(Packet)
      /\ processed \in Nat /\ detected_loss \in SUBSET Nat
      /\ Partition(flowlets, packets, processed) /\ InTimeOrder(flowlets, packets)
      /\ \A n \in detected_loss : n <= processed - Len(packets)
  BY DEF IInv, TypeOK, FlowletsPartitionPackets, FlowletsAreOrderedInTime, LossesLeftTheQueue
<1>2. Partition(fls, packets, processed) /\ InTimeOrder(fls, packets)
  BY <1>1, SameSpansKeepPartition
<1>3. PopsTo(fls, packets, k, flowlets', packets')
  BY DEF CompleteFlowlets, PopsTo
<1>4. PICK popped : popped = Cardinality(NumbersOf(fls, k))
  OBVIOUS
<1>5. /\ flowlets' \in Seq(FlowletRecord) /\ IsSuffix(flowlets', fls, k)
      /\ packets' \in Seq(Packet) /\ IsSuffix(packets', packets, popped)
      /\ popped \in 0..Len(packets)
      /\ Partition(flowlets', packets', processed) /\ InTimeOrder(flowlets', packets')
  BY <1>1, <1>2, <1>3, <1>4, PopKeepsPartition
<1>6. Len(packets) \in Nat /\ Len(packets') = Len(packets) - popped
  BY <1>1, <1>5 DEF IsSuffix
<1>7. \A i \in 1..popped : packets[i].number = processed - Len(packets) + i
  <2>1. \A i \in 1..popped : i \in 1..Len(packets)
    BY <1>5, <1>6
  <2> QED
    BY <1>1, <2>1 DEF Partition, Consecutive
<1>8. ASSUME NEW n \in detected_loss'
      PROVE  n \in Nat /\ n <= processed - Len(packets')
  <2>1. n \in detected_loss \/ \E i \in 1..popped : packets[i].number = n
    BY <1>4, <1>8 DEF CompleteFlowlets
  <2>2. CASE n \in detected_loss
    <3>1. n \in Nat /\ n <= processed - Len(packets)
      BY <1>1, <2>2
    <3> QED
      BY <1>1, <1>5, <1>6, <3>1
  <2>3. CASE \E i \in 1..popped : packets[i].number = n
    <3>1. PICK i \in 1..popped : packets[i].number = n
      BY <2>3
    <3>2. i \in 1..Len(packets) /\ i \in Int /\ i <= popped
      BY <1>5, <1>6
    <3>3. n \in Nat
      <4>1. packets[i] \in Packet
        BY <1>1, <3>2
      <4> QED
        BY <3>1, <4>1 DEF Packet
    <3>4. n = processed - Len(packets) + i
      BY <1>7, <3>1
    <3> QED
      BY <1>1, <1>5, <1>6, <3>2, <3>3, <3>4
  <2> QED
    BY <2>1, <2>2, <2>3
<1> QED
  BY <1>5, <1>8

\* What complete_one_flowlet and its callers leave alone.
KeepsRest ==
  /\ now' = now /\ reply_rtt' = reply_rtt /\ processed' = processed
  /\ last_packet_time' = last_packet_time /\ smoothed_interval' = smoothed_interval
  /\ eliciting_threshold' = eliciting_threshold /\ panicked' = panicked

\* The flowlets after the first k are not complete, and only the first of them
\* may have replies.
RestUnreplied(fls, k) ==
  \A i \in (k+1)..Len(fls) : /\ ~fls[i].complete
                             /\ i > k + 1 => fls[i].reply_pkt_times = <<>>

\* A suffix of flowlets satisfies OnlyFrontIsReplied.
LEMMA SuffixUnreplied ==
  ASSUME NEW fls \in Seq(FlowletRecord), NEW k \in 0..Len(fls), NEW rest,
         IsSuffix(rest, fls, k), RestUnreplied(fls, k)
  PROVE  \A i \in 1..Len(rest) : ~rest[i].complete /\ (i > 1 => rest[i].reply_pkt_times = <<>>)
<1> SUFFICES ASSUME NEW i \in 1..Len(rest)
             PROVE  ~rest[i].complete /\ (i > 1 => rest[i].reply_pkt_times = <<>>)
  OBVIOUS
<1>1. Len(fls) \in Nat /\ k \in Nat
  OBVIOUS
<1>2. k + i \in 1..Len(fls) /\ rest[i] = fls[k + i] /\ i \in Nat \ {0}
  BY <1>1 DEF IsSuffix
<1>3. k + i \in (k+1)..Len(fls) /\ (i > 1 => k + i > k + 1)
  BY <1>1, <1>2
<1> QED
  BY <1>2, <1>3 DEF RestUnreplied

\* Completing flowlets preserves the invariant.
LEMMA CompleteStep ==
  ASSUME IInv, ~panicked, NEW fls \in Seq(FlowletRecord), SameSpans(fls, flowlets),
         NEW k \in 0..Len(fls), CompleteFlowlets(fls, k), RestUnreplied(fls, k),
         KeepsRest, reply_nums' \in Nat
  PROVE  IInv'
<1>1. /\ flowlets' \in Seq(FlowletRecord) /\ IsSuffix(flowlets', fls, k)
      /\ packets' \in Seq(Packet) /\ detected_loss' \in SUBSET Nat
      /\ Partition(flowlets', packets', processed) /\ InTimeOrder(flowlets', packets')
      /\ \A n \in detected_loss' : n <= processed - Len(packets')
  BY CompleteKeeps
<1>2. TypeOK'
  BY <1>1 DEF IInv, TypeOK, KeepsRest
<1>3. OnlyFrontIsReplied'
  BY <1>1, SuffixUnreplied DEF OnlyFrontIsReplied
<1>4. FlowletsPartitionPackets'
  BY <1>1 DEF FlowletsPartitionPackets, KeepsRest
<1>5. InTimeOrder(flowlets, packets)'
  BY <1>1 DEF InTimeOrder, KeepsRest
<1>6. LossesLeftTheQueue'
  BY <1>1 DEF LossesLeftTheQueue, KeepsRest
<1> QED
  BY <1>2, <1>3, <1>4, <1>5, <1>6 DEF IInv, FlowletsAreOrderedInTime

\* Every sequence of flowlets has its own spans.
LEMMA SameSpansRefl == SameSpans(flowlets, flowlets)
  BY DEF SameSpans

\* on_timeout() preserves the invariant.
LEMMA OnTimeoutStep ==
  ASSUME IInv, OnTimeout, UNCHANGED <<now, reply_rtt>>
  PROVE  IInv'
<1>1. /\ ~panicked /\ KeepsRest /\ reply_nums' = reply_nums
      /\ CompleteFlowlets(flowlets, Leading(Len(flowlets), Expired))
  BY DEF OnTimeout, KeepsRest
<1>2. flowlets \in Seq(FlowletRecord) /\ reply_nums \in Nat
  BY DEF IInv, TypeOK
<1>3. PICK k : k = Leading(Len(flowlets), Expired)
  OBVIOUS
<1>4. k \in 0..Len(flowlets)
  BY <1>2, <1>3, LeadingRun DEF Expired
<1>5. RestUnreplied(flowlets, k)
  <2> SUFFICES ASSUME NEW i \in (k+1)..Len(flowlets)
               PROVE  ~flowlets[i].complete /\ (i > k + 1 => flowlets[i].reply_pkt_times = <<>>)
    BY DEF RestUnreplied
  <2>1. i \in 1..Len(flowlets) /\ (i > k + 1 => i > 1)
    BY <1>2, <1>4
  <2> QED
    BY <2>1 DEF IInv, OnlyFrontIsReplied
<1> QED
  BY <1>1, <1>2, <1>3, <1>4, <1>5, SameSpansRefl, CompleteStep

-----------------------------------------------------------------------------
(* Replies.                                                                 *)

\* Outside its window a flowlet's error is a positive number.
LEMMA ReplyErrorType ==
  ASSUME NEW fl \in FlowletRecord, now \in Nat, reply_rtt \in Nat, ~InWindow(fl)
  PROVE  ReplyError(fl) \in Nat
<1>1. fl.begin_time \in Nat /\ fl.end_time \in Nat
  BY DEF FlowletRecord
<1> QED
  BY <1>1 DEF ReplyError, InWindow

\* check_reply finds a flowlet to credit: one whose window the reply falls into,
\* or if there is none, one of the nearest.
LEMMA ReplyedFlowletInRange ==
  ASSUME IInv, flowlets # <<>>
  PROVE  /\ ReplyedFlowlet \in 1..Len(flowlets)
         /\ \/ InWindow(flowlets[ReplyedFlowlet])
            \/ \A j \in 1..Len(flowlets) :
                 /\ ~InWindow(flowlets[j])
                 /\ ReplyError(flowlets[ReplyedFlowlet]) <= ReplyError(flowlets[j])
<1> DEFINE n == Len(flowlets)
           exact == {i \in 1..n : InWindow(flowlets[i])}
           nearest == {i \in 1..n : \A j \in 1..n : ReplyError(flowlets[i]) <= ReplyError(flowlets[j])}
           found == IF exact # {} THEN exact ELSE nearest
<1>1. /\ flowlets \in Seq(FlowletRecord) /\ now \in Nat /\ reply_rtt \in Nat
      /\ n \in Nat \ {0} /\ 1 \in 1..n
  BY DEF IInv, TypeOK
<1>2. found \subseteq 1..n
  OBVIOUS
<1>3. ASSUME exact = {} PROVE nearest # {}
  <2> DEFINE errors == {ReplyError(flowlets[i]) : i \in 1..n}
  <2>1. ASSUME NEW i \in 1..n PROVE ReplyError(flowlets[i]) \in Nat
    <3>1. flowlets[i] \in FlowletRecord
      BY <1>1
    <3>2. ~InWindow(flowlets[i])
      BY <1>3
    <3> QED
      BY <1>1, <3>1, <3>2, ReplyErrorType
  <2>2. errors \in SUBSET Nat /\ errors # {}
    BY <1>1, <2>1
  <2> HIDE DEF errors
  <2>3. PICK m \in errors : \A e \in errors : m <= e
    BY <2>2, LeastNat
  <2>4. PICK i \in 1..n : ReplyError(flowlets[i]) = m
    BY <2>3 DEF errors
  <2>5. \A j \in 1..n : ReplyError(flowlets[i]) <= ReplyError(flowlets[j])
    BY <2>3, <2>4 DEF errors
  <2> QED
    BY <2>5
<1>4. found # {} /\ found \in SUBSET Nat
  BY <1>2, <1>3
<1>5. \E i \in found : \A j \in found : i <= j
  <2> HIDE DEF found
  <2> QED
    BY <1>4, LeastNat
<1>6. ReplyedFlowlet = CHOOSE i \in found : \A j \in found : i <= j
  BY Zenon DEF ReplyedFlowlet
<1>7. ReplyedFlowlet \in found
  <2> HIDE DEF found
  <2> QED
    BY <1>5, <1>6, Zenon
<1> QED
  BY <1>2, <1>7

\* The records check_reply builds.
LEMMA AddReplyFields ==
  ASSUME NEW fl \in FlowletRecord, NEW t \in Nat
  PROVE  /\ AddReply(fl, t) \in FlowletRecord
         /\ AddReply(fl, t).pkt_nums = fl.pkt_nums
         /\ AddReply(fl, t).begin_time = fl.begin_time
         /\ AddReply(fl, t).end_time = fl.end_time
         /\ AddReply(fl, t).complete = fl.complete
<1>0. Append(fl.reply_pkt_times, t) \in Seq(Nat)
  <2>1. fl.reply_pkt_times \in Seq(Nat)
    BY DEF FlowletRecord
  <2> QED
    BY <2>1
<1>1. PICK times \in Seq(Nat) : times = Append(fl.reply_pkt_times, t)
  BY <1>0
<1>2. [fl EXCEPT !.reply_pkt_times = times] \in FlowletRecord
  BY DEF FlowletRecord
<1>3. AddReply(fl, t) \in FlowletRecord
  BY <1>1, <1>2 DEF AddReply
<1>4. /\ AddReply(fl, t).pkt_nums = fl.pkt_nums
      /\ AddReply(fl, t).begin_time = fl.begin_time
      /\ AddReply(fl, t).end_time = fl.end_time
      /\ AddReply(fl, t).complete = fl.complete
  BY DEF AddReply, FlowletRecord
<1> QED
  BY <1>3, <1>4

LEMMA SetAsCompleteFields ==
  ASSUME NEW fl \in FlowletRecord
  PROVE  /\ SetAsComplete(fl) \in FlowletRecord
         /\ SetAsComplete(fl).pkt_nums = fl.pkt_nums
         /\ SetAsComplete(fl).begin_time = fl.begin_time
         /\ SetAsComplete(fl).end_time = fl.end_time
         /\ SetAsComplete(fl).complete = TRUE
  BY DEF SetAsComplete, FlowletRecord

\* The flowlet a reply is credited to.
Credited == IF Len(flowlets) = 1 THEN 1 ELSE ReplyedFlowlet

\* fls is flowlets with a reply credited to flowlet r: the ones before are
\* complete, the ones after unchanged, and no span moves.
CreditsTo(fls, r) ==
  /\ SameSpans(fls, flowlets)
  /\ \A i \in 1..Len(flowlets) : /\ i < r => fls[i].complete
                                 /\ i > r => fls[i] = flowlets[i]

LEMMA CreditShape ==
  ASSUME IInv, flowlets # <<>>
  PROVE  /\ CreditReply \in Seq(FlowletRecord)
         /\ Credited \in 1..Len(flowlets)
         /\ CreditsTo(CreditReply, Credited)
<1>1. flowlets \in Seq(FlowletRecord) /\ now \in Nat /\ Len(flowlets) \in Nat \ {0}
  BY DEF IInv, TypeOK
<1>2. PICK r : r = Credited
  OBVIOUS
<1>3. r \in 1..Len(flowlets)
  BY <1>1, <1>2, ReplyedFlowletInRange DEF Credited
<1>4. CreditReply = [i \in 1..Len(flowlets) |->
         IF i = r
         THEN IF Len(flowlets) = 1 /\ Len(flowlets[i].pkt_nums) > FLOWLET_MAX_PKTS
              THEN SetAsComplete(AddReply(flowlets[i], now))
              ELSE AddReply(flowlets[i], now)
         ELSE IF i < r THEN SetAsComplete(flowlets[i]) ELSE flowlets[i]]
  BY <1>2, Zenon DEF CreditReply, Credited
<1>5. ASSUME NEW i \in 1..Len(flowlets)
      PROVE  /\ CreditReply[i] \in FlowletRecord
             /\ CreditReply[i].pkt_nums = flowlets[i].pkt_nums
             /\ CreditReply[i].begin_time = flowlets[i].begin_time
             /\ CreditReply[i].end_time = flowlets[i].end_time
             /\ i < r => CreditReply[i].complete
             /\ i > r => CreditReply[i] = flowlets[i]
  <2>1. PICK fl \in FlowletRecord : fl = flowlets[i]
    BY <1>1
  <2>2. PICK re \in FlowletRecord : re = AddReply(fl, now)
    BY <1>1, AddReplyFields
  <2>3. /\ re.pkt_nums = fl.pkt_nums /\ re.begin_time = fl.begin_time /\ re.end_time = fl.end_time
    BY <1>1, <2>2, AddReplyFields
  <2>4. CASE i = r
    <3>1. CreditReply[i] = SetAsComplete(re) \/ CreditReply[i] = re
      BY <1>4, <2>1, <2>2, <2>4
    <3>2. /\ CreditReply[i] \in FlowletRecord
          /\ CreditReply[i].pkt_nums = fl.pkt_nums
          /\ CreditReply[i].begin_time = fl.begin_time
          /\ CreditReply[i].end_time = fl.end_time
      BY <2>3, <3>1, SetAsCompleteFields
    <3>3. ~ (i < r) /\ ~ (i > r)
      BY <1>3, <2>4
    <3> QED
      BY <2>1, <3>2, <3>3
  <2>5. CASE i < r
    <3>1. CreditReply[i] = SetAsComplete(fl)
      BY <1>3, <1>4, <2>1, <2>5
    <3>2. /\ CreditReply[i] \in FlowletRecord
          /\ CreditReply[i].pkt_nums = fl.pkt_nums
          /\ CreditReply[i].begin_time = fl.begin_time
          /\ CreditReply[i].end_time = fl.end_time
          /\ CreditReply[i].complete
      BY <3>1, SetAsCompleteFields
    <3>3. ~ (i > r)
      BY <1>3, <2>5
    <3> QED
      BY <2>1, <3>2, <3>3
  <2>6. CASE i > r
    <3>1. CreditReply[i] = fl /\ ~ (i < r)
      BY <1>3, <1>4, <2>1, <2>6
    <3> QED
      BY <2>1, <3>1
  <2> QED
    BY <1>3, <2>4, <2>5, <2>6
<1>6. Len(CreditReply) = Len(flowlets) /\ CreditReply \in Seq(FlowletRecord)
  <2>1. DOMAIN CreditReply = 1..Len(flowlets) /\ CreditReply \in [1..Len(flowlets) -> FlowletRecord]
    BY <1>4, <1>5
  <2> QED
    BY <1>1, <2>1
<1>7. SameSpans(CreditReply, flowlets)
  BY <1>5, <1>6 DEF SameSpans
<1>8. CreditsTo(CreditReply, r)
  BY <1>5, <1>7 DEF CreditsTo
<1> QED
  BY <1>2, <1>3, <1>6, <1>8

\* The flowlets left by a reply have no reply, the first of them excepted.
LEMMA CreditedRest ==
  ASSUME IInv, NEW fls \in Seq(FlowletRecord), NEW r \in 1..Len(flowlets), CreditsTo(fls, r)
  PROVE  LET k == Leading(Len(fls), {i \in 1..Len(fls) : fls[i].complete})
         IN  k \in 0..Len(fls) /\ RestUnreplied(fls, k)
<1> DEFINE S == {i \in 1..Len(fls) : fls[i].complete}
<1>1. flowlets \in Seq(FlowletRecord) /\ Len(fls) \in Nat /\ Len(fls) = Len(flowlets)
  BY DEF IInv, TypeOK, CreditsTo, SameSpans
<1>2. PICK k : k = Leading(Len(fls), S)
  OBVIOUS
<1>3. k \in 0..Len(fls) /\ k + 1 \notin S
  BY <1>1, <1>2, LeadingRun
<1>4. ~ (k + 1 < r)
  <2> SUFFICES ASSUME k + 1 < r PROVE FALSE
    OBVIOUS
  <2>1. k + 1 \in 1..Len(flowlets)
    BY <1>1, <1>3
  <2>2. fls[k + 1].complete
    BY <2>1 DEF CreditsTo
  <2> QED
    BY <1>1, <1>3, <2>1, <2>2
<1>5. ASSUME NEW i \in (k+1)..Len(fls)
      PROVE  ~fls[i].complete /\ (i > k + 1 => fls[i].reply_pkt_times = <<>>)
  <2>1. i \in 1..Len(flowlets) /\ i \in 1..Len(fls) /\ (i = k + 1 \/ i > k + 1) /\ (i > k + 1 => i > r)
    BY <1>1, <1>3, <1>4
  <2>2. CASE i = k + 1
    BY <1>3, <2>1, <2>2
  <2>3. CASE i > r
    <3>1. fls[i] = flowlets[i] /\ i > 1
      BY <2>1, <2>3 DEF CreditsTo
    <3> QED
      BY <2>1, <3>1 DEF IInv, OnlyFrontIsReplied
  <2> QED
    BY <1>3, <2>1, <2>2, <2>3
<1> QED
  BY <1>2, <1>3, <1>5 DEF RestUnreplied

\* check_reply() preserves the invariant.
LEMMA CheckReplyStep ==
  ASSUME IInv, CheckReply, UNCHANGED <<now, reply_rtt>>
  PROVE  IInv'
<1>1. ~panicked /\ KeepsRest /\ reply_nums' \in Nat
  BY DEF CheckReply, KeepsRest, IInv, TypeOK
<1>2. CASE UNCHANGED <<packets, flowlets, detected_loss>>
  <2>1. TypeOK'
    BY <1>1, <1>2 DEF IInv, TypeOK, KeepsRest
  <2>2. FlowletsPartitionPackets' /\ OnlyFrontIsReplied' /\ LossesLeftTheQueue'
    BY <1>1, <1>2 DEF IInv, KeepsRest, FlowletsPartitionPackets, OnlyFrontIsReplied, LossesLeftTheQueue
  <2>3. FlowletsAreOrderedInTime'
    BY <1>1, <1>2 DEF IInv, KeepsRest, FlowletsAreOrderedInTime, InTimeOrder
  <2> QED
    BY <2>1, <2>2, <2>3 DEF IInv
<1>3. CASE ~ UNCHANGED <<packets, flowlets, detected_loss>>
  <2>1. flowlets # <<>>
    BY <1>3 DEF CheckReply
  <2>2. PICK fls : fls = CreditReply
    OBVIOUS
  <2>3. PICK k : k = Leading(Len(fls), {i \in 1..Len(fls) : fls[i].complete})
    OBVIOUS
  <2>4. CompleteFlowlets(fls, k)
    BY <1>3, <2>2, <2>3 DEF CheckReply
  <2>5. /\ fls \in Seq(FlowletRecord) /\ Credited \in 1..Len(flowlets)
        /\ CreditsTo(fls, Credited)
    BY <2>1, <2>2, CreditShape
  <2>6. k \in 0..Len(fls) /\ RestUnreplied(fls, k)
    BY <2>3, <2>5, CreditedRest
  <2>7. SameSpans(fls, flowlets)
    BY <2>5 DEF CreditsTo
  <2> QED
    BY <1>1, <2>4, <2>5, <2>6, <2>7, CompleteStep
<1> QED
  BY <1>2, <1>3

-----------------------------------------------------------------------------
(* The other operations.                                                    *)

\* A reset pops flowlets, and those it leaves have no replies.
LEMMA ResetPops ==
  ASSUME IInv, ResetDueToRttDeviation
  PROVE  /\ flowlets' \in Seq(FlowletRecord)
         /\ packets' \in Seq(Packet) /\ Len(packets') <= Len(packets)
         /\ Partition(flowlets', packets', processed) /\ InTimeOrder(flowlets', packets')
         /\ \A i \in 1..Len(flowlets') : ~flowlets'[i].complete /\ flowlets'[i].reply_pkt_times = <<>>
<1> DEFINE S == {i \in 1..Len(flowlets) : flowlets[i].reply_pkt_times # <<>>}
<1>1. ~panicked
  BY DEF ResetDueToRttDeviation
<1>2. /\ flowlets \in Seq(FlowletRecord) /\ packets \in Seq(Packet)
      /\ processed \in Nat /\ Len(flowlets) \in Nat
      /\ Partition(flowlets, packets, processed) /\ InTimeOrder(flowlets, packets)
  BY <1>1 DEF IInv, TypeOK, FlowletsPartitionPackets, FlowletsAreOrderedInTime
<1>3. PICK k : k = Leading(Len(flowlets), S)
  OBVIOUS
<1>4. k \in 0..Len(flowlets) /\ k + 1 \notin S
  BY <1>2, <1>3, LeadingRun
<1>5. PopsTo(flowlets, packets, k, flowlets', packets')
  BY <1>3 DEF ResetDueToRttDeviation, PopsTo
<1>6. PICK popped : popped = Cardinality(NumbersOf(flowlets, k))
  OBVIOUS
<1>7. /\ flowlets' \in Seq(FlowletRecord) /\ IsSuffix(flowlets', flowlets, k)
      /\ packets' \in Seq(Packet) /\ IsSuffix(packets', packets, popped)
      /\ popped \in 0..Len(packets)
      /\ Partition(flowlets', packets', processed) /\ InTimeOrder(flowlets', packets')
  BY <1>2, <1>4, <1>5, <1>6, PopKeepsPartition
<1>8. ASSUME NEW i \in 1..Len(flowlets')
      PROVE  ~flowlets'[i].complete /\ flowlets'[i].reply_pkt_times = <<>>
  <2>1. k + i \in 1..Len(flowlets) /\ flowlets'[i] = flowlets[k + i]
    BY <1>7 DEF IsSuffix
  <2>2. k + i = k + 1 \/ k + i > 1
    BY <1>2, <1>4
  <2>3. CASE k + i = k + 1
    <3>1. flowlets[k + i].reply_pkt_times = <<>>
      BY <1>4, <2>1, <2>3
    <3> QED
      BY <2>1, <3>1 DEF IInv, OnlyFrontIsReplied
  <2>4. CASE k + i > 1
    BY <2>1, <2>4 DEF IInv, OnlyFrontIsReplied
  <2> QED
    BY <2>2, <2>3, <2>4
<1>9. Len(packets') <= Len(packets)
  <2>1. Len(packets) \in Nat /\ Len(packets') = Len(packets) - popped
    BY <1>2, <1>7 DEF IsSuffix
  <2> QED
    BY <1>7, <2>1
<1> QED
  BY <1>7, <1>8, <1>9

\* reset_due_to_rtt_deviation() preserves the invariant.
LEMMA ResetStep ==
  ASSUME IInv, ResetDueToRttDeviation, UNCHANGED <<now, reply_rtt>>
  PROVE  IInv'
<1>1. KeepsRest /\ reply_nums' = reply_nums /\ detected_loss' = detected_loss
  BY DEF ResetDueToRttDeviation, KeepsRest
<1>2. /\ flowlets' \in Seq(FlowletRecord)
      /\ packets' \in Seq(Packet) /\ Len(packets') <= Len(packets)
      /\ Partition(flowlets', packets', processed) /\ InTimeOrder(flowlets', packets')
      /\ \A i \in 1..Len(flowlets') : ~flowlets'[i].complete /\ flowlets'[i].reply_pkt_times = <<>>
  BY ResetPops
<1>3. TypeOK'
  BY <1>1, <1>2 DEF IInv, TypeOK, KeepsRest
<1>4. OnlyFrontIsReplied'
  BY <1>2 DEF OnlyFrontIsReplied
<1>5. FlowletsPartitionPackets'
  BY <1>1, <1>2 DEF FlowletsPartitionPackets, KeepsRest
<1>6. InTimeOrder(flowlets, packets)'
  BY <1>1, <1>2 DEF InTimeOrder, KeepsRest
<1>7. LossesLeftTheQueue'
  <2>1. /\ packets \in Seq(Packet) /\ processed \in Nat /\ detected_loss \in SUBSET Nat
        /\ \A n \in detected_loss : n <= processed - Len(packets)
    BY DEF IInv, TypeOK, LossesLeftTheQueue
  <2>2. Len(packets) \in Nat /\ Len(packets') \in Nat
    BY <1>2, <2>1
  <2>3. /\ processed - Len(packets) \in Int /\ processed - Len(packets') \in Int
        /\ processed - Len(packets) <= processed - Len(packets')
    BY <1>2, <2>1, <2>2
  <2>4. \A n \in detected_loss : n <= processed - Len(packets')
    BY <2>1, <2>3, LossesStayBelow
  <2> QED
    BY <1>1, <2>4 DEF LossesLeftTheQueue, KeepsRest
<1> QED
  BY <1>3, <1>4, <1>5, <1>6, <1>7 DEF IInv, FlowletsAreOrderedInTime

\* pop_retransmit_front() preserves the invariant.
LEMMA RetransmitStep ==
  ASSUME IInv, Retransmit
  PROVE  IInv'
<1>1. /\ now' = now /\ reply_rtt' = reply_rtt /\ packets' = packets /\ flowlets' = flowlets
      /\ processed' = processed /\ reply_nums' = reply_nums
      /\ last_packet_time' = last_packet_time /\ smoothed_interval' = smoothed_interval
      /\ eliciting_threshold' = eliciting_threshold /\ panicked' = panicked
      /\ detected_loss' \subseteq detected_loss
  BY DEF Retransmit, PopRetransmitFront
<1>2. TypeOK'
  BY <1>1 DEF IInv, TypeOK
<1>3. FlowletsPartitionPackets' /\ OnlyFrontIsReplied' /\ LossesLeftTheQueue'
  BY <1>1 DEF IInv, FlowletsPartitionPackets, OnlyFrontIsReplied, LossesLeftTheQueue
<1>4. FlowletsAreOrderedInTime'
  BY <1>1 DEF IInv, FlowletsAreOrderedInTime, InTimeOrder
<1> QED
  BY <1>2, <1>3, <1>4 DEF IInv

\* The clock moves on, or stays, and the RTT changes: the invariant does not
\* depend on the RTT, and later times keep the order.
LEMMA TimeStep ==
  ASSUME IInv, Tick \/ RttChange \/ UNCHANGED vars
  PROVE  IInv'
<1>1. /\ packets' = packets /\ flowlets' = flowlets /\ detected_loss' = detected_loss
      /\ processed' = processed /\ reply_nums' = reply_nums
      /\ last_packet_time' = last_packet_time /\ smoothed_interval' = smoothed_interval
      /\ eliciting_threshold' = eliciting_threshold /\ panicked' = panicked
  BY DEF Tick, RttChange, vars, queueVars
<1>2. now \in Nat /\ (now' = now \/ now' = now + 1) /\ reply_rtt' \in Nat
  BY PacketQueueAssumption DEF Tick, RttChange, vars, IInv, TypeOK
<1>3. TypeOK'
  BY <1>1, <1>2 DEF IInv, TypeOK
<1>4. FlowletsPartitionPackets' /\ OnlyFrontIsReplied' /\ LossesLeftTheQueue'
  BY <1>1 DEF IInv, FlowletsPartitionPackets, OnlyFrontIsReplied, LossesLeftTheQueue
<1>5. ASSUME InTimeOrder(flowlets, packets)
      PROVE  InTimeOrder(flowlets, packets)'
  <2>1. ASSUME NEW i \in 1..Len(flowlets) PROVE flowlets[i].end_time <= now'
    <3>1. flowlets[i].end_time <= now
      BY <1>5 DEF InTimeOrder
    <3>2. flowlets[i].end_time \in Nat
      BY FlowletFields DEF IInv, TypeOK
    <3> QED
      BY <1>2, <3>1, <3>2
  <2> QED
    BY <1>1, <1>5, <2>1 DEF InTimeOrder
<1>6. FlowletsAreOrderedInTime'
  BY <1>1, <1>5 DEF IInv, FlowletsAreOrderedInTime
<1> QED
  BY <1>3, <1>4, <1>6 DEF IInv

-----------------------------------------------------------------------------
(* The theorems.                                                            *)

LEMMA InitInvariant == Init => IInv
<1> SUFFICES ASSUME Init PROVE IInv
  OBVIOUS
<1>1. TypeOK
  <2>1. reply_rtt \in Nat /\ smoothed_interval \in Nat
    BY PacketQueueAssumption DEF Init
  <2>2. packets \in Seq(Packet) /\ flowlets \in Seq(FlowletRecord)
    BY DEF Init
  <2> QED
    BY <2>1, <2>2 DEF Init, TypeOK
<1>2. OnlyFrontIsReplied /\ LossesLeftTheQueue
  BY DEF Init, OnlyFrontIsReplied, LossesLeftTheQueue
<1>3. Partition(flowlets, packets, processed)
  <2>1. Len(flowlets) = 0 /\ Len(packets) = 0 /\ processed = 0 /\ 1..0 = {} /\ (0 - 0 + 1)..0 = {}
    BY DEF Init
  <2>2. NumbersOf(flowlets, 0) = {}
    BY <2>1 DEF NumbersOf
  <2> QED
    BY <2>1, <2>2 DEF Partition, Consecutive
<1>4. InTimeOrder(flowlets, packets)
  BY DEF Init, InTimeOrder
<1> QED
  BY <1>1, <1>2, <1>3, <1>4 DEF IInv, FlowletsPartitionPackets, FlowletsAreOrderedInTime

LEMMA NextInvariant == IInv /\ [Next]_vars => IInv'
<1> SUFFICES ASSUME IInv, [Next]_vars PROVE IInv'
  OBVIOUS
<1>1. CASE Tick \/ RttChange \/ UNCHANGED vars
  BY <1>1, TimeStep
<1>2. CASE Arrival
  <2>1. UNCHANGED <<now, reply_rtt>>
    BY <1>2 DEF Arrival
  <2>2. CASE \E raw \in BOOLEAN : Add(raw)
    BY <2>1, <2>2, AddStep
  <2>3. CASE CheckReply
    BY <2>1, <2>3, CheckReplyStep
  <2>4. CASE ResetDueToRttDeviation
    BY <2>1, <2>4, ResetStep
  <2> QED
    BY <1>2, <2>2, <2>3, <2>4 DEF Arrival
<1>3. CASE TimerFires
  BY <1>3, OnTimeoutStep DEF TimerFires
<1>4. CASE Retransmit
  BY <1>4, RetransmitStep
<1> QED
  BY <1>1, <1>2, <1>3, <1>4 DEF Next

\* The invariant is inductive: every operation of the queue, called in any order,
\* at any times and with any RTTs, preserves it.
THEOREM Invariant == Spec => []IInv
  BY InitInvariant, NextInvariant, PTL DEF Spec

\* The variables of the queue keep their types.
THEOREM TypeCorrect == Spec => []TypeOK
<1>1. IInv => TypeOK
  BY DEF IInv
<1> QED
  BY <1>1, Invariant, PTL

\* The flowlets partition the queued packets: the assertions on packet numbers
\* in remove_a_complete_flowlet and reset_due_to_rtt_deviation never fail, and
\* get_packet's arithmetic finds the packet it looks for.
THEOREM PartitionCorrect == Spec => []FlowletsPartitionPackets
<1>1. IInv => FlowletsPartitionPackets
  BY DEF IInv
<1> QED
  BY <1>1, Invariant, PTL

\* Only the front flowlet is ever replied and none is left complete.
THEOREM FrontCorrect == Spec => []OnlyFrontIsReplied
<1>1. IInv => OnlyFrontIsReplied
  BY DEF IInv
<1> QED
  BY <1>1, Invariant, PTL

\* Flowlets never overlap in time.
THEOREM TimeOrderCorrect == Spec => []FlowletsAreOrderedInTime
<1>1. IInv => FlowletsAreOrderedInTime
  BY DEF IInv
<1> QED
  BY <1>1, Invariant, PTL

\* A packet handed over for retransmission has left the queue for good.
THEOREM LossesCorrect == Spec => []LossesLeftTheQueue
<1>1. IInv => LossesLeftTheQueue
  BY DEF IInv
<1> QED
  BY <1>1, Invariant, PTL

\* No replied flowlet survives a reset, although the loop of
\* reset_due_to_rtt_deviation stops at the first flowlet without a reply.
THEOREM ResetCorrect == Spec => ResetDropsEveryRepliedFlowlet
<1>1. IInv => [ResetDueToRttDeviation =>
                 \A i \in 1..Len(flowlets') : flowlets'[i].reply_pkt_times = <<>>]_vars
  BY ResetPops
<1> QED
  BY <1>1, Invariant, PTL DEF ResetDropsEveryRepliedFlowlet
=============================================================================
