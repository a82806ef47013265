------------------------ MODULE PacketQueueLoss_proofs ------------------------
(***************************************************************************)
(* The proof that no packet is declared lost before the reply to the end of *)
(* its flowlet was due, for every value of the queue's constants.           *)
(***************************************************************************)
EXTENDS PacketQueue_proofs

\* The verdict on a flowlet names packets of the flowlet only.
LEMMA LossedInFlowlet ==
  ASSUME NEW fl \in FlowletRecord, NEW rtt, NEW threshold,
         NEW n \in LossedPkts(fl, SentPktTimes(fl), rtt, threshold)
  PROVE  n \in Range(fl.pkt_nums)
<1>1. fl.pkt_nums \in Seq(Nat)
  BY DEF FlowletRecord
<1>2. PICK len \in Nat : len = Len(fl.pkt_nums) /\ DOMAIN fl.pkt_nums = 1..len
  BY <1>1
<1>3. PICK sent : sent = SentPktTimes(fl)
  OBVIOUS
<1>4. Len(sent) = len
  BY <1>2, <1>3 DEF SentPktTimes
<1>5. CASE fl.reply_pkt_times = <<>>
  BY <1>5 DEF LossedPkts, Range
<1>6. CASE fl.reply_pkt_times # <<>>
  <2>1. PICK map : n \in ExtractPartLoss(fl, sent, map, threshold)
    BY <1>3, <1>6 DEF LossedPkts
  <2>2. PICK i \in 1..Len(sent) : n = fl.pkt_nums[i]
    BY <2>1 DEF ExtractPartLoss
  <2> QED
    BY <1>2, <1>4, <2>2 DEF Range
<1> QED
  BY <1>5, <1>6

\* A new loss is a packet of a completed flowlet.
LEMMA NewLossInFlowlet ==
  ASSUME NEW fls \in Seq(FlowletRecord), NEW k \in 0..Len(fls), CompleteFlowlets(fls, k),
         NEW n \in detected_loss' \ detected_loss
  PROVE  \E i \in 1..k : n \in Range(fls[i].pkt_nums)
<1>1. PICK i \in 1..k :
        n \in LossedPkts(fls[i], SentPktTimes(fls[i]), reply_rtt, eliciting_threshold)
  BY DEF CompleteFlowlets
<1>2. i \in 1..Len(fls)
  OBVIOUS
<1>3. fls[i] \in FlowletRecord
  BY <1>2
<1> QED
  BY <1>1, <1>3, LossedInFlowlet

\* The span of a flowlet in the queue.
LEMMA FlowletTimes ==
  ASSUME IInv, ~panicked, NEW i \in 1..Len(flowlets)
  PROVE  /\ flowlets[i] \in FlowletRecord
         /\ flowlets[i].begin_time \in Nat /\ flowlets[i].end_time \in Nat
         /\ flowlets[i].begin_time <= flowlets[i].end_time
         /\ \A j \in 1..Len(flowlets) : i < j => flowlets[i].end_time < flowlets[j].begin_time
<1>1. flowlets[i] \in FlowletRecord
  BY DEF IInv, TypeOK
<1>2. flowlets[i].begin_time \in Nat /\ flowlets[i].end_time \in Nat
  BY <1>1 DEF FlowletRecord
<1>3. InTimeOrder(flowlets, packets)
  BY DEF IInv, FlowletsAreOrderedInTime
<1> QED
  BY <1>1, <1>2, <1>3 DEF InTimeOrder

\* The arithmetic of crediting the nearest flowlet: if a reply at t came before
\* the window of the flowlet <<b1, e1>>, it is farther from a later one <<b2, e2>>.
LEMMA LaterIsFarther ==
  ASSUME NEW b1 \in Nat, NEW e1 \in Nat, NEW b2 \in Nat, NEW e2 \in Nat,
         NEW rtt \in Nat, NEW t \in Nat,
         b1 <= e1, e1 < b2, b2 <= e2, t < b1 + rtt
  PROVE  ~ (t > e2 + rtt) /\ ~ (t > e1 + rtt) /\ ~ (b2 + rtt - t <= b1 + rtt - t)
  OBVIOUS

\* When several flowlets are queued, the replies to those before the credited one
\* were all due earlier.
LEMMA EarlierThanReplyedAreDue ==
  ASSUME IInv, ~panicked, flowlets # <<>>, NEW i \in 1..Len(flowlets), i < ReplyedFlowlet
  PROVE  flowlets[i].end_time + reply_rtt < now
<1>1. PICK r : r = ReplyedFlowlet
  OBVIOUS
<1>2. /\ r \in 1..Len(flowlets)
      /\ \/ InWindow(flowlets[r])
         \/ ~InWindow(flowlets[i]) /\ ReplyError(flowlets[r]) <= ReplyError(flowlets[i])
  BY <1>1, ReplyedFlowletInRange
<1>3. now \in Nat /\ reply_rtt \in Nat
  BY DEF IInv, TypeOK
<1>4. PICK b1 \in Nat, e1 \in Nat : b1 = flowlets[i].begin_time /\ e1 = flowlets[i].end_time
  BY FlowletTimes
<1>5. PICK b2 \in Nat, e2 \in Nat : b2 = flowlets[r].begin_time /\ e2 = flowlets[r].end_time
  BY <1>2, FlowletTimes
<1>6. b1 <= e1 /\ e1 < b2 /\ b2 <= e2
  BY <1>1, <1>2, <1>4, <1>5, FlowletTimes
<1>7. CASE InWindow(flowlets[r])
  <2>1. b2 + reply_rtt <= now
    BY <1>5, <1>7 DEF InWindow
  <2> QED
    BY <1>3, <1>4, <1>6, <2>1
<1>8. CASE ~InWindow(flowlets[i]) /\ ReplyError(flowlets[r]) <= ReplyError(flowlets[i])
  <2>1. e1 + reply_rtt < now \/ now < b1 + reply_rtt
    BY <1>3, <1>4, <1>8 DEF InWindow
  <2>2. ASSUME now < b1 + reply_rtt PROVE FALSE
    <3>1. /\ ~ (now > e2 + reply_rtt) /\ ~ (now > e1 + reply_rtt)
          /\ ~ (b2 + reply_rtt - now <= b1 + reply_rtt - now)
      BY <1>3, <1>6, <2>2, LaterIsFarther
    <3>2. ReplyError(flowlets[r]) = b2 + reply_rtt - now
      BY <1>5, <3>1 DEF ReplyError
    <3>3. ReplyError(flowlets[i]) = b1 + reply_rtt - now
      BY <1>4, <3>1 DEF ReplyError
    <3> QED
      BY <1>8, <3>1, <3>2, <3>3
  <2> QED
    BY <1>4, <2>1, <2>2
<1> QED
  BY <1>2, <1>7, <1>8

\* A flowlet that check_reply marks complete comes before the credited one, or is
\* too long.
LEMMA CreditedComplete ==
  ASSUME IInv, flowlets # <<>>, NEW i \in 1..Len(flowlets), CreditReply[i].complete
  PROVE  i < Credited \/ Len(flowlets[i].pkt_nums) > FLOWLET_MAX_PKTS
<1>1. flowlets \in Seq(FlowletRecord) /\ now \in Nat /\ Len(flowlets) \in Nat \ {0}
  BY DEF IInv, TypeOK
<1>2. PICK r \in 1..Len(flowlets) : r = Credited /\ CreditsTo(CreditReply, r)
  BY CreditShape
<1>3. ~flowlets[i].complete
  BY DEF IInv, OnlyFrontIsReplied
<1>4. CASE i = r
  <2>1. CreditReply[i] = IF Len(flowlets) = 1 /\ Len(flowlets[i].pkt_nums) > FLOWLET_MAX_PKTS
                         THEN SetAsComplete(AddReply(flowlets[i], now))
                         ELSE AddReply(flowlets[i], now)
    BY <1>2, <1>4 DEF CreditReply, Credited
  <2>2. AddReply(flowlets[i], now).complete = flowlets[i].complete
    <3>1. flowlets[i] \in FlowletRecord
      BY <1>1
    <3> QED
      BY <1>1, <3>1, AddReplyFields
  <2> QED
    BY <1>3, <2>1, <2>2
<1>5. CASE i > r
  <2>1. CreditReply[i] = flowlets[i]
    BY <1>2, <1>5 DEF CreditsTo
  <2> QED
    BY <1>3, <2>1
<1> QED
  BY <1>1, <1>2, <1>4, <1>5

\* What a loss reported by a step tells about its flowlet.
Due(n) ==
  \E i \in 1..Len(flowlets) :
    /\ n \in Range(flowlets[i].pkt_nums)
    /\ \/ flowlets[i].end_time + reply_rtt < now
       \/ Len(flowlets[i].pkt_nums) > FLOWLET_MAX_PKTS

\* The losses of a reply are due.
LEMMA CheckReplyLosses ==
  ASSUME IInv, CheckReply, NEW n \in detected_loss' \ detected_loss
  PROVE  Due(n)
<1>1. ~panicked
  BY DEF CheckReply
<1>2. flowlets # <<>>
  BY DEF CheckReply
<1>3. PICK fls : fls = CreditReply
  OBVIOUS
<1>4. PICK k : k = Leading(Len(fls), {i \in 1..Len(fls) : fls[i].complete})
  OBVIOUS
<1>5. CompleteFlowlets(fls, k)
  BY <1>3, <1>4 DEF CheckReply
<1>6. /\ fls \in Seq(FlowletRecord) /\ Credited \in 1..Len(flowlets)
      /\ SameSpans(fls, flowlets)
  BY <1>2, <1>3, CreditShape DEF CreditsTo
<1>7. Len(fls) \in Nat
  BY <1>6
<1>8. k \in 0..Len(fls) /\ 1..k \subseteq {i \in 1..Len(fls) : fls[i].complete}
  <2> DEFINE S == {i \in 1..Len(fls) : fls[i].complete}
  <2>1. S \subseteq 1..Len(fls) /\ k = Leading(Len(fls), S)
    BY <1>4
  <2> HIDE DEF S
  <2>2. k \in 0..Len(fls) /\ 1..k \subseteq S
    BY <1>7, <2>1, LeadingRun
  <2> QED
    BY <2>2 DEF S
<1>9. PICK i \in 1..k : n \in Range(fls[i].pkt_nums)
  BY <1>5, <1>6, <1>8, NewLossInFlowlet
<1>10. i \in 1..Len(flowlets) /\ fls[i].complete /\ fls[i].pkt_nums = flowlets[i].pkt_nums
  BY <1>6, <1>8, <1>9 DEF SameSpans
<1>11. i < Credited \/ Len(flowlets[i].pkt_nums) > FLOWLET_MAX_PKTS
  BY <1>2, <1>3, <1>10, CreditedComplete
<1>12. ASSUME i < Credited PROVE flowlets[i].end_time + reply_rtt < now
  <2>1. Credited = ReplyedFlowlet
    BY <1>10, <1>12 DEF Credited
  <2> QED
    BY <1>1, <1>2, <1>10, <1>12, <2>1, EarlierThanReplyedAreDue
<1> QED
  BY <1>9, <1>10, <1>11, <1>12 DEF Due

\* The losses of a timeout are due.
LEMMA OnTimeoutLosses ==
  ASSUME IInv, OnTimeout, NEW n \in detected_loss' \ detected_loss
  PROVE  Due(n)
<1>1. ~panicked /\ CompleteFlowlets(flowlets, Leading(Len(flowlets), Expired))
  BY DEF OnTimeout
<1>2. /\ flowlets \in Seq(FlowletRecord) /\ Len(flowlets) \in Nat
      /\ now \in Nat /\ reply_rtt \in Nat
  BY DEF IInv, TypeOK
<1>3. PICK k : k = Leading(Len(flowlets), Expired)
  OBVIOUS
<1>4. k \in 0..Len(flowlets) /\ 1..k \subseteq Expired
  <2>1. Expired \subseteq 1..Len(flowlets)
    BY DEF Expired
  <2> QED
    BY <1>2, <1>3, <2>1, LeadingRun
<1>5. PICK i \in 1..k : n \in Range(flowlets[i].pkt_nums)
  BY <1>1, <1>2, <1>3, <1>4, NewLossInFlowlet
<1>6. i \in 1..Len(flowlets) /\ now > flowlets[i].end_time + FlowletEndTimeout
  BY <1>4 DEF Expired
<1>7. TimeoutAddition \in Nat /\ FlowletEndTimeout = reply_rtt + TimeoutAddition
  BY AdditionType DEF IInv
<1>8. flowlets[i].end_time \in Nat
  BY <1>1, <1>6, FlowletTimes
<1>9. flowlets[i].end_time + reply_rtt < now
  BY <1>2, <1>6, <1>7, <1>8
<1> QED
  BY <1>5, <1>6, <1>9 DEF Due

\* No packet is declared lost before the reply to the end of its flowlet was due,
\* however the RTT that check_reply and on_timeout are given changes between
\* calls; a flowlet longer than FLOWLET_MAX_PKTS is the one exception.
THEOREM NoEarlyLoss == Spec => NoLossBeforeReplyIsDue
<1>1. IInv /\ [Next]_vars =>
        [\A n \in detected_loss' \ detected_loss : Due(n)]_vars
  <2> SUFFICES ASSUME IInv, Next, NEW n \in detected_loss' \ detected_loss
               PROVE  Due(n)
    OBVIOUS
  <2>1. CASE Tick \/ RttChange \/ Retransmit
    BY <2>1 DEF Tick, RttChange, Retransmit, PopRetransmitFront, queueVars
  <2>2. CASE Arrival
    <3>1. CASE CheckReply
      BY <3>1, CheckReplyLosses
    <3>2. CASE Add(TRUE) \/ Add(FALSE) \/ ResetDueToRttDeviation
      BY <3>2 DEF Add, ResetDueToRttDeviation
    <3> QED
      BY <2>2, <3>1, <3>2 DEF Arrival
  <2>3. CASE TimerFires
    BY <2>3, OnTimeoutLosses DEF TimerFires
  <2> QED
    BY <2>1, <2>2, <2>3 DEF Next
<1>2. IInv /\ [Next]_vars =>
        [\A n \in detected_loss' \ detected_loss :
           \E i \in 1..Len(flowlets) :
             /\ n \in Range(flowlets[i].pkt_nums)
             /\ \/ flowlets[i].end_time + reply_rtt < now
                \/ Len(flowlets[i].pkt_nums) > FLOWLET_MAX_PKTS]_vars
  BY <1>1 DEF Due
<1> QED
  BY <1>2, Invariant, PTL DEF Spec, NoLossBeforeReplyIsDue
=============================================================================
