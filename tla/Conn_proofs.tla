----------------------------- MODULE Conn_proofs -----------------------------
(***************************************************************************)
(* A connection holds packets of the client back only while the sender is   *)
(* too fast, and it implements AckForwarder.                                *)
(***************************************************************************)
EXTENDS Conn, TLAPS, SequenceTheorems

IsSeq(s) == \E S : s \in Seq(S)

\* The numbers of the packets in a queue of delayed packets.
Nums(acks) == [i \in DOMAIN acks |-> acks[i].num]

\* Queues of packets with their numbers.
IsAcks(acks) == IsSeq(acks) /\ \A i \in 1..Len(acks) : acks[i].num \in Nat

\* A queue of packets with the last one moved to the front.
LastFirst(acks) == <<acks[Len(acks)]>> \o SubSeq(acks, 1, Len(acks) - 1)

LEMMA NumsOfAcks ==
  ASSUME NEW acks, IsAcks(acks)
  PROVE  /\ Len(acks) \in Nat /\ DOMAIN acks = 1..Len(acks)
         /\ Nums(acks) \in Seq(Nat) /\ Len(Nums(acks)) = Len(acks)
         /\ \A i \in 1..Len(acks) : Nums(acks)[i] = acks[i].num
<1>1. PICK S : acks \in Seq(S)
  BY DEF IsAcks, IsSeq
<1>2. Len(acks) \in Nat /\ DOMAIN acks = 1..Len(acks)
  BY <1>1
<1>3. \A i \in 1..Len(acks) : acks[i].num \in Nat
  BY DEF IsAcks
<1> QED
  BY <1>2, <1>3 DEF Nums

LEMMA NumsOfAppend ==
  ASSUME NEW acks, IsAcks(acks), NEW a, a.num \in Nat
  PROVE  /\ IsAcks(Append(acks, a)) /\ Len(Append(acks, a)) = Len(acks) + 1
         /\ Nums(Append(acks, a)) = Append(Nums(acks), a.num)
<1>1. PICK S : acks \in Seq(S)
  BY DEF IsAcks, IsSeq
<1> DEFINE T == S \union {a}  s == Append(acks, a)  n == Len(acks)
<1>2. acks \in Seq(T)
  BY <1>1
<1>3. /\ s \in Seq(T) /\ Len(s) = n + 1 /\ n \in Nat
      /\ \A i \in 1..n : s[i] = acks[i]
      /\ s[n + 1] = a
  BY <1>2, AppendProperties
<1>4. IsAcks(s)
  <2>1. \A i \in 1..n : acks[i].num \in Nat
    BY DEF IsAcks
  <2> QED
    BY <1>3, <2>1 DEF IsAcks, IsSeq
<1>5. Nums(s) = Append(Nums(acks), a.num)
  <2> DEFINE u == Nums(s)  v == Append(Nums(acks), a.num)
  <2>1. /\ u \in Seq(Nat) /\ Len(u) = n + 1
        /\ \A i \in 1..(n + 1) : u[i] = s[i].num
    BY <1>3, <1>4, NumsOfAcks
  <2>2. /\ v \in Seq(Nat) /\ Len(v) = n + 1
        /\ \A i \in 1..n : v[i] = acks[i].num
        /\ v[n + 1] = a.num
    BY <1>3, NumsOfAcks, AppendProperties
  <2> HIDE DEF u, v, s, n
  <2>3. ASSUME NEW i \in 1..(n + 1) PROVE u[i] = v[i]
    <3>1. i \in 1..n \/ i = n + 1
      BY <1>3
    <3>2. u[i] = s[i].num
      BY <2>1, Zenon
    <3>3. CASE i \in 1..n
      BY <3>2, <3>3, <2>2, <1>3, Zenon
    <3>4. CASE i = n + 1
      BY <3>2, <3>4, <2>2, <1>3, Zenon
    <3> QED
      BY <3>1, <3>3, <3>4
  <2>4. u = v
    BY <2>1, <2>2, <2>3, SeqEqual
  <2> QED
    BY <2>4 DEF u, v
<1> QED
  BY <1>3, <1>4, <1>5

LEMMA NumsOfLastFirst ==
  ASSUME NEW acks, IsAcks(acks), Len(acks) >= 1
  PROVE  /\ IsAcks(LastFirst(acks)) /\ LastFirst(acks) # <<>>
         /\ Nums(LastFirst(acks)) = Forwarding!TailFirst(Nums(acks))
<1>1. PICK S : acks \in Seq(S)
  BY DEF IsAcks, IsSeq
<1> DEFINE n == Len(acks)  s == LastFirst(acks)  nums == Nums(acks)  m == n - 1
<1>2. /\ n \in Nat /\ n >= 1 /\ nums \in Seq(Nat) /\ Len(nums) = n
      /\ \A i \in 1..n : nums[i] = acks[i].num
  BY <1>1, NumsOfAcks
<1>3. ASSUME NEW R, NEW q \in Seq(R), Len(q) = n
      PROVE  LET t == <<q[n]>> \o SubSeq(q, 1, m)
             IN  /\ t \in Seq(R) /\ Len(t) = n /\ t[1] = q[n]
                 /\ \A i \in 2..n : t[i] = q[i - 1]
  <2> DEFINE v == SubSeq(q, 1, m)  t == <<q[n]>> \o v
  <2>1. 1 \in Int /\ m \in Int /\ (\A i \in 1..m : q[i] \in R) /\ q[n] \in R
    BY <1>2, <1>3
  <2>2. /\ v \in Seq(R)
        /\ Len(v) = IF 1 <= m THEN m - 1 + 1 ELSE 0
        /\ \A i \in 1..(m - 1 + 1) : v[i] = q[1 + i - 1]
    BY <2>1, SubSeqProperties
  <2> HIDE DEF v, n
  <2>3. m - 1 + 1 = m /\ m \in Nat /\ \A i \in 1..m : 1 + i - 1 = i
    BY <1>2
  <2>4. Len(v) = m /\ \A i \in 1..m : v[i] = q[i]
    BY <2>2, <2>3
  <2>5. <<q[n]>> \in Seq(R) /\ Len(<<q[n]>>) = 1 /\ <<q[n]>>[1] = q[n]
    BY <2>1
  <2>6. /\ t \in Seq(R) /\ Len(t) = 1 + Len(v)
        /\ \A i \in 1..(1 + Len(v)) : t[i] = IF i <= 1 THEN <<q[n]>>[i] ELSE v[i - 1]
    BY <2>2, <2>5, ConcatProperties
  <2>7. Len(t) = n
    BY <2>4, <2>6, <1>2
  <2>8. t[1] = q[n]
    BY <2>4, <2>5, <2>6, <1>2
  <2>9. ASSUME NEW i \in 2..n PROVE t[i] = q[i - 1]
    <3>1. i \in 1..(1 + Len(v)) /\ ~ (i <= 1) /\ i - 1 \in 1..m
      BY <2>4, <1>2
    <3> QED
      BY <3>1, <2>4, <2>6
  <2> QED
    BY <2>6, <2>7, <2>8, <2>9 DEF v
<1>4. /\ s \in Seq(S) /\ Len(s) = n /\ s[1] = acks[n]
      /\ \A i \in 2..n : s[i] = acks[i - 1]
  BY <1>1, <1>3 DEF LastFirst
<1> DEFINE t == Forwarding!TailFirst(nums)
<1>5. /\ t \in Seq(Nat) /\ Len(t) = n /\ t[1] = nums[n]
      /\ \A i \in 2..n : t[i] = nums[i - 1]
  BY <1>2, <1>3 DEF Forwarding!TailFirst
<1>6. IsAcks(s) /\ s # <<>>
  <2>1. \A i \in 1..n : acks[i].num \in Nat
    BY DEF IsAcks
  <2>2. \A i \in 1..n : i = 1 \/ (i \in 2..n /\ i - 1 \in 1..n)
    BY <1>2
  <2>3. ASSUME NEW i \in 1..n PROVE s[i].num \in Nat
    <3> HIDE DEF s, n
    <3>1. CASE i = 1
      <4>1. n \in 1..n
        BY <1>2
      <4> QED
        BY <3>1, <4>1, <1>4, <2>1, Zenon
    <3>2. CASE i \in 2..n /\ i - 1 \in 1..n
      BY <3>2, <1>4, <2>1, Zenon
    <3> QED
      BY <3>1, <3>2, <2>2, Zenon
  <2>4. s # <<>>
    BY <1>2, <1>4
  <2> QED
    BY <1>4, <2>3, <2>4 DEF IsAcks, IsSeq
<1> DEFINE u == Nums(s)
<1>7. /\ u \in Seq(Nat) /\ Len(u) = n
      /\ \A i \in 1..n : u[i] = s[i].num
  BY <1>4, <1>6, NumsOfAcks
<1> HIDE DEF u, t, s, nums, n
<1>8. ASSUME NEW i \in 1..n PROVE u[i] = t[i]
  <2>1. CASE i = 1
    <3>1. 1 \in 1..n /\ n \in 1..n
      BY <1>2
    <3>2. u[1] = s[1].num /\ s[1] = acks[n] /\ t[1] = nums[n] /\ nums[n] = acks[n].num
      BY <3>1, <1>2, <1>4, <1>5, <1>7, Zenon
    <3> QED
      BY <3>2, <2>1, Zenon
  <2>2. CASE i # 1
    <3>1. i \in 2..n /\ i - 1 \in 1..n
      BY <2>2, <1>2
    <3> QED
      BY <3>1, <1>2, <1>4, <1>5, <1>7
  <2> QED
    BY <2>1, <2>2
<1>9. u = t
  BY <1>5, <1>7, <1>8, SeqEqual
<1> QED
  BY <1>6, <1>9 DEF u, t, s, nums

-----------------------------------------------------------------------------
(* check_delayed_acks.                                                      *)

\* What CheckDelayedAcks sends of a queue: nothing, all of it, or, only when the
\* sender is too fast, all of it with the last packet first.  What it keeps is
\* within the threshold.
LEMMA SentAcksCases ==
  ASSUME NEW acks, IsAcks(acks), NEW fast \in BOOLEAN, NEW begin
  PROVE  /\ ~ fast => SentAcks(acks, fast, begin) = acks
         /\ fast => \/ Len(acks) >= 1 /\ SentAcks(acks, fast, begin) = LastFirst(acks)
                    \/ /\ SentAcks(acks, fast, begin) = <<>>
                       /\ Len(acks) <= 2 * DELAY_kPacketThreshold
<1> DEFINE n == Len(acks)
           late == now - acks[1].forward_ts > TimeThresh(acks[1], begin)
<1>1. n \in Nat
  BY NumsOfAcks
<1>2. PktThresh(acks[1], begin) \in {DELAY_kPacketThreshold, DELAY_kPacketThreshold * 2}
  BY DEF PktThresh
<1>3. DELAY_kPacketThreshold \in Nat \ {0}
  BY ConnAssumption
<1> HIDE DEF late
<1>4. SentAcks(acks, fast, begin) =
        IF ~ fast THEN acks
        ELSE IF n >= 2 /\ (n > PktThresh(acks[1], begin) \/ late) THEN LastFirst(acks) ELSE <<>>
  BY Zenon DEF SentAcks, LastFirst, late
<1> HIDE DEF n
<1>5. CASE n >= 2 /\ (n > PktThresh(acks[1], begin) \/ late)
  <2>1. n >= 1
    BY <1>1, <1>5
  <2> QED
    BY <2>1, <1>4, <1>5, Zenon DEF n
<1>6. CASE ~ (n >= 2 /\ (n > PktThresh(acks[1], begin) \/ late))
  <2>1. n <= 2 * DELAY_kPacketThreshold
    BY <1>1, <1>2, <1>3, <1>6
  <2> QED
    BY <2>1, <1>4, <1>6, Zenon DEF n
<1> QED
  BY <1>5, <1>6

\* The inductive invariant.
Inv ==
  /\ now \in Nat /\ to_server_pkt_num \in Nat
  /\ forwarded \in Seq(Nat)
  /\ IsAcks(delayed_ack_queue)
  /\ overspeed \in BOOLEAN
  /\ HeldOnlyWhileOverspeed

\* Forwarding the packet num, if any, ahead of a queue that is empty.
LEMMA CheckEmpty ==
  ASSUME forwarded \in Seq(Nat), NEW first \in Seq(Nat), NEW fast \in BOOLEAN, NEW begin,
         CheckDelayedAcks(first, <<>>, fast, begin)
  PROVE  forwarded' = forwarded \o first /\ delayed_ack_queue' = <<>>
<1>1. IsAcks(<<>>) /\ Len(<<>>) = 0
  BY DEF IsAcks, IsSeq
<1>2. SentAcks(<<>>, fast, begin) = <<>>
  BY <1>1, SentAcksCases
<1>3. forwarded' = forwarded \o first \o [i \in DOMAIN <<>> |-> <<>>[i].num]
  BY <1>2 DEF CheckDelayedAcks
<1>4. [i \in DOMAIN <<>> |-> <<>>[i].num] = <<>>
  OBVIOUS
<1>5. forwarded \o first \in Seq(Nat)
  BY ConcatProperties
<1>6. forwarded' = forwarded \o first
  BY <1>3, <1>4, <1>5, ConcatEmptySeq
<1> QED
  BY <1>2, <1>6 DEF CheckDelayedAcks

\* Checking a queue that is not empty: it is kept, or let go of.
LEMMA CheckNonempty ==
  ASSUME forwarded \in Seq(Nat), NEW acks, IsAcks(acks), acks # <<>>,
         NEW fast \in BOOLEAN, NEW begin,
         CheckDelayedAcks(<<>>, acks, fast, begin)
  PROVE  \/ /\ fast /\ delayed_ack_queue' = acks /\ forwarded' = forwarded
            /\ Len(acks) <= 2 * DELAY_kPacketThreshold
         \/ /\ delayed_ack_queue' = <<>>
            /\ \E order \in {Nums(acks), Forwarding!TailFirst(Nums(acks))} :
                 forwarded' = forwarded \o order
<1> DEFINE sent == SentAcks(acks, fast, begin)
<1>1. forwarded' = forwarded \o Nums(sent)
  <2>1. forwarded \o <<>> = forwarded
    BY ConcatEmptySeq
  <2> QED
    BY <2>1, Zenon DEF CheckDelayedAcks, Nums
<1>2. delayed_ack_queue' = IF sent = <<>> THEN acks ELSE <<>>
  BY Zenon DEF CheckDelayedAcks
<1>3. CASE ~ fast
  <2>1. sent = acks
    BY <1>3, SentAcksCases
  <2> QED
    BY <2>1, <1>1, <1>2
<1>4. CASE fast /\ Len(acks) >= 1 /\ sent = LastFirst(acks)
  <2>1. sent # <<>> /\ Nums(sent) = Forwarding!TailFirst(Nums(acks))
    BY <1>4, NumsOfLastFirst
  <2> QED
    BY <2>1, <1>1, <1>2
<1>5. CASE fast /\ sent = <<>> /\ Len(acks) <= 2 * DELAY_kPacketThreshold
  <2>1. Nums(<<>>) = <<>>
    BY DEF Nums
  <2>2. forwarded' = forwarded
    BY <2>1, <1>1, <1>5, ConcatEmptySeq
  <2> QED
    BY <2>2, <1>2, <1>5
<1> QED
  BY <1>3, <1>4, <1>5, SentAcksCases

LEMMA LetGoType ==
  ASSUME forwarded \in Seq(Nat), NEW acks, IsAcks(acks), acks # <<>>,
         NEW order \in {Nums(acks), Forwarding!TailFirst(Nums(acks))}
  PROVE  forwarded \o order \in Seq(Nat) /\ Nums(acks) # <<>>
<1>1. PICK S : acks \in Seq(S)
  BY DEF IsAcks, IsSeq
<1>2. Len(acks) \in Nat /\ Len(acks) >= 1
  BY <1>1
<1>3. Nums(acks) \in Seq(Nat) /\ Len(Nums(acks)) = Len(acks)
  BY NumsOfAcks
<1>4. IsAcks(LastFirst(acks)) /\ Nums(LastFirst(acks)) = Forwarding!TailFirst(Nums(acks))
  BY <1>2, NumsOfLastFirst
<1>5. Nums(LastFirst(acks)) \in Seq(Nat)
  BY <1>4, NumsOfAcks
<1>6. order \in Seq(Nat)
  BY <1>3, <1>4, <1>5, Zenon
<1>7. Nums(acks) # <<>>
  BY <1>2, <1>3
<1> QED
  BY <1>6, <1>7, ConcatProperties

-----------------------------------------------------------------------------
(* The steps.                                                               *)

\* What the rest of the connection sees of a step in which no packet comes.
Apart ==
  /\ UNCHANGED <<delayed_ack_queue, forwarded, overspeed, overspeed_begin, state,
                 to_server_pkt_num>>
  /\ UNCHANGED panicked \/ ~ panicked \/ panicked'
  /\ now' \in Nat

\* Ticks, overflows, timers, calibrations and retransmissions leave the client's
\* packets alone.
LEMMA OtherStepsAreApart ==
  ASSUME Inv,
         \/ Tick \/ ClientPacketOverflows \/ Calibration \/ OnTimeout \/ Retransmission
         \/ UNCHANGED vars
  PROVE  Apart
<1>1. now \in Nat
  BY DEF Inv
<1>2. CASE Tick
  BY <1>1, <1>2 DEF Tick, Apart, ackVars, speedVars, queueVars
<1>3. CASE ClientPacketOverflows
  BY <1>1, <1>3 DEF ClientPacketOverflows, Apart, ackVars, speedVars
<1>4. CASE Calibration
  <2>1. PICK sample \in CalibrationSamples : RttCalibration(sample)
    BY <1>4 DEF Calibration
  <2> QED
    BY <1>1, <2>1, Zenon DEF RttCalibration, Apart, ackVars, speedVars
<1>5. CASE OnTimeout
  <2>1. ~ panicked
    BY <1>5 DEF OnTimeout, Q!OnTimeout
  <2> QED
    BY <1>1, <1>5, <2>1, Zenon DEF OnTimeout, Apart, ackVars, speedVars
<1>6. CASE Retransmission
  <2>1. CASE ToClientRetransTask
    BY <1>1, <2>1, Zenon DEF ToClientRetransTask, Apart, ackVars, speedVars
  <2>2. ASSUME NEW skip \in BOOLEAN, ProcessRetransTask(skip) PROVE Apart
    BY <1>1, <2>2, Zenon DEF ProcessRetransTask, Apart, ackVars, speedVars
  <2> QED
    BY <1>6, <2>1, <2>2 DEF Retransmission
<1>7. CASE UNCHANGED vars
  BY <1>1, <1>7 DEF vars, Apart, ackVars, speedVars, queueVars
<1> QED
  BY <1>2, <1>3, <1>4, <1>5, <1>6, <1>7

\* A step of AckForwarder, or one that it does not see.
Forwards == Forwarding!Next \/ UNCHANGED Forwarding!vars

LEMMA ApartStep ==
  ASSUME Inv, Apart
  PROVE  Inv' /\ Forwards
<1>1. UNCHANGED Forwarding!vars
  BY DEF Apart, Forwarding!vars, DelayedNums
<1>2. HeldOnlyWhileOverspeed'
  <2>1. panicked => panicked'
    BY DEF Apart
  <2> QED
    BY <2>1, Zenon DEF Inv, Apart, HeldOnlyWhileOverspeed, None
<1>3. Inv'
  <2>1. IsAcks(delayed_ack_queue')
    BY DEF Inv, Apart
  <2> QED
    BY <1>2, <2>1 DEF Inv, Apart
<1> QED
  BY <1>1, <1>3 DEF Forwards

\* A packet of the client is held back, or goes to the server.
LEMMA ClientPacketStep ==
  ASSUME Inv, NEW size \in ClientSizes, ClientPacket(size)
  PROVE  Inv' /\ Forwards
<1> DEFINE num == to_server_pkt_num + 1
           ack == [num |-> num, forward_ts |-> now, e2e_rtt |-> client_rtt + server_rtt]
           acks == Append(delayed_ack_queue, ack)
<1>1. /\ ~ panicked /\ now' = now
      /\ to_server_pkt_num' = num
      /\ UNCHANGED <<state, overspeed, overspeed_begin>>
  BY Zenon DEF ClientPacket, PacketComes, speedVars
<1>2. \/ /\ overspeed /\ state = "Handshaked"
         /\ CheckDelayedAcks(<<>>, acks, overspeed, overspeed_begin)
      \/ /\ ~ (overspeed /\ state = "Handshaked")
         /\ CheckDelayedAcks(<<num>>, delayed_ack_queue, overspeed, overspeed_begin)
  BY Zenon DEF ClientPacket
<1>3. /\ forwarded \in Seq(Nat) /\ IsAcks(delayed_ack_queue) /\ overspeed \in BOOLEAN
      /\ now \in Nat /\ num \in Nat /\ HeldOnlyWhileOverspeed
  BY DEF Inv
<1>4. DelayedNums = Nums(delayed_ack_queue) /\ DelayedNums' = Nums(delayed_ack_queue')
  BY DEF DelayedNums, Nums
<1>5. /\ IsAcks(<<>>) /\ Nums(<<>>) = <<>> /\ Len(<<>>) = 0
  BY DEF IsAcks, IsSeq, Nums
<1>6. ack.num = num
  OBVIOUS
<1>7. /\ IsAcks(acks) /\ Len(acks) = Len(delayed_ack_queue) + 1
      /\ Nums(acks) = Append(Nums(delayed_ack_queue), num)
      /\ Len(delayed_ack_queue) \in Nat
  <2> HIDE DEF ack
  <2> QED
    BY <1>3, <1>6, NumsOfAppend, NumsOfAcks
<1>8. acks # <<>> /\ Nums(acks) # <<>>
  <2>1. Len(acks) # 0 /\ Len(Nums(acks)) # 0
    BY <1>7, NumsOfAcks
  <2> HIDE DEF acks
  <2> QED
    BY <2>1, <1>5
<1> HIDE DEF ack, acks
<1>9. CASE /\ overspeed /\ state = "Handshaked"
           /\ CheckDelayedAcks(<<>>, acks, overspeed, overspeed_begin)
  <2>1. CASE /\ delayed_ack_queue' = acks /\ forwarded' = forwarded
             /\ Len(acks) <= 2 * DELAY_kPacketThreshold
    <3>1. Forwarding!Come
      BY <2>1, <1>1, <1>4, <1>7 DEF Forwarding!Come
    <3>2. HeldOnlyWhileOverspeed'
      BY <2>1, <1>1, <1>3, <1>9, Zenon DEF HeldOnlyWhileOverspeed, None
    <3> QED
      BY <3>1, <3>2, <2>1, <1>1, <1>3, <1>7 DEF Inv, Forwards, Forwarding!Next
  <2>2. CASE /\ delayed_ack_queue' = <<>>
             /\ \E order \in {Nums(acks), Forwarding!TailFirst(Nums(acks))} :
                  forwarded' = forwarded \o order
    <3>1. Forwarding!LetGo(Nums(acks))
      BY <2>2, <1>4, <1>5, <1>8 DEF Forwarding!LetGo
    <3>2. Forwarding!Come
      BY <3>1, <1>1, <1>4, <1>7 DEF Forwarding!Come
    <3>3. forwarded' \in Seq(Nat)
      BY <2>2, <1>3, <1>7, <1>8, LetGoType
    <3>4. HeldOnlyWhileOverspeed'
      <4>1. 0 <= 2 * DELAY_kPacketThreshold
        BY ConnAssumption
      <4> QED
        BY <4>1, <2>2, <1>1, <1>3, <1>5, Zenon DEF HeldOnlyWhileOverspeed, None
    <3> QED
      BY <3>2, <3>3, <3>4, <2>2, <1>1, <1>3, <1>5 DEF Inv, Forwards, Forwarding!Next
  <2> QED
    BY <2>1, <2>2, <1>3, <1>7, <1>8, <1>9, CheckNonempty
<1>10. CASE /\ ~ (overspeed /\ state = "Handshaked")
            /\ CheckDelayedAcks(<<num>>, delayed_ack_queue, overspeed, overspeed_begin)
  <2>1. delayed_ack_queue = <<>>
    BY <1>1, <1>3, <1>10 DEF HeldOnlyWhileOverspeed
  <2>2. <<num>> \in Seq(Nat)
    BY <1>3
  <2>3. forwarded' = forwarded \o <<num>> /\ delayed_ack_queue' = <<>>
    BY <2>1, <2>2, <1>3, <1>10, CheckEmpty
  <2>4. Append(<<>>, num) = <<num>> /\ <<num>> # <<>>
    BY <1>3
  <2>5. Forwarding!LetGo(Append(DelayedNums, to_server_pkt_num'))
    BY <2>1, <2>3, <2>4, <1>1, <1>4, <1>5 DEF Forwarding!LetGo
  <2>6. Forwarding!Come
    BY <2>5, <1>1 DEF Forwarding!Come
  <2>7. forwarded' \in Seq(Nat)
    BY <2>2, <2>3, <1>3, ConcatProperties
  <2>8. HeldOnlyWhileOverspeed'
    <3>1. 0 <= 2 * DELAY_kPacketThreshold
      BY ConnAssumption
    <3> QED
      BY <3>1, <2>3, <1>1, <1>3, <1>5, Zenon DEF HeldOnlyWhileOverspeed, None
  <2> QED
    BY <2>3, <2>6, <2>7, <2>8, <1>1, <1>3, <1>5 DEF Inv, Forwards, Forwarding!Next
<1> QED
  BY <1>2, <1>9, <1>10

\* A packet of the server lets go of the packets held back, or leaves them.
LEMMA ServerPacketStep ==
  ASSUME Inv, NEW size \in ServerSizes, NEW tooFast \in Verdicts, ServerPacket(size, tooFast)
  PROVE  Inv' /\ Forwards
<1>1. /\ ~ panicked /\ now' = now
      /\ UNCHANGED to_server_pkt_num
      /\ state' \in {state, "Handshaked"}
      /\ overspeed' = IF client_rtt = 0 THEN overspeed ELSE tooFast
      /\ overspeed_begin' = IF client_rtt = 0 \/ (tooFast /\ overspeed_begin # None)
                            THEN overspeed_begin
                            ELSE IF tooFast THEN now ELSE None
      /\ IF panicked' THEN UNCHANGED ackVars
         ELSE CheckDelayedAcks(<<>>, delayed_ack_queue, overspeed', overspeed_begin')
  BY Zenon DEF ServerPacket, PacketComes
<1>2. /\ forwarded \in Seq(Nat) /\ IsAcks(delayed_ack_queue) /\ overspeed \in BOOLEAN
      /\ now \in Nat /\ to_server_pkt_num \in Nat /\ HeldOnlyWhileOverspeed
  BY DEF Inv
<1>3. tooFast \in BOOLEAN
  BY ConnAssumption
<1>4. overspeed' \in BOOLEAN
  BY <1>1, <1>2, <1>3, Zenon
<1>5. overspeed' <=> overspeed_begin' # None
  <2>1. now # None /\ (overspeed <=> overspeed_begin # None)
    BY <1>2 DEF None, HeldOnlyWhileOverspeed
  <2>2. CASE client_rtt = 0
    BY <2>1, <2>2, <1>1, Zenon DEF None
  <2>3. CASE client_rtt # 0
    BY <2>1, <2>3, <1>1, <1>3, Zenon DEF None
  <2> QED
    BY <2>2, <2>3
<1>6. DelayedNums = Nums(delayed_ack_queue) /\ DelayedNums' = Nums(delayed_ack_queue')
  BY DEF DelayedNums, Nums
<1>7. IsAcks(<<>>) /\ Nums(<<>>) = <<>> /\ Len(<<>>) = 0 /\ <<>> \in Seq(Nat)
  BY DEF IsAcks, IsSeq, Nums
<1>8. 0 <= 2 * DELAY_kPacketThreshold
  BY ConnAssumption
<1>9. CASE panicked' \/ delayed_ack_queue = <<>>
  <2>1. UNCHANGED <<delayed_ack_queue, forwarded>>
    <3>1. CASE panicked'
      BY <3>1, <1>1 DEF ackVars
    <3>2. CASE ~ panicked' /\ delayed_ack_queue = <<>>
      <4>1. CheckDelayedAcks(<<>>, <<>>, overspeed', overspeed_begin')
        BY <3>2, <1>1
      <4>2. forwarded' = forwarded \o <<>> /\ delayed_ack_queue' = <<>>
        BY <4>1, <1>2, <1>4, <1>7, CheckEmpty
      <4> QED
        BY <4>2, <3>2, <1>2, ConcatEmptySeq
    <3> QED
      BY <3>1, <3>2, <1>9
  <2>2. HeldOnlyWhileOverspeed'
    BY <2>1, <1>2, <1>5, <1>9, Zenon DEF HeldOnlyWhileOverspeed, None
  <2>3. UNCHANGED Forwarding!vars
    BY <2>1, <1>1 DEF Forwarding!vars, DelayedNums
  <2> QED
    BY <2>1, <2>2, <2>3, <1>1, <1>2, <1>4 DEF Inv, Forwards
<1>10. CASE ~ panicked' /\ delayed_ack_queue # <<>>
  <2>1. CheckDelayedAcks(<<>>, delayed_ack_queue, overspeed', overspeed_begin')
    BY <1>1, <1>10
  <2>2. state = "Handshaked" /\ state' = "Handshaked"
    BY <1>1, <1>2, <1>10 DEF HeldOnlyWhileOverspeed
  <2>3. CASE overspeed' /\ UNCHANGED <<delayed_ack_queue, forwarded>>
    <3>1. HeldOnlyWhileOverspeed'
      BY <2>2, <2>3, <1>2, <1>5, Zenon DEF HeldOnlyWhileOverspeed, None
    <3>2. UNCHANGED Forwarding!vars
      BY <2>3, <1>1 DEF Forwarding!vars, DelayedNums
    <3> QED
      BY <3>1, <3>2, <2>3, <1>1, <1>2, <1>4 DEF Inv, Forwards
  <2>4. CASE /\ delayed_ack_queue' = <<>>
             /\ \E order \in {Nums(delayed_ack_queue),
                              Forwarding!TailFirst(Nums(delayed_ack_queue))} :
                  forwarded' = forwarded \o order
    <3>1. forwarded' \in Seq(Nat) /\ Nums(delayed_ack_queue) # <<>>
      BY <2>4, <1>2, <1>10, LetGoType
    <3>2. Forwarding!Flush
      BY <3>1, <2>4, <1>1, <1>6, <1>7 DEF Forwarding!Flush, Forwarding!LetGo
    <3>3. HeldOnlyWhileOverspeed'
      BY <2>4, <1>5, <1>7, <1>8, Zenon DEF HeldOnlyWhileOverspeed, None
    <3> QED
      BY <3>1, <3>2, <3>3, <2>4, <1>1, <1>2, <1>4, <1>7 DEF Inv, Forwards, Forwarding!Next
  <2> QED
    BY <2>1, <2>3, <2>4, <1>2, <1>4, <1>10, CheckNonempty
<1> QED
  BY <1>9, <1>10

LEMMA InitStep == Init => Inv /\ Forwarding!Init
<1> SUFFICES ASSUME Init PROVE Inv /\ Forwarding!Init
  OBVIOUS
<1>1. IsAcks(<<>>) /\ Nums(<<>>) = <<>> /\ Len(<<>>) = 0 /\ <<>> \in Seq(Nat)
  BY DEF IsAcks, IsSeq, Nums
<1>2. 0 <= 2 * DELAY_kPacketThreshold
  BY ConnAssumption
<1>3. DelayedNums = <<>>
  BY <1>1 DEF Init, DelayedNums, Nums
<1> QED
  BY <1>1, <1>2, <1>3 DEF Init, Inv, HeldOnlyWhileOverspeed, None, Forwarding!Init

LEMMA NextStep == Inv /\ [Next]_vars => Inv' /\ Forwards
<1> SUFFICES ASSUME Inv, [Next]_vars PROVE Inv' /\ Forwards
  OBVIOUS
<1>1. CASE \/ Tick \/ ClientPacketOverflows \/ Calibration \/ OnTimeout \/ Retransmission
           \/ UNCHANGED vars
  BY <1>1, OtherStepsAreApart, ApartStep
<1>2. CASE \E size \in ClientSizes : ClientPacket(size)
  BY <1>2, ClientPacketStep
<1>3. CASE \E size \in ServerSizes, tooFast \in Verdicts : ServerPacket(size, tooFast)
  BY <1>3, ServerPacketStep
<1> QED
  BY <1>1, <1>2, <1>3, Zenon DEF Next, Packet

-----------------------------------------------------------------------------
(* The theorems.                                                            *)

\* Packets are held back only while the sender is too fast, and within the bound
\* (need_reorder_ack and check_delayed_acks).
THEOREM ConnHoldsOnlyWhileOverspeed == Spec => []HeldOnlyWhileOverspeed
<1>1. Init => Inv
  BY InitStep
<1>2. Inv /\ [Next]_vars => Inv'
  BY NextStep
<1>3. Inv => HeldOnlyWhileOverspeed
  BY DEF Inv
<1> QED
  BY <1>1, <1>2, <1>3, PTL DEF Spec

\* The handlers of a connection, in any order, forward the packets of the client
\* as AckForwarder does: each once, none overtaken by two later ones.
THEOREM ConnForwardsAcks == Spec => ForwardsAcks
<1>1. Init => Inv /\ Forwarding!Init
  BY InitStep
<1>2. Inv /\ [Next]_vars => Inv'
  BY NextStep
<1>3. Inv /\ [Next]_vars => [Forwarding!Next]_(Forwarding!vars)
  BY NextStep DEF Forwards
<1> QED
  BY <1>1, <1>2, <1>3, PTL DEF Spec, ForwardsAcks, Forwarding!Spec
=============================================================================
