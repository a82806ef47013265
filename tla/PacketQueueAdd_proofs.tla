------------------------ MODULE PacketQueueAdd_proofs ------------------------
(***************************************************************************)
(* The proof that add() preserves the invariant of the queue: extending the *)
(* newest flowlet and opening a new one both keep partition and time order. *)
(***************************************************************************)
EXTENDS PacketQueueLemmas

-----------------------------------------------------------------------------
\* fls2 is fls with packet number num, forwarded at t, added to its last flowlet.
ExtendsLast(fls2, fls, num, t) ==
  /\ Len(fls2) = Len(fls)
  /\ \A i \in 1..(Len(fls)-1) : fls2[i] = fls[i]
  /\ fls2[Len(fls)].pkt_nums = Append(fls[Len(fls)].pkt_nums, num)
  /\ fls2[Len(fls)].begin_time = fls[Len(fls)].begin_time
  /\ fls2[Len(fls)].end_time = t

\* fls2 is fls with a new flowlet of packet number num, forwarded at t.
OpensFlowlet(fls2, fls, num, t) ==
  /\ Len(fls2) = Len(fls) + 1
  /\ \A i \in 1..Len(fls) : fls2[i] = fls[i]
  /\ fls2[Len(fls)+1].pkt_nums = <<num>>
  /\ fls2[Len(fls)+1].begin_time = t
  /\ fls2[Len(fls)+1].end_time = t

\* pkts2 is pkts with packet number num, forwarded at t, pushed.
PushesPacket(pkts2, pkts, num, t) ==
  /\ Len(pkts2) = Len(pkts) + 1
  /\ \A i \in 1..Len(pkts) : pkts2[i] = pkts[i]
  /\ pkts2[Len(pkts)+1].number = num
  /\ pkts2[Len(pkts)+1].timestamp = t

\* What Append adds to a list of numbers.
LEMMA AppendedNumber ==
  ASSUME NEW s \in Seq(Nat), Len(s) \in Nat \ {0}, NEW num
  PROVE  /\ Len(Append(s, num)) = Len(s) + 1
         /\ Append(s, num)[1] = s[1]
         /\ Append(s, num)[Len(s) + 1] = num
  OBVIOUS

\* One more index.
LEMMA OneMore ==
  ASSUME NEW k \in Nat
  PROVE  /\ \A j \in 1..(k + 1) : j \in 1..k \/ j = k + 1
         /\ k + 1 \in 1..(k + 1)
         /\ \A j \in 1..k : j \in 1..(k + 1)
  OBVIOUS

\* A pushed packet keeps the numbers consecutive.
LEMMA PushKeepsNumbers ==
  ASSUME NEW pkts \in Seq(Packet), NEW pkts2, NEW last \in Nat, NEW t,
         Consecutive(pkts, last), PushesPacket(pkts2, pkts, last + 1, t)
  PROVE  Consecutive(pkts2, last + 1)
<1>1. Len(pkts) \in Nat /\ Len(pkts2) = Len(pkts) + 1
  BY DEF PushesPacket
<1>2. (last + 1) - Len(pkts2) = last - Len(pkts)
  BY <1>1
<1>3. ASSUME NEW i \in 1..Len(pkts2) PROVE pkts2[i].number = last - Len(pkts) + i
  <2>1. CASE i \in 1..Len(pkts)
    <3>1. pkts2[i] = pkts[i]
      BY <2>1 DEF PushesPacket
    <3>2. pkts[i].number = last - Len(pkts) + i
      BY <2>1 DEF Consecutive
    <3> QED
      BY <3>1, <3>2
  <2>2. CASE i = Len(pkts) + 1
    <3>1. pkts2[Len(pkts) + 1].number = last + 1
      BY DEF PushesPacket
    <3>2. last + 1 = last - Len(pkts) + (Len(pkts) + 1)
      BY <1>1
    <3> QED
      BY <2>2, <3>1, <3>2
  <2> QED
    BY <1>1, <2>1, <2>2
<1> QED
  BY <1>2, <1>3, Zenon DEF Consecutive

\* A packet that joins the last flowlet.
LEMMA ExtendKeepsPartition ==
  ASSUME NEW fls \in Seq(FlowletRecord), NEW pkts \in Seq(Packet), NEW last \in Nat,
         Partition(fls, pkts, last), Len(pkts) # 0,
         NEW fls2, NEW pkts2, NEW t,
         ExtendsLast(fls2, fls, last + 1, t), PushesPacket(pkts2, pkts, last + 1, t)
  PROVE  Partition(fls2, pkts2, last + 1)
<1>1. PICK n : n = Len(fls)
  OBVIOUS
<1>2. n \in Nat \ {0} /\ n \in 1..n
  BY <1>1, NewestPacket
<1>3. /\ Len(fls2) = n
      /\ \A i \in 1..(n-1) : fls2[i] = fls[i]
      /\ fls2[n].pkt_nums = Append(fls[n].pkt_nums, last + 1)
  BY <1>1 DEF ExtendsLast
<1>4. /\ Len(fls[n].pkt_nums) \in Nat \ {0}
      /\ FirstNumber(fls[n]) \in Nat
      /\ LastNumber(fls[n]) = FirstNumber(fls[n]) + Len(fls[n].pkt_nums) - 1
  BY <1>1, <1>2, FlowletRange
<1>5. LastNumber(fls[n]) = last
  BY <1>1, <1>2, NewestPacket
<1>6. fls[n].pkt_nums \in Seq(Nat)
  BY <1>1, <1>2, FlowletFields
<1>7. /\ Len(fls2[n].pkt_nums) = Len(fls[n].pkt_nums) + 1
      /\ \A j \in 1..Len(fls[n].pkt_nums) : fls2[n].pkt_nums[j] = fls[n].pkt_nums[j]
      /\ fls2[n].pkt_nums[Len(fls[n].pkt_nums) + 1] = last + 1
  BY <1>3, <1>6
<1>8. FirstNumber(fls2[n]) = FirstNumber(fls[n]) /\ LastNumber(fls2[n]) = last + 1
  BY <1>4, <1>7 DEF FirstNumber, LastNumber
<1>9. \A i \in 1..n : i \in 1..(n-1) \/ i = n
  BY <1>2
<1>10. \A i \in 1..n : FirstNumber(fls2[i]) = FirstNumber(fls[i])
  BY <1>3, <1>8, <1>9
<1>11. \A i \in 1..(n-1) : LastNumber(fls2[i]) = LastNumber(fls[i])
  BY <1>3
<1>12. ASSUME NEW i \in 1..Len(fls2)
       PROVE  /\ fls2[i].pkt_nums # <<>>
              /\ \A j \in 1..Len(fls2[i].pkt_nums) :
                   fls2[i].pkt_nums[j] = FirstNumber(fls2[i]) + j - 1
  <2>1. CASE i \in 1..(n-1)
    <3>1. i \in 1..Len(fls) /\ fls2[i] = fls[i]
      BY <1>1, <1>2, <1>3, <2>1
    <3> QED
      BY <3>1 DEF Partition
  <2>2. CASE i = n
    <3>1. PICK f, nums, nums2 : /\ f = FirstNumber(fls[n])
                                /\ nums = fls[n].pkt_nums /\ nums2 = fls2[n].pkt_nums
      OBVIOUS
    <3>2. f \in Nat /\ Len(nums) \in Nat \ {0} /\ last = f + Len(nums) - 1
      BY <1>4, <1>5, <3>1
    <3>3. \A j \in 1..Len(nums) : nums[j] = f + j - 1
      BY <1>1, <1>2, <3>1 DEF Partition
    <3>4. /\ Len(nums2) = Len(nums) + 1 /\ nums2[Len(nums) + 1] = last + 1
          /\ \A j \in 1..Len(nums) : nums2[j] = nums[j]
      BY <1>7, <3>1, Zenon
    <3>5. \A j \in 1..Len(nums2) : nums2[j] = f + j - 1
      <4> SUFFICES ASSUME NEW j \in 1..Len(nums2) PROVE nums2[j] = f + j - 1
        OBVIOUS
      <4>1. j \in 1..Len(nums) \/ j = Len(nums) + 1
        BY <3>2, <3>4
      <4>2. CASE j \in 1..Len(nums)
        BY <3>3, <3>4, <4>2
      <4>3. CASE j = Len(nums) + 1
        <5>1. last + 1 = f + (Len(nums) + 1) - 1
          BY <3>2
        <5> QED
          BY <3>4, <4>3, <5>1
      <4> QED
        BY <4>1, <4>2, <4>3
    <3>6. nums2 # <<>>
      BY <3>2, <3>4
    <3> QED
      BY <1>8, <2>2, <3>1, <3>5, <3>6
  <2> QED
    BY <1>3, <1>9, <2>1, <2>2
<1>13. ASSUME NEW i \in 1..Len(fls2), NEW j \in 1..Len(fls2), i < j
       PROVE  LastNumber(fls2[i]) < FirstNumber(fls2[j])
  <2>1. i \in 1..(n-1) /\ i \in 1..n /\ j \in 1..n
    BY <1>2, <1>3, <1>13
  <2>2. LastNumber(fls[i]) < FirstNumber(fls[j])
    BY <1>1, <1>13, <2>1 DEF Partition
  <2> QED
    BY <1>10, <1>11, <2>1, <2>2
<1>14. NumbersOf(fls2, n) = (last - Len(pkts) + 1)..(last + 1)
  <2>1. ASSUME NEW m PROVE m \in Range(fls2[n].pkt_nums) <=> m \in Range(fls[n].pkt_nums) \/ m = last + 1
    <3>1. DOMAIN fls[n].pkt_nums = 1..Len(fls[n].pkt_nums)
      BY <1>6
    <3>2. DOMAIN fls2[n].pkt_nums = 1..(Len(fls[n].pkt_nums) + 1)
      BY <1>3, <1>6
    <3>3. \A j \in 1..(Len(fls[n].pkt_nums) + 1) :
            j \in 1..Len(fls[n].pkt_nums) \/ j = Len(fls[n].pkt_nums) + 1
      BY <1>4, OneMore, Zenon
    <3>4. /\ Len(fls[n].pkt_nums) + 1 \in 1..(Len(fls[n].pkt_nums) + 1)
          /\ \A j \in 1..Len(fls[n].pkt_nums) : j \in 1..(Len(fls[n].pkt_nums) + 1)
      BY <1>4, OneMore, Zenon
    <3> QED
      BY <1>7, <3>1, <3>2, <3>3, <3>4, Zenon DEF Range
  <2>2. ASSUME NEW m
        PROVE  m \in NumbersOf(fls2, n) <=> m \in NumbersOf(fls, n) \/ m = last + 1
    <3>1. m \in NumbersOf(fls2, n) <=> \E i \in 1..n : m \in Range(fls2[i].pkt_nums)
      BY NumbersOfMember
    <3>2. m \in NumbersOf(fls, n) <=> \E i \in 1..n : m \in Range(fls[i].pkt_nums)
      BY NumbersOfMember
    <3>3. \A i \in 1..n : i # n => (m \in Range(fls2[i].pkt_nums) <=> m \in Range(fls[i].pkt_nums))
      BY <1>3, <1>9
    <3> QED
      BY <1>2, <2>1, <3>1, <3>2, <3>3, Zenon
  <2>3. NumbersOf(fls, n) = (last - Len(pkts) + 1)..last
    BY <1>1 DEF Partition
  <2>4. \A m : m \in (last - Len(pkts) + 1)..last \/ m = last + 1
                 <=> m \in (last - Len(pkts) + 1)..(last + 1)
    OBVIOUS
  <2>5. \A m : m \in NumbersOf(fls2, n) <=> m \in (last - Len(pkts) + 1)..(last + 1)
    BY <2>2, <2>3, <2>4, Zenon
  <2> QED
    BY <2>5, Zenon
<1>15. Consecutive(pkts2, last + 1)
  BY PushKeepsNumbers DEF Partition
<1>16. NumbersOf(fls2, Len(fls2)) = ((last + 1) - Len(pkts2) + 1)..(last + 1)
  <2>1. Len(pkts) \in Nat /\ Len(pkts2) = Len(pkts) + 1
    BY DEF PushesPacket
  <2>2. (last + 1) - Len(pkts2) + 1 = last - Len(pkts) + 1
    BY <2>1
  <2> QED
    BY <1>3, <1>14, <2>2, Zenon
<1> QED
  BY <1>12, <1>13, <1>15, <1>16 DEF Partition

\* A packet that opens a flowlet.
LEMMA OpenKeepsPartition ==
  ASSUME NEW fls \in Seq(FlowletRecord), NEW pkts \in Seq(Packet), NEW last \in Nat,
         Partition(fls, pkts, last),
         NEW fls2, NEW pkts2, NEW t,
         OpensFlowlet(fls2, fls, last + 1, t), PushesPacket(pkts2, pkts, last + 1, t)
  PROVE  Partition(fls2, pkts2, last + 1)
<1>1. PICK n : n = Len(fls)
  OBVIOUS
<1>2. n \in Nat
  BY <1>1
<1>3. /\ Len(fls2) = n + 1
      /\ \A i \in 1..n : fls2[i] = fls[i]
      /\ fls2[n + 1].pkt_nums = <<last + 1>>
  BY <1>1 DEF OpensFlowlet
<1>4. \A i \in 1..(n + 1) : i \in 1..n \/ i = n + 1
  BY <1>2
<1>5. /\ Len(fls2[n + 1].pkt_nums) = 1 /\ fls2[n + 1].pkt_nums[1] = last + 1
      /\ Range(fls2[n + 1].pkt_nums) = {last + 1}
  BY <1>3 DEF Range
<1>6. FirstNumber(fls2[n + 1]) = last + 1 /\ LastNumber(fls2[n + 1]) = last + 1
  BY <1>5 DEF FirstNumber, LastNumber
<1>7. ASSUME NEW i \in 1..Len(fls2)
      PROVE  /\ fls2[i].pkt_nums # <<>>
             /\ \A j \in 1..Len(fls2[i].pkt_nums) :
                  fls2[i].pkt_nums[j] = FirstNumber(fls2[i]) + j - 1
  <2>1. CASE i \in 1..n
    <3>1. i \in 1..Len(fls) /\ fls2[i] = fls[i]
      BY <1>1, <1>3, <2>1
    <3> QED
      BY <3>1 DEF Partition
  <2>2. CASE i = n + 1
    <3>1. fls2[n + 1].pkt_nums # <<>>
      BY <1>5
    <3>2. \A j \in 1..Len(fls2[n + 1].pkt_nums) : j = 1
      BY <1>5
    <3>3. last + 1 = (last + 1) + 1 - 1
      OBVIOUS
    <3>4. \A j \in 1..Len(fls2[n + 1].pkt_nums) :
            fls2[n + 1].pkt_nums[j] = FirstNumber(fls2[n + 1]) + j - 1
      BY <1>5, <1>6, <3>2, <3>3
    <3> QED
      BY <2>2, <3>1, <3>4
  <2> QED
    BY <1>3, <1>4, <2>1, <2>2
<1>8. ASSUME NEW i \in 1..Len(fls2), NEW j \in 1..Len(fls2), i < j
      PROVE  LastNumber(fls2[i]) < FirstNumber(fls2[j])
  <2>1. i \in 1..n /\ i \in 1..Len(fls) /\ fls2[i] = fls[i]
    BY <1>1, <1>2, <1>3, <1>8
  <2>2. CASE j \in 1..n
    BY <1>1, <1>3, <1>8, <2>1, <2>2 DEF Partition
  <2>3. CASE j = n + 1
    <3>1. LastNumber(fls[i]) \in Nat /\ LastNumber(fls[i]) - (last - Len(pkts)) \in 1..Len(pkts)
      BY <2>1, FlowletRange, PacketIndex
    <3>2. Len(pkts) \in Nat
      OBVIOUS
    <3>3. LastNumber(fls[i]) < last + 1
      BY <3>1, <3>2
    <3> QED
      BY <1>6, <2>1, <2>3, <3>3
  <2> QED
    BY <1>3, <1>4, <2>2, <2>3
<1>9. NumbersOf(fls2, n + 1) = (last - Len(pkts) + 1)..(last + 1)
  <2>1. ASSUME NEW m
        PROVE  m \in NumbersOf(fls2, n + 1) <=> m \in NumbersOf(fls, n) \/ m = last + 1
    <3>1. m \in NumbersOf(fls2, n + 1) <=> \E i \in 1..(n + 1) : m \in Range(fls2[i].pkt_nums)
      BY NumbersOfMember
    <3>2. m \in NumbersOf(fls, n) <=> \E i \in 1..n : m \in Range(fls[i].pkt_nums)
      BY NumbersOfMember
    <3>3. \A i \in 1..n : i \in 1..(n+1) /\ Range(fls2[i].pkt_nums) = Range(fls[i].pkt_nums)
      BY <1>2, <1>3
    <3>4. n + 1 \in 1..(n + 1) /\ (m \in Range(fls2[n + 1].pkt_nums) <=> m = last + 1)
      BY <1>2, <1>5
    <3> QED
      BY <1>4, <3>1, <3>2, <3>3, <3>4, Zenon
  <2>2. NumbersOf(fls, n) = (last - Len(pkts) + 1)..last
    BY <1>1 DEF Partition
  <2>3. \A m : m \in (last - Len(pkts) + 1)..last \/ m = last + 1
                 <=> m \in (last - Len(pkts) + 1)..(last + 1)
    <3>1. Len(pkts) \in Nat
      OBVIOUS
    <3>2. last + 1 \in (last - Len(pkts) + 1)..(last + 1)
      BY <3>1
    <3> QED
      BY <3>1, <3>2
  <2>4. \A m : m \in NumbersOf(fls2, n + 1) <=> m \in (last - Len(pkts) + 1)..(last + 1)
    BY <2>1, <2>2, <2>3, Zenon
  <2> QED
    BY <2>4, Zenon
<1>10. Consecutive(pkts2, last + 1)
  BY PushKeepsNumbers DEF Partition
<1>11. NumbersOf(fls2, Len(fls2)) = ((last + 1) - Len(pkts2) + 1)..(last + 1)
  <2>1. Len(pkts) \in Nat /\ Len(pkts2) = Len(pkts) + 1
    BY DEF PushesPacket
  <2>2. (last + 1) - Len(pkts2) + 1 = last - Len(pkts) + 1
    BY <2>1
  <2> QED
    BY <1>3, <1>9, <2>2
<1> QED
  BY <1>7, <1>8, <1>10, <1>11 DEF Partition

\* The packets of a flowlet stay where they are when another one is pushed.
LEMMA PushKeepsPackets ==
  ASSUME NEW fls \in Seq(FlowletRecord), NEW pkts \in Seq(Packet), NEW last \in Nat,
         Partition(fls, pkts, last), NEW pkts2, NEW t,
         PushesPacket(pkts2, pkts, last + 1, t), NEW i \in 1..Len(fls)
  PROVE  /\ pkts2[FirstNumber(fls[i]) - pkts2[1].number + 1] =
              pkts[FirstNumber(fls[i]) - pkts[1].number + 1]
         /\ pkts2[LastNumber(fls[i]) - pkts2[1].number + 1] =
              pkts[LastNumber(fls[i]) - pkts[1].number + 1]
<1>1. /\ FirstNumber(fls[i]) \in Nat /\ LastNumber(fls[i]) \in Nat
      /\ FirstNumber(fls[i]) - (last - Len(pkts)) \in 1..Len(pkts)
      /\ LastNumber(fls[i]) - (last - Len(pkts)) \in 1..Len(pkts)
      /\ pkts[1].number = last - Len(pkts) + 1
  BY FlowletRange, PacketIndex
<1>2. Len(pkts) \in Nat
  OBVIOUS
<1>3. 1 \in 1..Len(pkts)
  BY <1>1, <1>2
<1>4. pkts2[1] = pkts[1]
  BY <1>3 DEF PushesPacket
<1>5. ASSUME NEW n \in Nat, n - (last - Len(pkts)) \in 1..Len(pkts)
      PROVE  pkts2[n - pkts2[1].number + 1] = pkts[n - pkts[1].number + 1]
  <2>1. n - (last - Len(pkts) + 1) + 1 = n - (last - Len(pkts))
    BY <1>2
  <2>2. pkts2[n - (last - Len(pkts))] = pkts[n - (last - Len(pkts))]
    BY <1>5 DEF PushesPacket
  <2> QED
    BY <1>1, <1>4, <2>1, <2>2, Zenon
<1> QED
  BY <1>1, <1>5, Zenon

\* The pushed packet is found under its number.
LEMMA PushedPacket ==
  ASSUME NEW pkts \in Seq(Packet), NEW last \in Nat, Consecutive(pkts, last), NEW pkts2, NEW t,
         PushesPacket(pkts2, pkts, last + 1, t)
  PROVE  pkts2[(last + 1) - pkts2[1].number + 1].timestamp = t
<1>1. Len(pkts) \in Nat /\ Len(pkts2) = Len(pkts) + 1 /\ pkts2[Len(pkts) + 1].timestamp = t
  BY DEF PushesPacket
<1>2. Consecutive(pkts2, last + 1)
  BY PushKeepsNumbers
<1>3. 1 \in 1..Len(pkts2)
  BY <1>1
<1>4. pkts2[1].number = (last + 1) - Len(pkts2) + 1
  BY <1>2, <1>3 DEF Consecutive
<1>5. (last + 1) - ((last + 1) - Len(pkts2) + 1) + 1 = Len(pkts) + 1
  BY <1>1
<1> QED
  BY <1>1, <1>4, <1>5

\* A packet that joins the last flowlet moves its end to now.
LEMMA ExtendKeepsTimeOrder ==
  ASSUME NEW fls \in Seq(FlowletRecord), NEW pkts \in Seq(Packet), NEW last \in Nat,
         Partition(fls, pkts, last), Len(pkts) # 0, InTimeOrder(fls, pkts), now \in Nat,
         NEW fls2, NEW pkts2,
         ExtendsLast(fls2, fls, last + 1, now), PushesPacket(pkts2, pkts, last + 1, now)
  PROVE  InTimeOrder(fls2, pkts2)
<1>1. PICK n : n = Len(fls)
  OBVIOUS
<1>2. n \in Nat \ {0} /\ n \in 1..n
  BY <1>1, NewestPacket
<1>3. /\ Len(fls2) = n
      /\ \A i \in 1..(n-1) : fls2[i] = fls[i]
      /\ fls2[n].pkt_nums = Append(fls[n].pkt_nums, last + 1)
      /\ fls2[n].begin_time = fls[n].begin_time
      /\ fls2[n].end_time = now
  BY <1>1 DEF ExtendsLast
<1>4. \A i \in 1..n : i \in 1..(n-1) \/ i = n
  BY <1>2
<1>5. \A i \in 1..n : /\ fls[i].begin_time = pkts[FirstNumber(fls[i]) - pkts[1].number + 1].timestamp
                      /\ fls[i].end_time = pkts[LastNumber(fls[i]) - pkts[1].number + 1].timestamp
                      /\ fls[i].begin_time <= fls[i].end_time
                      /\ fls[i].end_time <= now
  BY <1>1 DEF InTimeOrder
<1>6. FirstNumber(fls2[n]) = FirstNumber(fls[n]) /\ LastNumber(fls2[n]) = last + 1
  <2>1. fls[n].pkt_nums \in Seq(Nat) /\ Len(fls[n].pkt_nums) \in Nat \ {0}
    BY <1>1, <1>2, FlowletFields, FlowletRange
  <2>2. /\ Len(fls2[n].pkt_nums) = Len(fls[n].pkt_nums) + 1
        /\ fls2[n].pkt_nums[1] = fls[n].pkt_nums[1]
        /\ fls2[n].pkt_nums[Len(fls[n].pkt_nums) + 1] = last + 1
    <3>1. fls2[n].pkt_nums = Append(fls[n].pkt_nums, last + 1)
      BY <1>3
    <3>2. PICK s \in Seq(Nat) : s = fls[n].pkt_nums
      BY <2>1
    <3>3. /\ Len(Append(s, last + 1)) = Len(s) + 1
          /\ Append(s, last + 1)[1] = s[1]
          /\ Append(s, last + 1)[Len(s) + 1] = last + 1
      BY <2>1, <3>2, AppendedNumber
    <3> QED
      BY <3>1, <3>2, <3>3, Zenon
  <2> QED
    BY <2>2 DEF FirstNumber, LastNumber
<1>7. ASSUME NEW i \in 1..Len(fls2)
      PROVE  /\ fls2[i].begin_time = pkts2[FirstNumber(fls2[i]) - pkts2[1].number + 1].timestamp
             /\ fls2[i].end_time = pkts2[LastNumber(fls2[i]) - pkts2[1].number + 1].timestamp
             /\ fls2[i].begin_time <= fls2[i].end_time
             /\ fls2[i].end_time <= now
  <2>1. /\ pkts2[FirstNumber(fls[i]) - pkts2[1].number + 1] =
             pkts[FirstNumber(fls[i]) - pkts[1].number + 1]
        /\ pkts2[LastNumber(fls[i]) - pkts2[1].number + 1] =
             pkts[LastNumber(fls[i]) - pkts[1].number + 1]
    BY <1>1, <1>3, PushKeepsPackets, SMTT(30)
  <2>2. CASE i \in 1..(n-1)
    BY <1>3, <1>5, <2>1, <2>2, ZenonT(60)
  <2>3. CASE i = n
    <3>1. pkts2[(last + 1) - pkts2[1].number + 1].timestamp = now
      BY PushedPacket DEF Partition
    <3>2. fls2[n].begin_time = pkts2[FirstNumber(fls2[n]) - pkts2[1].number + 1].timestamp
      BY <1>2, <1>3, <1>5, <1>6, <2>1, <2>3, SMTT(30)
    <3>3. fls2[n].begin_time <= fls2[n].end_time
      <4>1. fls[n].begin_time \in Nat /\ fls[n].end_time \in Nat
        BY <1>1, <1>2, FlowletFields
      <4> QED
        BY <1>2, <1>3, <1>5, <4>1, SMTT(30)
    <3>4. fls2[n].end_time = pkts2[LastNumber(fls2[n]) - pkts2[1].number + 1].timestamp
      BY <1>3, <1>6, <3>1, Zenon
    <3>5. fls2[n].end_time <= now
      BY <1>3
    <3> QED
      BY <2>3, <3>2, <3>3, <3>4, <3>5, Zenon
  <2> QED
    BY <1>3, <1>4, <2>2, <2>3
<1>8. ASSUME NEW i \in 1..Len(fls2), NEW j \in 1..Len(fls2), i < j
      PROVE  fls2[i].end_time < fls2[j].begin_time
  <2>1. i \in 1..(n-1) /\ i \in 1..n /\ j \in 1..n
    BY <1>2, <1>3, <1>8
  <2>2. fls[i].end_time < fls[j].begin_time
    BY <1>1, <1>8, <2>1 DEF InTimeOrder
  <2> QED
    BY <1>3, <1>4, <2>1, <2>2
<1> QED
  BY <1>7, <1>8 DEF InTimeOrder

\* The time t is later than the newest packet.
Later(pkts, t) == Len(pkts) # 0 => pkts[Len(pkts)].timestamp < t

\* A time before the beginning of a span is before any time after its end.
LEMMA TimeChain ==
  ASSUME NEW a \in Nat, NEW b \in Nat, NEW c \in Nat, NEW d \in Nat,
         a < b, b <= c, c < d
  PROVE  a < d
  OBVIOUS

\* A packet that opens a flowlet comes later than the end of the last one.
LEMMA OpenKeepsTimeOrder ==
  ASSUME NEW fls \in Seq(FlowletRecord), NEW pkts \in Seq(Packet), NEW last \in Nat,
         Partition(fls, pkts, last), InTimeOrder(fls, pkts), now \in Nat,
         Later(pkts, now),
         NEW fls2, NEW pkts2,
         OpensFlowlet(fls2, fls, last + 1, now), PushesPacket(pkts2, pkts, last + 1, now)
  PROVE  InTimeOrder(fls2, pkts2)
<1>1. PICK n : n = Len(fls)
  OBVIOUS
<1>2. n \in Nat
  BY <1>1
<1>3. /\ Len(fls2) = n + 1
      /\ \A i \in 1..n : fls2[i] = fls[i]
      /\ fls2[n + 1].pkt_nums = <<last + 1>>
      /\ fls2[n + 1].begin_time = now
      /\ fls2[n + 1].end_time = now
  BY <1>1 DEF OpensFlowlet
<1>4. \A i \in 1..(n + 1) : i \in 1..n \/ i = n + 1
  BY <1>2
<1>5. \A i \in 1..n : /\ fls[i].begin_time = pkts[FirstNumber(fls[i]) - pkts[1].number + 1].timestamp
                      /\ fls[i].end_time = pkts[LastNumber(fls[i]) - pkts[1].number + 1].timestamp
                      /\ fls[i].begin_time <= fls[i].end_time
                      /\ fls[i].end_time <= now
  BY <1>1 DEF InTimeOrder
<1>6. FirstNumber(fls2[n + 1]) = last + 1 /\ LastNumber(fls2[n + 1]) = last + 1
  BY <1>3 DEF FirstNumber, LastNumber
<1>7. \A i \in 1..n : fls[i].begin_time \in Nat /\ fls[i].end_time \in Nat
  BY <1>1, FlowletFields
<1>8. ASSUME NEW i \in 1..Len(fls2)
      PROVE  /\ fls2[i].begin_time = pkts2[FirstNumber(fls2[i]) - pkts2[1].number + 1].timestamp
             /\ fls2[i].end_time = pkts2[LastNumber(fls2[i]) - pkts2[1].number + 1].timestamp
             /\ fls2[i].begin_time <= fls2[i].end_time
             /\ fls2[i].end_time <= now
  <2>1. CASE i \in 1..n
    <3>1. /\ pkts2[FirstNumber(fls[i]) - pkts2[1].number + 1] =
               pkts[FirstNumber(fls[i]) - pkts[1].number + 1]
          /\ pkts2[LastNumber(fls[i]) - pkts2[1].number + 1] =
               pkts[LastNumber(fls[i]) - pkts[1].number + 1]
      <4>1. i \in 1..Len(fls)
        BY <1>1, <2>1
      <4> QED
        BY <4>1, PushKeepsPackets, SMTT(30)
    <3> QED
      BY <1>3, <1>5, <2>1, <3>1, Zenon
  <2>2. CASE i = n + 1
    <3>1. pkts2[(last + 1) - pkts2[1].number + 1].timestamp = now
      BY PushedPacket DEF Partition
    <3> QED
      BY <1>3, <1>6, <2>2, <3>1, SMTT(30)
  <2> QED
    BY <1>3, <1>4, <2>1, <2>2
<1>9. ASSUME n # 0 PROVE fls[n].end_time < now
  <2>1. Len(pkts) # 0 /\ LastNumber(fls[n]) = last
    BY <1>1, <1>9, NewestPacket
  <2>2. n \in 1..n
    BY <1>2, <1>9
  <2>3. pkts[1].number = last - Len(pkts) + 1
    BY <1>1, <2>2, PacketIndex
  <2>4. Len(pkts) \in Nat
    OBVIOUS
  <2>5. last - (last - Len(pkts) + 1) + 1 = Len(pkts)
    BY <2>4
  <2>6. fls[n].end_time = pkts[Len(pkts)].timestamp
    BY <1>5, <2>1, <2>2, <2>3, <2>5, Zenon
  <2> QED
    BY <2>1, <2>6 DEF Later
<1>10. ASSUME NEW i \in 1..Len(fls2), NEW j \in 1..Len(fls2), i < j
       PROVE  fls2[i].end_time < fls2[j].begin_time
  <2>1. i \in 1..n /\ fls2[i] = fls[i]
    BY <1>2, <1>3, <1>10
  <2>2. CASE j \in 1..n
    <3>1. fls[i].end_time < fls[j].begin_time
      BY <1>1, <1>10, <2>1, <2>2 DEF InTimeOrder
    <3> QED
      BY <1>3, <2>1, <2>2, <3>1
  <2>3. CASE j = n + 1
    <3>1. n # 0 /\ n \in 1..n
      BY <1>2, <2>1
    <3>2. i = n \/ fls[i].end_time < fls[n].begin_time
      BY <1>1, <1>2, <2>1, <3>1 DEF InTimeOrder
    <3>3. fls[i].end_time < now
      <4>1. /\ fls[n].begin_time <= fls[n].end_time /\ fls[n].end_time < now
            /\ fls[n].begin_time \in Nat /\ fls[n].end_time \in Nat /\ fls[i].end_time \in Nat
        BY <1>5, <1>7, <1>9, <2>1, <3>1
      <4>2. CASE i = n
        BY <4>1, <4>2
      <4>3. CASE fls[i].end_time < fls[n].begin_time
        BY <4>1, <4>3, TimeChain, Zenon
      <4> QED
        BY <3>2, <4>2, <4>3
    <3> QED
      BY <1>3, <2>1, <2>3, <3>3
  <2> QED
    BY <1>3, <1>4, <2>2, <2>3
<1> QED
  BY <1>8, <1>10 DEF InTimeOrder

-----------------------------------------------------------------------------
(* add() preserves the invariant.                                           *)

\* Multiplying a duration by a ratio gives a duration.
LEMMA MulF64Type ==
  ASSUME NEW d \in Nat, NEW r \in Ratio
  PROVE  MulF64(d, r) \in Nat
<1>1. r[1] \in Nat /\ r[2] \in Nat \ {0}
  BY DEF Ratio
<1>2. d * r[1] \in Nat
  BY <1>1
<1>3. \A m \in Nat : \A q \in Nat \ {0} : m \div q \in Nat
  OBVIOUS
<1>4. (d * r[1]) \div r[2] \in Nat
  BY <1>1, <1>2, <1>3
<1> QED
  BY <1>4 DEF MulF64

LEMMA AdditionType ==
  ASSUME TypeOK
  PROVE  /\ TimeoutAddition \in Nat
         /\ FlowletEndTimeout = reply_rtt + TimeoutAddition
<1>1. FlowletTimeout(smoothed_interval) \in Nat
  BY MulF64Type, PacketQueueAssumption DEF TypeOK, FlowletTimeout
<1>2. TimeoutAddition \in Nat
  BY <1>1, MulF64Type, PacketQueueAssumption DEF TimeoutAddition
<1> QED
  BY <1>2 DEF FlowletEndTimeout

LEMMA IntervalType ==
  ASSUME TypeOK, RecordPacketInterval
  PROVE  last_packet_time' \in Nat /\ smoothed_interval' \in Nat
<1>1. <<7, 8>> \in Ratio /\ <<1, 8>> \in Ratio
  BY DEF Ratio
<1>2. Since(now, last_packet_time) \in Nat
  BY DEF TypeOK, Since
<1>3. /\ MulF64(smoothed_interval, <<7, 8>>) \in Nat
      /\ MulF64(Since(now, last_packet_time), <<1, 8>>) \in Nat
  BY <1>1, <1>2, MulF64Type DEF TypeOK
<1> QED
  BY <1>3 DEF RecordPacketInterval, TypeOK

\* The records add() builds.
LEMMA FlowletAddFields ==
  ASSUME NEW fl \in FlowletRecord, NEW num \in Nat, NEW t \in Nat
  PROVE  /\ FlowletAdd(fl, num, t) \in FlowletRecord
         /\ FlowletAdd(fl, num, t).pkt_nums = Append(fl.pkt_nums, num)
         /\ FlowletAdd(fl, num, t).begin_time = fl.begin_time
         /\ FlowletAdd(fl, num, t).end_time = t
         /\ FlowletAdd(fl, num, t).complete = fl.complete
         /\ FlowletAdd(fl, num, t).reply_pkt_times = fl.reply_pkt_times
<1>1. Append(fl.pkt_nums, num) \in Seq(Nat)
  <2>1. fl.pkt_nums \in Seq(Nat)
    BY DEF FlowletRecord
  <2> QED
    BY <2>1
<1>2. PICK nums \in Seq(Nat) : nums = Append(fl.pkt_nums, num)
  BY <1>1
<1>3. [fl EXCEPT !.pkt_nums = nums, !.end_time = t] \in FlowletRecord
  BY DEF FlowletRecord
<1>4. FlowletAdd(fl, num, t) \in FlowletRecord
  BY <1>2, <1>3 DEF FlowletAdd
<1>5. /\ FlowletAdd(fl, num, t).pkt_nums = Append(fl.pkt_nums, num)
      /\ FlowletAdd(fl, num, t).begin_time = fl.begin_time
      /\ FlowletAdd(fl, num, t).end_time = t
      /\ FlowletAdd(fl, num, t).complete = fl.complete
      /\ FlowletAdd(fl, num, t).reply_pkt_times = fl.reply_pkt_times
  BY DEF FlowletAdd, FlowletRecord
<1> QED
  BY <1>4, <1>5

LEMMA NewFlowletFields ==
  ASSUME NEW num \in Nat, NEW t \in Nat
  PROVE  /\ NewFlowlet(num, t) \in FlowletRecord
         /\ NewFlowlet(num, t).pkt_nums = <<num>>
         /\ NewFlowlet(num, t).begin_time = t /\ NewFlowlet(num, t).end_time = t
         /\ NewFlowlet(num, t).complete = FALSE
         /\ NewFlowlet(num, t).reply_pkt_times = <<>>
  BY DEF NewFlowlet, FlowletRecord

\* How add() changes the flowlets and the packets.
AddsPacket(num, interval, raw) ==
  /\ flowlets' = AddToFlowlet(num, interval)
  /\ packets' = Append(packets, [number |-> num, timestamp |-> now, raw |-> raw])

LEMMA AddedFlowlet ==
  ASSUME IInv, ~panicked, NEW num \in Nat, NEW interval \in Nat, NEW raw \in BOOLEAN,
         AddsPacket(num, interval, raw)
  PROVE  /\ flowlets' \in Seq(FlowletRecord) /\ packets' \in Seq(Packet)
         /\ PushesPacket(packets', packets, num, now)
         /\ \/ Len(packets) # 0 /\ ExtendsLast(flowlets', flowlets, num, now)
            \/ Later(packets, now) /\ OpensFlowlet(flowlets', flowlets, num, now)
         /\ \A i \in 1..Len(flowlets') :
              /\ ~flowlets'[i].complete
              /\ i > 1 => flowlets'[i].reply_pkt_times = <<>>
<1>1. /\ flowlets \in Seq(FlowletRecord) /\ packets \in Seq(Packet)
      /\ processed \in Nat /\ now \in Nat
      /\ Partition(flowlets, packets, processed)
  BY DEF IInv, TypeOK, FlowletsPartitionPackets
<1>2. [number |-> num, timestamp |-> now, raw |-> raw] \in Packet
  BY <1>1 DEF Packet
<1>3. packets' \in Seq(Packet) /\ PushesPacket(packets', packets, num, now)
  BY <1>1, <1>2 DEF PushesPacket, AddsPacket
<1>4. FlowletTimeout(interval) \in Nat
  BY MulF64Type, PacketQueueAssumption DEF FlowletTimeout
<1>5. \A i \in 1..Len(flowlets) : /\ ~flowlets[i].complete
                                  /\ i > 1 => flowlets[i].reply_pkt_times = <<>>
  BY DEF IInv, OnlyFrontIsReplied
<1>6. CASE packets # <<>> /\ Since(now, packets[Len(packets)].timestamp) <= FlowletTimeout(interval)
  <2>1. PICK n : n = Len(flowlets)
    OBVIOUS
  <2>2. Len(packets) # 0 /\ n \in Nat \ {0} /\ n \in 1..n
    BY <1>1, <1>6, <2>1, NewestPacket
  <2>3. PICK fl \in FlowletRecord : fl = flowlets[n]
    BY <1>1, <2>1, <2>2
  <2>4. flowlets' = [flowlets EXCEPT ![n] = FlowletAdd(fl, num, now)]
    BY <1>6, <2>1, <2>3 DEF AddToFlowlet, AddsPacket
  <2>5. /\ FlowletAdd(fl, num, now) \in FlowletRecord
        /\ FlowletAdd(fl, num, now).pkt_nums = Append(fl.pkt_nums, num)
        /\ FlowletAdd(fl, num, now).begin_time = fl.begin_time
        /\ FlowletAdd(fl, num, now).end_time = now
        /\ FlowletAdd(fl, num, now).complete = fl.complete
        /\ FlowletAdd(fl, num, now).reply_pkt_times = fl.reply_pkt_times
    BY <1>1, FlowletAddFields, ZenonT(60)
  <2>6. /\ flowlets' \in Seq(FlowletRecord) /\ Len(flowlets') = n
        /\ \A i \in 1..n : i # n => flowlets'[i] = flowlets[i]
        /\ flowlets'[n] = FlowletAdd(fl, num, now)
    BY <1>1, <2>1, <2>2, <2>4, <2>5, ExceptSeq
  <2>7. ExtendsLast(flowlets', flowlets, num, now)
    BY <2>1, <2>2, <2>3, <2>5, <2>6, SMTT(30) DEF ExtendsLast
  <2>8. ASSUME NEW i \in 1..n
        PROVE  ~flowlets'[i].complete /\ (i > 1 => flowlets'[i].reply_pkt_times = <<>>)
    <3>1. CASE i = n
      BY <1>5, <2>1, <2>2, <2>3, <2>5, <2>6, <3>1
    <3>2. CASE i # n
      BY <1>5, <2>1, <2>6, <3>2
    <3> QED
      BY <3>1, <3>2
  <2> QED
    BY <1>3, <2>2, <2>6, <2>7, <2>8
<1>7. CASE ~ (packets # <<>> /\ Since(now, packets[Len(packets)].timestamp) <= FlowletTimeout(interval))
  <2>1. PICK n : n = Len(flowlets)
    OBVIOUS
  <2>2. n \in Nat /\ \A i \in 1..(n+1) : i \in 1..n \/ i = n + 1
    BY <1>1, <2>1
  <2>3. flowlets' = Append(flowlets, NewFlowlet(num, now))
    BY <1>7 DEF AddToFlowlet, AddsPacket
  <2>4. /\ NewFlowlet(num, now) \in FlowletRecord
        /\ NewFlowlet(num, now).pkt_nums = <<num>>
        /\ NewFlowlet(num, now).begin_time = now /\ NewFlowlet(num, now).end_time = now
        /\ NewFlowlet(num, now).complete = FALSE
        /\ NewFlowlet(num, now).reply_pkt_times = <<>>
    BY <1>1, NewFlowletFields
  <2>5. /\ flowlets' \in Seq(FlowletRecord) /\ Len(flowlets') = n + 1
        /\ \A i \in 1..n : flowlets'[i] = flowlets[i]
        /\ flowlets'[n + 1] = NewFlowlet(num, now)
    BY <1>1, <2>1, <2>3, <2>4
  <2>6. OpensFlowlet(flowlets', flowlets, num, now)
    BY <2>1, <2>4, <2>5 DEF OpensFlowlet
  <2>7. Later(packets, now)
    <3>1. ASSUME Len(packets) # 0 PROVE packets[Len(packets)].timestamp < now
      <4>1. packets # <<>> /\ Len(packets) \in 1..Len(packets)
        BY <1>1, <3>1
      <4>2. packets[Len(packets)].timestamp \in Nat
        <5>1. packets[Len(packets)] \in Packet
          BY <1>1, <4>1
        <5> QED
          BY <5>1 DEF Packet
      <4>3. ~ (Since(now, packets[Len(packets)].timestamp) <= FlowletTimeout(interval))
        BY <1>7, <4>1
      <4> QED
        BY <1>1, <1>4, <4>2, <4>3 DEF Since
    <3> QED
      BY <3>1 DEF Later
  <2>8. ASSUME NEW i \in 1..(n+1)
        PROVE  ~flowlets'[i].complete /\ (i > 1 => flowlets'[i].reply_pkt_times = <<>>)
    <3>1. CASE i = n + 1
      BY <2>4, <2>5, <3>1
    <3>2. CASE i \in 1..n
      BY <1>5, <2>1, <2>5, <3>2
    <3> QED
      BY <2>2, <3>1, <3>2
  <2> QED
    BY <1>3, <2>5, <2>6, <2>7, <2>8
<1> QED
  BY <1>6, <1>7

\* The numbers of detected_loss stay below those queued when the queue's oldest
\* number does not go back.
LEMMA LossesStayBelow ==
  ASSUME NEW losses \in SUBSET Nat, NEW a \in Int, NEW b \in Int, a <= b,
         \A n \in losses : n <= a
  PROVE  \A n \in losses : n <= b
  OBVIOUS

\* add() preserves the invariant.
LEMMA AddStep ==
  ASSUME IInv, NEW raw \in BOOLEAN, Add(raw), UNCHANGED <<now, reply_rtt>>
  PROVE  IInv'
<1>1. /\ ~panicked /\ processed' = processed + 1
      /\ detected_loss' = detected_loss /\ reply_nums' = reply_nums
      /\ now' = now /\ reply_rtt' = reply_rtt
  BY DEF Add
<1>2. /\ flowlets \in Seq(FlowletRecord) /\ packets \in Seq(Packet)
      /\ processed \in Nat /\ now \in Nat /\ reply_rtt \in Nat /\ reply_nums \in Nat
      /\ detected_loss \in SUBSET Nat
      /\ last_packet_time \in Nat /\ smoothed_interval \in Nat
      /\ eliciting_threshold \in {1, 2} /\ panicked \in BOOLEAN
  BY DEF IInv, TypeOK
<1>3. /\ Partition(flowlets, packets, processed) /\ InTimeOrder(flowlets, packets)
      /\ \A n \in detected_loss : n <= processed - Len(packets)
  BY <1>1 DEF IInv, FlowletsPartitionPackets, FlowletsAreOrderedInTime, LossesLeftTheQueue
<1>4. processed + 1 \in Nat /\ Len(packets) \in Nat
  BY <1>2
<1>5. last_packet_time' \in Nat /\ smoothed_interval' \in Nat
  BY <1>2, IntervalType DEF Add, IInv
<1>6. eliciting_threshold' \in {1, 2}
  BY <1>2 DEF Add, MeasuredElicitingThreshold
<1>7. CASE Len(packets) > QUEUE_LIMIT
  <2>1. panicked' = TRUE /\ flowlets' = flowlets /\ packets' = packets
    BY <1>7 DEF Add
  <2>2. TypeOK'
    BY <1>1, <1>2, <1>4, <1>5, <1>6, <2>1 DEF TypeOK
  <2>3. OnlyFrontIsReplied'
    BY <2>1 DEF IInv, OnlyFrontIsReplied
  <2>4. LossesLeftTheQueue'
    <3>1. /\ processed - Len(packets) \in Int /\ processed + 1 - Len(packets) \in Int
          /\ processed - Len(packets) <= processed + 1 - Len(packets)
      BY <1>2, <1>4
    <3>2. \A n \in detected_loss : n <= processed + 1 - Len(packets)
      BY <1>2, <1>3, <3>1, LossesStayBelow
    <3>3. processed' - Len(packets') = processed + 1 - Len(packets)
      BY <1>1, <1>2, <1>4, <2>1
    <3> QED
      BY <1>1, <3>2, <3>3, Zenon DEF LossesLeftTheQueue
  <2> QED
    BY <2>1, <2>2, <2>3, <2>4 DEF IInv, FlowletsPartitionPackets, FlowletsAreOrderedInTime
<1>8. CASE ~ (Len(packets) > QUEUE_LIMIT)
  <2>1. AddsPacket(processed + 1, smoothed_interval', raw) /\ panicked' = panicked
    BY <1>1, <1>8 DEF Add, AddsPacket
  <2>2. /\ flowlets' \in Seq(FlowletRecord) /\ packets' \in Seq(Packet)
        /\ PushesPacket(packets', packets, processed + 1, now)
        /\ \/ /\ Len(packets) # 0
              /\ ExtendsLast(flowlets', flowlets, processed + 1, now)
           \/ /\ Later(packets, now)
              /\ OpensFlowlet(flowlets', flowlets, processed + 1, now)
        /\ \A i \in 1..Len(flowlets') :
             /\ ~flowlets'[i].complete
             /\ i > 1 => flowlets'[i].reply_pkt_times = <<>>
    BY <1>1, <1>4, <1>5, <2>1, AddedFlowlet
  <2>3. TypeOK'
    BY <1>1, <1>2, <1>4, <1>5, <1>6, <2>1, <2>2 DEF TypeOK
  <2>4. OnlyFrontIsReplied'
    BY <2>2 DEF OnlyFrontIsReplied
  <2>5. Partition(flowlets', packets', processed + 1)
    BY <1>2, <1>3, <2>2, ExtendKeepsPartition, OpenKeepsPartition
  <2>6. InTimeOrder(flowlets', packets')
    BY <1>2, <1>3, <2>2, ExtendKeepsTimeOrder, OpenKeepsTimeOrder
  <2>7. InTimeOrder(flowlets, packets)'
    BY <1>1, <2>6 DEF InTimeOrder
  <2>8. LossesLeftTheQueue'
    <3>1. Len(packets') = Len(packets) + 1
      BY <2>2 DEF PushesPacket
    <3>2. processed + 1 - (Len(packets) + 1) = processed - Len(packets)
      BY <1>2, <1>4
    <3>3. processed' - Len(packets') = processed - Len(packets)
      BY <1>1, <1>2, <1>4, <3>1, <3>2
    <3> QED
      BY <1>1, <1>3, <3>3, Zenon DEF LossesLeftTheQueue
  <2> QED
    BY <1>1, <2>3, <2>4, <2>5, <2>7, <2>8 DEF IInv, FlowletsPartitionPackets, FlowletsAreOrderedInTime
<1> QED
  BY <1>7, <1>8
=============================================================================
