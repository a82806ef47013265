-------------------------- MODULE PacketQueueLemmas --------------------------
(***************************************************************************)
(* Lemmas about flowlets that partition the packets of a queue: popping     *)
(* complete flowlets keeps the partition and the time order.                *)
(***************************************************************************)
EXTENDS PacketQueue, TLAPS, FiniteSetTheorems, SequenceTheorems, WellFoundedInduction

-----------------------------------------------------------------------------
(* Natural numbers and the choices the code makes by scanning.              *)

\* Every nonempty set of naturals has a least element.
LEMMA LeastNat ==
  ASSUME NEW T \in SUBSET Nat, T # {}
  PROVE  \E m \in T : \A k \in T : m <= k
<1>1. IsWellFoundedOn(OpToRel(<, Nat), Nat)
  BY NatLessThanWellFounded, Zenon
<1>2. PICK m \in T : \A k \in T : ~ (<<k, m>> \in OpToRel(<, Nat))
  BY <1>1, WFMin, Zenon
<1>3. \A k \in T : ~ (k < m)
  BY <1>2, Zenon DEF OpToRel
<1> QED
  BY <1>3

\* Scanning from the front stops: Leading(n, S) is the length of the run of
\* indices in S at the front (the while loops of check_reply, on_timeout and
\* reset_due_to_rtt_deviation).
LEMMA LeadingRun ==
  ASSUME NEW n \in Nat, NEW S, S \subseteq 1..n
  PROVE  /\ Leading(n, S) \in 0..n
         /\ 1..Leading(n, S) \subseteq S
         /\ Leading(n, S) + 1 \notin S
<1> DEFINE T == {k \in Nat : k + 1 \notin S}
<1>1. n \in T
  OBVIOUS
<1>2. PICK m \in T : \A k \in T : m <= k
  BY <1>1, LeastNat, Zenon
<1>3. m \in 0..n
  BY <1>1, <1>2
<1>4. 1..m \subseteq S
  <2> SUFFICES ASSUME NEW i \in 1..m PROVE i \in S
    OBVIOUS
  <2>1. i - 1 \in Nat /\ ~ (m <= i - 1)
    BY <1>3
  <2> QED
    BY <1>2, <2>1
<1>5. \E k \in 0..n : (1..k) \subseteq S /\ (k+1) \notin S
  BY <1>2, <1>3, <1>4
<1> QED
  BY <1>5, Zenon DEF Leading

-----------------------------------------------------------------------------
(* Sequences and flowlets.                                                  *)

\* t is what is left of s once its first k elements are popped.
IsSuffix(t, s, k) ==
  /\ Len(t) = Len(s) - k
  /\ \A i \in 1..Len(t) : k + i \in 1..Len(s) /\ t[i] = s[k + i]

LEMMA Suffix ==
  ASSUME NEW S, NEW s \in Seq(S), NEW k \in 0..Len(s)
  PROVE  /\ SubSeq(s, k + 1, Len(s)) \in Seq(S)
         /\ IsSuffix(SubSeq(s, k + 1, Len(s)), s, k)
<1>1. Len(s) \in Nat /\ \A i \in 1..Len(s) : s[i] \in S
  OBVIOUS
<1>2. \A i \in (k+1)..Len(s) : s[i] \in S
  BY <1>1
<1>3. /\ SubSeq(s, k + 1, Len(s)) \in Seq(S)
      /\ Len(SubSeq(s, k + 1, Len(s))) = Len(s) - k
      /\ \A i \in 1..(Len(s) - k) : SubSeq(s, k + 1, Len(s))[i] = s[k + i]
  BY <1>1, <1>2, SubSeqProperties
<1>4. \A i \in 1..(Len(s) - k) : k + i \in 1..Len(s)
  BY <1>1
<1> QED
  BY <1>3, <1>4 DEF IsSuffix

\* The packet numbers of the first k flowlets, flowlet by flowlet.
LEMMA NumbersOfMember ==
  ASSUME NEW fls, NEW k, NEW n
  PROVE  n \in NumbersOf(fls, k) <=> \E i \in 1..k : n \in Range(fls[i].pkt_nums)
  BY DEF NumbersOf

\* A flowlet's fields.
LEMMA FlowletFields ==
  ASSUME NEW fls \in Seq(FlowletRecord), NEW i \in 1..Len(fls)
  PROVE  /\ fls[i] \in FlowletRecord
         /\ fls[i].pkt_nums \in Seq(Nat) /\ fls[i].reply_pkt_times \in Seq(Nat)
         /\ fls[i].begin_time \in Nat /\ fls[i].end_time \in Nat
         /\ fls[i].complete \in BOOLEAN
<1>1. fls[i] \in FlowletRecord
  OBVIOUS
<1> QED
  BY <1>1 DEF FlowletRecord

\* Flowlets that partition the packets hold ranges of naturals.
LEMMA FlowletRange ==
  ASSUME NEW fls \in Seq(FlowletRecord), NEW pkts \in Seq(Packet), NEW last \in Nat,
         Partition(fls, pkts, last), NEW i \in 1..Len(fls)
  PROVE  /\ Len(fls[i].pkt_nums) \in Nat \ {0}
         /\ FirstNumber(fls[i]) \in Nat /\ LastNumber(fls[i]) \in Nat
         /\ LastNumber(fls[i]) = FirstNumber(fls[i]) + Len(fls[i].pkt_nums) - 1
         /\ Range(fls[i].pkt_nums) = FirstNumber(fls[i])..LastNumber(fls[i])
<1>1. PICK nums : nums = fls[i].pkt_nums
  OBVIOUS
<1>2. nums \in Seq(Nat) /\ nums # <<>>
  BY <1>1, FlowletFields DEF Partition
<1>3. Len(nums) \in Nat \ {0} /\ nums[1] \in Nat /\ DOMAIN nums = 1..Len(nums)
  BY <1>2
<1>4. FirstNumber(fls[i]) = nums[1] /\ LastNumber(fls[i]) = nums[Len(nums)]
  BY <1>1 DEF FirstNumber, LastNumber
<1>5. \A j \in 1..Len(nums) : nums[j] = nums[1] + j - 1
  BY <1>1, <1>4 DEF Partition
<1>6. nums[Len(nums)] = nums[1] + Len(nums) - 1
  BY <1>3, <1>5
<1>7. Range(nums) = nums[1]..nums[Len(nums)]
  <2>1. ASSUME NEW n \in nums[1]..nums[Len(nums)] PROVE n \in Range(nums)
    <3>1. n - nums[1] + 1 \in 1..Len(nums)
      BY <1>3, <1>6
    <3>2. nums[n - nums[1] + 1] = n
      BY <1>3, <1>5, <3>1
    <3> QED
      BY <1>3, <3>1, <3>2 DEF Range
  <2>2. ASSUME NEW j \in 1..Len(nums) PROVE nums[j] \in nums[1]..nums[Len(nums)]
    BY <1>3, <1>5, <1>6
  <2> QED
    BY <1>3, <2>1, <2>2 DEF Range
<1> QED
  BY <1>1, <1>3, <1>4, <1>6, <1>7

\* The first k flowlets of fls hold the first `popped' packets of pkts.
AreFirst(fls, k, pkts, popped, last) ==
  /\ NumbersOf(fls, k) = (last - Len(pkts) + 1)..(last - Len(pkts) + popped)
  /\ \A i \in 1..k : LastNumber(fls[i]) <= last - Len(pkts) + popped
  /\ \A i \in (k+1)..Len(fls) : last - Len(pkts) + popped < FirstNumber(fls[i])

\* The first k flowlets hold the first packets, as many as they have numbers.
LEMMA PoppedPackets ==
  ASSUME NEW fls \in Seq(FlowletRecord), NEW pkts \in Seq(Packet), NEW last \in Nat,
         Partition(fls, pkts, last), NEW k \in 0..Len(fls)
  PROVE  /\ Cardinality(NumbersOf(fls, k)) \in 0..Len(pkts)
         /\ AreFirst(fls, k, pkts, Cardinality(NumbersOf(fls, k)), last)
<1>1. PICK base : base = last - Len(pkts)
  OBVIOUS
<1>2. base \in Int /\ Len(pkts) \in Nat /\ last = base + Len(pkts) /\ Len(fls) \in Nat
  BY <1>1
<1>3. PICK First, Last : /\ First = [i \in 1..Len(fls) |-> FirstNumber(fls[i])]
                         /\ Last = [i \in 1..Len(fls) |-> LastNumber(fls[i])]
  BY Zenon
<1>4. \A i \in 1..Len(fls) : /\ First[i] \in Nat /\ Last[i] \in Nat /\ First[i] <= Last[i]
                             /\ Range(fls[i].pkt_nums) = First[i]..Last[i]
  <2> SUFFICES ASSUME NEW i \in 1..Len(fls)
               PROVE  /\ First[i] \in Nat /\ Last[i] \in Nat /\ First[i] <= Last[i]
                      /\ Range(fls[i].pkt_nums) = First[i]..Last[i]
    OBVIOUS
  <2>1. First[i] = FirstNumber(fls[i]) /\ Last[i] = LastNumber(fls[i])
    BY <1>3
  <2> QED
    BY <2>1, FlowletRange
<1>5. \A i, j \in 1..Len(fls) : i < j => Last[i] < First[j]
  BY <1>3 DEF Partition
<1>6. \A m \in 0..Len(fls) : \A n :
        n \in NumbersOf(fls, m) <=> \E i \in 1..m : n \in First[i]..Last[i]
  <2> SUFFICES ASSUME NEW m \in 0..Len(fls), NEW n
               PROVE  n \in NumbersOf(fls, m) <=> \E i \in 1..m : n \in First[i]..Last[i]
    OBVIOUS
  <2>1. \A i \in 1..m : Range(fls[i].pkt_nums) = First[i]..Last[i]
    BY <1>2, <1>4
  <2>2. (\E i \in 1..m : n \in Range(fls[i].pkt_nums)) <=> \E i \in 1..m : n \in First[i]..Last[i]
    BY <2>1, Zenon
  <2> QED
    BY <2>2, NumbersOfMember
<1>7. \A n : (\E i \in 1..Len(fls) : n \in First[i]..Last[i]) <=> n \in (base+1)..last
  <2>1. NumbersOf(fls, Len(fls)) = (base+1)..last
    BY <1>1 DEF Partition
  <2>2. Len(fls) \in 0..Len(fls)
    BY <1>2
  <2> QED
    BY <1>6, <2>1, <2>2, Zenon
<1>8. \A i \in 1..Len(fls) : base + 1 <= First[i] /\ Last[i] <= last
  BY <1>2, <1>4, <1>7
<1>9. CASE k = 0
  <2>1. NumbersOf(fls, k) = {}
    BY <1>9 DEF NumbersOf
  <2>2. Cardinality(NumbersOf(fls, k)) = 0
    BY <2>1, FS_EmptySet
  <2>3. \A i \in 1..Len(fls) : base < FirstNumber(fls[i])
    BY <1>2, <1>3, <1>4, <1>8
  <2> QED
    <3>1. /\ Cardinality(NumbersOf(fls, k)) \in 0..Len(pkts)
          /\ NumbersOf(fls, k) = (base + 1)..(base + Cardinality(NumbersOf(fls, k)))
      BY <1>2, <2>1, <2>2
    <3>2. \A i \in (k+1)..Len(fls) : base + Cardinality(NumbersOf(fls, k)) < FirstNumber(fls[i])
      BY <1>2, <1>9, <2>2, <2>3
    <3>3. 1..k = {}
      BY <1>9
    <3> QED
      BY <1>1, <3>1, <3>2, <3>3 DEF AreFirst
<1>10. CASE k > 0
  <2>1. k \in 1..Len(fls)
    BY <1>10
  <2>2. NumbersOf(fls, k) = (base + 1)..Last[k]
    <3>1. ASSUME NEW n \in NumbersOf(fls, k) PROVE n \in (base + 1)..Last[k]
      <4>1. PICK i \in 1..k : n \in First[i]..Last[i]
        BY <1>6
      <4>2. i = k \/ Last[i] < First[k]
        BY <1>2, <1>5, <2>1
      <4> QED
        BY <1>2, <1>4, <1>8, <2>1, <4>1, <4>2, SMTT(60)
    <3>2. ASSUME NEW n \in (base + 1)..Last[k] PROVE n \in NumbersOf(fls, k)
      <4>1. n \in (base+1)..last
        BY <1>2, <1>4, <1>8, <2>1
      <4>2. PICK i \in 1..Len(fls) : n \in First[i]..Last[i]
        BY <1>7, <4>1
      <4>3. ~ (k < i)
        BY <1>2, <1>4, <1>5, <2>1, <4>2
      <4>4. i \in 1..k
        BY <1>2, <2>1, <4>3
      <4> QED
        BY <1>6, <4>2, <4>4
    <3> QED
      BY <3>1, <3>2, Zenon
  <2>3. base + 1 <= Last[k] /\ Last[k] \in Nat /\ Last[k] <= last
    BY <1>2, <1>4, <1>8, <2>1
  <2>4. Cardinality(NumbersOf(fls, k)) = Last[k] - base
    <3>1. Cardinality((base + 1)..Last[k]) = Last[k] - (base + 1) + 1
      <4>1. base + 1 \in Int /\ Last[k] \in Int /\ ~ (base + 1 > Last[k])
        BY <1>2, <2>3
      <4> QED
        BY <4>1, FS_Interval
    <3> QED
      BY <1>2, <2>2, <2>3, <3>1
  <2>5. \A i \in 1..k : LastNumber(fls[i]) <= Last[k]
    <3> SUFFICES ASSUME NEW i \in 1..k PROVE LastNumber(fls[i]) <= Last[k]
      OBVIOUS
    <3>1. i \in 1..Len(fls) /\ (i = k \/ i < k)
      BY <1>2, <2>1
    <3>2. LastNumber(fls[i]) = Last[i]
      BY <1>3, <3>1
    <3> QED
      BY <1>2, <1>4, <1>5, <2>1, <3>1, <3>2
  <2>6. \A i \in (k+1)..Len(fls) : Last[k] < FirstNumber(fls[i])
    BY <1>2, <1>3, <1>5, <2>1
  <2> QED
    <3>1. base + Cardinality(NumbersOf(fls, k)) = Last[k]
      BY <1>2, <2>3, <2>4
    <3>2. Cardinality(NumbersOf(fls, k)) \in 0..Len(pkts)
      BY <1>2, <2>3, <2>4
    <3> QED
      BY <1>1, <2>2, <2>5, <2>6, <3>1, <3>2 DEF AreFirst
<1> QED
  BY <1>9, <1>10

\* Where the first and the last packet of a flowlet are: get_packet does not
\* panic.
LEMMA PacketIndex ==
  ASSUME NEW fls \in Seq(FlowletRecord), NEW pkts \in Seq(Packet), NEW last \in Nat,
         Partition(fls, pkts, last), NEW i \in 1..Len(fls)
  PROVE  /\ FirstNumber(fls[i]) - (last - Len(pkts)) \in 1..Len(pkts)
         /\ LastNumber(fls[i]) - (last - Len(pkts)) \in 1..Len(pkts)
         /\ pkts[1].number = last - Len(pkts) + 1
<1>1. /\ FirstNumber(fls[i]) \in Nat /\ LastNumber(fls[i]) \in Nat
      /\ FirstNumber(fls[i]) <= LastNumber(fls[i])
      /\ Range(fls[i].pkt_nums) = FirstNumber(fls[i])..LastNumber(fls[i])
  BY FlowletRange
<1>2. FirstNumber(fls[i]) \in Range(fls[i].pkt_nums) /\ LastNumber(fls[i]) \in Range(fls[i].pkt_nums)
  BY <1>1
<1>3. NumbersOf(fls, Len(fls)) = (last - Len(pkts) + 1)..last
  BY DEF Partition
<1>4. /\ FirstNumber(fls[i]) \in (last - Len(pkts) + 1)..last
      /\ LastNumber(fls[i]) \in (last - Len(pkts) + 1)..last
  BY <1>2, <1>3, NumbersOfMember, Zenon
<1>5. Len(pkts) \in Nat
  OBVIOUS
<1>6. /\ FirstNumber(fls[i]) - (last - Len(pkts)) \in 1..Len(pkts)
      /\ LastNumber(fls[i]) - (last - Len(pkts)) \in 1..Len(pkts)
  BY <1>1, <1>4, <1>5
<1>7. pkts[1].number = last - Len(pkts) + 1
  <2>1. 1 \in 1..Len(pkts)
    BY <1>5, <1>6
  <2> QED
    BY <2>1 DEF Partition, Consecutive
<1> QED
  BY <1>6, <1>7

\* Popping the first k flowlets fls and their packets from pkts leaves a
\* partition, and keeps the flowlets in time order.
LEMMA SuffixKeepsPartition ==
  ASSUME NEW fls \in Seq(FlowletRecord), NEW pkts \in Seq(Packet), NEW last \in Nat,
         Partition(fls, pkts, last), NEW k \in 0..Len(fls), NEW popped \in 0..Len(pkts),
         AreFirst(fls, k, pkts, popped, last),
         NEW rest \in Seq(FlowletRecord), IsSuffix(rest, fls, k),
         NEW left \in Seq(Packet), IsSuffix(left, pkts, popped)
  PROVE  /\ Partition(rest, left, last)
         /\ InTimeOrder(fls, pkts) => InTimeOrder(rest, left)
<1>1. PICK base : base = last - Len(pkts)
  OBVIOUS
<1>2. base \in Int /\ Len(pkts) \in Nat /\ last = base + Len(pkts) /\ Len(fls) \in Nat
  BY <1>1
<1>3. /\ popped \in 0..Len(pkts)
      /\ NumbersOf(fls, k) = (base + 1)..(base + popped)
      /\ \A i \in (k+1)..Len(fls) : base + popped < FirstNumber(fls[i])
  BY <1>1 DEF AreFirst
<1>4. Len(rest) = Len(fls) - k
  BY DEF IsSuffix
<1>5. Len(left) = Len(pkts) - popped
  BY DEF IsSuffix
<1>6. \A i \in 1..Len(rest) : k + i \in 1..Len(fls) /\ rest[i] = fls[k + i]
  BY DEF IsSuffix
<1>7. \A i \in 1..Len(left) : popped + i \in 1..Len(pkts) /\ left[i] = pkts[popped + i]
  BY DEF IsSuffix
<1>8. Len(rest) \in Nat /\ Len(left) \in Nat
  OBVIOUS
<1>9. Partition(rest, left, last)
  <2>1. Consecutive(left, last)
    <3> SUFFICES ASSUME NEW i \in 1..Len(left) PROVE left[i].number = last - Len(left) + i
      BY DEF Consecutive
    <3>1. pkts[popped + i].number = last - Len(pkts) + (popped + i)
      BY <1>7 DEF Partition, Consecutive
    <3>2. left[i].number = pkts[popped + i].number
      BY <1>7
    <3>3. last - Len(pkts) + (popped + i) = last - Len(left) + i
      BY <1>2, <1>3, <1>5
    <3> QED
      BY <3>1, <3>2, <3>3
  <2>2. ASSUME NEW i \in 1..Len(rest)
        PROVE  /\ rest[i].pkt_nums # <<>>
               /\ \A j \in 1..Len(rest[i].pkt_nums) :
                    rest[i].pkt_nums[j] = FirstNumber(rest[i]) + j - 1
    <3>1. k + i \in 1..Len(fls) /\ rest[i] = fls[k + i]
      BY <1>6
    <3>2. /\ fls[k + i].pkt_nums # <<>>
          /\ \A j \in 1..Len(fls[k + i].pkt_nums) :
               fls[k + i].pkt_nums[j] = FirstNumber(fls[k + i]) + j - 1
      BY <3>1 DEF Partition
    <3> QED
      BY <3>1, <3>2
  <2>3. ASSUME NEW i \in 1..Len(rest), NEW j \in 1..Len(rest), i < j
        PROVE  LastNumber(rest[i]) < FirstNumber(rest[j])
    <3>1. k + i < k + j
      BY <2>3
    <3> QED
      BY <1>6, <3>1, Zenon DEF Partition
  <2>4. NumbersOf(rest, Len(rest)) = (last - Len(left) + 1)..last
    <3>1. ASSUME NEW n \in NumbersOf(rest, Len(rest)) PROVE n \in (base + popped + 1)..last
      <4>1. PICK i \in 1..Len(rest) : n \in Range(rest[i].pkt_nums)
        BY NumbersOfMember
      <4>2. k + i \in (k+1)..Len(fls) /\ n \in Range(fls[k + i].pkt_nums)
        <5>1. k + i \in 1..Len(fls) /\ rest[i] = fls[k + i]
          BY <1>6
        <5>2. k + i \in (k+1)..Len(fls)
          BY <1>2, <5>1
        <5> QED
          BY <4>1, <5>1, <5>2
      <4>3. n \in NumbersOf(fls, Len(fls))
        BY <1>6, <4>2, NumbersOfMember
      <4>4. n \in (base + 1)..last
        BY <1>1, <4>3 DEF Partition
      <4>5. FirstNumber(fls[k + i]) <= n
        <5>1. k + i \in 1..Len(fls)
          BY <1>6
        <5>2. Range(fls[k + i].pkt_nums) = FirstNumber(fls[k + i])..LastNumber(fls[k + i])
          BY <5>1, FlowletRange
        <5> QED
          BY <4>2, <5>2
      <4>6. base + popped < FirstNumber(fls[k + i]) /\ FirstNumber(fls[k + i]) \in Nat
        BY <1>3, <1>6, <4>2, FlowletRange
      <4> QED
        BY <1>2, <1>3, <4>4, <4>5, <4>6
    <3>2. ASSUME NEW n \in (base + popped + 1)..last PROVE n \in NumbersOf(rest, Len(rest))
      <4>1. n \in (base + 1)..last /\ n \notin NumbersOf(fls, k)
        BY <1>2, <1>3
      <4>2. n \in NumbersOf(fls, Len(fls))
        BY <1>1, <4>1 DEF Partition
      <4>3. PICK i \in 1..Len(fls) : n \in Range(fls[i].pkt_nums)
        BY <4>2, NumbersOfMember
      <4>4. i \notin 1..k
        BY <4>1, <4>3, NumbersOfMember
      <4>5. i - k \in 1..Len(rest) /\ k + (i - k) = i
        BY <1>2, <1>4, <4>4
      <4>6. n \in Range(rest[i - k].pkt_nums)
        BY <1>6, <4>3, <4>5, Zenon
      <4> QED
        BY <4>5, <4>6, NumbersOfMember
    <3>3. last - Len(left) + 1 = base + popped + 1
      BY <1>2, <1>3, <1>5
    <3> QED
      BY <3>1, <3>2, <3>3, Zenon
  <2> QED
    BY <2>1, <2>2, <2>3, <2>4 DEF Partition
<1>10. ASSUME InTimeOrder(fls, pkts) PROVE InTimeOrder(rest, left)
  <2>1. ASSUME NEW i \in 1..Len(rest)
        PROVE  /\ rest[i].begin_time = left[FirstNumber(rest[i]) - left[1].number + 1].timestamp
               /\ rest[i].end_time = left[LastNumber(rest[i]) - left[1].number + 1].timestamp
               /\ rest[i].begin_time <= rest[i].end_time
               /\ rest[i].end_time <= now
    <3>1. PICK f, l : f = FirstNumber(rest[i]) /\ l = LastNumber(rest[i])
      OBVIOUS
    <3>2. f \in Nat /\ l \in Nat
      BY <1>9, <3>1, FlowletRange
    <3>3. /\ f - (last - Len(left)) \in 1..Len(left)
          /\ l - (last - Len(left)) \in 1..Len(left)
          /\ left[1].number = last - Len(left) + 1
      BY <1>9, <3>1, PacketIndex
    <3>4. k + i \in 1..Len(fls) /\ f = FirstNumber(fls[k + i]) /\ l = LastNumber(fls[k + i])
      BY <1>6, <3>1
    <3>5. pkts[1].number = last - Len(pkts) + 1
      BY <3>4, PacketIndex
    <3>6. /\ fls[k + i].begin_time = pkts[f - pkts[1].number + 1].timestamp
          /\ fls[k + i].end_time = pkts[l - pkts[1].number + 1].timestamp
          /\ fls[k + i].begin_time <= fls[k + i].end_time
          /\ fls[k + i].end_time <= now
      BY <1>10, <3>4 DEF InTimeOrder
    <3>7. ASSUME NEW n \in {f, l}
          PROVE  left[n - left[1].number + 1] = pkts[n - pkts[1].number + 1]
      <4>1. n \in Nat /\ n - (last - Len(left)) \in 1..Len(left)
        BY <3>2, <3>3
      <4>2. /\ n - (last - Len(left) + 1) + 1 = n - (last - Len(left))
            /\ popped + (n - (last - Len(left))) = n - (last - Len(pkts) + 1) + 1
        BY <1>2, <1>3, <1>5, <4>1
      <4>3. left[n - (last - Len(left))] = pkts[popped + (n - (last - Len(left)))]
        BY <1>7, <4>1, Zenon
      <4> QED
        BY <3>3, <3>5, <4>2, <4>3
    <3> QED
      BY <1>6, <3>1, <3>6, <3>7, Zenon
  <2>2. ASSUME NEW i \in 1..Len(rest), NEW j \in 1..Len(rest), i < j
        PROVE  rest[i].end_time < rest[j].begin_time
    <3>1. k + i < k + j
      BY <2>2
    <3> QED
      BY <1>6, <1>10, <3>1, Zenon DEF InTimeOrder
  <2> QED
    BY <2>1, <2>2 DEF InTimeOrder
<1> QED
  BY <1>9, <1>10

\* The way CompleteFlowlets and a reset pop the first k flowlets.
PopsTo(fls, pkts, k, rest, left) ==
  /\ rest = SubSeq(fls, k + 1, Len(fls))
  /\ left = SubSeq(pkts, Cardinality(NumbersOf(fls, k)) + 1, Len(pkts))

LEMMA PopKeepsPartition ==
  ASSUME NEW fls \in Seq(FlowletRecord), NEW pkts \in Seq(Packet), NEW last \in Nat,
         Partition(fls, pkts, last), NEW k \in 0..Len(fls),
         NEW rest, NEW left, PopsTo(fls, pkts, k, rest, left)
  PROVE  /\ rest \in Seq(FlowletRecord) /\ IsSuffix(rest, fls, k)
         /\ left \in Seq(Packet) /\ IsSuffix(left, pkts, Cardinality(NumbersOf(fls, k)))
         /\ Cardinality(NumbersOf(fls, k)) \in 0..Len(pkts)
         /\ Partition(rest, left, last)
         /\ InTimeOrder(fls, pkts) => InTimeOrder(rest, left)
<1>1. PICK popped : popped = Cardinality(NumbersOf(fls, k))
  OBVIOUS
<1>2. popped \in 0..Len(pkts)
  BY <1>1, PoppedPackets
<1>3. AreFirst(fls, k, pkts, popped, last)
  BY <1>1, PoppedPackets
<1>4. rest \in Seq(FlowletRecord)
  BY Suffix DEF PopsTo
<1>5. IsSuffix(rest, fls, k)
  BY Suffix DEF PopsTo
<1>6. left \in Seq(Packet)
  BY <1>1, <1>2, Suffix DEF PopsTo
<1>7. IsSuffix(left, pkts, popped)
  BY <1>1, <1>2, Suffix DEF PopsTo
<1>8. /\ Partition(rest, left, last)
      /\ InTimeOrder(fls, pkts) => InTimeOrder(rest, left)
  BY <1>2, <1>3, <1>4, <1>5, <1>6, <1>7, SuffixKeepsPartition
<1> QED
  BY <1>1, <1>2, <1>4, <1>5, <1>6, <1>7, <1>8

\* There are flowlets exactly when there are packets, and the newest packet is
\* the last of the newest flowlet.
LEMMA NewestPacket ==
  ASSUME NEW fls \in Seq(FlowletRecord), NEW pkts \in Seq(Packet), NEW last \in Nat,
         Partition(fls, pkts, last)
  PROVE  /\ Len(fls) = 0 <=> Len(pkts) = 0
         /\ Len(fls) # 0 => LastNumber(fls[Len(fls)]) = last
<1>1. Len(pkts) \in Nat /\ Len(fls) \in Nat
  OBVIOUS
<1>2. NumbersOf(fls, Len(fls)) = (last - Len(pkts) + 1)..last
  BY DEF Partition
<1>3. ASSUME Len(pkts) # 0
      PROVE  Len(fls) # 0 /\ LastNumber(fls[Len(fls)]) = last
  <2>1. last \in NumbersOf(fls, Len(fls))
    BY <1>1, <1>2, <1>3
  <2>2. PICK i \in 1..Len(fls) : last \in Range(fls[i].pkt_nums)
    BY <2>1, NumbersOfMember
  <2>3. Len(fls) \in 1..Len(fls)
    BY <1>1
  <2>4. last <= LastNumber(fls[i]) /\ LastNumber(fls[i]) \in Nat
    BY <2>2, FlowletRange
  <2>5. i = Len(fls) \/ LastNumber(fls[i]) < FirstNumber(fls[Len(fls)])
    BY <1>1, <2>3 DEF Partition
  <2>6. /\ FirstNumber(fls[Len(fls)]) \in Nat /\ LastNumber(fls[Len(fls)]) \in Nat
        /\ FirstNumber(fls[Len(fls)]) <= LastNumber(fls[Len(fls)])
        /\ LastNumber(fls[Len(fls)]) \in Range(fls[Len(fls)].pkt_nums)
    <3>1. /\ Len(fls[Len(fls)].pkt_nums) \in Nat \ {0}
          /\ FirstNumber(fls[Len(fls)]) \in Nat /\ LastNumber(fls[Len(fls)]) \in Nat
          /\ LastNumber(fls[Len(fls)]) = FirstNumber(fls[Len(fls)]) + Len(fls[Len(fls)].pkt_nums) - 1
          /\ Range(fls[Len(fls)].pkt_nums) = FirstNumber(fls[Len(fls)])..LastNumber(fls[Len(fls)])
      BY <2>3, FlowletRange
    <3>2. FirstNumber(fls[Len(fls)]) <= LastNumber(fls[Len(fls)])
      BY <3>1
    <3> QED
      BY <3>1, <3>2
  <2>7. LastNumber(fls[Len(fls)]) \in (last - Len(pkts) + 1)..last
    BY <1>2, <2>3, <2>6, NumbersOfMember, Zenon
  <2> QED
    BY <1>1, <2>3, <2>4, <2>5, <2>6, <2>7
<1>4. ASSUME Len(fls) # 0 PROVE Len(pkts) # 0
  <2>1. 1 \in 1..Len(fls)
    BY <1>1, <1>4
  <2>2. FirstNumber(fls[1]) - (last - Len(pkts)) \in 1..Len(pkts)
    BY <2>1, PacketIndex
  <2> QED
    BY <1>1, <2>2
<1> QED
  BY <1>3, <1>4

\* Two sequences of flowlets that differ at most in replies and completion marks.
SameSpans(f, g) ==
  /\ Len(f) = Len(g)
  /\ \A i \in 1..Len(g) : /\ f[i].pkt_nums = g[i].pkt_nums
                          /\ f[i].begin_time = g[i].begin_time
                          /\ f[i].end_time = g[i].end_time

LEMMA SameSpansKeepPartition ==
  ASSUME NEW f, NEW g, NEW pkts, NEW last,
         SameSpans(f, g), Partition(g, pkts, last)
  PROVE  /\ Partition(f, pkts, last)
         /\ InTimeOrder(g, pkts) => InTimeOrder(f, pkts)
<1>1. Len(f) = Len(g) /\ \A i \in 1..Len(g) : /\ f[i].pkt_nums = g[i].pkt_nums
                                               /\ f[i].begin_time = g[i].begin_time
                                               /\ f[i].end_time = g[i].end_time
  BY DEF SameSpans
<1>2. \A i \in 1..Len(g) : /\ FirstNumber(f[i]) = FirstNumber(g[i])
                           /\ LastNumber(f[i]) = LastNumber(g[i])
  BY <1>1 DEF FirstNumber, LastNumber
<1>3. NumbersOf(f, Len(f)) = NumbersOf(g, Len(g))
  <2>1. \A n : n \in NumbersOf(f, Len(f)) <=> \E i \in 1..Len(f) : n \in Range(f[i].pkt_nums)
    BY NumbersOfMember
  <2>2. \A n : n \in NumbersOf(g, Len(g)) <=> \E i \in 1..Len(g) : n \in Range(g[i].pkt_nums)
    BY NumbersOfMember
  <2>3. \A n : n \in NumbersOf(f, Len(f)) <=> n \in NumbersOf(g, Len(g))
    BY <1>1, <2>1, <2>2, SMTT(30)
  <2> QED
    BY <2>3
<1>4. Partition(f, pkts, last)
  BY <1>1, <1>2, <1>3 DEF Partition
<1>5. ASSUME InTimeOrder(g, pkts) PROVE InTimeOrder(f, pkts)
  BY <1>1, <1>2, <1>5 DEF InTimeOrder
<1> QED
  BY <1>4, <1>5

-----------------------------------------------------------------------------
(* Adding a packet.                                                         *)

-----------------------------------------------------------------------------
(* The inductive invariant of the queue.                                    *)

IInv ==
  /\ TypeOK
  /\ FlowletsPartitionPackets
  /\ OnlyFrontIsReplied
  /\ FlowletsAreOrderedInTime
  /\ LossesLeftTheQueue
=============================================================================
