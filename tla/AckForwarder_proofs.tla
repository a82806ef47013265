------------------------- MODULE AckForwarder_proofs -------------------------
(***************************************************************************)
(* AckForwarder forwards every packet once and lets none be overtaken by    *)
(* two later ones.                                                          *)
(***************************************************************************)
EXTENDS AckForwarder, TLAPS, SequenceTheorems

\* A sequence of the numbers 1, 2, ... in which none is preceded by two larger ones.
Tidy(s) ==
  /\ s \in Seq(Nat)
  /\ \A i \in 1..Len(s) : s[i] \in 1..Len(s)
  /\ \A i, j \in 1..Len(s) : s[i] = s[j] => i = j
  /\ \A i, j, k \in 1..Len(s) : i < j /\ j < k => s[i] < s[k] \/ s[j] < s[k]

\* h holds the n numbers that follow the first m, in order.
Following(h, m) == h \in Seq(Nat) /\ \A i \in 1..Len(h) : h[i] = m + i

\* The inductive invariant: the packets held back are the latest ones.
Inv ==
  /\ accepted \in Nat
  /\ Tidy(delivered)
  /\ Following(held, Len(delivered))
  /\ accepted = Len(delivered) + Len(held)

\* Letting go of the following numbers keeps a sequence tidy, in either order.
LEMMA LetGoIsTidy ==
  ASSUME NEW d, Tidy(d), NEW h, Following(h, Len(d)), h # <<>>,
         NEW order \in {h, TailFirst(h)}
  PROVE  Tidy(d \o order) /\ Len(d \o order) = Len(d) + Len(h)
<1> DEFINE m == Len(d)  n == Len(h)  s == d \o order
<1>1. /\ d \in Seq(Nat) /\ h \in Seq(Nat) /\ m \in Nat /\ n \in Nat \ {0}
      /\ \A i \in 1..n : h[i] = m + i
  BY DEF Tidy, Following
<1>2. /\ order \in Seq(Nat) /\ Len(order) = n
      /\ \/ \A i \in 1..n : order[i] = m + i
         \/ \A i \in 1..n : order[i] = IF i = 1 THEN m + n ELSE m + i - 1
  <2>1. CASE order = h
    BY <1>1, <2>1
  <2>2. CASE order = TailFirst(h)
    <3> DEFINE t == SubSeq(h, 1, n - 1)
    <3>1. /\ t \in Seq(Nat) /\ Len(t) = n - 1
          /\ \A i \in 1..(n - 1) : t[i] = h[i]
      <4>1. 1 \in Int /\ n - 1 \in Int /\ \A i \in 1..(n - 1) : h[i] \in Nat
        BY <1>1
      <4>2. /\ t \in Seq(Nat)
            /\ Len(t) = IF 1 <= n - 1 THEN n - 1 - 1 + 1 ELSE 0
            /\ \A i \in 1..(n - 1 - 1 + 1) : t[i] = h[1 + i - 1]
        BY <4>1, SubSeqProperties
      <4> HIDE DEF t, n
      <4>3. n - 1 - 1 + 1 = n - 1 /\ n \in Nat \ {0}
        BY <1>1
      <4>4. \A i \in 1..(n - 1) : 1 + i - 1 = i
        BY <4>3
      <4>5. Len(t) = n - 1
        BY <4>2, <4>3
      <4>6. \A i \in 1..(n - 1) : t[i] = h[i]
        BY <4>2, <4>3, <4>4
      <4> QED
        BY <4>2, <4>5, <4>6
    <3>2. <<h[n]>> \in Seq(Nat) /\ Len(<<h[n]>>) = 1 /\ <<h[n]>>[1] = m + n
      BY <1>1
    <3>3. /\ order \in Seq(Nat) /\ Len(order) = n
          /\ \A i \in 1..n : order[i] = IF i <= 1 THEN <<h[n]>>[i] ELSE t[i - 1]
      <4> HIDE DEF t
      <4>1. order = <<h[n]>> \o t
        BY <2>2 DEF TailFirst, t
      <4> QED
        BY <4>1, <3>1, <3>2, <1>1, ConcatProperties
    <3> HIDE DEF t
    <3>4. ASSUME NEW i \in 1..n
          PROVE  order[i] = IF i = 1 THEN m + n ELSE m + i - 1
      <4>1. CASE i = 1
        BY <4>1, <3>2, <3>3, <1>1
      <4>2. CASE i # 1
        <5>1. i - 1 \in 1..(n - 1) /\ i - 1 \in 1..n /\ ~ (i <= 1)
          BY <4>2, <1>1
        <5>2. order[i] = t[i - 1] /\ t[i - 1] = h[i - 1] /\ h[i - 1] = m + (i - 1)
          BY <5>1, <3>1, <3>3, <1>1
        <5> QED
          BY <5>2, <4>2, <1>1
      <4> QED
        BY <4>1, <4>2
    <3> QED
      BY <3>3, <3>4
  <2> QED
    BY <2>1, <2>2
<1>3. /\ s \in Seq(Nat) /\ Len(s) = m + n
      /\ \A i \in 1..(m + n) : s[i] = IF i <= m THEN d[i] ELSE order[i - m]
  <2>1. d \in Seq(Nat) /\ order \in Seq(Nat) /\ Len(order) = n
    BY <1>1, <1>2
  <2>2. /\ s \in Seq(Nat) /\ Len(s) = m + Len(order)
        /\ \A i \in 1..(m + Len(order)) : s[i] = IF i <= m THEN d[i] ELSE order[i - m]
    BY <2>1, ConcatProperties
  <2> HIDE DEF s
  <2> QED
    BY <2>1, <2>2
<1>4. /\ \A i \in 1..m : s[i] \in 1..m
      /\ \A i, j \in 1..m : s[i] = s[j] => i = j
      /\ \A i, j, k \in 1..m : i < j /\ j < k => s[i] < s[k] \/ s[j] < s[k]
  <2>1. \A i \in 1..m : s[i] = d[i]
    BY <1>1, <1>3
  <2> QED
    BY <2>1 DEF Tidy
<1>5. \/ \A i \in (m + 1)..(m + n) : s[i] = i
      \/ \A i \in (m + 1)..(m + n) : s[i] = IF i = m + 1 THEN m + n ELSE i - 1
  <2>1. \A i \in (m + 1)..(m + n) : i - m \in 1..n /\ s[i] = order[i - m]
    BY <1>1, <1>3
  <2> HIDE DEF m, n, s
  <2>2. CASE \A i \in 1..n : order[i] = m + i
    BY <2>1, <2>2, <1>1
  <2>3. CASE \A i \in 1..n : order[i] = IF i = 1 THEN m + n ELSE m + i - 1
    BY <2>1, <2>3, <1>1
  <2> QED
    BY <2>2, <2>3, <1>2
<1> HIDE DEF m, n, s
<1>6. \A i \in 1..(m + n) : s[i] \in 1..(m + n)
  BY <1>1, <1>4, <1>5
<1>7. \A i, j \in 1..(m + n) : s[i] = s[j] => i = j
  BY <1>1, <1>4, <1>5
<1>8. \A i, j, k \in 1..(m + n) : i < j /\ j < k => s[i] < s[k] \/ s[j] < s[k]
  <2> SUFFICES ASSUME NEW i \in 1..(m + n), NEW j \in 1..(m + n), NEW k \in 1..(m + n),
                      i < j, j < k
               PROVE  s[i] < s[k] \/ s[j] < s[k]
    OBVIOUS
  <2>1. CASE k <= m
    BY <2>1, <1>1, <1>4
  <2>2. CASE m < k /\ i <= m
    BY <2>2, <1>1, <1>4, <1>5
  <2>3. CASE m < i
    BY <2>3, <1>1, <1>5
  <2> QED
    BY <2>1, <2>2, <2>3, <1>1
<1> QED
  BY <1>3, <1>6, <1>7, <1>8 DEF Tidy, m, n, s

LEMMA InvInit == Init => Inv
  BY DEF Init, Inv, Tidy, Following

\* A step of AckForwarder keeps the invariant.
LEMMA InvNext == Inv /\ [Next]_vars => Inv'
<1> SUFFICES ASSUME Inv, [Next]_vars PROVE Inv'
  OBVIOUS
<1>1. /\ accepted \in Nat /\ Tidy(delivered) /\ Following(held, Len(delivered))
      /\ accepted = Len(delivered) + Len(held)
      /\ Len(delivered) \in Nat /\ held \in Seq(Nat)
  BY DEF Inv, Tidy, Following
<1>2. Following(Append(held, accepted + 1), Len(delivered)) /\ Append(held, accepted + 1) # <<>>
  BY <1>1 DEF Following
<1>3. ASSUME NEW s, Following(s, Len(delivered)), LetGo(s), accepted' = Len(delivered) + Len(s)
      PROVE  Inv'
  <2>1. PICK order \in {s, TailFirst(s)} : delivered' = delivered \o order
    BY <1>3 DEF LetGo
  <2>2. Tidy(delivered') /\ Len(delivered') = Len(delivered) + Len(s) /\ held' = <<>>
    BY <2>1, <1>1, <1>3, LetGoIsTidy DEF LetGo
  <2>3. Len(s) \in Nat
    BY <1>3 DEF Following
  <2> QED
    BY <2>2, <2>3, <1>1, <1>3 DEF Inv, Following
<1>4. CASE Come
  <2>1. CASE held' = Append(held, accepted') /\ UNCHANGED delivered
    BY <2>1, <1>1, <1>2, <1>4 DEF Come, Inv
  <2>2. CASE LetGo(Append(held, accepted'))
    <3>1. accepted' = accepted + 1
      BY <1>4 DEF Come
    <3>2. LetGo(Append(held, accepted + 1))
      BY <2>2, <3>1
    <3>3. accepted' = Len(delivered) + Len(Append(held, accepted + 1))
      BY <3>1, <1>1
    <3> QED
      BY <3>2, <3>3, <1>2, <1>3
  <2> QED
    BY <2>1, <2>2, <1>4 DEF Come
<1>5. CASE Flush
  BY <1>1, <1>3, <1>5 DEF Flush
<1>6. CASE UNCHANGED vars
  BY <1>6 DEF vars, Inv
<1> QED
  BY <1>4, <1>5, <1>6 DEF Next

\* The packets forwarded and held back are the packets that came, each once, and
\* no packet is overtaken by two later ones.
LEMMA InvImplies == Inv => EachOnce /\ OvertakenOnce
<1> SUFFICES ASSUME Inv PROVE EachOnce /\ OvertakenOnce
  OBVIOUS
<1> DEFINE all == delivered \o held
<1>1. Tidy(all) /\ Len(all) = accepted
  <2>1. CASE held = <<>>
    <3>1. all = delivered
      BY <2>1 DEF Inv, Tidy
    <3> QED
      BY <2>1, <3>1, SMTT(30) DEF Inv, Tidy
  <2>2. CASE held # <<>>
    BY <2>2, LetGoIsTidy DEF Inv
  <2> QED
    BY <2>1, <2>2
<1> HIDE DEF all
<1>2. /\ Len(all) = accepted
      /\ \A i \in 1..Len(all) : all[i] \in 1..accepted
      /\ \A i, j \in 1..Len(all) : all[i] = all[j] => i = j
  BY <1>1 DEF Tidy
<1>3. \A i, j, k \in 1..Len(all) : i < j /\ j < k => all[i] < all[k] \/ all[j] < all[k]
  BY <1>1 DEF Tidy
<1> QED
  BY <1>2, <1>3 DEF EachOnce, OvertakenOnce, all

\* What the client may rely on (check_delayed_acks): each of its packets reaches the
\* server once, and at most one later packet overtakes it.
THEOREM ForwardedOnceAlmostInOrder == Spec => [](EachOnce /\ OvertakenOnce)
<1>1. Init => Inv
  BY InvInit
<1>2. Inv /\ [Next]_vars => Inv'
  BY InvNext
<1>3. Inv => EachOnce /\ OvertakenOnce
  BY InvImplies
<1> QED
  BY <1>1, <1>2, <1>3, PTL DEF Spec
=============================================================================
