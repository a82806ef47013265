------------------------- MODULE QuicDatagram_proofs -------------------------
(***************************************************************************)
(* The reading of a datagram stays inside it and advances, whatever its     *)
(* length and whatever the fields of its headers say.                       *)
(***************************************************************************)
EXTENDS QuicDatagram, TLAPS, SequenceTheorems

\* How many octets of a header have been read at least when a field comes.
Read == [loop |-> 0, first |-> 0, version |-> 1, dcid |-> 5, scid |-> 6,
         token |-> 7, length |-> 7, payload |-> 7]

\* The inductive invariant.
Inv ==
  /\ len \in Nat /\ left \in Nat /\ off \in Nat /\ length \in Nat
  /\ off <= left /\ left <= len
  /\ ty \in LongTypes /\ kinds \in Seq(Kinds)
  /\ at \in DOMAIN Read \union {"done"}
  /\ at # "done" => off >= Read[at] /\ 7 * Len(kinds) <= len - left
  /\ at = "loop" => off = 0
  /\ at = "first" => off = 0 /\ left > 0

LEMMA InvInit == Init => Inv
  BY QuicDatagramAssumption DEF Init, Inv, Read, LongTypes, Kinds

LEMMA FailKeepsInv ==
  ASSUME Inv, NEW error, NEW kind \in Kinds, Fail(error, kind)
  PROVE  Inv'
  BY DEF Inv, Fail, inputs, hdr, Read

\* A packet that is processed has at least the octets of its header, and ends
\* before the datagram does.
LEMMA SkipPayloadKeepsInv ==
  ASSUME Inv, at = "payload", SkipPayload
  PROVE  Inv'
<1>1. CASE length > cap
  <2>1. Fail("BufferTooShort", "Cut")
    BY <1>1 DEF SkipPayload
  <2> QED
    BY <2>1, FailKeepsInv DEF Kinds
<1>2. CASE ~ (length > cap)
  <2>1. /\ kinds' = Append(kinds, ty)
        /\ \E end \in {left, off + length} : Processed(end)
        /\ UNCHANGED <<inputs, hdr>>
    BY <1>2 DEF SkipPayload
  <2>2. PICK end \in {left, off + length} : Processed(end)
    BY <2>1
  <2>3. off >= 7 /\ 7 * Len(kinds) <= len - left
    BY DEF Inv, Read
  <2>4. end \in Nat /\ end >= 7 /\ end <= left
    BY <2>2, <2>3, <1>2 DEF Inv, cap
  <2>5. kinds' \in Seq(Kinds) /\ Len(kinds') = Len(kinds) + 1 /\ Len(kinds) \in Nat
    BY <2>1 DEF Inv, Kinds
  <2>6. left' = left - end /\ off' = 0 /\ at' = "loop"
    BY <2>2 DEF Processed
  <2>7. 7 * Len(kinds') <= len - left'
    BY <2>3, <2>4, <2>5, <2>6 DEF Inv
  <2> QED
    BY <2>1, <2>4, <2>5, <2>6, <2>7 DEF Inv, Read, inputs, hdr
<1> QED
  BY <1>1, <1>2

\* Every step of the reading keeps the invariant.
LEMMA InvNext == Inv /\ [Next]_vars => Inv'
<1> SUFFICES ASSUME Inv, [Next]_vars PROVE Inv'
  OBVIOUS
<1> USE DEF inputs, hdr
<1>1. CASE Loop
  BY <1>1 DEF Loop, Inv, Read
<1>2. ASSUME NEW octet \in {"zero", "Short", "Initial", "ZeroRTT", "Handshake", "Retry"},
             GetFirst(octet)
      PROVE  Inv'
  <2>1. CASE octet \in {"zero", "Short"}
    BY <2>1, <1>2 DEF GetFirst, Inv, Read, Kinds
  <2>2. CASE octet \notin {"zero", "Short"}
    BY <2>2, <1>2 DEF GetFirst, Inv, Read, LongTypes
  <2> QED
    BY <2>1, <2>2
<1>3. ASSUME NEW version \in 0..2, GetVersion(version) PROVE Inv'
  <2>1. CASE cap < 4
    BY <2>1, <1>3, FailKeepsInv DEF GetVersion, Kinds
  <2>2. CASE ~ (cap < 4)
    BY <2>2, <1>3 DEF GetVersion, Inv, Read, LongTypes, cap
  <2> QED
    BY <2>1, <2>2
<1>4. ASSUME NEW n \in Values, GetCid(n) PROVE Inv'
  <2>1. n \in Nat
    BY QuicDatagramAssumption
  <2>2. CASE \E error, kind : kind \in {"Cut", "LongCid"} /\ Fail(error, kind)
    BY <2>2, FailKeepsInv DEF Kinds
  <2>3. CASE /\ cap >= 1 /\ cap - 1 >= n
             /\ off' = off + 1 + n
             /\ at' = CASE at = "dcid" -> "scid"
                        [] at = "scid" /\ ty = "Initial" -> "token"
                        [] at = "scid" /\ ty \in {"Handshake", "ZeroRTT"} -> "length"
                        [] OTHER -> "payload"
             /\ length' = cap - 1 - n
             /\ UNCHANGED <<inputs, left, ty, kinds>>
    <3>1. at' \in {"scid", "token", "length", "payload"} /\ (at' = "scid" <=> at = "dcid")
      BY <2>3
    <3>2. at \in {"dcid", "scid"}
      BY <1>4 DEF GetCid
    <3>3. off' = off + 1 + n /\ length' = cap - 1 - n /\ cap - 1 >= n
      BY <2>3
    <3>4. UNCHANGED <<len, left, ty, kinds>>
      BY <2>3
    <3>5. off' \in Nat /\ length' \in Nat /\ off' <= left
      BY <3>3, <2>1 DEF Inv, cap
    <3>6. off' >= Read[at]' /\ at' \in DOMAIN Read
      BY <3>1, <3>2, <3>3, <2>1 DEF Inv, Read
    <3> QED
      BY <3>1, <3>2, <3>4, <3>5, <3>6 DEF Inv, Read
  <2>4. cap \in Int
    BY DEF Inv, cap
  <2> QED
    BY <2>1, <2>2, <2>3, <2>4, <1>4 DEF GetCid
<1>5. ASSUME NEW w \in VarintLens, NEW n \in Values, GetToken(w, n) PROVE Inv'
  <2>1. w \in Nat /\ n \in Nat
    BY QuicDatagramAssumption
  <2>2. CASE cap < w \/ cap - w < n
    BY <2>2, <1>5, FailKeepsInv DEF GetToken, Kinds
  <2>3. CASE ~ (cap < w \/ cap - w < n)
    BY <2>1, <2>3, <1>5 DEF GetToken, Inv, Read, cap
  <2> QED
    BY <2>2, <2>3
<1>6. ASSUME NEW w \in VarintLens, NEW n \in Values, GetLength(w, n) PROVE Inv'
  <2>1. w \in Nat /\ n \in Nat
    BY QuicDatagramAssumption
  <2>2. CASE cap < w
    BY <2>2, <1>6, FailKeepsInv DEF GetLength, Kinds
  <2>3. CASE ~ (cap < w)
    BY <2>1, <2>3, <1>6 DEF GetLength, Inv, Read, cap
  <2> QED
    BY <2>2, <2>3
<1>7. CASE Payload
  <2>1. at = "payload" /\ ty \in Kinds
    BY <1>7 DEF Payload, Inv, Kinds
  <2>2. Fail("MayNotQUIC", ty) \/ Fail("HandshakeFromClient", ty) \/ SkipPayload
    BY <1>7 DEF Payload
  <2> QED
    BY <2>1, <2>2, FailKeepsInv, SkipPayloadKeepsInv
<1>8. CASE UNCHANGED vars
  BY <1>8 DEF vars, Inv, Read
<1> QED
  BY <1>1, <1>2, <1>3, <1>4, <1>5, <1>6, <1>7, <1>8 DEF Next

\* The cursor of the octets crate stays inside the datagram (Header::from_bytes,
\* skip): no read passes its end, and "left -= read" never underflows.
THEOREM DatagramStaysInside == Spec => []ReadingStaysInside
<1>1. Inv => ReadingStaysInside
  BY DEF Inv, ReadingStaysInside
<1> QED
  BY <1>1, InvInit, InvNext, PTL DEF Spec

\* The loop of quic_conn_process ends: each packet it processes takes at least the
\* seven octets of the shortest long header.
THEOREM DatagramReadingAdvances == Spec => []ReadingAdvances
<1>1. Inv => ReadingAdvances
  BY DEF Inv, ReadingAdvances
<1> QED
  BY <1>1, InvInit, InvNext, PTL DEF Spec
=============================================================================
