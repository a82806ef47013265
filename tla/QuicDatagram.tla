----------------------------- MODULE QuicDatagram -----------------------------
(***************************************************************************)
(* The reading of one datagram octet by octet: the loop of                  *)
(* quic_conn_process (pemi/src/lib.rs), the parsing of a QUIC header        *)
(* (quic_parse.rs, Header::from_bytes) through the cursor of the octets     *)
(* crate, and the handling of the packet (conn.rs).                         *)
(*                                                                         *)
(* Of the datagram only its length is given at first.  What a field says is *)
(* chosen when the field is read: every field is read once, except for the  *)
(* octet after a packet, which is peeked at to find padding.                *)
(***************************************************************************)
EXTENDS QuicTracking

CONSTANTS MAX_CID_LEN,  \* 20
          VarintLens,   \* 1, 2, 4, 8: octets of a variable-length integer
          Values,       \* values of the length fields
          MaxLen        \* bound on the length of the datagram

ASSUME QuicDatagramAssumption ==
  /\ MAX_CID_LEN \in Nat /\ MaxLen \in Nat
  /\ VarintLens \subseteq Nat \ {0} /\ Values \subseteq Nat

VARIABLES len,          \* of the datagram
          left,         \* octets of it that are not processed yet
          off,          \* cursor in these
          at,           \* what is read next; "done" when the reading has ended
          peeked,       \* the next octet is known not to be zero
          ty, supported, length,   \* of the header that is being read
          start, from_client,      \* the connection and the sender before the datagram
          conn,         \* state of the connection
          res,          \* result of quic_conn_process, or the panic
          kinds         \* history: kinds of the packets in the datagram

inputs == <<len, start, from_client>>
hdr    == <<ty, supported, length>>
vars   == <<inputs, left, off, at, peeked, hdr, conn, res, kinds>>

cap == left - off

\* The reading ends with an error or a panic, at a packet of the kind given.
Fail(error, kind) ==
  /\ at' = "done" /\ res' = error
  /\ kinds' = Append(kinds, kind)
  /\ UNCHANGED <<inputs, left, off, peeked, hdr, conn>>

\* The while loop of quic_conn_process.
Loop ==
  /\ at = "loop"
  /\ \/ /\ left = 0 /\ at' = "done"
        /\ UNCHANGED <<left, off>>
     \/ \* the connection is handshaked: "No need to parse the packet"
        /\ left > 0 /\ conn = "Handshaked" /\ left' = 0
        /\ UNCHANGED <<off, at>>
     \/ /\ left > 0 /\ conn # "Handshaked" /\ off' = 0 /\ at' = "first"
        /\ UNCHANGED left
  /\ UNCHANGED <<inputs, peeked, hdr, conn, res, kinds>>

\* get_u8 of the first octet: a short header cannot be read without the length of
\* its connection ID.  A zero octet after a packet is padding, not a packet.
GetFirst(octet) ==
  /\ at = "first"
  /\ peeked => octet # "zero"
  /\ IF octet \in {"zero", "Short"}
     THEN /\ at' = "done" /\ res' = "InvalidState"
          /\ kinds' = IF octet = "zero" /\ kinds # <<>> THEN kinds ELSE Append(kinds, "Short")
          /\ UNCHANGED <<off, ty>>
     ELSE /\ off' = off + 1 /\ ty' = octet /\ at' = "version"
          /\ UNCHANGED <<res, kinds>>
  /\ peeked' = FALSE
  /\ UNCHANGED <<inputs, left, supported, length, conn>>

\* get_u32 of the version: zero is version negotiation.
GetVersion(version) ==
  /\ at = "version"
  /\ IF cap < 4 THEN Fail("BufferTooShort", "Cut")
     ELSE /\ off' = off + 4
          /\ ty' = IF version = 0 THEN "VersionNegotiation" ELSE ty
          /\ supported' = (version = 1)
          /\ at' = "dcid"
          /\ UNCHANGED <<inputs, left, peeked, length, conn, res, kinds>>

\* A connection ID: get_u8 of its length n, then get_bytes.  Without a length
\* field, the payload is what remains.
GetCid(n) ==
  /\ at \in {"dcid", "scid"}
  /\ CASE cap < 1 -> Fail("BufferTooShort", "Cut")
       [] cap >= 1 /\ supported /\ n > MAX_CID_LEN -> Fail("CidTooLong", "LongCid")
       [] cap >= 1 /\ ~(supported /\ n > MAX_CID_LEN) /\ cap - 1 < n -> Fail("BufferTooShort", "Cut")
       [] OTHER ->
            /\ off' = off + 1 + n
            /\ at' = CASE at = "dcid" -> "scid"
                       [] at = "scid" /\ ty = "Initial" -> "token"
                       [] at = "scid" /\ ty \in {"Handshake", "ZeroRTT"} -> "length"
                       [] OTHER -> "payload"
            /\ length' = cap - 1 - n
            /\ UNCHANGED <<inputs, left, peeked, ty, supported, conn, res, kinds>>

\* get_bytes_with_varint_length of the token: an integer of w octets, then get_bytes.
GetToken(w, n) ==
  /\ at = "token"
  /\ IF cap < w \/ cap - w < n THEN Fail("BufferTooShort", "Cut")
     ELSE /\ off' = off + w + n
          /\ at' = "length"
          /\ UNCHANGED <<inputs, left, peeked, hdr, conn, res, kinds>>

\* get_varint of the length of the payload.
GetLength(w, n) ==
  /\ at = "length"
  /\ IF cap < w THEN Fail("BufferTooShort", "Cut")
     ELSE /\ off' = off + w
          /\ length' = n
          /\ at' = "payload"
          /\ UNCHANGED <<inputs, left, peeked, ty, supported, conn, res, kinds>>

\* What a packet does to the connection: the first one creates it, and its sender is
\* the client.
FromClient == start = "None" \/ from_client
ConnAfter  == CASE conn = "None"    -> "Initialed"
                [] ty = "Handshake" -> "Handshaked"
                [] OTHER            -> conn

\* The packet is processed up to the octet end of what is left: the next round.
Processed(end) == left' = left - end /\ off' = 0 /\ at' = "loop"

\* Mutation: the payload may end after the datagram.
SkipPayloadUnchecked ==
  /\ conn' = ConnAfter
  /\ kinds' = Append(kinds, ty)
  /\ Processed(off + length)
  /\ peeked' = FALSE
  /\ UNCHANGED <<inputs, hdr, res>>

\* Mutation: padding is not looked for.
SkipPayloadUnpadded ==
  IF length > cap THEN Fail("BufferTooShort", "Cut")
  ELSE /\ conn' = ConnAfter
       /\ kinds' = Append(kinds, ty)
       /\ Processed(off + length)
       /\ peeked' = FALSE
       /\ UNCHANGED <<inputs, hdr, res>>

\* Mutation: the header is not counted.
SkipPayloadOnly ==
  IF length > cap THEN Fail("BufferTooShort", "Cut")
  ELSE /\ conn' = ConnAfter
       /\ kinds' = Append(kinds, ty)
       /\ Processed(length)
       /\ peeked' = FALSE
       /\ UNCHANGED <<inputs, hdr, res>>

\* skip, then is_udp_padding if there is a next octet.  Padding belongs to the
\* packet before it.
SkipPayload ==
  IF length > cap THEN Fail("BufferTooShort", "Cut")
  ELSE /\ conn' = ConnAfter
       /\ kinds' = Append(kinds, ty)
       /\ \/ /\ length < cap /\ Processed(left) /\ peeked' = FALSE
          \/ /\ Processed(off + length) /\ peeked' = (length < cap)
       /\ UNCHANGED <<inputs, hdr, res>>

\* The rest of first_quic_packet or process_quic_packet, once the header is read.
\* If the payload is cut the connection may be handshaked already, but then the
\* process ends.
Payload ==
  /\ at = "payload"
  /\ CASE conn = "None" /\ ty # "Initial" -> Fail("MayNotQUIC", ty)
       [] conn = "Initialed" /\ ty = "Handshake" /\ FromClient -> Fail("HandshakeFromClient", ty)
       [] OTHER -> SkipPayload

\* A datagram comes for a connection in any state.
Init ==
  /\ len \in 0..MaxLen /\ left = len /\ off = 0
  /\ start \in States /\ conn = start /\ from_client \in BOOLEAN
  /\ at = "loop" /\ peeked = FALSE
  /\ ty = "Initial" /\ supported = FALSE /\ length = 0
  /\ res = "Ok" /\ kinds = <<>>

Next ==
  \/ Loop
  \/ \E octet \in {"zero", "Short", "Initial", "ZeroRTT", "Handshake", "Retry"} : GetFirst(octet)
  \/ \E version \in 0..2 : GetVersion(version)
  \/ \E n \in Values : GetCid(n)
  \/ \E w \in VarintLens, n \in Values : GetToken(w, n) \/ GetLength(w, n)
  \/ Payload
  \/ at = "done" /\ UNCHANGED vars

Spec == Init /\ [][Next]_vars

-----------------------------------------------------------------------------
(* Properties.                                                              *)

\* The cursor never passes the end of what is left and "left -= read" never
\* underflows, whatever the fields of the headers say.
ReadingStaysInside == 0 <= off /\ off <= left /\ left <= len

\* Every round of the loop processes at least a header, seven octets, so that the
\* loop ends: no packet is read twice.
ReadingAdvances == at # "done" => 7 * Len(kinds) <= len - left

\* Module Pemi is right to look only at the kinds of the packets: the octets lead to
\* the same result, and unless they end the process to the same state, as the
\* kinds of the packets the sender put into the datagram do.
KindsDecide ==
  at = "done" =>
    LET v == QuicConnProcess(start, from_client, kinds)
    IN  /\ res = v.res
        /\ res \notin {"BufferTooShort"} \union Panics => conn = v.state
=============================================================================
