----------------------------- MODULE QuicTracking -----------------------------
(***************************************************************************)
(* What the QUIC packets of a datagram do to the state of their connection  *)
(* (pemi/src/conn.rs, first_quic_packet and process_quic_packet), when only *)
(* their kinds are looked at.  Module Pemi tracks its connections in these  *)
(* terms; module QuicDatagram reads the octets and comes to the same        *)
(* result.                                                                  *)
(*                                                                         *)
(* A kind is the type of a packet, or "Cut" for one that ends before its    *)
(* header or its length says, or "LongCid" for one whose connection ID is   *)
(* longer than its version allows.                                          *)
(***************************************************************************)
EXTENDS Integers, Sequences

LongTypes == {"Initial", "ZeroRTT", "Handshake", "Retry", "VersionNegotiation"}
Kinds == LongTypes \union {"Short", "Cut", "LongCid"}
States == {"None", "Initialed", "Handshaked"}   \* "None": not a connection yet

\* The state of the connection, and "Ok" or why the datagram is not read on: an
\* error, or the panic that ends the process.
Verdict(state, res) == [state |-> state, res |-> res]

Panics == {"CidTooLong", "HandshakeFromClient"}

\* first_quic_packet: only an Initial packet creates a connection.
FirstQuicPacket(kind) ==
  CASE kind = "Initial" -> Verdict("Initialed", "Ok")
    [] kind = "Short"   -> Verdict("None", "InvalidState")
    [] kind = "Cut"     -> Verdict("None", "BufferTooShort")
    [] kind = "LongCid" -> Verdict("None", "CidTooLong")
    [] OTHER            -> Verdict("None", "MayNotQUIC")


\* process_quic_packet: before the handshake the headers are read, after it the
\* rest of the datagram is taken as it is.
ProcessQuicPacket(state, from_client, kind) ==
  CASE state = "Handshaked" -> Verdict(state, "Ok")
    [] state = "Initialed" /\ kind = "Short"   -> Verdict(state, "InvalidState")
    [] state = "Initialed" /\ kind = "Cut"     -> Verdict(state, "BufferTooShort")
    [] state = "Initialed" /\ kind = "LongCid" -> Verdict(state, "CidTooLong")
    [] state = "Initialed" /\ kind = "Handshake" ->
         IF from_client THEN Verdict(state, "HandshakeFromClient") ELSE Verdict("Handshaked", "Ok")
    [] OTHER -> Verdict(state, "Ok")

\* quic_conn_process: the packets are read one after the other until one fails.
\* The end that sends the datagram becomes the client of a new connection.
QuicConnProcess(start, from_client, datagram) ==
  LET upto[i \in 0..Len(datagram)] ==
        IF i = 0 THEN Verdict(start, "Ok")
        ELSE LET v == upto[i-1] IN
             IF v.res # "Ok" THEN v
             ELSE IF v.state = "None" THEN FirstQuicPacket(datagram[i])
             ELSE ProcessQuicPacket(v.state, start = "None" \/ from_client, datagram[i])
  IN  upto[Len(datagram)]
=============================================================================
