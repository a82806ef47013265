------------------------------- MODULE MCPemi -------------------------------
(* Pemi for TLC: two pairs of addresses, a few shapes of datagrams.         *)
EXTENDS Pemi

CONSTANTS p1, p2

MCPairs == {p1, p2}
HalfLimit == <<1, 2>>

\* Datagrams of an ordinary connection, and a tail that does not parse, a datagram that
\* is cut off, a connection ID that is too long, an empty datagram.
MCClientDatagrams == {<<"Initial">>, <<"Handshake">>, <<"Short">>,
                      <<"Initial", "Short">>, <<"Cut">>, <<"LongCid">>, <<>>}
MCServerDatagrams == {<<"Initial", "Handshake">>, <<"Short">>}
=============================================================================
