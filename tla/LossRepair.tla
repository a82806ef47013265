----------------------------- MODULE LossRepair -----------------------------
(***************************************************************************)
(* What a connection promises to the server: the packets to the client are  *)
(* numbered as they are sent.  Those taken for lost wait for repair, and a  *)
(* packet of the server is repaired by at most one copy; a copy never is.   *)
(***************************************************************************)
EXTENDS Integers

VARIABLES sent,      \* how many packets went to the client, the copies included
          waiting,   \* packets taken for lost and not repaired yet
          copies     \* pairs of a packet and its copy

vars == <<sent, waiting, copies>>

Init == sent = 0 /\ waiting = {} /\ copies = {}

Unrepaired == {n \in 1..sent : \A c \in copies : c[1] # n /\ c[2] # n}

\* A packet of the server is forwarded.
Pass == sent' = sent + 1 /\ UNCHANGED <<waiting, copies>>

\* Packets are taken for lost.
Detect ==
  /\ waiting \subseteq waiting' /\ waiting' \subseteq Unrepaired
  /\ UNCHANGED <<sent, copies>>

Repair ==
  \E n \in waiting :
    /\ sent' = sent + 1
    /\ waiting' = waiting \ {n}
    /\ copies' = copies \union {<<n, sent'>>}

\* Packets are given up: no copy of them is sent.
GiveUp == waiting' \subseteq waiting /\ UNCHANGED <<sent, copies>>

Next == Pass \/ Detect \/ Repair \/ GiveUp

Spec == Init /\ [][Next]_vars
=============================================================================
