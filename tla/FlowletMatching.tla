--------------------------- MODULE FlowletMatching ---------------------------
(***************************************************************************)
(* The life of one flowlet: packets join it and replies are credited to it  *)
(* in any order and at any time.  In every state the verdict the code would *)
(* reach if the flowlet were completed now is compared with reference       *)
(* definitions: the best order-preserving matching, and the packets that    *)
(* back-to-back forwarding ties to a matched one.                           *)
(***************************************************************************)
EXTENDS Flowlet

CONSTANTS MaxTime,       \* bound on the clock
          MaxPkts,       \* bound on the packets of the flowlet
          MaxReplies,    \* bound on its replies
          Rtts           \* the RTTs the matching is tried with

ASSUME FlowletMatchingAssumption ==
  MaxTime \in Nat /\ MaxPkts \in Nat \ {0} /\ MaxReplies \in Nat /\ Rtts \subseteq Nat

VARIABLES now,           \* the clock
          fl,            \* the flowlet
          sent           \* the times its packets were forwarded

vars == <<now, fl, sent>>

Init == now = 0 /\ fl = NewFlowlet(1, 0) /\ sent = <<0>>

Tick == now < MaxTime /\ now' = now + 1 /\ UNCHANGED <<fl, sent>>

Forward ==
  /\ Len(sent) < MaxPkts
  /\ fl' = FlowletAdd(fl, Len(sent) + 1, now)
  /\ sent' = Append(sent, now)
  /\ UNCHANGED now

Reply ==
  /\ Len(fl.reply_pkt_times) < MaxReplies
  /\ fl' = AddReply(fl, now)
  /\ UNCHANGED <<now, sent>>

Next == Tick \/ Forward \/ Reply

Spec == Init /\ [][Next]_vars

-----------------------------------------------------------------------------
(* Reference definitions.                                                   *)

\* Every way to give each of m replies a packet of its own, keeping the order.
OrderedMatchings(n, m) ==
  {f \in [1..m -> 1..n] : \A j, k \in 1..m : j < k => f[j] < f[k]}

RECURSIVE SumUpTo(_, _)
SumUpTo(f, k) == IF k = 0 THEN 0 ELSE f[k] + SumUpTo(f, k-1)

MatchingError(f, reply, used_rtt) ==
  SumUpTo([j \in 1..Len(reply) |-> MatchCost(sent, reply, used_rtt, f[j], j)], Len(reply))

\* The packet each reply is matched with under map.
PacketOf(map, m) == [j \in 1..m |-> CHOOSE i \in DOMAIN map : map[i] = j]

\* Packets i and k lie in one burst of back-to-back packets.
SameBurst(i, k) == \A j \in 1..(Len(sent)-1) :
                     (i <= j /\ j < k) \/ (k <= j /\ j < i) => Close(sent, j)

-----------------------------------------------------------------------------
(* Properties.                                                              *)

\* The mapping uses every reply for exactly one packet and keeps the order of
\* both (match_sent_reply_dp: "preserving temporal order (monotonic matching)").
MatchingKeepsOrder ==
  PartlyReplyed(fl) => \A rtt \in Rtts :
    LET map == MatchSentPartReply(fl, sent, rtt)
        m   == Len(fl.reply_pkt_times)
    IN  /\ \A j \in 1..m : \E i \in DOMAIN map : map[i] = j
        /\ \A i, k \in DOMAIN map :
             i < k /\ map[i] # Unmatched /\ map[k] # Unmatched => map[i] < map[k]

\* No order-preserving matching has a smaller total error than the one the
\* dynamic program returns (match_sent_reply_dp: "minimizes sum |(reply[j] -
\* sent[i]) - rtt|").
MatchingIsOptimal ==
  PartlyReplyed(fl) => \A rtt \in Rtts :
    LET reply == fl.reply_pkt_times
        used  == UsedRtt(fl, rtt)
        found == PacketOf(MatchSentPartReply(fl, sent, rtt), Len(reply))
    IN  \A f \in OrderedMatchings(Len(sent), Len(reply)) :
          MatchingError(found, reply, used) <= MatchingError(f, reply, used)

\* The loops of extract_part_loss, which stop at the first packet that already
\* has a reply, still reach every packet of a burst in which some packet is
\* matched, and no other: a burst is lost or kept as a whole.
BurstsShareTheirFate ==
  PartlyReplyed(fl) => \A rtt \in Rtts :
    LET map == MatchSentPartReply(fl, sent, rtt)
    IN  InferredReply(sent, map) =
          {i \in DOMAIN sent : \E k \in DOMAIN sent : map[k] # Unmatched /\ SameBurst(i, k)}


\* With an eliciting threshold of 2 a packet is reported lost only if it has an
\* unreplied neighbour, or nothing after it was replied: a client that answers
\* every other packet never triggers a retransmission inside a flowlet.
AlternateRepliesAreNotLoss ==
  PartlyReplyed(fl) => \A rtt \in Rtts :
    LET map  == MatchSentPartReply(fl, sent, rtt)
        lost == LossedPkts(fl, sent, rtt, 2)
    IN  \A i \in DOMAIN sent : i \in lost =>
          i - 1 \in lost \/ i + 1 \in lost \/ \A k \in i..Len(sent) : map[k] = Unmatched
=============================================================================
