------------------------------- MODULE Flowlet -------------------------------
(***************************************************************************)
(* A flowlet is a burst of packets that PEMI forwarded to the client,       *)
(* together with the client packets ("replies") taken to answer it.  This  *)
(* module holds the record of a flowlet, the operations on it, and the      *)
(* algorithms that decide, once the flowlet is over, which of its packets   *)
(* were answered and which were lost (pemi/src/queue.rs, Flowlet).          *)
(*                                                                         *)
(* Instants and durations are natural numbers of clock ticks.  The fields   *)
(* close_count and reply_pkt_nums of the code are only ever logged, or are  *)
(* read for emptiness where reply_pkt_times gives the same answer, and are  *)
(* left out.                                                                *)
(***************************************************************************)
EXTENDS Integers, Sequences, FiniteSets

CONSTANT CLOSE_THRESHOLD      \* packets closer than this may share a reply

ASSUME CloseThresholdAssumption == CLOSE_THRESHOLD \in Nat

\* A packet of the flowlet for which no reply was found (usize::MAX).
Unmatched == 0

-----------------------------------------------------------------------------
(* Durations.                                                               *)

\* Duration::mul_f64 by the ratio r[1]/r[2]: the nearest tick, ties to even.
MulF64(d, r) ==
  LET q   == (d * r[1]) \div r[2]
      rem == (d * r[1]) % r[2]
  IN  IF 2 * rem > r[2] \/ (2 * rem = r[2] /\ q % 2 = 1) THEN q + 1 ELSE q

\* Instant::duration_since and the subtraction of Instants saturate at zero.
Since(later, earlier) == IF later >= earlier THEN later - earlier ELSE 0

Abs(x) == IF x >= 0 THEN x ELSE -x

-----------------------------------------------------------------------------
(* The record.                                                              *)

NewFlowlet(pkt_num, begin_time) ==
  [pkt_nums        |-> <<pkt_num>>,
   reply_pkt_times |-> <<>>,
   begin_time      |-> begin_time,
   end_time        |-> begin_time,
   complete        |-> FALSE]

\* Mutation: the end of the flowlet does not move.
FlowletAddKeepingEnd(fl, pkt_num, forward_ts) ==
  [fl EXCEPT !.pkt_nums = Append(@, pkt_num)]

FlowletAdd(fl, pkt_num, forward_ts) ==
  [fl EXCEPT !.pkt_nums = Append(@, pkt_num), !.end_time = forward_ts]

AddReply(fl, come_time) ==
  [fl EXCEPT !.reply_pkt_times = Append(@, come_time)]

SetAsComplete(fl) == [fl EXCEPT !.complete = TRUE]

ExactlyReplyed(fl) == Len(fl.reply_pkt_times) = Len(fl.pkt_nums)

\* Only some packets were replied: complete_one_flowlet's last branch.
PartlyReplyed(fl) ==
  /\ fl.reply_pkt_times # <<>>
  /\ Len(fl.reply_pkt_times) < Len(fl.pkt_nums)

-----------------------------------------------------------------------------
(* Matching sent packets with replies.  `sent' is the sequence of the times *)
(* at which the packets were forwarded, `reply' that of the replies' times. *)

\* The error of taking reply j for the answer to packet i.
MatchCost(sent, reply, used_rtt, i, j) == Abs((reply[j] - sent[i]) - used_rtt)

\* dp[i][j] of match_sent_reply_dp: the least error of matching the first j
\* replies within the first i packets.  It is used for j <= i only: the other
\* entries are the code's infinity, which is never the smaller one.
MatchError(sent, reply, used_rtt) ==
  LET dp[i \in 0..Len(sent), j \in 0..Len(reply)] ==
        IF j = 0 THEN 0
        ELSE LET matched == dp[i-1, j-1] + MatchCost(sent, reply, used_rtt, i, j)
                 skipped == dp[i-1, j]
             IN  IF j <= i - 1 /\ skipped < matched THEN skipped ELSE matched
  IN  dp

\* Mutation: a packet is never skipped.
TakesMatchAlways(dp, sent, reply, used_rtt, i, j) == j > 0

\* prev[i][j] of match_sent_reply_dp points to a match, not to a skip.
TakesMatch(dp, sent, reply, used_rtt, i, j) ==
  /\ j > 0
  /\ ~ /\ j <= i - 1
       /\ dp[i-1, j] < dp[i-1, j-1] + MatchCost(sent, reply, used_rtt, i, j)

\* Mutation: the walk stays in its column after a match.
MatchSentReplyDpReusing(sent, reply, used_rtt) ==
  LET dp == MatchError(sent, reply, used_rtt)
  IN  [i \in 1..Len(sent) |->
         IF TakesMatch(dp, sent, reply, used_rtt, i, Len(reply)) THEN Len(reply) ELSE Unmatched]

\* The mapping found by walking prev back from (n, m): for each sent packet the
\* index of its reply, or Unmatched.
MatchSentReplyDp(sent, reply, used_rtt) ==
  LET n  == Len(sent)
      dp == MatchError(sent, reply, used_rtt)
      \* the column the walk is in when it reaches row i
      col[i \in 1..n] ==
        IF i = n THEN Len(reply)
        ELSE LET c == col[i+1] IN
             IF TakesMatch(dp, sent, reply, used_rtt, i+1, c) THEN c - 1 ELSE c
  IN  [i \in 1..n |-> LET c == col[i] IN
                      IF TakesMatch(dp, sent, reply, used_rtt, i, c) THEN c ELSE Unmatched]

\* The RTT the matching assumes.  The RTT of the connection when the replies
\* span less than DURATION_RATIO_THRESHOLD of the flowlet, else the time from
\* the end of the flowlet to its last reply.
DURATION_RATIO_THRESHOLD == <<4, 5>>

UsedRtt(fl, reply_rtt) ==
  LET replies        == fl.reply_pkt_times
      sent_duration  == Since(fl.end_time, fl.begin_time)
      reply_duration == Since(replies[Len(replies)], replies[1])
  IN  IF reply_duration < MulF64(sent_duration, DURATION_RATIO_THRESHOLD)
      THEN reply_rtt
      ELSE Since(replies[Len(replies)], fl.end_time)

MatchSentPartReply(fl, sent, reply_rtt) ==
  LET base == sent[1] IN
  MatchSentReplyDp([i \in DOMAIN sent |-> Since(sent[i], base)],
                   [j \in DOMAIN fl.reply_pkt_times |-> Since(fl.reply_pkt_times[j], base)],
                   UsedRtt(fl, reply_rtt))

-----------------------------------------------------------------------------
(* Inferring the losses of a partly replied flowlet.                        *)

\* Packets i and i+1 were forwarded back to back.
Close(sent, i) == sent[i+1] - sent[i] < CLOSE_THRESHOLD

\* Mutation: the close packets before are forgotten.
SpreadReplyForward(sent, map, inferred, i) ==
  LET after == {j \in (i+1)..Len(sent) :
                  \A k \in (i+1)..j : k \notin inferred /\ Close(sent, k-1)}
  IN  IF map[i] = Unmatched THEN inferred ELSE inferred \union {i} \union after


\* One iteration of extract_part_loss's first loop: packet i, if it has a reply,
\* passes it to the close packets before and after it, up to the first one that
\* already has one (`inferred' is the set of those that have).
SpreadReply(sent, map, inferred, i) ==
  LET before == {j \in 1..(i-1) :
                   \A k \in j..(i-1) : k \notin inferred /\ Close(sent, k)}
      after  == {j \in (i+1)..Len(sent) :
                   \A k \in (i+1)..j : k \notin inferred /\ Close(sent, k-1)}
  IN  IF map[i] = Unmatched THEN inferred ELSE inferred \union {i} \union before \union after

InferredReply(sent, map) ==
  LET upto[i \in 0..Len(sent)] ==
        IF i = 0 THEN {} ELSE SpreadReply(sent, map, upto[i-1], i)
  IN  upto[Len(sent)]

\* The unreplied run around packet i.
UnrepliedRun(n, inferred, i) ==
  {j \in 1..n : \A k \in 1..n : (i <= k /\ k <= j) \/ (j <= k /\ k <= i) => k \notin inferred}

\* Mutation: runs shorter by one.
ElicitingReplyOffByOne(n, inferred, eliciting_threshold) ==
  {i \in (1..n) \ inferred :
     LET run == UnrepliedRun(n, inferred, i)
     IN  n \notin run /\ Cardinality(run) < eliciting_threshold - 1}

\* Packets counted as replied because the client answers only every other one:
\* the unreplied runs shorter than the threshold, the one at the end excepted.
ElicitingReply(n, inferred, eliciting_threshold) ==
  {i \in (1..n) \ inferred :
     LET run == UnrepliedRun(n, inferred, i)
     IN  n \notin run /\ Cardinality(run) < eliciting_threshold}

ExtractPartLoss(fl, sent, map, eliciting_threshold) ==
  LET n        == Len(sent)
      inferred == InferredReply(sent, map)
      replied  == IF eliciting_threshold >= 2
                  THEN inferred \union ElicitingReply(n, inferred, eliciting_threshold)
                  ELSE inferred
  IN  {fl.pkt_nums[i] : i \in (1..n) \ replied}

\* The samples of the matched packets, in the order they were sent.
ExtractRttSamples(fl, sent, map) ==
  LET matched == SelectSeq([i \in DOMAIN sent |-> i], LAMBDA i : map[i] # Unmatched)
  IN  [k \in DOMAIN matched |-> Since(fl.reply_pkt_times[map[matched[k]]], sent[matched[k]])]

-----------------------------------------------------------------------------
(* The verdict on a complete flowlet (complete_one_flowlet).                *)

LossedPkts(fl, sent, reply_rtt, eliciting_threshold) ==
  IF fl.reply_pkt_times = <<>> THEN {fl.pkt_nums[i] : i \in DOMAIN fl.pkt_nums}
  ELSE IF PartlyReplyed(fl)
       THEN ExtractPartLoss(fl, sent, MatchSentPartReply(fl, sent, reply_rtt), eliciting_threshold)
       ELSE {}

RttSamples(fl, sent, reply_rtt) ==
  IF ExactlyReplyed(fl)
  THEN [i \in DOMAIN sent |-> Since(fl.reply_pkt_times[i], sent[i])]
  ELSE IF PartlyReplyed(fl)
       THEN ExtractRttSamples(fl, sent, MatchSentPartReply(fl, sent, reply_rtt))
       ELSE <<>>
=============================================================================
