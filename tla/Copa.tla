-------------------------------- MODULE Copa --------------------------------
(***************************************************************************)
(* The congestion controller of a connection (pemi/src/cc.rs, Copa), with   *)
(* its two windowed minima of the RTT (module Minmax), and the part of      *)
(* Conn that calls it: on_ack_send after every sample of the client RTT,    *)
(* on_data_send for every packet of the server, reset_rtt_filters when a    *)
(* calibration finds the RTT too small.                                     *)
(*                                                                         *)
(* Times are ticks.  The f64 cwnd is a fixed-point number of 1 / SCALE      *)
(* packets, rounded down.                                                   *)
(***************************************************************************)
EXTENDS Minmax, FiniteSetsExt

CONSTANTS MIN_RTT_WINDOW, MIN_STANDING_WINDOW, V_MAX,
          CWND,       \* the initial and the smallest cwnd, 10 packets
          SCALE,
          Rtts,       \* smoothed RTTs and calibration samples
          MaxTime, MaxCwnd, MaxSent   \* bounds on the time, cwnd and packet_record

ASSUME CopaAssumption ==
  /\ {MIN_RTT_WINDOW, MIN_STANDING_WINDOW, V_MAX, CWND, SCALE, MaxTime, MaxCwnd, MaxSent} \subseteq Nat
  /\ Rtts \subseteq Nat \ {0}

VARIABLES now,
          client_rtt,                     \* of Conn; zero: not measured yet
          rtt_min_filter, rtt_standing_filter,
          cwnd, cwnd_change,
          v, direction, direction_change, cwnd_last_direction_change,
          slow_start,
          packet_record,                  \* when the recent packets were sent
          overspeed,                      \* the last verdict
          panicked,                       \* RTTstanding - RTTmin underflowed
          last_fed, dense,                \* history: rtt_min_filter was fed at least
                                          \* every half window
          recent                          \* history: the smallest sample fed to it 0, 1..
                                          \* ticks ago, for half a window

filters == <<rtt_min_filter, rtt_standing_filter>>
window  == <<cwnd, cwnd_change, v, direction, direction_change, cwnd_last_direction_change,
             slow_start>>
fed     == <<last_fed, dense, recent>>
vars == <<now, client_rtt, filters, window, packet_record, overspeed, panicked, fed>>

RttMax == Max(Rtts) + 1     \* Duration::MAX: larger than any RTT

\* No sample was fed for half a window.
NoneRecent == [d \in 0..(MIN_RTT_WINDOW \div 2) |-> RttMax]

-----------------------------------------------------------------------------

\* cwnd_update in congestion avoidance, by v/delta packets an RTT.
CwndUpdate(up, rtt) ==
  LET change == (v * 2 * SCALE * (now - cwnd_change)) \div rtt
  IN  /\ cwnd' = IF up THEN cwnd + change ELSE Max({cwnd - change, CWND * SCALE})
      /\ cwnd_change' = now
      /\ UNCHANGED slow_start

\* cwnd_update_slow_start: doubles cwnd every RTT until the target is exceeded.
CwndUpdateSlowStart(up, rtt) ==
  IF up THEN /\ cwnd' = cwnd + (cwnd * Min({now - cwnd_change, rtt})) \div rtt
             /\ cwnd_change' = now
             /\ UNCHANGED slow_start
        ELSE /\ cwnd' = cwnd \div 2
             /\ slow_start' = FALSE
             /\ UNCHANGED cwnd_change

\* The velocity doubles with every RTT in which cwnd keeps its direction.
UpdateVelocity(rtt) ==
  IF now - direction_change > rtt
  THEN /\ direction' = IF cwnd' >= cwnd_last_direction_change THEN "Up" ELSE "Down"
       /\ v' = IF direction' = direction THEN Min({2 * v, V_MAX}) ELSE 1
       /\ cwnd_last_direction_change' = cwnd'
       /\ direction_change' = now
  ELSE UNCHANGED <<direction, v, cwnd_last_direction_change, direction_change>>

\* rtt_min_filter is fed with a sample.
FeedMin(rtt) ==
  /\ rtt_min_filter' = RunningMin(rtt_min_filter, MIN_RTT_WINDOW, now, rtt)
  /\ last_fed' = now
  /\ dense' = (dense /\ 2 * (now - last_fed) <= MIN_RTT_WINDOW)
  /\ recent' = [recent EXCEPT ![0] = Min({@, rtt})]

\* update_client_rtt has set the RTT and calls on_ack_send.  No RTT is longer than
\* the time since the connection was created, at 0.
OnAckSend(rtt) ==
  /\ rtt <= now
  /\ client_rtt' = rtt
  /\ FeedMin(rtt)
  /\ rtt_standing_filter' = RunningMin(rtt_standing_filter,
                                       Max({rtt \div 2, MIN_STANDING_WINDOW}), now, rtt)
  /\ LET standing == rtt_standing_filter'[1].value
         dq       == standing - rtt_min_filter'[1].value
         up       == cwnd * dq <= 2 * SCALE * standing   \* cwnd/standing <= 2/dq
     IN  IF dq < 0
         THEN panicked' = TRUE /\ UNCHANGED window
         ELSE /\ IF slow_start THEN CwndUpdateSlowStart(up, rtt) ELSE CwndUpdate(up, rtt)
              /\ cwnd' <= MaxCwnd * SCALE
              /\ UpdateVelocity(rtt)
              /\ UNCHANGED panicked
  /\ UNCHANGED <<now, packet_record, overspeed>>


\* on_data_send: the sender is too fast when the packets of the last RTT are more
\* than cwnd allows for the smallest RTT.
OnDataSend ==
  /\ client_rtt # 0
  /\ Len(packet_record) < MaxSent
  /\ packet_record' = SelectSeq(Append(packet_record, now), LAMBDA t : t >= now - client_rtt)
  /\ FeedMin(client_rtt)
  /\ overspeed' = (Len(packet_record') * SCALE * rtt_min_filter'[1].value > cwnd * client_rtt)
  /\ UNCHANGED <<now, client_rtt, rtt_standing_filter, window, panicked>>


\* rtt_calibration with a sample that is far from the RTT, at least as much time
\* after the creation of the connection: the filters are reset if it is longer.
RttCalibration(sample) ==
  /\ sample <= now /\ sample # client_rtt
  /\ client_rtt' = sample
  /\ IF client_rtt < sample
     THEN /\ rtt_min_filter' = Reset(now, RttMax) /\ rtt_standing_filter' = Reset(now, RttMax)
          /\ recent' = NoneRecent
     ELSE UNCHANGED <<filters, recent>>
  /\ UNCHANGED <<now, window, packet_record, overspeed, panicked, last_fed, dense>>

\* Copa::new
Init ==
  /\ now = 0 /\ client_rtt = 0
  /\ rtt_min_filter = Reset(0, RttMax) /\ rtt_standing_filter = Reset(0, RttMax)
  /\ cwnd = CWND * SCALE /\ cwnd_change = 0
  /\ v = 1 /\ direction = "Up" /\ direction_change = 0
  /\ cwnd_last_direction_change = CWND * SCALE
  /\ slow_start = TRUE
  /\ packet_record = <<>> /\ overspeed = FALSE
  /\ panicked = FALSE
  /\ last_fed = 0 /\ dense = TRUE /\ recent = NoneRecent

Tick ==
  /\ now < MaxTime /\ now' = now + 1
  /\ recent' = [d \in DOMAIN recent |-> IF d = 0 THEN RttMax ELSE recent[d-1]]
  /\ UNCHANGED <<client_rtt, filters, window, packet_record, overspeed, panicked, last_fed, dense>>

Next == /\ ~panicked
        /\ \/ Tick
           \/ OnDataSend
           \/ \E rtt \in Rtts : OnAckSend(rtt)
           \/ \E sample \in Rtts : RttCalibration(sample)

Spec == Init /\ [][Next]_vars

-----------------------------------------------------------------------------


\* "an invariant that the measurement time of the n'th best >= n-1'th best" (the
\* comment at the top of minmax.rs), and the values are in order as well.
ThreeBestAreOrdered ==
  \A f \in {rtt_min_filter, rtt_standing_filter}, i, j \in 1..3 :
    i <= j => f[i].time <= f[j].time /\ f[i].value <= f[j].value

\* After a sample the minimum is of one that is still in the window, although only
\* three samples are kept and the best of them may leave it at any time.
MinIsInWindow == last_fed - rtt_min_filter[1].time <= MIN_RTT_WINDOW



\* "Minimum RTT seen in 10 seconds" (the comment on rtt_min_filter): the minimum of
\* the long window is never above the minimum of the short one.
StandingNotBelowMin == ~panicked
=============================================================================
