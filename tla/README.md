# A TLA+ model of PEMI

PEMI (`src/pemi`) is a transparent UDP proxy that sits between QUIC clients and servers. It forwards every
datagram, cannot decrypt any of them, and still repairs losses on the client side: it numbers the packets it sends
to a client, groups them into *flowlets* by their arrival times, takes the packets the client sends back as
*replies* to flowlets, infers which packets were lost, and retransmits those. A Copa-like congestion controller
tells it when the server is sending too fast; then it stops retransmitting and holds the client's packets back for
a while. ICMP echo requests calibrate its estimate of the RTT to the client. The repository also has the media
server and client (`src/apps/rtc`) whose traffic PEMI is measured with.

The proxy runs in one thread: a tokio loop that waits for a timer, a datagram or an ICMP reply and runs one handler
to its end. What makes it hard to test is not parallelism but the order in which timers, packets of two ends, RTT
changes and removals meet, and the many `unwrap`, `expect` and `assert!` that rely on this order. The media server is a
loop of its own, of which each client uses a part.

## 1. The parts of the system

| Part | Source (under `src/`) | State | Operations | Module |
|---|---|---|---|---|
| Flowlet | `pemi/src/queue.rs` | numbers and times of its packets, replies | add packet, add reply, match packets with replies, infer losses | `Flowlet`, `FlowletMatching` |
| Packet queue | `pemi/src/queue.rs` | packets, flowlets, detected losses, smoothed interval, eliciting threshold | `add`, `check_reply`, `on_timeout`, `reset_due_to_rtt_deviation`, taking the losses | `PacketQueue` |
| Connection | `pemi/src/conn.rs`, `retrans.rs` | two RTTs, dominant direction, overspeed, delayed acknowledgements, task | `process_udp_packet`, `check_delayed_acks`, `rtt_calibration`, `to_client_retrans_task`, timer | `Conn`; `AckForwarder` and `LossRepair` are what it promises |
| Proxy core | `pemi/src/lib.rs`, `conn.rs` | table of connections, heap of access times, tasks, counters | `process_packet`, `quic_conn_process`, `process_timeout`, `remove_idle_conns`, `process_retrans_task` | `Pemi`, `QuicTracking` |
| Event loop | `pemi/src/bin/main.rs` | which of the above comes next | one iteration | `pc` of `Pemi` and `Conn` |
| Congestion controller | `pemi/src/cc.rs` | cwnd, velocity, direction, slow start, recent packets | `on_ack_send`, `on_data_send`, `reset_rtt_filters` | `Copa` |
| Windowed filter | `pemi/src/minmax.rs` | three best samples | `reset`, `running_min` | `Minmax`, driven by `Copa` |
| ICMP RTT detector | `pemi/src/rtt_det.rs` | sequence number and outstanding requests of an address | `send_request`, `recv_response` | `RttDetector` |
| QUIC header parser, octets | `pemi/src/quic_parse.rs`, `pemi/deps/octets` | cursor, fields of the header | reading of a field, skipping of payload and padding | `QuicDatagram`, `QuicTracking` |
| Packet I/O | `pemi/src/pemi_io.rs`, `common.rs` | sockets | send, receive | not modelled |
| RTC application on quiche | `apps/rtc` | map of clients, frames counted and partly sent; the client's frames | retry, accept, request, pacing, writable streams, close, timers, collection | `MediaClient`, `Rtc`; `FrameSchedule` is what it promises |
| Other applications | `apps/quinn-apps`, `apps/quicgo-apps`, `apps/http` | | workload | not modelled |
| Experiment scripts | `mininet/`, `tools/` | | emulation, plots | not modelled |

How they interact. `Conn` holds a `PacketQueue` for each direction, a `Copa` and the delayed packets; the queue's
calls are made with the RTT of that point of the handler. `Pemi` holds the connections, a heap of access times that
is *not* updated when packets come (an entry is re-examined when it falls due), and passes the losses a connection
found as a task to the end of the same loop iteration, where they are sent and queued like other packets.
`RttDetector` produces samples that `Pemi` hands to every connection. `QuicDatagram` reads the octets of a datagram and
shows that `Pemi` may look only at the kinds of the packets in it (`QuicTracking`).

What is correct behaviour of each part, and where it could break, is listed as hazards in `PROJECT.json`, each with
its source line and the properties that cover it. In short:

- *queue*: packets are found by subtracting the front's number, so packets and flowlets must agree after any order
  of operations; the front timer must be the first; no loss is declared before a reply was due; the matching is the
  cheapest one.
- *connection*: the `unwrap`s on the oldest packet; delaying must lose, duplicate or starve no packet of the client;
  a packet is retransmitted once; zero, "not measured", never comes back.
- *proxy*: the heap and the table agree while both change; active connections stay, idle ones go; a task's
  connection exists when the task is processed; the rate limit holds inside a task; the handshake assertions.
- *congestion control*: the window keeps its floor; the unsigned subtraction of two differently windowed minima.
- *RTT detector*: replies lost, reordered, duplicated, numbers that wrap around.
- *header parser*: lengths taken from the packet; the cursor must not pass the end, and the loop must advance.
- *RTC server*: frames that are written in parts while others wait; timers of all clients run together; clients that
  die, closes that are lost, connections that never had a request.

## 2. Modules and how they correspond to the code

The definition-by-definition correspondence is the `map` of `PROJECT.json`. Operators keep the names of the Rust
functions in CamelCase, variables the names of the fields. Definitions commented *Mutation* are deliberate faults of
the definition that follows them; they are used in no specification and show that the properties can fail.

**Flowlet, FlowletMatching.** `Flowlet` has the record and the pure algorithms: the dynamic program of
`match_sent_reply_dp` (a recursive function over prefixes), the spreading of a reply over a burst, the detection
of alternate replies, the losses and the RTT samples. `FlowletMatching` builds every flowlet of bounded size and
compares the algorithms with reference definitions: the dynamic program with the minimum over *all* order-keeping
matchings.

**PacketQueue.** State: the fields of `PacketQueue` plus `reply_rtt`, the RTT the caller passes, which may change
between any two calls. One action per method; `panicked` is set where `add()` panics. `detected_loss` is a set, as
a number is only ever put in once (`LossesLeftTheQueue` and `RetransmittedAtMostOnce` are about that).

**Conn.** Uses the queue as `Q(reply_rtt) == INSTANCE PacketQueue`, so a handler can call it with the RTT it has at
that point: `ClientPacket` first measures the RTT, then calls `Q(rtt)!CheckReply`, then smooths the RTT with the
samples. An iteration of the loop is handler, task, retransmissions; `pc` keeps other events out in between. The
congestion controller's verdict is an input (any verdict at any time is a superset of what Copa gives). Sequence
numbers stand for payloads; `forwarded` and `resent` are histories.

**AckForwarder, LossRepair.** The two promises of a connection, as specifications of their own. To the client: its
packets reach the server once each; some are held back, and then all that are held leave together, in order or with
the last one first. To the server: of the packets to the client those taken for lost wait for a copy, each packet gets
at most one copy, and a copy gets none. `Conn` maps its queue of delayed packets, its detected losses and its
histories to their variables with `INSTANCE ... WITH` (`ForwardsAcks`, `RepairsLosses`). Every
handler of the connection, as a whole, is one step of each of the two or a stutter.

**Pemi.** The connection is abstracted to what this level reads: state, client end, last access, the timer it set
(any) and the losses it found (any number up to a bound). A datagram is the sequence of the kinds of its coalesced
packets; `QuicConnProcess` of `QuicTracking` reads them one after the other with all the early returns. `pc` also
names the ways the process can end: an error returned by `main`, the failed assertions, the failed `expect`s. `hs` is the
environment: what has been exchanged on the wire by the ends of a pair of addresses. `odd` collects the pairs whose
traffic left the ordinary course of a connection seen from its first packet: an empty datagram, one that cannot be
read, a handshake packet of a connection PEMI does not know. Three properties are about the other pairs.

**QuicDatagram.** `quic_conn_process` and `Header::from_bytes` field by field, over the cursor of the octets crate. Only
the length of the datagram is fixed at the start; what a field says is chosen when it is read. Every `get_*` is a
step that moves the cursor or fails; `kinds` records which packets the octets turned out to be, and `KindsDecide`
compares the outcome with `QuicConnProcess` of these kinds.

**Minmax, Copa.** `Minmax` has the filter as operators; `Copa` uses two of them and adds the calls that `Conn` makes,
with arbitrary samples at arbitrary times. The `f64` window is a fixed-point number of 1/SCALE packets, rounded down.
`running_max` is called by nothing but its unit tests and left out.

**RttDetector.** Requests by address and sequence number modulo `SEQ_MOD`. The network loses, delays, reorders
and duplicates replies. `expect("No response for seq")` is the outcome `panicked`.

**MediaClient, Rtc, FrameSchedule.** `MediaClient` has the server's record of a client and its operations as operators:
`send_next_frame`, `on_timeout`, `handle_writable` in whatever order the streams are listed. `Rtc` composes the server's
map with the client processes and the network. QUIC (quiche) is external: it carries the request and the frames
reliably while both ends live, and takes as many bytes as it has room for; acknowledgements make room. Initial, Retry
and close packets are datagrams that may be repeated or lost. A client may die. `FrameSchedule` is the promise to one
client; every session of `Rtc` is shown to keep it (`KeepsSchedule`), from accepting the connection to its collection.

**MC modules** give constants that a `.cfg` cannot write (ratios, sets of sequences) and the symmetry set.

## 3. Runs

| Run | Shows | Bounds |
|---|---|---|
| `flowlet_matching` | The matching keeps the order of packets and replies and is optimal; a burst is lost or kept as a whole; a packet that gave an RTT sample is not lost; alternate replies are no loss | all flowlets with up to 4 packets, 3 replies, times 0..4 |
| `packet_queue` | Under any order of packets, replies, timers, resets, RTT changes: flowlets partition the packets, only the front has replies, time order, losses leave the queue, no loss before its reply is due | 4 packets, 3 replies, 6 ticks, RTT 1 or 3, queue limit 2, flowlet limit 2, so both limits are crossed |
| `conn` | One connection: the RTT `unwrap`, RTT never zero again, packets held only while overspeed; it implements `AckForwarder` and `LossRepair` | 3 server packets, 5 client packets, 10 ticks, thresholds 1 and 2 |
| `conn_live` | Retransmissions do not keep the queue busy for ever | 2 server packets, calibrations |
| `conn_acks` | *violated*: a held-back packet need not be sent | 2 server, 3 client packets |
| `pemi` | Heap and table agree, active connections stay, idle ones are forgotten within two timeouts and removed in the end, rate limit; in the ordinary course the handshake assertion and the `expect`s hold and tasks have connections | 2 pairs, idle timeout 2, 8 ticks, 4 datagrams up to tick 4, 2 losses an event, 9 shapes of datagrams |
| `quic_datagram` | The cursor stays inside the datagram, every round takes a header, the kinds of the packets decide the outcome | up to 27 octets (three packets), connection IDs up to 2, lengths 0 to 30, all sizes of integers |
| `copa` | Window floor, no overspeed below the floor, no underflow with frequent samples; the filter's samples are ordered, its estimate is in the window and no worse than any sample of the last half window | window 4, RTTs 1, 2, 4, 7 ticks, cwnd up to 4 times the floor |
| `copa_sparse` | *violated*: the standing RTT may be below the minimum | RTTs 1..4, 8 ticks |
| `rtt_detector` | A reply finds its own request, a copy finds none | 2 addresses, numbers modulo 3, 6 requests |
| `rtc` | No byte of a frame is lost or repeated, each session keeps `FrameSchedule`, requests are served, sessions end | 2 clients, requests of 0, 2, 3 and of 1 frames, frames of 2 bytes, room for 1 byte, 3 streams |
| `rtc_unasked` | *violated*: a connection without a request is finished like a served one | as `rtc`, clients die before their request, Initial packets come late |

Why the bounds suffice for the interesting cases. The limits (queue, flowlet, thresholds, rate limit, sequence
numbers, windows) are scaled down below the number of events, so each is reached, passed and, where the code
resets it, reached again. Idle timeouts of 2 ticks within 6 to 8 let a connection be removed, created again and removed
again, and let a heap entry be stale when it falls due. In `rtc` three frames compete for one byte of room, the third is
the one beyond the limit on streams, and a request of zero frames leaves both ends waiting. Every action, and every disjunct of a next-state relation,
is taken in a passing run.

Each property comes with a mutant, a plausible slip in one mapped definition (a dropped guard, a swapped order,
an entry not put back, a truncated fraction), under which TLC reports it violated.

Deadlock is checked in `packet_queue`, where the RTT may always change, and in `quic_datagram` and `rtc`, where the only
states that stay as they are are named (the datagram is read, every client has come and gone). In the other runs CHECK_DEADLOCK is off: their models have a
bounded clock and bounded numbers of events and stop there, and a process that panicked does not go on.

**Fairness.** Nothing is assumed about packets, replies or ICMP: either side may fall silent for ever. In `Pemi`
time passes only when no timer is overdue, because the loop computes its time-out before it waits, so weak
fairness of the three together (the clock, the timer handler, the tasks: one of them goes on) is what a running
process gives. In `Conn` timers and packets
compete for the loop as branches of one `select!`; an iteration ends (weak fairness) and time passes however busy
the loop is: `Tick` is disabled inside an iteration and enabled again after it, hence strong fairness. Beyond
`MaxTime` time passes as long as a timer waits for it, so no timer is cut off by the bound.

In `Rtc` time passes, the server receives and each client acts in the end (QUIC sends again what is lost, for every
connection by itself), `poll` finds no event again and again, so that the timers run, and the QUIC timer that ends a
dead or draining connection fires in the end. `poll` without events is an assumption about the load: a server that
is never idle sends no frame, since `on_timeout` is only reached when there are no events. Deaths and lost closes are
not fair.

## 4. What the violated properties show

Each run checks one sentence of the repository's comments; details and quotations are under `findings`.

- `conn_acks`: `check_delayed_acks` runs only when another packet of the connection comes, and `timeout()` does not
  cover the delayed packets. The last packets of a client stay in the proxy if both sides fall silent.
- `copa_sparse`: the ten-second minimum keeps three samples. When samples pause for more than half its window, it can
  lose a small recent sample that the short filter still has; `rtt_standing - rtt_min` then underflows, and `Duration`
  subtraction panics. The idle timeout is 120 s, so such pauses are within a connection's life.
- `rtc_unasked`: every connection that is collected is finished as if its response were written. One that never had a
  request, because its client died first or because a late copy of its Initial packet with a token opened it, has no
  `start_time`, and `print_stats` unwraps it: the server ends with all its clients. The run `rtc` therefore has clients
  die only after their request, and no late Initial packets.

More disagreements are outcomes of the models that the passing runs accept as an end of the process or keep apart with
`odd`:

- A datagram too short for its headers makes the parser return `BufferTooShort`. The comments say that a datagram that
  is not QUIC is forwarded; this error is instead returned out of the loop and ends `main` (`pc = "Exited"`).
- A server's Initial packet that is the first packet PEMI sees makes the server the client, and its Handshake
  packet fails the assertion of `process_quic_packet`. A connection ID that is too long fails one of the parser.
- A datagram whose Initial packet is followed by bytes read as a short header is forwarded but not queued, and the
  server's answer finds an empty queue.
- For an empty datagram `quic_conn_process` returns Ok without looking at anything. It does not count as an access, so
  that an idle connection is removed between making and processing its task, and without a connection the `expect`
  of `process_packet` fails.
- The RTC server puts frame n on the stream with index n, and the client allows 9000 streams from index 0. The last frame of a
  request of 9000 frames fails, is counted as sent, and the client waits until the idle timeout. `RequestsAreServed`
  is therefore about requests below the limit; `SessionsEnd` covers the others.
- In `RttDetector` a duplicated reply finds no request and ends the process.
- The comment on `FLOWLET_MAX_PKTS` says that a longer flowlet is abandoned. The code looks at the length only when
  a reply comes while the flowlet is the only one, and then completes it at once, inferring losses as usual. This is
  the exception in `NoLossBeforeReplyIsDue`.

## 5. What is proved

TLAPS checks the theorems for all values of the constants: any number of packets, any times, RTTs and factors.

| Theorem | Statement |
|---|---|
| `TypeCorrect` | `Spec => []TypeOK` |
| `PartitionCorrect` | `Spec => []FlowletsPartitionPackets` |
| `FrontCorrect` | `Spec => []OnlyFrontIsReplied` |
| `TimeOrderCorrect` | `Spec => []FlowletsAreOrderedInTime` |
| `LossesCorrect` | `Spec => []LossesLeftTheQueue` |
| `ResetCorrect` | `Spec => ResetDropsEveryRepliedFlowlet` |
| `NoEarlyLoss` | `Spec => NoLossBeforeReplyIsDue` |
| `ForwardedOnceAlmostInOrder` | of `AckForwarder`: `Spec => [](EachOnce /\ OvertakenOnce)` |
| `ConnForwardsAcks` | of `Conn`: `Spec => ForwardsAcks`, the implementation of `AckForwarder` |
| `ConnHoldsOnlyWhileOverspeed` | `Spec => []HeldOnlyWhileOverspeed` |
| `PemiHeapMatches` | `Spec => []HeapMatchesConns` |
| `PemiForgetsInTime` | `Spec => []ForgottenInTime` |
| `PemiKeepsActiveConns` | `Spec => ActiveConnsStay` |
| `PemiTasksHaveConns` | `Spec => []TaskConnsExist` |
| `DatagramStaysInside` | `Spec => []ReadingStaysInside` |
| `DatagramReadingAdvances` | `Spec => []ReadingAdvances` |

The first seven are about the queue. The assumptions are those named in the modules: constants are natural numbers, the
factors ratios with a positive denominator, RTTs and lengths natural numbers, integers take at least an octet.

**Queue.** The inductive invariant `IInv` is the conjunction of the five invariants; none is inductive alone.

- `TypeOK` says that the sequences are sequences, but not that an index computed from a number is one of them.
- `FlowletsPartitionPackets` gives that: popping a flowlet pops as many packets from the front, and these are its
  packets. `add` extends the last flowlet or opens one with the next number. It needs a flowlet's numbers to be a
  range, also across flowlets, which is why `Partition` speaks of all pairs of flowlets.
- `OnlyFrontIsReplied` is needed for the reset, whose loop stops at the first flowlet without a reply, and for
  `check_reply`, whose completed flowlets are a prefix.
- `FlowletsAreOrderedInTime` is needed for the expired flowlets to be a prefix, and for `NoEarlyLoss`: the flowlets
  completed before the one replied to ended earlier, so their replies were due too.
- `LossesLeftTheQueue` needs the partition: the numbers of popped packets are below all that stay.

`PacketQueueLemmas` has the facts about suffixes, partitions and popping, `PacketQueueAdd_proofs` the step of
`add`, `PacketQueue_proofs` the other steps and the invariance theorems, `PacketQueueLoss_proofs` the action
property. The proof that `Next` preserves `IInv` has one lemma for each action.

**Connection.** The invariant of `Conn_proofs` adds to `HeldOnlyWhileOverspeed` that the delayed packets are a sequence of
packets with numbers, which `check_delayed_acks` leaves empty or untouched. A packet of the client and one of the
server are the two handlers that touch them; for each there is a lemma that it keeps the invariant and is a step of
`AckForwarder`, and one lemma says that the other actions leave the three mapped variables alone. What `AckForwarder`
then guarantees, each packet once and overtaken at most once, is proved of it alone; its invariant is that the
delivered packets followed by the held ones are a permutation in which every packet is behind at most one later one,
and that the held ones are in order and later than all delivered ones.

**Proxy.** `HeapMatchesConns` is inductive only with the times: an entry is not overdue (`now - e[1] <= IDLE_TIMEOUT`,
because time passes only when no timer is due), and it is less than `IDLE_TIMEOUT` later than the last access of its
connection (because an entry is renewed only when the connection is not idle). Together these give the two timeouts of
`ForgottenInTime`. That only idle connections leave the table is a lemma about `remove_idle_conns`. `TaskConnsExist` is
inductive beside it: a datagram with octets in it counts as an access, so that its connection is not idle.

**Datagram.** The invariant adds the progress of the header: in each state of the reading, the cursor is at least as far
as the fields read so far, so that a packet has at least seven octets when its payload is skipped.

Only model-checked: `RepairsLosses` and the RTT properties of `Conn`; the rest of `Pemi`; `KindsDecide`, because what
`QuicConnProcess` returns needs induction over the packets; everything about `Copa`, `Minmax`, `RttDetector` and `Rtc`,
with `KeepsSchedule`; liveness (the prover has no reasoning about fairness and ENABLED); and the results of
the recursively defined algorithms of `Flowlet`.

## 6. Abstractions

- Time is a clock of ticks; two packets have different timestamps, as the code's `Instant`s practically have. Products
  of durations with `f64` factors are rounded as the code's types round (`MulF64`); the rounding of `f64` in the costs of
  the dynamic program and in cwnd is left out.
- Counters that are only printed (`close_count`, the statistics), the numbers of reply packets, logging, the
  cycle counters and the assertion on `print_interval` are left out.
- Of the queue to the server only the oldest timestamp and the length are modelled: nothing else of it is read.
- In `Copa` no RTT sample is longer than the time since the connection was created. That is what
  makes the first `on_ack_send` double cwnd, so that leaving the slow start, which halves cwnd without a floor, stays at
  or above the floor.
- UDP padding is not a kind of packet of its own in `Pemi`: the code takes it as part of the packet before it, which
  `QuicDatagram` shows to make no difference.
- In `QuicDatagram` a field is read once, so its value is chosen when it is read; the one octet that is read twice
  (peeked at for padding, then read as a first octet) is remembered in `peeked`.
- In `Rtc` the contents of tokens and frames are left out, and time is what has passed since the last frame, up to
  one more than the interval. A client is named by itself rather than by its connection IDs.
- A sequence number of an echo request is used again only when no reply to its last use is under way (65536 requests
  take longer than a reply). ICMP messages of other types are not modelled.
- `u16` sequence numbers wrap around, as in a release build.

## 7. Not modelled

- *Packet I/O* (`pemi_io.rs`, `common.rs`): raw sockets and addresses, without state. Sending is part of the actions
  that call it. Of `main.rs` the set-up, the command line and the statistics are left out.
- *Octets*: reads and writes the program does not use, and `OctetsMut`.
- *RTC application*: version negotiation, and the 404 answer to an unknown request, neither of which its client causes.
- *quinn and quic-go applications*: the same workloads on asynchronous libraries. What could go wrong in them is a
  matter of the libraries' scheduling and back-pressure (each frame a write that waits, the interval a library timer);
  their own state is a few counters.
- *Goodput and HTTP applications, experiment scripts*: sequential transfers, the set-up of an emulated network, plots.
- *Conn with Copa*: the verdict of the congestion controller is an input of `Conn`, free at every packet. Composing the
  two would only remove behaviours, and the product of their state spaces is out of TLC's reach.

Worth proving next: `RepairsLosses`, for which the queue's invariant has to be carried through the instance `Q(rtt)`;
`ReplyFindsItsRequest`; the order of the three samples of `Minmax`.
