----------------------------- MODULE Pemi_proofs -----------------------------
(***************************************************************************)
(* The heap of access times and the table of connections agree, connections *)
(* are forgotten in time, and no connection before its time.                *)
(***************************************************************************)
EXTENDS Pemi, TLAPS

\* A table of connections whose last accesses are in the past of t.
IsTable(cs, t) ==
  \A p \in DOMAIN cs : /\ {"state", "last_access", "timer"} \subseteq DOMAIN cs[p]
                       /\ cs[p].last_access \in Nat /\ cs[p].last_access <= t

\* Every entry of the heap is one of a connection, which has no other and has not
\* been idle for the timeout at the time of the entry; nor is the entry overdue.
IsHeap(cs, at, t) ==
  /\ \A e \in at : /\ e = <<e[1], e[2]>> /\ e[1] \in Nat /\ e[1] <= t
                   /\ e[2] \in DOMAIN cs
                   /\ t - e[1] <= IDLE_TIMEOUT
                   /\ e[1] - cs[e[2]].last_access < IDLE_TIMEOUT
  /\ \A d, e \in at : d[2] = e[2] => d = e
  /\ \A p \in DOMAIN cs : \E e \in at : e[2] = p

Agree(cs, at, t) == IsTable(cs, t) /\ IsHeap(cs, at, t)

\* The inductive invariant.
Inv == now \in Nat /\ Agree(conns, access_times, now)

LEMMA InvInit == Init => Inv
  BY PemiAssumption DEF Init, Inv, Agree, IsTable, IsHeap

\* remove_idle_conns: the entries that are due leave the heap or are put back.
LEMMA RemovalAgrees ==
  ASSUME NEW cs, NEW at, now \in Nat, Agree(cs, at, now)
  PROVE  Agree(WithoutIdle(cs, at), AccessTimesAfter(cs, at), now)
<1> DEFINE idle == IdleConns(cs, at)
           rest == WithoutIdle(cs, at)
           heap == AccessTimesAfter(cs, at)
<1>1. DOMAIN rest = DOMAIN cs \ idle /\ \A p \in DOMAIN rest : rest[p] = cs[p]
  BY DEF WithoutIdle, Restrict
<1>2. \A e \in at : e[2] \in idle <=> e \in Due(at) /\ now - cs[e[2]].last_access >= IDLE_TIMEOUT
  <2>1. \A e \in at : e[2] \in idle => e \in Due(at)
    BY DEF IdleConns, Due, Agree, IsHeap
  <2> QED
    BY <2>1 DEF IdleConns, Due
<1>3. \A e \in heap : \/ e \in at /\ e \notin Due(at)
                      \/ e[1] = now /\ e = <<e[1], e[2]>> /\ \E d \in Due(at) : d[2] = e[2] /\ e[2] \notin idle
  BY DEF AccessTimesAfter
<1>4. \A d \in at : d[2] \notin idle => \E e \in heap : e[2] = d[2]
  <2> SUFFICES ASSUME NEW d \in at, d[2] \notin idle
               PROVE  \E e \in heap : e[2] = d[2]
    OBVIOUS
  <2>1. CASE d \in Due(at)
    <3>1. <<now, d[2]>> \in heap
      BY <2>1 DEF AccessTimesAfter
    <3> QED
      BY <3>1
  <2>2. CASE d \notin Due(at)
    BY <2>2 DEF AccessTimesAfter
  <2> QED
    BY <2>1, <2>2
<1>5. Due(at) \subseteq at
  BY DEF Due
<1> HIDE DEF idle, rest, heap
<1>6. IsTable(rest, now)
  BY <1>1 DEF Agree, IsTable
<1>7. ASSUME NEW e \in heap
      PROVE  /\ e = <<e[1], e[2]>> /\ e[1] \in Nat /\ e[1] <= now
             /\ e[2] \in DOMAIN rest
             /\ now - e[1] <= IDLE_TIMEOUT
             /\ e[1] - rest[e[2]].last_access < IDLE_TIMEOUT
  <2>1. CASE e \in at /\ e \notin Due(at)
    BY <2>1, <1>1, <1>2 DEF Agree, IsHeap
  <2>2. CASE e[1] = now /\ e = <<e[1], e[2]>> /\ \E d \in Due(at) : d[2] = e[2] /\ e[2] \notin idle
    <3>1. PICK d \in Due(at) : d[2] = e[2] /\ e[2] \notin idle
      BY <2>2
    <3>2. d \in at /\ d[2] \in DOMAIN cs
      BY <1>5 DEF Agree, IsHeap
    <3>3. cs[e[2]].last_access \in Nat /\ ~(now - cs[e[2]].last_access >= IDLE_TIMEOUT)
      BY <3>1, <3>2, <1>2 DEF Agree, IsTable
    <3> QED
      BY <2>2, <3>1, <3>2, <3>3, <1>1, PemiAssumption
  <2> QED
    BY <2>1, <2>2, <1>3
<1>8. ASSUME NEW d \in heap, NEW e \in heap, d[2] = e[2]
      PROVE  d = e
  <2>1. /\ d \in at \/ \E f \in Due(at) : f[2] = d[2]
        /\ e \in at \/ \E f \in Due(at) : f[2] = e[2]
    BY <1>3
  <2>2. \A f, g \in at : f[2] = g[2] => f = g
    BY DEF Agree, IsHeap
  <2>3. d \in at /\ d \notin Due(at) => e \in at /\ e \notin Due(at)
    BY <1>8, <1>3, <1>5, <2>2
  <2>4. e \in at /\ e \notin Due(at) => d \in at /\ d \notin Due(at)
    BY <1>8, <1>3, <1>5, <2>2
  <2>5. CASE d \in at /\ d \notin Due(at)
    BY <2>5, <2>3, <2>2, <1>8
  <2>6. CASE ~(d \in at /\ d \notin Due(at))
    <3>1. d[1] = now /\ d = <<d[1], d[2]>> /\ e[1] = now /\ e = <<e[1], e[2]>>
      BY <2>6, <2>4, <1>3
    <3> QED
      BY <3>1, <1>8
  <2> QED
    BY <2>5, <2>6
<1>9. \A p \in DOMAIN rest : \E e \in heap : e[2] = p
  <2> SUFFICES ASSUME NEW p \in DOMAIN rest
               PROVE  \E e \in heap : e[2] = p
    OBVIOUS
  <2>1. PICK d \in at : d[2] = p
    BY <1>1 DEF Agree, IsHeap
  <2> QED
    BY <2>1, <1>1, <1>4
<1>10. IsHeap(rest, heap, now)
  BY <1>7, <1>8, <1>9 DEF IsHeap
<1> QED
  BY <1>6, <1>10 DEF Agree, rest, heap

\* A change of timers, or an access, keeps the agreement.
LEMMA AccessAgrees ==
  ASSUME NEW cs, NEW at, NEW new, now \in Nat, Agree(cs, at, now), IsTable(new, now),
         DOMAIN new = DOMAIN cs,
         \A p \in DOMAIN cs : new[p].last_access >= cs[p].last_access
  PROVE  Agree(new, at, now)
<1>1. ASSUME NEW e \in at
      PROVE  e[1] - new[e[2]].last_access < IDLE_TIMEOUT
  <2>1. e[2] \in DOMAIN cs /\ e[1] \in Nat /\ e[1] - cs[e[2]].last_access < IDLE_TIMEOUT
    BY DEF Agree, IsHeap
  <2>2. /\ cs[e[2]].last_access \in Nat /\ new[e[2]].last_access \in Nat
        /\ new[e[2]].last_access >= cs[e[2]].last_access
    BY <2>1 DEF Agree, IsTable
  <2> QED
    BY <2>1, <2>2, PemiAssumption
<1> QED
  BY <1>1 DEF Agree, IsHeap

\* One field of a connection changes.
LEMMA SetField ==
  ASSUME NEW c, {"state", "last_access", "timer"} \subseteq DOMAIN c, NEW x
  PROVE  /\ DOMAIN [c EXCEPT !.timer = x] = DOMAIN c
         /\ [c EXCEPT !.timer = x].last_access = c.last_access
  OBVIOUS

\* process_udp_packet leaves the time of the last access alone.
LEMMA ProcessUdpPacketKeeps ==
  ASSUME NEW c, {"state", "last_access", "timer"} \subseteq DOMAIN c, NEW end, NEW timer
  PROVE  /\ DOMAIN ProcessUdpPacket(c, end, timer) = DOMAIN c
         /\ ProcessUdpPacket(c, end, timer).last_access = c.last_access
  BY DEF ProcessUdpPacket

\* The heap after quic_conn_process: a new connection has an entry.
Entered(p, read) ==
  IF p \in DOMAIN read \ DOMAIN conns THEN access_times \union {<<now, p>>} ELSE access_times

\* quic_conn_process keeps the agreement, and no connection becomes older by it.
LEMMA TrackedAgrees ==
  ASSUME Inv, NEW p, NEW end, NEW datagram
  PROVE  LET read == Tracked(p, end, datagram)
         IN  /\ Agree(read, Entered(p, read), now)
             /\ DOMAIN conns \subseteq DOMAIN read
             /\ \A q \in DOMAIN conns : read[q].last_access >= conns[q].last_access
             /\ datagram # <<>> /\ p \in DOMAIN read => read[p].last_access = now
<1> DEFINE read  == Tracked(p, end, datagram)
           state == Track(p, end, datagram).state
<1>0. /\ now \in Nat /\ Agree(conns, access_times, now)
      /\ \A q \in DOMAIN conns : conns[q].last_access \in Nat /\ conns[q].last_access <= now
  BY DEF Inv, Agree, IsTable
<1>1. CASE datagram = <<>> \/ (p \notin DOMAIN conns /\ state = "None")
  <2>1. read = conns
    BY <1>1 DEF Tracked
  <2> QED
    BY <2>1, <1>0, <1>1 DEF Entered
<1>2. CASE datagram # <<>> /\ state # "None" /\ p \notin DOMAIN conns
  <2> DEFINE c == [NewConn(end) EXCEPT !.state = state]
  <2>1. read = Insert(conns, p, c)
    BY <1>2 DEF Tracked
  <2>2. {"state", "last_access", "timer"} \subseteq DOMAIN c /\ c.last_access = now
    BY DEF NewConn
  <2> HIDE DEF c, read, state
  <2>3. /\ DOMAIN read = DOMAIN conns \union {p} /\ read[p] = c
        /\ \A q \in DOMAIN conns : read[q] = conns[q]
    BY <2>1, <1>2 DEF Insert
  <2>4. IsTable(read, now)
    BY <2>2, <2>3, <1>0 DEF Agree, IsTable
  <2>5. Entered(p, read) = access_times \union {<<now, p>>}
    BY <2>3, <1>2 DEF Entered
  <2>6. IsHeap(read, access_times \union {<<now, p>>}, now)
    <3> DEFINE at == access_times \union {<<now, p>>}
    <3>1. ASSUME NEW e \in access_times
          PROVE  /\ e = <<e[1], e[2]>> /\ e[1] \in Nat /\ e[1] <= now
                 /\ e[2] \in DOMAIN conns /\ e[2] # p
                 /\ now - e[1] <= IDLE_TIMEOUT
                 /\ e[1] - read[e[2]].last_access < IDLE_TIMEOUT
      BY <2>3, <1>0, <1>2 DEF Agree, IsHeap
    <3>2. ASSUME NEW e \in at
          PROVE  /\ e = <<e[1], e[2]>> /\ e[1] \in Nat /\ e[1] <= now
                 /\ e[2] \in DOMAIN read
                 /\ now - e[1] <= IDLE_TIMEOUT
                 /\ e[1] - read[e[2]].last_access < IDLE_TIMEOUT
      <4>1. CASE e \in access_times
        BY <4>1, <3>1, <2>3
      <4>2. CASE e = <<now, p>>
        BY <4>2, <2>2, <2>3, <1>0, PemiAssumption
      <4> QED
        BY <4>1, <4>2
    <3>3. \A d, e \in at : d[2] = e[2] => d = e
      <4>1. \A d, e \in access_times : d[2] = e[2] => d = e
        BY <1>0 DEF Agree, IsHeap
      <4>2. <<now, p>>[2] = p
        OBVIOUS
      <4> QED
        BY <4>1, <4>2, <3>1
    <3>4. \A q \in DOMAIN read : \E e \in at : e[2] = q
      <4>1. \A q \in DOMAIN conns : \E e \in access_times : e[2] = q
        BY <1>0 DEF Agree, IsHeap
      <4>2. <<now, p>> \in at /\ <<now, p>>[2] = p
        OBVIOUS
      <4> QED
        BY <4>1, <4>2, <2>3
    <3> QED
      BY <3>2, <3>3, <3>4 DEF IsHeap
  <2> QED
    BY <2>2, <2>3, <2>4, <2>5, <2>6, <1>0 DEF Agree, read
<1>3. CASE datagram # <<>> /\ p \in DOMAIN conns
  <2>1. read = [conns EXCEPT ![p].state = state, ![p].last_access = now]
    BY <1>3 DEF Tracked
  <2> HIDE DEF read, state
  <2>2. DOMAIN read = DOMAIN conns /\ \A q \in DOMAIN conns : q # p => read[q] = conns[q]
    BY <2>1
  <2>3. {"state", "last_access", "timer"} \subseteq DOMAIN read[p] /\ read[p].last_access = now
    <3>1. {"state", "last_access", "timer"} \subseteq DOMAIN conns[p]
      BY <1>0, <1>3 DEF Agree, IsTable
    <3> QED
      BY <3>1, <2>1, <1>3
  <2>4. IsTable(read, now)
    BY <2>2, <2>3, <1>0 DEF Agree, IsTable
  <2>5. \A q \in DOMAIN conns : read[q].last_access >= conns[q].last_access
    BY <2>2, <2>3, <1>0
  <2>6. Agree(read, access_times, now)
    BY <2>2, <2>4, <2>5, <1>0, AccessAgrees
  <2> QED
    BY <2>2, <2>3, <2>5, <2>6, <1>3 DEF Entered, read
<1> QED
  BY <1>1, <1>2, <1>3

\* What a step leaves behind: agreement, and no connection gone before its time.
Good == Inv' /\ \A p \in DOMAIN conns \ DOMAIN conns' : now - conns[p].last_access >= IDLE_TIMEOUT

\* Timers change, whoever changes them.
LEMMA TimersKeepInv ==
  ASSUME Inv, now' = now, access_times' = access_times, DOMAIN conns' = DOMAIN conns,
         \A p \in DOMAIN conns : /\ DOMAIN conns'[p] = DOMAIN conns[p]
                                 /\ conns'[p].last_access = conns[p].last_access
  PROVE  Good
<1>1. now \in Nat /\ Agree(conns, access_times, now)
  BY DEF Inv
<1>2. IsTable(conns', now)
  BY <1>1 DEF Agree, IsTable
<1>3. \A p \in DOMAIN conns : conns'[p].last_access >= conns[p].last_access
  BY <1>1 DEF Agree, IsTable
<1>4. Agree(conns', access_times, now)
  BY <1>1, <1>2, <1>3, AccessAgrees
<1> QED
  BY <1>1, <1>4 DEF Inv, Good

\* A connection remove_idle_conns removes has been idle for the timeout.
LEMMA RemovedAreIdle ==
  ASSUME NEW cs, NEW at, NEW p \in DOMAIN cs \ DOMAIN WithoutIdle(cs, at)
  PROVE  now - cs[p].last_access >= IDLE_TIMEOUT
  BY DEF WithoutIdle, Restrict, IdleConns

LEMMA ProcessPacketKeepsInv ==
  ASSUME Inv, NEW p, NEW end, NEW datagram, ProcessPacket(p, end, datagram)
  PROVE  Good
<1> DEFINE read == Tracked(p, end, datagram)  at == Entered(p, read)
<1>1. /\ Agree(read, at, now)
      /\ DOMAIN conns \subseteq DOMAIN read
      /\ \A q \in DOMAIN conns : read[q].last_access >= conns[q].last_access
  BY TrackedAgrees
<1>2. now \in Nat /\ now' = now
  BY DEF Inv, ProcessPacket
<1>3. CASE conns' = read /\ access_times' = at
  <2>1. Inv'
    BY <1>1, <1>2, <1>3 DEF Inv
  <2> QED
    BY <2>1, <1>1, <1>3 DEF Good
<1>4. CASE conns' = conns /\ access_times' = access_times
  BY <1>2, <1>4 DEF Inv, Good
<1>5. ASSUME p \in DOMAIN read, NEW timer,
             conns' = WithoutIdle([read EXCEPT ![p] = ProcessUdpPacket(@, end, timer)], at),
             access_times' = AccessTimesAfter([read EXCEPT ![p] = ProcessUdpPacket(@, end, timer)], at)
      PROVE  Good
  <2> DEFINE cs == [read EXCEPT ![p] = ProcessUdpPacket(@, end, timer)]
  <2> HIDE DEF read, at
  <2>1. DOMAIN cs = DOMAIN read
    OBVIOUS
  <2>2. \A q \in DOMAIN read : /\ DOMAIN cs[q] = DOMAIN read[q]
                               /\ cs[q].last_access = read[q].last_access
    <3>1. \A q \in DOMAIN read : {"state", "last_access", "timer"} \subseteq DOMAIN read[q]
      BY <1>1 DEF Agree, IsTable
    <3>2. cs[p] = ProcessUdpPacket(read[p], end, timer) /\ \A q \in DOMAIN read \ {p} : cs[q] = read[q]
      BY <1>5
    <3> HIDE DEF cs
    <3>3. DOMAIN cs[p] = DOMAIN read[p] /\ cs[p].last_access = read[p].last_access
      BY <3>1, <3>2, <1>5, ProcessUdpPacketKeeps
    <3> QED
      BY <3>2, <3>3
  <2>3. conns' = WithoutIdle(cs, at) /\ access_times' = AccessTimesAfter(cs, at)
    BY <1>5
  <2> HIDE DEF cs
  <2>4. IsTable(cs, now) /\ \A q \in DOMAIN read : cs[q].last_access >= read[q].last_access
    BY <1>1, <2>1, <2>2 DEF Agree, IsTable
  <2>5. Agree(cs, at, now)
    BY <1>1, <1>2, <2>1, <2>4, AccessAgrees
  <2>6. Inv'
    BY <1>2, <2>3, <2>5, RemovalAgrees DEF Inv
  <2>7. ASSUME NEW q \in DOMAIN conns \ DOMAIN conns'
        PROVE  now - conns[q].last_access >= IDLE_TIMEOUT
    <3>1. q \in DOMAIN cs \ DOMAIN WithoutIdle(cs, at)
      BY <1>1, <2>1, <2>3
    <3>2. now - cs[q].last_access >= IDLE_TIMEOUT
      BY <3>1, RemovedAreIdle
    <3>3. /\ conns[q].last_access \in Nat /\ cs[q].last_access \in Nat
          /\ cs[q].last_access >= conns[q].last_access
      BY <3>1, <1>1, <2>1, <2>2, <2>4 DEF Inv, Agree, IsTable
    <3> QED
      BY <3>2, <3>3, <1>2, PemiAssumption
  <2> QED
    BY <2>6, <2>7 DEF Good
<1> QED
  BY <1>3, <1>4, <1>5 DEF ProcessPacket, Entered

LEMMA ProcessTimeoutKeepsInv ==
  ASSUME Inv, ProcessTimeout
  PROVE  Good
<1> DEFINE cs    == WithoutIdle(conns, access_times)
           heap  == AccessTimesAfter(conns, access_times)
           fired == {p \in DOMAIN cs : TimerFires(p)}
<1>1. PICK timers \in [fired -> Timers] :
        conns' = [p \in DOMAIN cs |->
                    IF p \in fired THEN [cs[p] EXCEPT !.timer = timers[p]] ELSE cs[p]]
  BY DEF ProcessTimeout
<1>2. now \in Nat /\ now' = now /\ access_times' = heap
  BY DEF Inv, ProcessTimeout
<1>3. Agree(cs, heap, now)
  BY RemovalAgrees DEF Inv
<1> HIDE DEF cs, heap
<1>4. DOMAIN conns' = DOMAIN cs
  BY <1>1
<1>5. ASSUME NEW p \in DOMAIN cs
      PROVE  /\ DOMAIN conns'[p] = DOMAIN cs[p]
             /\ conns'[p].last_access = cs[p].last_access
  <2>1. {"state", "last_access", "timer"} \subseteq DOMAIN cs[p]
    BY <1>3 DEF Agree, IsTable
  <2>2. conns'[p] = cs[p] \/ conns'[p] = [cs[p] EXCEPT !.timer = timers[p]]
    BY <1>1
  <2> QED
    BY <2>1, <2>2, SetField
<1>6. /\ IsTable(conns', now)
      /\ \A p \in DOMAIN cs : conns'[p].last_access >= cs[p].last_access
  BY <1>3, <1>4, <1>5 DEF Agree, IsTable
<1>7. Agree(conns', heap, now)
  BY <1>2, <1>3, <1>4, <1>6, AccessAgrees
<1>8. Inv'
  BY <1>2, <1>7 DEF Inv
<1>9. \A p \in DOMAIN conns \ DOMAIN conns' : now - conns[p].last_access >= IDLE_TIMEOUT
  BY <1>4, RemovedAreIdle DEF cs
<1> QED
  BY <1>8, <1>9 DEF Good

LEMMA ProcessRetransTaskKeepsInv ==
  ASSUME Inv, NEW task, ProcessRetransTask(task)
  PROVE  Good
<1>1. now' = now /\ access_times' = access_times
  BY DEF ProcessRetransTask
<1>2. conns' = conns \/ \E timer \in Timers : conns' = [conns EXCEPT ![task.conn].timer = timer]
  BY DEF ProcessRetransTask
<1>3. \A p \in DOMAIN conns : {"state", "last_access", "timer"} \subseteq DOMAIN conns[p]
  BY DEF Inv, Agree, IsTable
<1>4. CASE conns' = conns
  BY <1>1, <1>4, TimersKeepInv
<1>5. ASSUME NEW timer, conns' = [conns EXCEPT ![task.conn].timer = timer]
      PROVE  Good
  <2>1. DOMAIN conns' = DOMAIN conns
    BY <1>5
  <2>2. ASSUME NEW p \in DOMAIN conns
        PROVE  /\ DOMAIN conns'[p] = DOMAIN conns[p]
               /\ conns'[p].last_access = conns[p].last_access
    <3>1. conns'[p] = conns[p] \/ conns'[p] = [conns[p] EXCEPT !.timer = timer]
      BY <1>5
    <3> QED
      BY <3>1, <1>3, SetField
  <2> QED
    BY <1>1, <2>1, <2>2, TimersKeepInv
<1> QED
  BY <1>2, <1>4, <1>5

\* Time passes only while no entry is due, so that none becomes overdue.
LEMMA TickKeepsInv ==
  ASSUME Inv, Tick
  PROVE  Good
<1>1. /\ now \in Nat /\ now' = now + 1 /\ conns' = conns /\ access_times' = access_times
      /\ Agree(conns, access_times, now) /\ Due(access_times) = {}
  BY DEF Inv, Tick, TimeoutIsZero
<1>2. \A e \in access_times : e[1] \in Nat /\ e[1] <= now /\ now - e[1] < IDLE_TIMEOUT
  BY <1>1, PemiAssumption DEF Due, Agree, IsHeap
<1>3. IsTable(conns, now + 1)
  BY <1>1 DEF Agree, IsTable
<1>4. \A e \in access_times : e[1] <= now + 1 /\ (now + 1) - e[1] <= IDLE_TIMEOUT
  BY <1>1, <1>2, PemiAssumption
<1>5. IsHeap(conns, access_times, now + 1)
  BY <1>1, <1>4 DEF Agree, IsHeap
<1> QED
  BY <1>1, <1>3, <1>5 DEF Inv, Agree, Good

LEMMA StepIsGood ==
  ASSUME Inv, [Next]_vars
  PROVE  Good
<1>1. CASE Tick
  BY <1>1, TickKeepsInv
<1>2. CASE Packet
  BY <1>2, ProcessPacketKeepsInv DEF Packet
<1>3. CASE ProcessTimeout
  BY <1>3, ProcessTimeoutKeepsInv
<1>4. CASE Retransmission
  BY <1>4, ProcessRetransTaskKeepsInv DEF Retransmission
<1>5. CASE UNCHANGED vars
  BY <1>5 DEF vars, Inv, Good
<1> QED
  BY <1>1, <1>2, <1>3, <1>4, <1>5 DEF Next

LEMMA InvHolds == Spec => []Inv
<1>1. Inv /\ [Next]_vars => Inv'
  BY StepIsGood DEF Good
<1> QED
  BY <1>1, InvInit, PTL DEF Spec

\* The heap and the table agree in every run: remove_idle_conns finds the
\* connection of each entry it pops, and no connection is without an entry.
THEOREM PemiHeapMatches == Spec => []HeapMatchesConns
<1>1. ASSUME Inv
      PROVE  HeapMatchesConns
  <2>1. /\ \A e \in access_times : e[2] \in DOMAIN conns
        /\ \A d, e \in access_times : d[2] = e[2] => d = e
        /\ \A p \in DOMAIN conns : \E e \in access_times : e[2] = p
    BY <1>1 DEF Inv, Agree, IsHeap
  <2>2. {e[2] : e \in access_times} = DOMAIN conns
    BY <2>1
  <2> QED
    BY <2>1, <2>2 DEF HeapMatchesConns
<1> QED
  BY <1>1, InvHolds, PTL

\* A connection is forgotten less than two idle timeouts after its last access:
\* its entry is due within one timeout, and was put there less than one timeout
\* after the access.
THEOREM PemiForgetsInTime == Spec => []ForgottenInTime
<1>1. ASSUME Inv, NEW p \in DOMAIN conns
      PROVE  now - conns[p].last_access < 2 * IDLE_TIMEOUT
  <2>1. PICK e \in access_times : e[2] = p
    BY <1>1 DEF Inv, Agree, IsHeap
  <2>2. /\ now \in Nat /\ e[1] \in Nat /\ conns[p].last_access \in Nat
        /\ now - e[1] <= IDLE_TIMEOUT /\ e[1] - conns[p].last_access < IDLE_TIMEOUT
    BY <1>1, <2>1 DEF Inv, Agree, IsHeap, IsTable
  <2> QED
    BY <2>2, PemiAssumption
<1>2. Inv => ForgottenInTime
  BY <1>1 DEF ForgottenInTime
<1> QED
  BY <1>2, InvHolds, PTL

\* No connection that had a packet within the idle timeout is removed, whichever
\* step removes it.
THEOREM PemiKeepsActiveConns == Spec => ActiveConnsStay
<1>1. Inv /\ [Next]_vars =>
        [\A p \in DOMAIN conns \ DOMAIN conns' : now - conns[p].last_access >= IDLE_TIMEOUT]_vars
  BY StepIsGood DEF Good
<1> QED
  BY <1>1, InvHolds, PTL DEF Spec, ActiveConnsStay

-----------------------------------------------------------------------------

\* A datagram with octets in it is an access, so that remove_idle_conns keeps its
\* connection.
LEMMA ProcessPacketKeepsTasks ==
  ASSUME Inv, TaskConnsExist, NEW p, NEW end, NEW datagram, ProcessPacket(p, end, datagram)
  PROVE  TaskConnsExist'
<1> DEFINE read == Tracked(p, end, datagram)  at == Entered(p, read)
<1>1. /\ Agree(read, at, now)
      /\ DOMAIN conns \subseteq DOMAIN read
      /\ datagram # <<>> /\ p \in DOMAIN read => read[p].last_access = now
  BY TrackedAgrees
<1>2. odd \subseteq odd' /\ (datagram = <<>> => p \in odd')
  BY DEF ProcessPacket, Odd
<1>3. CASE retrans_tasks' = retrans_tasks /\ (conns' = read \/ conns' = conns)
  BY <1>1, <1>2, <1>3 DEF TaskConnsExist
<1>4. ASSUME p \in DOMAIN read, NEW timer, NEW losses,
             conns' = WithoutIdle([read EXCEPT ![p] = ProcessUdpPacket(@, end, timer)], at),
             retrans_tasks' = {[conn |-> p, pkts |-> n] : n \in {losses} \ {0}}
      PROVE  TaskConnsExist'
  <2> DEFINE cs == [read EXCEPT ![p] = ProcessUdpPacket(@, end, timer)]
  <2>0. retrans_tasks' = {[conn |-> p, pkts |-> n] : n \in {losses} \ {0}}
    BY <1>4
  <2>1. \A task \in retrans_tasks' : task.conn = p
    BY <2>0
  <2>2. CASE datagram = <<>>
    BY <2>1, <2>2, <1>2 DEF TaskConnsExist
  <2>3. CASE datagram # <<>>
    <3> HIDE DEF read, at
    <3>1. {"state", "last_access", "timer"} \subseteq DOMAIN read[p]
      BY <1>1, <1>4 DEF Agree, IsTable
    <3>2. DOMAIN cs = DOMAIN read /\ cs[p] = ProcessUdpPacket(read[p], end, timer)
      BY <1>4
    <3>3. cs[p].last_access = now
      BY <3>1, <3>2, <2>3, <1>1, <1>4, ProcessUdpPacketKeeps
    <3>4. conns' = WithoutIdle(cs, at)
      BY <1>4
    <3> HIDE DEF cs
    <3>5. p \notin IdleConns(cs, at)
      BY <3>3, PemiAssumption DEF IdleConns, Inv
    <3>6. p \in DOMAIN conns'
      BY <3>2, <3>4, <3>5, <1>4 DEF WithoutIdle, Restrict
    <3> QED
      BY <2>1, <3>6 DEF TaskConnsExist
  <2> QED
    BY <2>2, <2>3
<1> QED
  BY <1>3, <1>4 DEF ProcessPacket, Entered

LEMMA ProcessTimeoutKeepsTasks ==
  ASSUME ProcessTimeout
  PROVE  TaskConnsExist'
<1> DEFINE cs    == WithoutIdle(conns, access_times)
           fired == {p \in DOMAIN cs : TimerFires(p)}
<1>1. PICK timers \in [fired -> Timers], losses \in [fired -> 0..MaxLosses] :
        /\ conns' = [p \in DOMAIN cs |->
                       IF p \in fired THEN [cs[p] EXCEPT !.timer = timers[p]] ELSE cs[p]]
        /\ retrans_tasks' = {[conn |-> p, pkts |-> losses[p]] : p \in {q \in fired : losses[q] > 0}}
  BY DEF ProcessTimeout
<1> HIDE DEF cs
<1>2. DOMAIN conns' = DOMAIN cs
  BY <1>1
<1>3. \A task \in retrans_tasks' : task.conn \in DOMAIN cs
  BY <1>1
<1> QED
  BY <1>2, <1>3 DEF TaskConnsExist

LEMMA ProcessRetransTaskKeepsTasks ==
  ASSUME TaskConnsExist, NEW task, ProcessRetransTask(task)
  PROVE  TaskConnsExist'
<1>1. retrans_tasks' \subseteq retrans_tasks /\ odd' = odd
  BY DEF ProcessRetransTask
<1>2. conns' = conns \/ \E timer \in Timers : conns' = [conns EXCEPT ![task.conn].timer = timer]
  BY DEF ProcessRetransTask
<1>3. DOMAIN conns' = DOMAIN conns
  BY <1>2
<1> QED
  BY <1>1, <1>3 DEF TaskConnsExist

\* In the ordinary course record_retrans_packet finds the connection of every task:
\* between making and processing a task no step removes its connection.
THEOREM PemiTasksHaveConns == Spec => []TaskConnsExist
<1>1. Init => TaskConnsExist
  BY DEF Init, TaskConnsExist
<1>2. Inv /\ TaskConnsExist /\ [Next]_vars => TaskConnsExist'
  <2> SUFFICES ASSUME Inv, TaskConnsExist, [Next]_vars
               PROVE  TaskConnsExist'
    OBVIOUS
  <2>1. CASE Packet
    BY <2>1, ProcessPacketKeepsTasks DEF Packet
  <2>2. CASE ProcessTimeout
    BY <2>2, ProcessTimeoutKeepsTasks
  <2>3. CASE Retransmission
    BY <2>3, ProcessRetransTaskKeepsTasks DEF Retransmission
  <2>4. CASE Tick \/ UNCHANGED vars
    BY <2>4 DEF Tick, vars, TaskConnsExist
  <2> QED
    BY <2>1, <2>2, <2>3, <2>4 DEF Next
<1> QED
  BY <1>1, <1>2, InvHolds, PTL DEF Spec
=============================================================================
