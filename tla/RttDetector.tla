----------------------------- MODULE RttDetector -----------------------------
(***************************************************************************)
(* The ICMP echo requests with which PEMI measures the RTT to a client      *)
(* (pemi/src/rtt_det.rs, RttDetector): the requests sent, by IP address and *)
(* sequence number, and the replies, which the network may lose, reorder    *)
(* and deliver twice.                                                       *)
(***************************************************************************)
EXTENDS Integers, FiniteSets, Functions

CONSTANTS Ips,            \* addresses of clients
          SEQ_MOD,        \* 2^16: sequence numbers are u16 and wrap around
          MaxTime, MaxRequests   \* bounds on the time and on the requests sent

ASSUME RttDetectorAssumption ==
  /\ SEQ_MOD \in Nat \ {0, 1}
  /\ MaxTime \in Nat /\ MaxRequests \in Nat

VARIABLES now,
          sent_requests,  \* IpRequests of the addresses that have one
          replies,        \* the replies the network will deliver, with the time
                          \* at which their request was sent; some are copies
                          \* of a reply that was delivered
          sent,           \* history: number of requests sent
          panicked

vars == <<now, sent_requests, replies, sent, panicked>>

\* HashMap::insert and remove.
Insert(f, k, x) == [y \in DOMAIN f \union {k} |-> IF y = k THEN x ELSE f[y]]
Remove(f, k) == Restrict(f, DOMAIN f \ {k})

\* IpRequests::new
NewIpRequests == [seq |-> 1, requests |-> [s \in {} |-> 0]]

\* The entry of the address, or a new one.
IpRequests(ip) == IF ip \in DOMAIN sent_requests THEN sent_requests[ip] ELSE NewIpRequests

\* Mutation: the number is advanced before the request is recorded.
SendRequestOfSwapped(r) ==
  LET next == (r.seq + 1) % SEQ_MOD
  IN  [seq |-> next, requests |-> Insert(r.requests, next, now)]

\* IpRequests::send_request
SendRequestOf(r) == [seq |-> (r.seq + 1) % SEQ_MOD, requests |-> Insert(r.requests, r.seq, now)]

\* RttDetector::send_request.  The reply will come or is lost.  A number is used
\* again only when no reply to its last use is under way: SEQ_MOD requests take
\* longer than a reply.
SendRequest(ip) ==
  LET seq == IpRequests(ip).seq IN
  /\ sent < MaxRequests /\ ~panicked
  /\ \A e \in replies : e.ip = ip => e.seq # seq
  /\ sent' = sent + 1
  /\ sent_requests' = Insert(sent_requests, ip, SendRequestOf(IpRequests(ip)))
  /\ replies' \in {replies, replies \union {[ip |-> ip, seq |-> seq, sent |-> now, copy |-> FALSE]}}
  /\ UNCHANGED <<now, panicked>>

\* RttDetector::recv_response with an echo reply: its request is looked up and
\* removed, or there is none and the process is gone.
RecvResponse(e) ==
  LET r == IpRequests(e.ip) IN
  /\ ~panicked
  /\ \/ replies' = replies \ {e}
     \/ ~e.copy /\ replies' = (replies \ {e}) \union {[e EXCEPT !.copy = TRUE]}
  /\ panicked' = (e.seq \notin DOMAIN r.requests)
  /\ sent_requests' = IF panicked' THEN sent_requests
                      ELSE Insert(sent_requests, e.ip,
                                  [r EXCEPT !.requests = Remove(r.requests, e.seq)])
  /\ UNCHANGED <<now, sent>>

\* RttDetector::new
Init ==
  /\ now = 0 /\ sent = 0
  /\ sent_requests = [ip \in {} |-> NewIpRequests]
  /\ replies = {} /\ panicked = FALSE

Tick == now < MaxTime /\ now' = now + 1 /\ UNCHANGED <<sent_requests, replies, sent, panicked>>

Next == \/ Tick
        \/ \E ip \in Ips : SendRequest(ip)
        \/ \E e \in replies : RecvResponse(e)

Spec == Init /\ [][Next]_vars

-----------------------------------------------------------------------------
\* Every reply that is under way finds its own request and so measures its own
\* RTT, in whatever order the replies come, although requests whose reply is lost
\* are never removed and numbers are used again; a copy finds none, and so never
\* measures an RTT of another request.
ReplyFindsItsRequest ==
  \A e \in replies :
    LET requests == IpRequests(e.ip).requests
    IN  IF e.copy THEN e.seq \notin DOMAIN requests
                  ELSE e.seq \in DOMAIN requests /\ requests[e.seq] = e.sent
=============================================================================
