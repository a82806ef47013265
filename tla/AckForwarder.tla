---------------------------- MODULE AckForwarder ----------------------------
(***************************************************************************)
(* What a connection promises to the client: its packets, numbered as they  *)
(* come, reach the server once each.  The connection may hold packets back, *)
(* and then lets go of all of them at once, in order or with the last one   *)
(* first.  A packet is not forwarded past the ones held back.               *)
(***************************************************************************)
EXTENDS Integers, Sequences

VARIABLES accepted,   \* how many packets have come
          held,       \* those held back, the oldest first
          delivered   \* those forwarded, in the order of forwarding

vars == <<accepted, held, delivered>>

TailFirst(s) == <<s[Len(s)]>> \o SubSeq(s, 1, Len(s) - 1)

Init == accepted = 0 /\ held = <<>> /\ delivered = <<>>

LetGo(s) ==
  /\ s # <<>>
  /\ held' = <<>>
  /\ \E order \in {s, TailFirst(s)} : delivered' = delivered \o order

\* A packet comes and is held back, or goes along with those held back.
Come ==
  /\ accepted' = accepted + 1
  /\ \/ held' = Append(held, accepted') /\ UNCHANGED delivered
     \/ LetGo(Append(held, accepted'))

Flush == LetGo(held) /\ UNCHANGED accepted

Next == Come \/ Flush

Spec == Init /\ [][Next]_vars

-----------------------------------------------------------------------------

\* Every packet that came is forwarded once or is held back.
EachOnce ==
  LET all == delivered \o held
  IN  /\ Len(all) = accepted
      /\ \A i \in 1..Len(all) : all[i] \in 1..accepted
      /\ \A i, j \in 1..Len(all) : all[i] = all[j] => i = j

\* No packet is overtaken by two later ones.
OvertakenOnce ==
  LET all == delivered \o held
  IN  \A i, j, k \in 1..Len(all) : i < j /\ j < k => all[i] < all[k] \/ all[j] < all[k]
=============================================================================
