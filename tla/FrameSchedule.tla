---------------------------- MODULE FrameSchedule ----------------------------
(***************************************************************************)
(* What a media server promises to one client: the frames it asked for, no  *)
(* more, are put on the connection one at a time, the first one at once and *)
(* each further one only when more than FRAME_INTERVAL has passed since the *)
(* one before it.                                                           *)
(***************************************************************************)
EXTENDS Integers

CONSTANT FRAME_INTERVAL

VARIABLES wanted,   \* frames asked for
          given,    \* frames put on the connection
          gap       \* time since the last one; more than FRAME_INTERVAL is all the same

vars == <<wanted, given, gap>>

Init == wanted = 0 /\ given = 0 /\ gap = 0

\* A request, with its first frame.
Start ==
  /\ wanted = 0 /\ given = 0
  /\ wanted' \in Nat
  /\ given' \in {0, 1} /\ given' <= wanted'
  /\ gap' = IF given' = 1 THEN 0 ELSE gap

Frame ==
  /\ given < wanted /\ gap > FRAME_INTERVAL
  /\ given' = given + 1 /\ gap' = 0
  /\ UNCHANGED wanted

Wait == gap <= FRAME_INTERVAL /\ gap' = gap + 1 /\ UNCHANGED <<wanted, given>>

\* The session is over.
Stop == wanted' = 0 /\ given' = 0 /\ gap' = 0

Next == Start \/ Frame \/ Wait \/ Stop

Spec == Init /\ [][Next]_vars
=============================================================================
