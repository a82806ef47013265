-------------------------------- MODULE MCRtc --------------------------------
(* Rtc for TLC: one client whose frames compete for the connection, and one *)
(* whose packets come in between.                                           *)
EXTENDS Rtc

CONSTANTS c1, c2

MCRequests == (c1 :> {0, 2, 3}) @@ (c2 :> {1})
=============================================================================
