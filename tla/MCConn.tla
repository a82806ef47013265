------------------------------- MODULE MCConn -------------------------------
(* Conn for TLC, with the options' default factors 2.0 and 0.5.             *)
EXTENDS Conn

MCIntervalFactor == <<2, 1>>
MCEndFactor == <<1, 2>>
=============================================================================
