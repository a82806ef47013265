---------------------------- MODULE MCPacketQueue ----------------------------
(* PacketQueue for TLC, with the options' default factors 2.0 and 0.5.      *)
EXTENDS PacketQueue

MCIntervalFactor == <<2, 1>>
MCEndFactor == <<1, 2>>
=============================================================================
