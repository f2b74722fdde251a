----------------------------- MODULE MCHeartBeat -----------------------------
(* Instances of HeartBeat for TLC.                                         *)
EXTENDS HeartBeat

MCClockSteps == {0, 1, 2}
=============================================================================
