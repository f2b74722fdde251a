------------------------------ MODULE MCCallOut ------------------------------
(* An instance of CallOut for TLC: a player and a lightweight object of    *)
(* one user.  The clock stands still, jumps or goes back.                  *)
EXTENDS CallOut

CONSTANTS player, lwo, wiz

MCOwner == [o \in Objects |-> wiz]
MCShadowEnd == [o \in Objects |-> o]
MCDelays == {-1, 1}
MCClockSteps == {-2, 0, 2}
=============================================================================
