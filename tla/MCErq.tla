------------------------------- MODULE MCErq -------------------------------
(* An instance of Erq for TLC: an object with a request that is answered   *)
(* several times, one with the two other requests, one user.               *)
EXTENDS Erq, TLC

CONSTANTS o1, o2, spawn, lookup, auth, user

MCRequests == {spawn, lookup, auth}
MCObjects == {o1, o2}
MCOwner == [r \in MCRequests |-> IF r = spawn THEN o1 ELSE o2]
MCSpawns == {spawn}
MCUsers == {user}
MCSymmetry == Permutations({lookup, auth})
=============================================================================
