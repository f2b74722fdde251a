------------------------------ MODULE MCBackend ------------------------------
(* Instances of Backend for TLC: user 1 is in ed() and may give one command *)
(* a second, user 0 has no limit.                                           *)
EXTENDS Backend

MCMaxCmds == [u \in Users |-> IF u = 1 THEN 0 ELSE -1]
=============================================================================
