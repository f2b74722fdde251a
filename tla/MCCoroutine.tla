----------------------------- MODULE MCCoroutine -----------------------------
(* Instances of Coroutine for TLC.                                         *)
EXTENDS Coroutine, TLC

MCSymmetry == Permutations(Coroutines) \cup Permutations(Objects)
=============================================================================
