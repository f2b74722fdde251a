------------------------------ MODULE MCObjects ------------------------------
(* Instances of Objects for TLC: a master and three other objects.         *)
EXTENDS Objects, TLC

CONSTANTS m, o1, o2, o3

MCSymmetry == Permutations(Objects \ Masters)
=============================================================================
