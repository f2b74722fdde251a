------------------------------- MODULE MCSwap -------------------------------
(* A small instance of Swap: variables need one word, programs two, so that *)
(* free blocks are split and joined.                                       *)
EXTENDS Swap, TLC

MCVarLen == [v \in Values |-> 1]

ObjectSymmetry == Permutations(Objects)
=============================================================================
