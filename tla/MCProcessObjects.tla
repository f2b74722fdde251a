-------------------------- MODULE MCProcessObjects --------------------------
(* Instances of ProcessObjects for TLC: the master and two other objects.  *)
EXTENDS ProcessObjects

CONSTANTS m, a, b
=============================================================================
