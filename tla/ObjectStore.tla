---------------------------- MODULE ObjectStore ----------------------------
(***************************************************************************)
(* What the swapper (src/src/swap.c) promises to the rest of the driver:   *)
(* nothing happens.  An object has a program and variables; they change    *)
(* when LPC code assigns, when the program loses its blueprint, when       *)
(* references to destructed objects are cleared, and in no other way.      *)
(* Whether they are in memory or in the swap file cannot be seen.          *)
(***************************************************************************)
CONSTANTS Objects,   \* objects, each the only user of its program
          Values,    \* what the variables of an object may hold
          None       \* the object does not exist

VARIABLE store       \* the data of each object

Data == [blueprint : BOOLEAN,   \* does the program point to its blueprint?
         value : Values]

Init == store = [o \in Objects |-> None]

(* An object is loaded or cloned.                                          *)
Create(o) ==
  /\ store[o] = None
  /\ \E d \in Data : store' = [store EXCEPT ![o] = d]

(* The variables get another value, the program may lose its blueprint.    *)
Change(o) ==
  /\ store[o] # None
  /\ \E d \in Data : /\ d.blueprint => store[o].blueprint
                     /\ store' = [store EXCEPT ![o] = d]

Destruct(o) ==
  /\ store[o] # None
  /\ store' = [store EXCEPT ![o] = None]

Next == \E o \in Objects : Create(o) \/ Change(o) \/ Destruct(o)

Spec == Init /\ [][Next]_store
=============================================================================
