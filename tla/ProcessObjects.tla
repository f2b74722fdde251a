--------------------------- MODULE ProcessObjects ---------------------------
(***************************************************************************)
(* The list of all objects, from the load to the release of the memory:    *)
(* process_objects() of backend.c goes through obj_list to reset, clean up *)
(* and swap; destruct() of simulate.c takes objects out of it, into the    *)
(* list of newly destructed ones; handle_newly_destructed_objects() and    *)
(* remove_destructed_objects() free them when nobody refers to them.  The  *)
(* order of the lists of destructed objects is of no account: they are     *)
(* sets here.                                                              *)
(*                                                                         *)
(* What an object is in need of is reduced to `due': its reset is due.     *)
(* Whether it was not touched since, is long unused, has a clean_up() and  *)
(* can be swapped is input of the steps that ask for it.                   *)
(***************************************************************************)
EXTENDS Integers, FiniteSets, Sequences, SequencesExt

CONSTANTS
  Objects,
  Master,       \* the master object, loaded again if it is destructed
  Watched,      \* the object the liveness properties look at
  None,
  MaxRefs,      \* bound: references to an object beside that of its list
  MaxLoads      \* bound: objects that are loaded, cloned or reactivated

ASSUME ProcessObjectsAssumption ==
  /\ {Master, Watched} \subseteq Objects /\ None \notin Objects
  /\ MaxRefs \in Nat /\ MaxLoads \in Nat \ {0}

VARIABLES
  objList,          \* obj_list .. obj_list_end
  newlyDestructed,  \* newly_destructed_objs
  destructed,       \* destructed_objs
  refs,             \* object -> its references beside that of its list
  lastRefGone,      \* dest_last_ref_gone
  due,              \* objects with time_reset in the past
  loads,            \* number of objects loaded so far
  pc,               \* where the driver is, "backend" outside process_objects()
  obj,              \* process_objects(): the object it works on
  processed,        \* num_last_processed
  visited,          \* which objects those are, of the ones that still exist
  didReset,
  didSwap,
  clock             \* "enough": no alarm comes in this call of
                    \* process_objects(); "running": it may; "over": it came

lists == <<objList, newlyDestructed, destructed>>
counters == <<processed, visited, didReset, didSwap>>
vars == <<lists, refs, lastRefGone, due, loads, pc, obj, counters, clock>>

(* comm_time_to_call_heart_beat                                            *)
TimeIsUp == clock = "over"

(* LPC code runs: commands, heart beats and call_outs of the backend, or   *)
(* the reset() or clean_up() that process_objects() called.                *)
Running == pc \in {"backend", "reset", "cleanup"}

Exists(o) == Contains(objList, o) \/ o \in newlyDestructed \cup destructed

(***************************************************************************)
(* The life of an object.                                                  *)
(***************************************************************************)
(* At the head of the list, as all that are new.                           *)
Load(o) ==
  /\ Running /\ ~Exists(o) /\ loads < MaxLoads
  /\ objList' = <<o>> \o objList
  /\ loads' = loads + 1
  /\ visited' = visited \ {o}
  /\ refs' = [refs EXCEPT ![o] = 0]
  /\ UNCHANGED <<newlyDestructed, destructed, lastRefGone, due, pc, obj,
                 processed, didReset, didSwap, clock>>

RefObject(o) ==
  /\ Running /\ Contains(objList, o) /\ refs[o] < MaxRefs
  /\ refs' = [refs EXCEPT ![o] = @ + 1]
  /\ UNCHANGED <<lists, lastRefGone, due, loads, pc, obj, counters, clock>>

(* Mutant: tests the counter after it was decremented.                     *)
FreeObjectLate(o) ==
  /\ Running /\ Exists(o) /\ refs[o] > 0
  /\ refs' = [refs EXCEPT ![o] = @ - 1]
  /\ lastRefGone' = (lastRefGone \/ refs'[o] = 1)
  /\ UNCHANGED <<lists, due, loads, pc, obj, counters, clock>>

FreeObject(o) ==
  /\ Running /\ Exists(o) /\ refs[o] > 0
  /\ refs' = [refs EXCEPT ![o] = @ - 1]
  /\ lastRefGone' = (lastRefGone \/ refs[o] = 1)
  /\ UNCHANGED <<lists, due, loads, pc, obj, counters, clock>>

Destruct(o) ==
  /\ Running
  /\ \E i \in DOMAIN objList : /\ objList[i] = o
                               /\ objList' = RemoveAt(objList, i)
  /\ newlyDestructed' = newlyDestructed \cup {o}
  /\ due' = due \ {o}
  /\ UNCHANGED <<destructed, refs, lastRefGone, loads, pc, obj, counters, clock>>

(* Mutant: only looks in the list of the newly destructed ones.            *)
ReactivateNewMaster ==
  /\ Running /\ refs[Master] > 0 /\ loads < MaxLoads
  /\ Master \in newlyDestructed \cup destructed
  /\ newlyDestructed' = newlyDestructed \ {Master}
  /\ objList' = <<Master>> \o objList
  /\ visited' = visited \ {Master}
  /\ loads' = loads + 1
  /\ UNCHANGED <<destructed, refs, lastRefGone, due, pc, obj, processed, didReset,
                 didSwap, clock>>

(* assert_master_ob_loaded(): no new master could be loaded, so the old    *)
(* one is taken back from the list it is in; it was kept by a reference.   *)
ReactivateMaster ==
  /\ Running /\ refs[Master] > 0 /\ loads < MaxLoads
  /\ Master \in newlyDestructed \cup destructed
  /\ newlyDestructed' = newlyDestructed \ {Master}
  /\ destructed' = destructed \ {Master}
  /\ objList' = <<Master>> \o objList
  /\ visited' = visited \ {Master}
  /\ loads' = loads + 1
  /\ UNCHANGED <<refs, lastRefGone, due, pc, obj, processed, didReset, didSwap,
                 clock>>

(* handle_newly_destructed_objects() and remove_object(): those that have  *)
(* no other reference are freed, the others go to the second list.         *)
Kept(list) == {o \in list : refs[o] > 0}

(* remove_destructed_objects(FALSE) looks only if a last reference went.   *)
RemoveDestructed(list) == IF lastRefGone THEN Kept(list) ELSE list

CleanupStuff ==
  /\ pc = "backend" /\ newlyDestructed # {}
  /\ destructed' = Kept(newlyDestructed) \cup destructed
  /\ newlyDestructed' = {}
  /\ UNCHANGED <<objList, refs, lastRefGone, due, loads, pc, obj, counters, clock>>

(* garbage_collection() does both, by force, and counts anew.              *)
GarbageCollection ==
  /\ pc = "backend" /\ newlyDestructed \cup destructed # {}
  /\ destructed' = Kept(newlyDestructed \cup destructed)
  /\ newlyDestructed' = {}
  /\ lastRefGone' = FALSE
  /\ UNCHANGED <<objList, refs, due, loads, pc, obj, counters, clock>>

(* The time of the next reset of an object passes.                         *)
TimePasses(o) ==
  /\ pc = "backend" /\ Contains(objList, o) /\ o \notin due
  /\ due' = due \cup {o}
  /\ UNCHANGED <<lists, refs, lastRefGone, loads, pc, obj, counters, clock>>

(***************************************************************************)
(* process_objects().                                                      *)
(***************************************************************************)
Alarm ==
  /\ pc # "backend" /\ clock = "running"
  /\ clock' = "over"
  /\ UNCHANGED <<lists, refs, lastRefGone, due, loads, pc, obj, counters>>

(* From backend(): with the alarm that came in the heart beats or not.     *)
Start(c) ==
  /\ pc = "backend"
  /\ pc' = "loop" /\ clock' = c
  /\ destructed' = RemoveDestructed(destructed)
  /\ lastRefGone' = FALSE
  /\ processed' = 0 /\ visited' = {}
  /\ didReset' = FALSE /\ didSwap' = FALSE
  /\ UNCHANGED <<objList, newlyDestructed, refs, due, loads, obj>>

(* Mutant: the last bound off by one.                                      *)
GoesOnOnce ==
  /\ objList # << >>
  /\ ~didReset \/ ~didSwap \/ ~TimeIsUp
  /\ processed <= Len(objList)

GoesOn ==
  /\ objList # << >>
  /\ ~didReset \/ ~didSwap \/ ~TimeIsUp
  /\ processed < Len(objList)

Visit ==
  /\ pc = "loop" /\ GoesOn
  /\ pc' = "visit" /\ obj' = Head(objList)
  /\ processed' = processed + 1
  /\ visited' = visited \cup {Head(objList)}
  /\ objList' = Append(Tail(objList), Head(objList))
  /\ UNCHANGED <<newlyDestructed, destructed, refs, lastRefGone, due, loads,
                 didReset, didSwap, clock>>

(* Mutant: one reset in a call, however much time is left.                 *)
MayResetOnce == obj \in due /\ ~didReset

MayReset == obj \in due /\ (~didReset \/ ~TimeIsUp)

(* Nobody used the object since its last reset: only the time is set.      *)
ResetVirtually ==
  /\ pc = "visit" /\ obj \in due
  /\ pc' = "unused" /\ due' = due \ {obj}
  /\ UNCHANGED <<lists, refs, lastRefGone, loads, obj, counters, clock>>

CallReset ==
  /\ pc = "visit" /\ MayReset
  /\ pc' = "reset" /\ didReset' = TRUE /\ due' = due \ {obj}
  /\ UNCHANGED <<lists, refs, lastRefGone, loads, obj, processed, visited,
                 didSwap, clock>>

(* load_ob_from_swap() has no memory: the reset stays due.                 *)
ResetFailsToLoad ==
  /\ pc = "visit" /\ MayReset
  /\ pc' = "loop"
  /\ UNCHANGED <<lists, refs, lastRefGone, due, loads, obj, counters, clock>>

NoReset ==
  /\ pc = "visit" /\ ~MayReset
  /\ pc' = "unused"
  /\ UNCHANGED <<lists, refs, lastRefGone, due, loads, obj, counters, clock>>

(* cleanup_stuff() and remove_destructed_objects() come before the call.   *)
CallCleanUp ==
  /\ pc = "unused" /\ (~didSwap \/ ~TimeIsUp)
  /\ pc' = "cleanup" /\ didSwap' = TRUE
  /\ destructed' = RemoveDestructed(Kept(newlyDestructed) \cup destructed)
  /\ newlyDestructed' = {}
  /\ lastRefGone' = FALSE
  /\ UNCHANGED <<objList, refs, due, loads, obj, processed, visited, didReset,
                 clock>>

NoCleanUp ==
  /\ pc = "unused"
  /\ pc' = "swap"
  /\ UNCHANGED <<lists, refs, lastRefGone, due, loads, obj, counters, clock>>

(* reset() or clean_up() is over; it may have destructed the object.       *)
CallReturns ==
  /\ pc \in {"reset", "cleanup"}
  /\ pc' = IF Contains(objList, obj) THEN "swap" ELSE "loop"
  /\ UNCHANGED <<lists, refs, lastRefGone, due, loads, obj, counters, clock>>

(* The error context of process_objects() goes on with the loop.           *)
CallFails ==
  /\ pc \in {"reset", "cleanup"}
  /\ pc' = "loop"
  /\ UNCHANGED <<lists, refs, lastRefGone, due, loads, obj, counters, clock>>

SwapOut ==
  /\ pc = "swap" /\ (~didSwap \/ ~TimeIsUp)
  /\ pc' = "loop" /\ didSwap' = TRUE
  /\ UNCHANGED <<lists, refs, lastRefGone, due, loads, obj, processed, visited,
                 didReset, clock>>

NoSwap ==
  /\ pc = "swap"
  /\ pc' = "loop"
  /\ UNCHANGED <<lists, refs, lastRefGone, due, loads, obj, counters, clock>>

End ==
  /\ pc = "loop" /\ ~GoesOn
  /\ pc' = "backend" /\ obj' = None /\ clock' = "running"
  /\ processed' = 0 /\ visited' = {}
  /\ didReset' = FALSE /\ didSwap' = FALSE
  /\ UNCHANGED <<lists, refs, lastRefGone, due, loads>>

Init ==
  /\ objList = <<Master>> /\ newlyDestructed = {} /\ destructed = {}
  /\ refs = [o \in Objects |-> 0] /\ lastRefGone = FALSE
  /\ due = {} /\ loads = 1
  /\ pc = "backend" /\ obj = None /\ processed = 0 /\ visited = {}
  /\ didReset = FALSE /\ didSwap = FALSE /\ clock = "running"

Step ==
  \/ Visit \/ ResetVirtually \/ CallReset \/ ResetFailsToLoad \/ NoReset
  \/ CallCleanUp \/ NoCleanUp \/ CallReturns \/ CallFails
  \/ SwapOut \/ NoSwap \/ End

Next ==
  \/ \E o \in Objects : Load(o) \/ RefObject(o) \/ FreeObject(o) \/ Destruct(o)
  \/ ReactivateMaster \/ CleanupStuff \/ GarbageCollection
  \/ \E o \in Objects : TimePasses(o)
  \/ Alarm \/ Step
  \/ \E c \in {"enough", "running", "over"} : Start(c)

Spec == Init /\ [][Next]_vars

(* The driver runs on, an evaluation comes to its end by the limit of its  *)
(* cost, a mud is not overloaded for ever and not out of memory for ever.  *)
Fairness ==
  /\ WF_vars(Step) /\ SF_vars(CleanupStuff)
  /\ SF_vars(Start("enough"))
  /\ SF_vars(obj = Watched /\ CallReset)

FairSpec == Spec /\ Fairness

(***************************************************************************)
(* Properties.                                                             *)
(***************************************************************************)
(* Types; an object is in one list at most, once.                          *)
TypeOK ==
  /\ objList \in Seq(Objects) /\ IsInjective(objList)
  /\ newlyDestructed \cup destructed \subseteq Objects
  /\ newlyDestructed \cap destructed = {}
  /\ \A i \in DOMAIN objList : objList[i] \notin newlyDestructed \cup destructed
  /\ refs \in [Objects -> 0 .. MaxRefs]
  /\ due \cup visited \subseteq Objects
  /\ \A o \in due : Contains(objList, o)
  /\ pc \in {"backend", "loop", "visit", "unused", "reset", "cleanup", "swap"}
  /\ obj \in Objects \cup {None} /\ (obj = None <=> pc = "backend" \/ processed = 0)
  /\ processed \in 0 .. MaxLoads /\ loads \in 1 .. MaxLoads
  /\ didReset \in BOOLEAN /\ didSwap \in BOOLEAN /\ lastRefGone \in BOOLEAN
  /\ clock \in {"enough", "running", "over"}

(* "Objects are moved to the end of the list before they are processed, so *)
(* that a the next object to handle is always the first object in the      *)
(* list.  Even arbitrary object destruction doesn't change this": no call  *)
(* of process_objects() handles an object twice, whatever is destructed,   *)
(* loaded or fails meanwhile.                                              *)
NobodyTwice == [][processed' = processed + 1 => Head(objList) \notin visited]_vars

(* A reset that is due is made at last, or the object is destructed.       *)
DueIsReset == Watched \in due ~> Watched \notin due

(* A destructed object that nobody refers to any more is freed, although   *)
(* its list is only searched after the flag was set.                       *)
IsUnreferenced == /\ Watched \in newlyDestructed \cup destructed
                  /\ refs[Watched] = 0

DestructedAreFreed == IsUnreferenced ~> ~IsUnreferenced
=============================================================================
