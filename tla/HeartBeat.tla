------------------------------ MODULE HeartBeat ------------------------------
(***************************************************************************)
(* The heart beats of the driver (src/src/heartbeat.c), with the callers   *)
(* that drive them: the timed section of the backend, the alarm handler,   *)
(* errorf()'s treatment of an error in a heart beat, and destruct().       *)
(*                                                                         *)
(* The objects with a heart beat form a list that is processed round-robin *)
(* from next_hb on.  A round ends when an object is met whose last beat is *)
(* not long enough ago, or when the next alarm comes; the next round goes  *)
(* on where it stopped.  The LPC code of a heart beat turns heart beats on *)
(* and off and destructs objects while the round is under way.             *)
(***************************************************************************)
EXTENDS Integers, Sequences, SequencesExt

CONSTANTS
  Objects,     \* the objects of the game
  Beatless,    \* those whose program has no heart_beat()
  NoObject,    \* a NULL pointer
  Interval,    \* heart_beat_interval
  Synch,       \* the values synch_heart_beats may have been given at the start
  MayDisable,  \* whether LPC code uses configure_driver(DC_ENABLE_HEART_BEATS)
  StartTime,   \* bound: current_time when the driver starts
  ClockSteps,  \* bound: the changes of current_time between two alarms
  MaxTime      \* bound: current_time stays below or at this

ASSUME HeartBeatAssumption ==
  /\ Beatless \subseteq Objects
  /\ NoObject \notin Objects
  /\ Interval \in Nat \ {0}
  /\ Synch \subseteq BOOLEAN
  /\ MayDisable \in BOOLEAN
  /\ StartTime \in Nat \ {0}
  /\ ClockSteps \subseteq Nat
  /\ MaxTime \in Nat
  /\ StartTime <= MaxTime

VARIABLES
  hbList,        \* hb_list, as the sequence of the objects of its nodes
  nextHb,        \* the object of next_hb
  hbFlags,       \* the objects with O_HEART_BEAT
  numHbObjs,     \* num_hb_objs
  tlast,         \* tlast of the node of an object
  synch,         \* synch_heart_beats
  enabled,       \* heart_beats_enabled
  alarm,         \* comm_time_to_call_heart_beat
  currentTime,   \* current_time
  timeOfLastHb,  \* time_of_last_hb
  phase,         \* what runs: other LPC code, the loop, a beat, an error
  currentHb,     \* current_heart_beat
  culprit,       \* the object whose beat failed, while the master is asked
  destructed,    \* the objects with O_DESTRUCTED
  lastBeat       \* history: the time of the last beat of an object, 0 if none

hbVars == <<hbList, nextHb, hbFlags, numHbObjs, tlast>>
timeVars == <<currentTime, timeOfLastHb, synch>>
runVars == <<phase, currentHb, culprit>>
vars == <<hbVars, timeVars, runVars, enabled, alarm, destructed, lastBeat>>

\* LPC code runs in the backend's other work, in a beat, and in the master
\* while it handles the error of a beat.
LpcPhases == {"idle", "beat", "error"}
Phases == LpcPhases \cup {"loop"}

-----------------------------------------------------------------------------
(* The list.                                                               *)

Index(ob) == CHOOSE i \in DOMAIN hbList : hbList[i] = ob

\* The object of the next pointer of an object's node.
After(ob) ==
  IF Index(ob) = Len(hbList) THEN NoObject ELSE hbList[Index(ob) + 1]

\* The node is unlinked and freed.
Unlink(ob) ==
  /\ hbList' = RemoveAt(hbList, Index(ob))
  /\ hbFlags' = hbFlags \ {ob}
  /\ numHbObjs' = numHbObjs - 1
  /\ tlast' = [tlast EXCEPT ![ob] = 0]

\* Mutant: next_hb is left on the freed node.
TurnOffDangling(ob) ==
  IF ob \in destructed \/ ob \notin hbFlags
  THEN UNCHANGED hbVars
  ELSE Unlink(ob) /\ UNCHANGED nextHb

\* set_heart_beat(ob, FALSE).
TurnOff(ob) ==
  IF ob \in destructed \/ ob \notin hbFlags
  THEN UNCHANGED hbVars
  ELSE /\ Unlink(ob)
       /\ nextHb' = IF nextHb = ob THEN After(ob) ELSE nextHb

\* The new node goes to the head when next_hb is, or stands for, the head.
NextIsHead == hbList = <<>> \/ nextHb = NoObject \/ nextHb = Head(hbList)

\* Mutant: the new node is always put at the head of the list.
TurnOnAtHead(ob) ==
  IF ob \in destructed \/ ob \in hbFlags
  THEN UNCHANGED hbVars
  ELSE /\ hbList' = <<ob>> \o hbList
       /\ nextHb' = IF nextHb = NoObject /\ hbList # <<>> THEN Head(hbList) ELSE nextHb
       /\ hbFlags' = hbFlags \cup {ob}
       /\ numHbObjs' = numHbObjs + 1
       /\ tlast' = [tlast EXCEPT ![ob] = currentTime]

\* Mutant: a new heart beat is due at once.
TurnOnDue(ob) ==
  IF ob \in destructed \/ ob \in hbFlags
  THEN UNCHANGED hbVars
  ELSE /\ hbList' = <<ob>> \o hbList
       /\ nextHb' = nextHb
       /\ hbFlags' = hbFlags \cup {ob}
       /\ numHbObjs' = numHbObjs + 1
       /\ tlast' = [tlast EXCEPT ![ob] = 0]

\* set_heart_beat(ob, TRUE): the node is put where it is reached last.
TurnOn(ob) ==
  IF ob \in destructed \/ ob \in hbFlags
  THEN UNCHANGED hbVars
  ELSE /\ hbList' = IF NextIsHead
                    THEN <<ob>> \o hbList
                    ELSE InsertAt(hbList, Index(nextHb), ob)
       /\ nextHb' = IF nextHb = NoObject /\ hbList # <<>> THEN Head(hbList) ELSE nextHb
       /\ hbFlags' = hbFlags \cup {ob}
       /\ numHbObjs' = numHbObjs + 1
       /\ tlast' = [tlast EXCEPT ![ob] = currentTime]

-----------------------------------------------------------------------------
(* LPC code.                                                               *)

\* configure_object(OC_HEART_BEAT).
SetHeartBeat(ob, to) ==
  /\ phase \in LpcPhases
  /\ IF to THEN TurnOn(ob) ELSE TurnOff(ob)
  /\ UNCHANGED <<timeVars, runVars, enabled, alarm, destructed, lastBeat>>

\* destruct() turns the heart beat off, then marks the object.
Destruct(ob) ==
  /\ phase \in LpcPhases
  /\ ob \notin destructed
  /\ TurnOff(ob)
  /\ destructed' = destructed \cup {ob}
  /\ UNCHANGED <<timeVars, runVars, enabled, alarm, lastBeat>>

\* configure_driver(DC_ENABLE_HEART_BEATS).
EnableHeartBeats ==
  /\ MayDisable
  /\ phase \in LpcPhases
  /\ enabled' = ~enabled
  /\ UNCHANGED <<hbVars, timeVars, runVars, alarm, destructed, lastBeat>>

-----------------------------------------------------------------------------
(* The driver.                                                             *)

\* catch_alarm(), a signal handler: it may interrupt anything.
Alarm ==
  /\ ~alarm
  /\ alarm' = TRUE
  /\ UNCHANGED <<hbVars, timeVars, runVars, enabled, destructed, lastBeat>>

\* The backend's timed section up to the loop of call_heart_beat().
StartCycle(step) ==
  /\ phase = "idle"
  /\ alarm
  /\ alarm' = FALSE
  /\ currentTime + step <= MaxTime
  /\ currentTime' = currentTime + step
  /\ IF synch /\ timeOfLastHb + Interval > currentTime'
     THEN UNCHANGED <<hbVars, timeOfLastHb, phase>>
     ELSE IF enabled /\ numHbObjs > 0
          THEN phase' = "loop" /\ UNCHANGED <<hbVars, timeOfLastHb>>
          ELSE /\ nextHb' = NoObject
               /\ timeOfLastHb' = currentTime'
               /\ UNCHANGED <<hbList, hbFlags, numHbObjs, tlast, phase>>
  /\ UNCHANGED <<currentHb, culprit, synch, enabled, destructed, lastBeat>>

\* The object whose turn it is: behind the last node comes the first.
This == IF nextHb = NoObject THEN Head(hbList) ELSE nextHb

IsDue(ob) == currentTime >= tlast[ob] + Interval

\* The loop goes on with the object whose turn it is.
LoopReaches(ob) ==
  /\ phase = "loop"
  /\ numHbObjs > 0
  /\ ~alarm
  /\ ob = This
  /\ IsDue(ob)

\* Mutant: a round always starts at the head of the list.
BeatFromHead(ob) ==
  /\ LoopReaches(ob)
  /\ ob \notin Beatless
  /\ tlast' = [tlast EXCEPT ![ob] = currentTime]
  /\ nextHb' = NoObject
  /\ currentHb' = ob
  /\ lastBeat' = [lastBeat EXCEPT ![ob] = currentTime]
  /\ phase' = "beat"
  /\ UNCHANGED <<hbList, hbFlags, numHbObjs, timeVars, culprit, enabled, alarm, destructed>>

\* heart_beat() is called in the object.
Beat(ob) ==
  /\ LoopReaches(ob)
  /\ ob \notin Beatless
  /\ tlast' = [tlast EXCEPT ![ob] = currentTime]
  /\ nextHb' = After(ob)
  /\ currentHb' = ob
  /\ lastBeat' = [lastBeat EXCEPT ![ob] = currentTime]
  /\ phase' = "beat"
  /\ UNCHANGED <<hbList, hbFlags, numHbObjs, timeVars, culprit, enabled, alarm, destructed>>

\* Mutant: the object is counted off twice.
DropBeatlessTwice(ob) ==
  /\ LoopReaches(ob)
  /\ ob \in Beatless
  /\ nextHb' = After(ob)
  /\ hbList' = RemoveAt(hbList, Index(ob))
  /\ hbFlags' = hbFlags \ {ob}
  /\ numHbObjs' = numHbObjs - 2
  /\ tlast' = [tlast EXCEPT ![ob] = 0]
  /\ UNCHANGED <<timeVars, runVars, enabled, alarm, destructed, lastBeat>>

\* The object has no heart_beat(): its heart beat is turned off.
DropBeatless(ob) ==
  /\ LoopReaches(ob)
  /\ ob \in Beatless
  /\ nextHb' = After(ob)
  /\ Unlink(ob)
  /\ UNCHANGED <<timeVars, runVars, enabled, alarm, destructed, lastBeat>>

\* heart_beat() returned; or it failed while no heart beat is recorded any
\* more, or while the master itself fails (then nothing is turned off).
BeatReturns ==
  /\ phase = "beat"
  /\ phase' = "loop"
  /\ UNCHANGED <<hbVars, timeVars, currentHb, culprit, enabled, alarm, destructed, lastBeat>>

\* errorf(), called in a beat: the heart beat is turned off and the master's
\* runtime_error() and heart_beat_error() run.
BeatFails ==
  /\ phase = "beat"
  /\ currentHb # NoObject
  /\ culprit' = currentHb
  /\ currentHb' = NoObject
  /\ TurnOff(currentHb)
  /\ phase' = "error"
  /\ UNCHANGED <<timeVars, enabled, alarm, destructed, lastBeat>>

\* The master wants the heart beat on again or not; a published catch goes
\* on with the beat, an error that is not caught goes back to the loop.
ErrorHandled(turnOn, caught) ==
  /\ phase = "error"
  /\ IF turnOn THEN TurnOn(culprit) ELSE UNCHANGED hbVars
  /\ culprit' = NoObject
  /\ phase' = IF caught THEN "beat" ELSE "loop"
  /\ UNCHANGED <<timeVars, currentHb, enabled, alarm, destructed, lastBeat>>

\* Mutant: the loop ends after any beat.
EndLoopAnyTime ==
  /\ phase = "loop"
  /\ phase' = "idle"
  /\ currentHb' = NoObject
  /\ timeOfLastHb' = currentTime
  /\ UNCHANGED <<hbVars, currentTime, synch, culprit, enabled, alarm, destructed, lastBeat>>

\* No object left, an alarm, or an object that is not due.
EndLoop ==
  /\ phase = "loop"
  /\ IF numHbObjs = 0 \/ alarm THEN TRUE ELSE ~IsDue(This)
  /\ phase' = "idle"
  /\ currentHb' = NoObject
  /\ timeOfLastHb' = currentTime
  /\ UNCHANGED <<hbVars, currentTime, synch, culprit, enabled, alarm, destructed, lastBeat>>

Init ==
  /\ hbList = <<>>
  /\ nextHb = NoObject
  /\ hbFlags = {}
  /\ numHbObjs = 0
  /\ tlast = [ob \in Objects |-> 0]
  /\ synch \in Synch
  /\ enabled = TRUE
  /\ alarm = FALSE
  /\ currentTime = StartTime
  /\ timeOfLastHb = 0
  /\ phase = "idle"
  /\ currentHb = NoObject
  /\ culprit = NoObject
  /\ destructed = {}
  /\ lastBeat = [ob \in Objects |-> 0]

LoopStep == \E ob \in Objects : Beat(ob) \/ DropBeatless(ob)

ErrorStep == \E turnOn, caught \in BOOLEAN : ErrorHandled(turnOn, caught)

Next ==
  \/ \E ob \in Objects, to \in BOOLEAN : SetHeartBeat(ob, to)
  \/ \E ob \in Objects : Destruct(ob)
  \/ EnableHeartBeats
  \/ Alarm
  \/ \E step \in ClockSteps : StartCycle(step)
  \/ LoopStep
  \/ BeatReturns
  \/ BeatFails
  \/ ErrorStep
  \/ EndLoop

Spec == Init /\ [][Next]_vars

\* Alarms keep coming and the single thread goes on with what it does.  The
\* alarm may come before the loop has called anybody, but not every time: an
\* alarm comes at the earliest a second after the one before.
FairSpec ==
  /\ Spec
  /\ WF_vars(Alarm)
  /\ WF_vars(\E step \in ClockSteps : StartCycle(step))
  /\ SF_vars(LoopStep)
  /\ WF_vars(BeatReturns)
  /\ WF_vars(ErrorStep)
  /\ WF_vars(EndLoop)

-----------------------------------------------------------------------------
(* Properties.                                                             *)

TypeOK ==
  /\ hbList \in Seq(Objects)
  /\ nextHb \in Objects \cup {NoObject}
  /\ hbFlags \subseteq Objects
  /\ numHbObjs \in Nat
  /\ tlast \in [Objects -> Nat]
  /\ synch \in BOOLEAN
  /\ enabled \in BOOLEAN
  /\ alarm \in BOOLEAN
  /\ currentTime \in Nat
  /\ timeOfLastHb \in Nat
  /\ phase \in Phases
  /\ currentHb \in Objects \cup {NoObject}
  /\ culprit \in Objects \cup {NoObject}
  /\ destructed \subseteq Objects
  /\ lastBeat \in [Objects -> Nat]

\* The flag of an object, its node and the counter agree, next_hb is never a
\* freed node, and no destructed object is left in the list: whatever LPC
\* code turns on, off or destructs in the middle of a round.
ListIsConsistent ==
  /\ IsInjective(hbList)
  /\ ToSet(hbList) = hbFlags
  /\ numHbObjs = Len(hbList)
  /\ nextHb \in hbFlags \cup {NoObject}
  /\ hbFlags \cap destructed = {}

\* The list in the order in which the loop visits it.
Round ==
  IF nextHb = NoObject
  THEN hbList
  ELSE SubSeq(hbList, Index(nextHb), Len(hbList))
         \o SubSeq(hbList, 1, Index(nextHb) - 1)

\* The loop visits the objects in the order of their last beats: the test
\* that ends a round at the first object that is not due relies on it.
VisitsOldestFirst ==
  \A i, j \in DOMAIN Round : i < j => tlast[Round[i]] <= tlast[Round[j]]

\* call_heart_beat(), comment: it calls all objects whose beat is due, unless
\* an alarm stops it.
NoneDueLeft ==
  [][phase = "loop" /\ phase' = "idle" /\ ~alarm =>
       \A ob \in hbFlags : ~IsDue(ob)]_vars

\* Two beats of an object are never less than the interval apart, even if
\* its heart beat is turned off and on again in between, by LPC code or by
\* the master after an error.
BeatSpacing ==
  [][\A ob \in Objects :
       phase = "loop" /\ phase' = "beat" /\ currentHb' = ob /\ lastBeat[ob] # 0
         => currentTime >= lastBeat[ob] + Interval]_vars

\* Every object that is due gets its beat or loses its heart beat, also when
\* an alarm interrupts every single round.
NobodyStarves ==
  \A ob \in Objects : (ob \in hbFlags /\ IsDue(ob)) ~> ~(ob \in hbFlags /\ IsDue(ob))
=============================================================================
