------------------------------- MODULE CallOut -------------------------------
(***************************************************************************)
(* The delayed calls of the driver (src/src/call_out.c) and the part of    *)
(* the backend's timed section that drives them (src/src/backend.c).       *)
(*                                                                         *)
(* Pending call_outs form a list in which every entry stores the seconds   *)
(* it is to wait after its predecessor.  Once per alarm the backend takes  *)
(* the time that passed off the first entry, runs the heart beats (which   *)
(* may use the efuns on the list) and then call_out() executes every entry *)
(* that is due, while the LPC code it runs adds, removes and destructs.    *)
(*                                                                         *)
(* An object stands for one function to call in it, so two entries of one  *)
(* object are two pending calls of the same function.                      *)
(***************************************************************************)
EXTENDS Integers, Sequences, SequencesExt

CONSTANTS
  Objects,      \* the objects that call_outs are made for
  LwObjects,    \* those of them that are lightweight objects
  Livings,      \* those of them with O_ENABLE_COMMANDS
  Users,        \* the wizlist entries that own objects
  Owner,        \* the wizlist entry of an object (object_t.user)
  ShadowEnd,    \* the object that an object shadows, or itself
  NoObject,     \* a NULL object pointer
  NoCall,       \* a NULL call pointer
  MaxCallouts,  \* max_callouts
  MaxEvalCost,  \* the eval cost at which an evaluation is aborted
  Delays,       \* bound: the delays LPC code asks for
  StartTime,    \* bound: current_time when the driver starts
  ClockSteps,   \* bound: the changes of current_time between two alarms
  MaxTime       \* bound: current_time stays below or at this

ASSUME CallOutAssumption ==
  /\ LwObjects \subseteq Objects
  /\ Livings \subseteq Objects \ LwObjects
  /\ Owner \in [Objects -> Users]
  /\ ShadowEnd \in [Objects -> Objects]
  /\ NoObject \notin Objects
  /\ MaxCallouts \in Nat \ {0}
  /\ MaxEvalCost \in Nat \ {0}
  /\ Delays \subseteq Int
  /\ ClockSteps \subseteq Int
  /\ MaxTime \in Nat
  /\ StartTime \in 1..MaxTime

VARIABLES
  callList,       \* call_list
  numCallouts,    \* num_callouts
  lastTime,       \* last_time of next_call_out_cycle(), 0 when not set yet
  currentTime,    \* current_time
  lastCallOut,    \* last_call_out of each user
  callOutCost,    \* call_out_cost of each user
  destructed,     \* the objects with O_DESTRUCTED
  commandGiver,   \* command_giver
  current,        \* current_call_out while its function runs
  asker,          \* the object whose ERQ callback runs
  evalCost,       \* eval_cost of the call_out or ERQ callback that runs
  phase,          \* what the backend is doing
  spent           \* history: what each user's call_outs and ERQ callbacks cost
                  \* in this second (since the last ERQ callback that failed)

listVars == <<callList, numCallouts>>
timeVars == <<lastTime, currentTime>>
userVars == <<lastCallOut, callOutCost, spent>>
runVars  == <<current, asker, evalCost>>
vars == <<listVars, timeVars, userVars, runVars, destructed, commandGiver, phase>>

(***************************************************************************)
(* A struct call.  "delta", "ob" and "cg" are its fields; the others are   *)
(* history: the time the caller asked for, and whether no overdue entry    *)
(* was at the head of the list when it was inserted.                       *)
(***************************************************************************)
Calls == [ob : Objects, cg : Objects \cup {NoObject}, delta : Int,
          due : Int, onTime : BOOLEAN]

\* The cost of LPC code is counted for a user while a call_out runs, or the
\* callback for an answer of the ERQ demon, or runtime_error() after it failed.
BilledPhases == {"running", "answer", "failed"}

\* LPC code also runs in player commands and in heart beats, and in
\* runtime_error() after a call_out failed.
LpcPhases == BilledPhases \cup {"commands", "heartbeats", "reporting"}
Phases == LpcPhases \cup {"loop"}

Max2(a, b) == IF a >= b THEN a ELSE b

-----------------------------------------------------------------------------
(* The list.                                                               *)

AddToHead(list, d) ==
  IF list = <<>> THEN list ELSE [list EXCEPT ![1].delta = @ + d]

\* The seconds that call i still has to wait: the deltas up to it.
Waits(list) ==
  LET w[i \in 0..Len(list)] == IF i = 0 THEN 0 ELSE w[i - 1] + list[i].delta
  IN  w

\* What is left of the delay when insert_call() has walked past i calls.
Rest(list, delay) ==
  LET r[i \in 0..Len(list)] == IF i = 0 THEN delay ELSE r[i - 1] - Max2(list[i].delta, 0)
  IN  r

\* Mutant: the walk stops at a call with the same delay instead of behind it.
InsertIndexLifo(list, delay) ==
  CHOOSE i \in 1..(Len(list) + 1) :
    /\ i = Len(list) + 1 \/ list[i].delta >= Rest(list, delay)[i - 1]
    /\ \A j \in 1..(i - 1) : list[j].delta < Rest(list, delay)[j - 1]

\* The first call that waits longer than what is left of the delay.
InsertIndex(list, delay) ==
  CHOOSE i \in 1..(Len(list) + 1) :
    /\ i = Len(list) + 1 \/ list[i].delta > Rest(list, delay)[i - 1]
    /\ \A j \in 1..(i - 1) : list[j].delta <= Rest(list, delay)[j - 1]

\* Inserting a call puts it between two others whose deltas it splits.
InsertCall(list, call, delay) ==
  LET i    == InsertIndex(list, delay)
      rest == Rest(list, delay)[i - 1]
  IN  SubSeq(list, 1, i - 1)
        \o <<[call EXCEPT !.delta = rest]>>
        \o AddToHead(SubSeq(list, i, Len(list)), -rest)

\* Mutant: the call behind the removed one does not inherit its delta.
RemoveCallNoInherit(list, i) == RemoveAt(list, i)

\* Unlink call i; the next call inherits its delta.
RemoveCall(list, i) ==
  SubSeq(list, 1, i - 1)
    \o AddToHead(SubSeq(list, i + 1, Len(list)), list[i].delta)

\* remove_stale_call_outs(): unlink the calls of destructed objects (here the
\* last one first, so that those still to come keep their place).
RemoveStale(list) ==
  LET left[n \in 0..Len(list)] ==
        IF n = 0 THEN list
        ELSE LET i == Len(list) + 1 - n IN
             IF list[i].ob \in destructed THEN RemoveCall(left[n - 1], i) ELSE left[n - 1]
  IN  left[Len(list)]

\* A call made now: the time it asks for is counted from current_time.
NewCall(ob, delay, cg) ==
  [ob |-> ob, cg |-> cg, delta |-> 0, due |-> currentTime + delay,
   onTime |-> callList = <<>> \/ callList[1].delta >= 0]

-----------------------------------------------------------------------------
(* The efuns, called by LPC code.                                          *)

\* The object whose call_out or ERQ callback runs: its user pays.
Runner == IF phase = "running" THEN current.ob ELSE asker

\* An LPC operation there adds to the eval cost, below the limit; a negative
\* cost, that of a blocked user, counts as one above the limit.
Evaluate ==
  IF phase \in BilledPhases
  THEN /\ evalCost \in 0..(MaxEvalCost - 1)
       /\ evalCost' = evalCost + 1
       /\ spent' = [spent EXCEPT ![Owner[Runner]] = @ + 1]
  ELSE UNCHANGED <<evalCost, spent>>

\* call_out(): nothing happens in a destructed object, an error is raised
\* at max_callouts (RunError when it ends the call_out that runs).
CallOutEfun(ob, delay) ==
  /\ phase \in LpcPhases
  /\ ob \notin destructed
  /\ numCallouts < MaxCallouts
  /\ callList' = InsertCall(callList, NewCall(ob, Max2(delay, 0), commandGiver), Max2(delay, 0))
  /\ numCallouts' = numCallouts + 1
  /\ Evaluate
  /\ UNCHANGED <<timeVars, lastCallOut, callOutCost, current, asker,
                 destructed, commandGiver, phase>>

\* Mutant: the counter keeps counting a removed call.
RemoveCallOutEfunNoCount(ob) ==
  LET i == SelectInSeq(callList, LAMBDA call : call.ob = ob)
  IN  /\ phase \in LpcPhases
      /\ i # 0
      /\ callList' = RemoveCall(callList, i)
      /\ Evaluate
      /\ UNCHANGED <<numCallouts, timeVars, lastCallOut, callOutCost, current,
                     asker, destructed, commandGiver, phase>>

\* remove_call_out(): the first pending call of the object is taken out.
RemoveCallOutEfun(ob) ==
  LET i == SelectInSeq(callList, LAMBDA call : call.ob = ob)
  IN  /\ phase \in LpcPhases
      /\ i # 0
      /\ callList' = RemoveCall(callList, i)
      /\ numCallouts' = numCallouts - 1
      /\ Evaluate
      /\ UNCHANGED <<timeVars, lastCallOut, callOutCost, current, asker,
                     destructed, commandGiver, phase>>

\* destruct() marks the object; its calls stay in the list.
DestructEfun(ob) ==
  /\ phase \in LpcPhases
  /\ ob \notin destructed
  /\ destructed' = destructed \cup {ob}
  /\ commandGiver' = IF commandGiver = ob THEN NoObject ELSE commandGiver
  /\ Evaluate
  /\ UNCHANGED <<listVars, timeVars, lastCallOut, callOutCost, current, asker, phase>>

\* call_out_status(), from the efuns that report memory statistics.
StatusEfun ==
  /\ phase \in LpcPhases
  /\ callList' = RemoveStale(callList)
  /\ callList' # callList
  /\ numCallouts' = numCallouts - (Len(callList) - Len(callList'))
  /\ Evaluate
  /\ UNCHANGED <<timeVars, lastCallOut, callOutCost, current, asker,
                 destructed, commandGiver, phase>>

\* Other LPC code: it costs, and does not touch the list.
Compute ==
  /\ phase \in BilledPhases
  /\ Evaluate
  /\ UNCHANGED <<listVars, timeVars, lastCallOut, callOutCost, current, asker,
                 destructed, commandGiver, phase>>

Efun ==
  \/ \E ob \in Objects, delay \in Delays : CallOutEfun(ob, delay)
  \/ \E ob \in Objects : RemoveCallOutEfun(ob)
  \/ \E ob \in Objects \ LwObjects : DestructEfun(ob)
  \/ StatusEfun
  \/ Compute

-----------------------------------------------------------------------------
(* Answers of the ERQ demon.  get_message() bills their callbacks to the   *)
(* account that call_out() keeps for the user of the object, but does not  *)
(* ask whether the user is blocked.                                        *)

\* get_message() starts a callback, on what is left of the eval cost.
StartAnswer(ob) ==
  LET user == Owner[ob]
  IN  /\ phase = "commands"
      /\ asker' = ob
      /\ commandGiver' = NoObject
      /\ lastCallOut' = [lastCallOut EXCEPT ![user] = currentTime]
      /\ evalCost' = IF lastCallOut[user] = currentTime THEN callOutCost[user] ELSE 0
      /\ phase' = "answer"
      /\ UNCHANGED <<listVars, timeVars, callOutCost, spent, current, destructed>>

\* The callback failed: secure_apply_error() clears the eval cost and calls
\* runtime_error() in the master.
AnswerFails ==
  /\ phase = "answer"
  /\ evalCost' = 0
  /\ spent' = [spent EXCEPT ![Owner[asker]] = 0]
  /\ phase' = "failed"
  /\ UNCHANGED <<listVars, timeVars, lastCallOut, callOutCost, current, asker,
                 destructed, commandGiver>>

\* The callback returned, or runtime_error() for it, and eval_cost is noted.
\* (That of a blocked user only returns if it evaluates nothing, as in a
\* destructed object.)
AnswerReturns ==
  /\ phase \in {"answer", "failed"}
  /\ callOutCost' = [callOutCost EXCEPT ![Owner[asker]] = evalCost]
  /\ asker' = NoObject
  /\ evalCost' = 0
  /\ phase' = "commands"
  /\ UNCHANGED <<listVars, timeVars, lastCallOut, spent, current, destructed, commandGiver>>

AnswerStep ==
  \/ \E ob \in Objects : StartAnswer(ob)
  \/ AnswerFails
  \/ AnswerReturns

-----------------------------------------------------------------------------
(* The backend.                                                            *)

\* The backend runs a player command or a heart beat.
StartEvaluation(giver) ==
  /\ phase \in {"commands", "heartbeats"}
  /\ giver # commandGiver
  /\ commandGiver' = giver
  /\ UNCHANGED <<listVars, timeVars, userVars, runVars, destructed, phase>>

\* The calls made before the first cycle wait from that cycle on (history).
Rebase(list, step) ==
  [i \in DOMAIN list |-> [list[i] EXCEPT !.due = @ + step]]

\* The alarm: current_time is set and next_call_out_cycle() takes the time
\* since the last cycle off the first call.
NextCallOutCycle(step) ==
  /\ phase = "commands"
  /\ currentTime + step \in 1..MaxTime
  /\ currentTime' = currentTime + step
  /\ lastTime' = currentTime'
  /\ callList' = IF lastTime = 0
                 THEN Rebase(callList, step)
                 ELSE AddToHead(callList, lastTime - currentTime')
  /\ spent' = IF step = 0 THEN spent ELSE [u \in Users |-> 0]
  /\ phase' = "heartbeats"
  /\ UNCHANGED <<numCallouts, lastCallOut, callOutCost, runVars, destructed, commandGiver>>

\* The heart beats are done, call_out() starts.
StartCallOut ==
  /\ phase = "heartbeats"
  /\ phase' = "loop"
  /\ UNCHANGED <<listVars, timeVars, userVars, runVars, destructed, commandGiver>>

FirstIsDue == phase = "loop" /\ callList # <<>> /\ callList[1].delta <= 0

\* The user had an error in this cycle already.
Blocked(user) == lastCallOut[user] = currentTime /\ callOutCost[user] < 0

\* The object is destructed, or its program cannot be swapped in.
SkipCall ==
  /\ FirstIsDue
  /\ callList[1].ob \notin LwObjects
  /\ callList' = RemoveCall(callList, 1)
  /\ numCallouts' = numCallouts - 1
  /\ UNCHANGED <<timeVars, userVars, runVars, destructed, commandGiver, phase>>

\* Mutant: the call is put back without a delay.
PostponeCallAtOnce ==
  LET call == callList[1]
      rest == RemoveCall(callList, 1)
  IN  /\ FirstIsDue
      /\ call.ob \notin destructed
      /\ Blocked(Owner[call.ob])
      /\ callList' = InsertCall(rest, call, 0)
      /\ UNCHANGED <<numCallouts, timeVars, userVars, runVars, destructed,
                     commandGiver, phase>>

\* Put back the call of a blocked user for one second later.
PostponeCall ==
  LET call == callList[1]
      rest == RemoveCall(callList, 1)
  IN  /\ FirstIsDue
      /\ call.ob \notin destructed
      /\ Blocked(Owner[call.ob])
      /\ callList' = InsertCall(rest,
                       [call EXCEPT !.due = currentTime + 1,
                                    !.onTime = rest = <<>> \/ rest[1].delta >= 0], 1)
      /\ UNCHANGED <<numCallouts, timeVars, userVars, runVars, destructed,
                     commandGiver, phase>>

\* A shadow of a destructed object shadows nothing any more.
EndOfShadows(ob) == IF ShadowEnd[ob] \in destructed THEN ob ELSE ShadowEnd[ob]

\* The command giver of a call; a lightweight object without a saved one
\* leaves command_giver as the call before it left it.
GiverOf(call) ==
  CASE call.cg # NoObject -> IF call.cg \in destructed THEN NoObject ELSE call.cg
    [] call.cg = NoObject /\ call.ob \in LwObjects -> commandGiver
    [] OTHER -> IF EndOfShadows(call.ob) \in Livings THEN EndOfShadows(call.ob) ELSE NoObject

\* Mutant: every call starts with a fresh eval cost.
RunCallFreshCost ==
  LET call == callList[1]
      user == Owner[call.ob]
  IN  /\ FirstIsDue
      /\ call.ob \notin destructed
      /\ ~Blocked(user)
      /\ callList' = RemoveCall(callList, 1)
      /\ numCallouts' = numCallouts - 1
      /\ current' = call
      /\ commandGiver' = GiverOf(call)
      /\ lastCallOut' = [lastCallOut EXCEPT ![user] = currentTime]
      /\ evalCost' = 0
      /\ phase' = "running"
      /\ UNCHANGED <<timeVars, callOutCost, asker, spent, destructed>>

\* Call the function, on what the user's calls and ERQ callbacks of this
\* second left of the eval cost.
RunCall ==
  LET call == callList[1]
      user == Owner[call.ob]
  IN  /\ FirstIsDue
      /\ call.ob \notin destructed
      /\ ~Blocked(user)
      /\ callList' = RemoveCall(callList, 1)
      /\ numCallouts' = numCallouts - 1
      /\ current' = call
      /\ commandGiver' = GiverOf(call)
      /\ lastCallOut' = [lastCallOut EXCEPT ![user] = currentTime]
      /\ evalCost' = IF lastCallOut[user] = currentTime THEN callOutCost[user] ELSE 0
      /\ phase' = "running"
      /\ UNCHANGED <<timeVars, callOutCost, asker, spent, destructed>>

\* The function returned.  (eval_cost, set anew before the next call, is reset
\* here to keep equal states equal.)
ReturnFromCall ==
  /\ phase = "running"
  /\ callOutCost' = [callOutCost EXCEPT ![Owner[current.ob]] = evalCost]
  /\ current' = NoCall
  /\ evalCost' = 0
  /\ phase' = "loop"
  /\ UNCHANGED <<listVars, timeVars, lastCallOut, asker, spent, destructed, commandGiver>>

\* The function failed: errorf() clears the eval cost and calls runtime_error()
\* in the master, at nobody's expense.
CallFails ==
  /\ phase = "running"
  /\ evalCost' = 0
  /\ phase' = "reporting"
  /\ UNCHANGED <<listVars, timeVars, userVars, current, asker, destructed, commandGiver>>

\* The error longjmp()s to the handler of call_out(): the user is blocked.
\* (Without memory runtime_error() is not called.)
RunError ==
  /\ phase \in {"running", "reporting"}
  /\ callOutCost' = [callOutCost EXCEPT ![Owner[current.ob]] = -1]
  /\ current' = NoCall
  /\ commandGiver' = NoObject
  /\ evalCost' = 0
  /\ phase' = "loop"
  /\ UNCHANGED <<listVars, timeVars, lastCallOut, asker, spent, destructed>>

\* Mutant: a call that is due right now is left for the next cycle.
EndLoopEarly ==
  /\ phase = "loop"
  /\ ~(callList # <<>> /\ callList[1].delta < 0)
  /\ phase' = "commands"
  /\ UNCHANGED <<listVars, timeVars, userVars, runVars, destructed, commandGiver>>

\* Nothing (more) is due.
EndLoop ==
  /\ phase = "loop"
  /\ ~FirstIsDue
  /\ phase' = "commands"
  /\ UNCHANGED <<listVars, timeVars, userVars, runVars, destructed, commandGiver>>

\* garbage_collection(), a job of the backend: stale calls go, and the
\* reference of a call to a destructed command giver is dropped.
GarbageCollection ==
  /\ phase = "commands"
  /\ callList' = LET live == RemoveStale(callList) IN
                 [i \in DOMAIN live |->
                    [live[i] EXCEPT !.cg = IF @ \in destructed THEN NoObject ELSE @]]
  /\ callList' # callList
  /\ numCallouts' = numCallouts - (Len(callList) - Len(callList'))
  /\ UNCHANGED <<timeVars, userVars, runVars, destructed, commandGiver, phase>>

CallOutStep ==
  \/ SkipCall
  \/ PostponeCall
  \/ RunCall
  \/ ReturnFromCall
  \/ CallFails
  \/ RunError
  \/ EndLoop

Init ==
  /\ callList = <<>>
  /\ numCallouts = 0
  /\ lastTime = 0
  /\ currentTime = StartTime
  /\ lastCallOut = [u \in Users |-> 0]
  /\ callOutCost = [u \in Users |-> 0]
  /\ destructed = {}
  /\ commandGiver = NoObject
  /\ current = NoCall
  /\ asker = NoObject
  /\ evalCost = 0
  /\ phase = "commands"
  /\ spent = [u \in Users |-> 0]

Next ==
  \/ Efun
  \/ AnswerStep
  \/ \E giver \in (Livings \ destructed) \cup {NoObject} : StartEvaluation(giver)
  \/ \E step \in ClockSteps : NextCallOutCycle(step)
  \/ StartCallOut
  \/ CallOutStep
  \/ GarbageCollection

Spec == Init /\ [][Next]_vars

\* The driver is one thread: once in call_out() it goes on until it returns,
\* and LPC code that runs returns, fails or reaches the eval limit.
FairSpec == Spec /\ WF_vars(CallOutStep)

-----------------------------------------------------------------------------
(* Properties.                                                             *)

\* The variables have their types, and num_callouts, on which the limit is
\* tested, counts the list through every way a call can leave it: also while
\* a call that was popped is put back or its function makes new calls.
TypeOK ==
  /\ callList \in Seq(Calls)
  /\ numCallouts \in 0..MaxCallouts /\ numCallouts = Len(callList)
  /\ lastTime \in 0..MaxTime
  /\ currentTime \in 1..MaxTime
  /\ lastCallOut \in [Users -> 0..MaxTime]
  /\ callOutCost \in [Users -> -1..MaxEvalCost]
  /\ destructed \subseteq Objects \ LwObjects
  /\ commandGiver \in Objects \cup {NoObject}
  /\ current \in Calls \cup {NoCall}
  /\ asker \in Objects \cup {NoObject}
  /\ evalCost \in -1..MaxEvalCost
  /\ phase \in Phases
  /\ spent \in [Users -> Nat]

\* The time at which call i becomes due if nothing else happens.
FireTime(i) ==
  (IF lastTime = 0 THEN currentTime ELSE lastTime) + Waits(callList)[i]

\* A call that was made while no overdue call headed the list is executed at
\* exactly the time asked for, whatever is inserted before it, removed before
\* it or postponed meanwhile; no call waits longer than it asked for.
OnTimeExact ==
  \A i \in DOMAIN callList :
    /\ FireTime(i) <= callList[i].due
    /\ callList[i].onTime => FireTime(i) = callList[i].due

\* call_out() leaves no call behind that is due.
NothingDueLeft ==
  [][phase = "loop" /\ phase' = "commands" =>
       \A i \in DOMAIN callList' : callList'[i].due > currentTime]_vars

\* Of two calls for the same time, the one made first is first in the list
\* (doc/efun/call_out): a new call, and a postponed one, goes behind.
WithoutDelta(call) == [call EXCEPT !.delta = 0]

IsInsertedAt(i, old, new) ==
  \A j \in DOMAIN old :
    WithoutDelta(old[j]) = WithoutDelta(new[IF j < i THEN j ELSE j + 1])

FirstInFirstOut ==
  [][LET postponed == phase = "loop" /\ phase' = "loop"
         old == IF postponed THEN Tail(callList) ELSE callList
     IN  /\ Len(callList') = Len(old) + 1
         /\ \A j \in DOMAIN callList' : callList'[j].onTime
         => \E i \in DOMAIN callList' :
              /\ IsInsertedAt(i, old, callList')
              /\ \A j \in DOMAIN callList' :
                   callList'[j].due = callList'[i].due => j <= i]_vars

\* All call_outs and ERQ callbacks of one user together get one evaluation's
\* cost per second, and the same again after every ERQ callback that failed
\* (not counted is what the master spends on the errors of call_outs).
\* (wiz_list.c:63-67 promises that call_out_cost "prevents call_outs from
\* hogging all the cpu": an error in a call_out uses the budget up, an error
\* in an ERQ callback gives it back and unblocks the user.)
EvalBudget == \A u \in Users : spent[u] <= MaxEvalCost

\* call_out() always comes back to the backend, even when the functions it
\* calls keep making call_outs without a delay.
LoopEnds == phase = "loop" ~> phase = "commands"

=============================================================================
