------------------------------ MODULE Coroutine ------------------------------
(***************************************************************************)
(* The states of coroutines, the lists of coroutines that await another,   *)
(* and the control stack that runs them: src/src/coroutine.c and the       *)
(* instructions and error handling of src/src/interpret.c that use it.     *)
(*                                                                         *)
(* References and memory are left out: any coroutine that was created may  *)
(* be named by LPC code.  An assert() of coroutine.c that fails stops the  *)
(* driver: "failed".                                                       *)
(***************************************************************************)
EXTENDS Integers, Sequences

CONSTANTS
  Coroutines,   \* coroutine structures
  Objects,      \* the objects that coroutines run in
  NoCoroutine,  \* a NULL coroutine pointer
  NoObject,     \* in place of an object: the number 0
  MaxDepth      \* bound: frames on the control stack

ASSUME CoroutineAssumption ==
  /\ NoCoroutine \notin Coroutines
  /\ NoObject \notin Objects
  /\ MaxDepth \in Nat

VARIABLES
  state,       \* state of each coroutine, or "unused"
  owner,       \* ob of each coroutine, none before it is created and once it finished
  awaiter,     \* the coroutine waiting for this one
  awaitee,     \* the coroutine this one waits for
  stack,       \* the control stack with the current frame on top
  raising,     \* an error is being raised, the stack is being unwound
  aborting,    \* the awaiter that abort_coroutine() turns to next
  destructed,  \* the objects with O_DESTRUCTED
  swapFailed,  \* history: there was no memory to swap in an object to be resumed
  failed       \* an assertion of coroutine.c did not hold

links == <<awaiter, awaitee>>
crVars == <<state, owner, links>>
runVars == <<stack, raising, aborting>>
vars == <<crVars, runVars, destructed, swapFailed, failed>>

States == {"unused", "running", "awaiting", "sleeping", "finished"}

\* A frame: current_coroutine, current_object, and whether the frame is a
\* function call, was pushed for a catch(), where there is no coroutine, or
\* called by secure_apply().
Kinds == {"fun", "catch", "apply"}
Frames == {f \in [cr : Coroutines \cup {NoCoroutine}, ob : Objects, kind : Kinds] :
             f.kind = "catch" => f.cr = NoCoroutine}
Frame(c, ob, kind) == [cr |-> c, ob |-> ob, kind |-> kind]

Top == stack[Len(stack)]
Popped == SubSeq(stack, 1, Len(stack) - 1)
TopReplaced(frame) == [stack EXCEPT ![Len(stack)] = frame]

\* LPC code is being executed.
Executing == stack # <<>> /\ ~raising /\ aborting = NoCoroutine /\ ~failed

-----------------------------------------------------------------------------
(* coroutine.c                                                             *)

\* The coroutines met from c on by following awaitee while one is awaiting.
Chain(c) ==
  {x \in Coroutines :
     \A S \in SUBSET Coroutines :
       (c \in S /\ \A y \in S : state[y] = "awaiting" => awaitee[y] \in S) => x \in S}

\* Mutant: the coroutines between c and the resumable one are not looked at.
ResumesUnchecked(c, r) ==
  /\ r \in Chain(c)
  /\ state[r] \in {"sleeping", "running"}
  /\ owner[r] \notin destructed

\* Mutant: an awaiting coroutine is resumed itself.
ResumesDirectly(c, r) ==
  /\ r = c
  /\ state[r] \in {"sleeping", "awaiting"}
  /\ owner[r] \notin destructed

\* get_resumable_coroutine(c) returns r: the one at the end of the chain is
\* sleeping, and no object on the way is destructed.
Resumes(c, r) ==
  /\ r \in Chain(c)
  /\ state[r] = "sleeping"
  /\ \A x \in Chain(c) : owner[x] \notin destructed

\* await_coroutine(c, t) after suspend_coroutine(c), followed by
\* resume_coroutine(r).
AwaitAsserts(c, t) ==
  /\ state[c] = "running"
  /\ awaitee[c] = NoCoroutine
  /\ state[t] \in {"sleeping", "awaiting"}
  /\ awaiter[t] = NoCoroutine

FinishAsserts(c) ==
  /\ state[c] = "running"
  /\ awaitee[c] = NoCoroutine
  /\ awaiter[c] # NoCoroutine => state[awaiter[c]] = "awaiting"

\* finish_coroutine(c): the states and lists it leaves; s is what becomes of
\* the awaiter, SLEEPING unless it is resumed right away.
FinishState(c, s) ==
  [x \in Coroutines |-> IF x = c THEN "finished"
                        ELSE IF x = awaiter[c] THEN s ELSE state[x]]

\* Mutant: the awaiter keeps pointing at the finished coroutine.
UnlinkAwaiteeKept(c) == awaitee

UnlinkAwaitee(c) ==
  [x \in Coroutines |-> IF x = awaiter[c] THEN NoCoroutine ELSE awaitee[x]]

UnlinkAwaiter(c) == [awaiter EXCEPT ![c] = NoCoroutine]

\* finish_coroutine(c), its awaiter getting state s.
Finish(c, s) ==
  /\ state' = FinishState(c, s)
  /\ owner' = [owner EXCEPT ![c] = NoObject]
  /\ awaitee' = UnlinkAwaitee(c)
  /\ awaiter' = UnlinkAwaiter(c)
  /\ failed' = ~FinishAsserts(c)

-----------------------------------------------------------------------------
(* LPC code.                                                               *)

\* The backend calls a function.
StartEvaluation(ob) ==
  /\ stack = <<>>
  /\ ~failed
  /\ ob \notin destructed
  /\ stack' = <<Frame(NoCoroutine, ob, "fun")>>
  /\ UNCHANGED <<crVars, raising, aborting, destructed, swapFailed, failed>>

\* A function call, or a function called by the driver through secure_apply().
Call(ob, kind) ==
  /\ Executing
  /\ Len(stack) < MaxDepth
  /\ ob \notin destructed
  /\ kind \in {"fun", "apply"}
  /\ stack' = Append(stack, Frame(NoCoroutine, ob, kind))
  /\ UNCHANGED <<crVars, raising, aborting, destructed, swapFailed, failed>>

\* catch() fakes a function call.
Catch ==
  /\ Executing
  /\ Len(stack) < MaxDepth
  /\ stack' = Append(stack, Frame(NoCoroutine, Top.ob, "catch"))
  /\ UNCHANGED <<crVars, raising, aborting, destructed, swapFailed, failed>>

\* The end of a catch(), or of a function that is no coroutine.
Return ==
  /\ Executing
  /\ Top.cr = NoCoroutine
  /\ stack' = Popped
  /\ UNCHANGED <<crVars, raising, aborting, destructed, swapFailed, failed>>

\* An async function is called: F_TRANSFORM_TO_COROUTINE returns a coroutine.
Create(c, ob) ==
  /\ Executing
  /\ state[c] = "unused"
  /\ ob \notin destructed \/ ob = Top.ob
  /\ state' = [state EXCEPT ![c] = "sleeping"]
  /\ owner' = [owner EXCEPT ![c] = ob]
  /\ UNCHANGED <<links, runVars, destructed, swapFailed, failed>>

\* call_coroutine(c), and one step of foreach() over c.
CallCoroutine(c, r) ==
  /\ Executing
  /\ Len(stack) < MaxDepth
  /\ Top.ob \notin destructed
  /\ state[c] # "unused"
  /\ Resumes(c, r)
  /\ stack' = Append(stack, Frame(r, owner[r], "fun"))
  /\ state' = [state EXCEPT ![r] = "running"]
  /\ UNCHANGED <<owner, links, raising, aborting, destructed, swapFailed, failed>>

\* await(t): the current coroutine waits for t, and r goes on in its frame.
Await(t, r) ==
  LET c == Top.cr IN
  /\ Executing
  /\ c # NoCoroutine
  /\ state[t] # "unused"
  /\ Resumes(t, r)
  /\ awaiter[t] = NoCoroutine
  /\ failed' = ~AwaitAsserts(c, t)
  /\ awaitee' = [awaitee EXCEPT ![c] = t]
  /\ awaiter' = [awaiter EXCEPT ![t] = c]
  /\ state' = [state EXCEPT ![c] = "awaiting", ![r] = "running"]
  /\ stack' = TopReplaced(Frame(r, owner[r], "fun"))
  /\ UNCHANGED <<owner, raising, aborting, destructed, swapFailed>>

\* await(t), but the object of r cannot be swapped in.
AwaitFails(t, r) ==
  LET c == Top.cr IN
  /\ Executing
  /\ c # NoCoroutine
  /\ state[t] # "unused"
  /\ Resumes(t, r)
  /\ awaiter[t] = NoCoroutine
  /\ failed' = ~AwaitAsserts(c, t)
  /\ awaitee' = [awaitee EXCEPT ![c] = t]
  /\ awaiter' = [awaiter EXCEPT ![t] = c]
  /\ state' = [state EXCEPT ![c] = "awaiting"]
  /\ raising' = TRUE
  /\ swapFailed' = TRUE
  /\ UNCHANGED <<owner, stack, aborting, destructed>>

\* Mutant: the coroutine that yields is not suspended.
YieldToStillRunning(t, r) ==
  LET c == Top.cr IN
  /\ Executing
  /\ c # NoCoroutine
  /\ state[t] # "unused"
  /\ Resumes(t, r)
  /\ state' = [state EXCEPT ![r] = "running"]
  /\ stack' = TopReplaced(Frame(r, owner[r], "fun"))
  /\ UNCHANGED <<owner, links, raising, aborting, destructed, swapFailed, failed>>

\* yield(value, t): the current coroutine sleeps, r goes on in its frame.
YieldTo(t, r) ==
  LET c == Top.cr IN
  /\ Executing
  /\ c # NoCoroutine
  /\ state[t] # "unused"
  /\ Resumes(t, r)
  /\ state' = [state EXCEPT ![c] = "sleeping", ![r] = "running"]
  /\ stack' = TopReplaced(Frame(r, owner[r], "fun"))
  /\ UNCHANGED <<owner, links, raising, aborting, destructed, swapFailed, failed>>

\* yield(value, t), but the object of r cannot be swapped in.
YieldToFails(t, r) ==
  LET c == Top.cr IN
  /\ Executing
  /\ c # NoCoroutine
  /\ state[t] # "unused"
  /\ Resumes(t, r)
  /\ state' = [state EXCEPT ![c] = "sleeping"]
  /\ raising' = TRUE
  /\ swapFailed' = TRUE
  /\ UNCHANGED <<owner, links, stack, aborting, destructed, failed>>

\* yield(value): back to the caller.
YieldReturn ==
  LET c == Top.cr IN
  /\ Executing
  /\ c # NoCoroutine
  /\ state' = [state EXCEPT ![c] = "sleeping"]
  /\ stack' = Popped
  /\ UNCHANGED <<owner, links, raising, aborting, destructed, swapFailed, failed>>

\* A coroutine that nobody awaits returns to the caller.
FinishToCaller ==
  LET c == Top.cr IN
  /\ Executing
  /\ c # NoCoroutine
  /\ awaiter[c] = NoCoroutine
  /\ Finish(c, "sleeping")
  /\ stack' = Popped
  /\ UNCHANGED <<raising, aborting, destructed, swapFailed>>

\* A coroutine returns, and the one that awaits it goes on in its frame.
FinishToAwaiter ==
  LET c == Top.cr
      a == awaiter[c]
  IN  /\ Executing
      /\ c # NoCoroutine
      /\ a # NoCoroutine
      /\ Finish(c, "running")
      /\ stack' = TopReplaced(Frame(a, owner[a], "fun"))
      /\ UNCHANGED <<raising, aborting, destructed, swapFailed>>

\* The same, but the object of the awaiter cannot be swapped in.
FinishFails ==
  LET c == Top.cr IN
  /\ Executing
  /\ c # NoCoroutine
  /\ awaiter[c] # NoCoroutine
  /\ Finish(c, "sleeping")
  /\ raising' = TRUE
  /\ swapFailed' = TRUE
  /\ UNCHANGED <<stack, aborting, destructed>>

\* destruct(): its coroutines become invalid, nothing is done to them.
Destruct(ob) ==
  /\ Executing
  /\ ob \notin destructed
  /\ destructed' = destructed \cup {ob}
  /\ UNCHANGED <<crVars, runVars, swapFailed, failed>>

\* Any error; also a coroutine that cannot be resumed, await() or yield()
\* in a catch(), or call_coroutine() when the object cannot be swapped in.
RaiseError ==
  /\ Executing
  /\ raising' = TRUE
  /\ UNCHANGED <<crVars, stack, aborting, destructed, swapFailed, failed>>

-----------------------------------------------------------------------------
(* Error handling.                                                         *)

\* The innermost error context is that of a catch().
Caught ==
  \E i \in DOMAIN stack :
    /\ stack[i].kind = "catch"
    /\ \A j \in DOMAIN stack : j > i => stack[j].kind = "fun"

\* pull_error_context() aborts any coroutine it finds on the stack,
\* pop_control_stack() and reset_machine() only one that is running.
Aborts(c) == c # NoCoroutine /\ (Caught \/ state[c] = "running")

\* Mutant: the coroutines on the stack are not aborted.
UnwindFrameOnly ==
  /\ raising
  /\ ~failed
  /\ aborting = NoCoroutine
  /\ stack # <<>>
  /\ Top.kind # "catch"
  /\ stack' = Popped
  /\ raising' = (Top.kind # "apply" /\ Len(stack) > 1)
  /\ UNCHANGED <<crVars, aborting, destructed, swapFailed, failed>>

\* The topmost frame is dropped and its coroutine aborted.
UnwindFrame ==
  LET c == Top.cr IN
  /\ raising
  /\ ~failed
  /\ aborting = NoCoroutine
  /\ stack # <<>>
  /\ Top.kind # "catch"
  /\ stack' = Popped
  /\ raising' = (Top.kind # "apply" /\ Len(stack) > 1)
  /\ IF Aborts(c)
     THEN Finish(c, "sleeping") /\ aborting' = awaiter[c]
     ELSE UNCHANGED <<crVars, aborting, failed>>
  /\ UNCHANGED <<destructed, swapFailed>>

\* The catch() is reached, LPC code goes on behind it.
UnwindCatch ==
  /\ raising
  /\ ~failed
  /\ aborting = NoCoroutine
  /\ stack # <<>>
  /\ Top.kind = "catch"
  /\ stack' = Popped
  /\ raising' = FALSE
  /\ UNCHANGED <<crVars, aborting, destructed, swapFailed, failed>>

\* Mutant: only the coroutine that awaits the failed one is aborted.
AbortFirstAwaiter ==
  /\ ~failed
  /\ aborting # NoCoroutine
  /\ failed' = (state[aborting] \notin {"awaiting", "sleeping"})
  /\ state' = [state EXCEPT ![aborting] = "finished"]
  /\ owner' = [owner EXCEPT ![aborting] = NoObject]
  /\ awaitee' = [awaitee EXCEPT ![aborting] = NoCoroutine]
  /\ awaiter' = [awaiter EXCEPT ![aborting] = NoCoroutine]
  /\ aborting' = NoCoroutine
  /\ UNCHANGED <<stack, raising, destructed, swapFailed>>

\* Mutant: the state of the aborted awaiter is not set.
AbortAwaiterUnfinished ==
  /\ ~failed
  /\ aborting # NoCoroutine
  /\ failed' = (state[aborting] \notin {"awaiting", "sleeping"})
  /\ owner' = [owner EXCEPT ![aborting] = NoObject]
  /\ awaitee' = [awaitee EXCEPT ![aborting] = NoCoroutine]
  /\ awaiter' = [awaiter EXCEPT ![aborting] = NoCoroutine]
  /\ aborting' = awaiter[aborting]
  /\ UNCHANGED <<state, stack, raising, destructed, swapFailed>>

\* One turn of the loop of abort_coroutine().
AbortAwaiter ==
  /\ ~failed
  /\ aborting # NoCoroutine
  /\ failed' = (state[aborting] \notin {"awaiting", "sleeping"})
  /\ state' = [state EXCEPT ![aborting] = "finished"]
  /\ owner' = [owner EXCEPT ![aborting] = NoObject]
  /\ awaitee' = [awaitee EXCEPT ![aborting] = NoCoroutine]
  /\ awaiter' = [awaiter EXCEPT ![aborting] = NoCoroutine]
  /\ aborting' = awaiter[aborting]
  /\ UNCHANGED <<stack, raising, destructed, swapFailed>>

Init ==
  /\ state = [c \in Coroutines |-> "unused"]
  /\ owner = [c \in Coroutines |-> NoObject]
  /\ awaiter = [c \in Coroutines |-> NoCoroutine]
  /\ awaitee = [c \in Coroutines |-> NoCoroutine]
  /\ stack = <<>>
  /\ raising = FALSE
  /\ aborting = NoCoroutine
  /\ destructed = {}
  /\ swapFailed = FALSE
  /\ failed = FALSE

CallStep ==
  \/ \E ob \in Objects : StartEvaluation(ob)
  \/ \E ob \in Objects, kind \in Kinds : Call(ob, kind)
  \/ Catch
  \/ Return

ErrorStep ==
  \/ RaiseError
  \/ UnwindFrame
  \/ UnwindCatch
  \/ AbortAwaiter

Next ==
  \/ CallStep
  \/ \E c \in Coroutines, ob \in Objects : Create(c, ob)
  \/ \E c, r \in Coroutines : CallCoroutine(c, r)
  \/ \E t, r \in Coroutines : Await(t, r)
  \/ \E t, r \in Coroutines : AwaitFails(t, r)
  \/ \E t, r \in Coroutines : YieldTo(t, r)
  \/ \E t, r \in Coroutines : YieldToFails(t, r)
  \/ YieldReturn
  \/ FinishToCaller
  \/ FinishToAwaiter
  \/ FinishFails
  \/ \E ob \in Objects : Destruct(ob)
  \/ ErrorStep

Spec == Init /\ [][Next]_vars

-----------------------------------------------------------------------------
(* Properties.                                                             *)

TypeOK ==
  /\ state \in [Coroutines -> States]
  /\ owner \in [Coroutines -> Objects \cup {NoObject}]
  /\ \A c \in Coroutines : state[c] \notin {"unused", "finished"} => owner[c] \in Objects
  /\ awaiter \in [Coroutines -> Coroutines \cup {NoCoroutine}]
  /\ awaitee \in [Coroutines -> Coroutines \cup {NoCoroutine}]
  /\ stack \in Seq(Frames)
  /\ raising \in BOOLEAN
  /\ aborting \in Coroutines \cup {NoCoroutine}
  /\ destructed \subseteq Objects
  /\ swapFailed \in BOOLEAN
  /\ failed \in BOOLEAN

\* No assertion of coroutine.c fails unless there was no memory to swap in an
\* object: whatever is awaited, yielded to, aborted or destructed meanwhile.
AssertionsHold == failed => swapFailed

\* awaiter and awaitee are each other's inverse, except that the coroutine
\* abort_coroutine() turns to next was cut off from the one before.
LinksMatch ==
  ~failed =>
    \A c, d \in Coroutines :
      c # aborting => (awaitee[c] = d <=> awaiter[d] = c)

\* A coroutine waits for something exactly if it is awaiting, and what it
\* waits for can still finish and wake it up, or fail and take it along.
AwaitersCanWake ==
  ~failed =>
    \A c \in Coroutines :
      c # aborting =>
        /\ state[c] = "awaiting" <=> awaitee[c] # NoCoroutine
        /\ awaitee[c] # NoCoroutine =>
             state[awaitee[c]] \in {"running", "awaiting", "sleeping"}

\* A coroutine is running exactly if it has a frame on the control stack, and
\* it never has two.  (The frame of a coroutine that has just been suspended
\* or finished for one that could not be swapped in is about to be dropped.)
RunningOnce ==
  /\ \A c \in Coroutines :
       state[c] = "running" => \E i \in DOMAIN stack : stack[i].cr = c
  /\ \A i \in DOMAIN stack :
       stack[i].cr # NoCoroutine =>
         state[stack[i].cr] = "running" \/ (swapFailed /\ raising /\ i = Len(stack))
  /\ \A i, j \in DOMAIN stack :
       stack[i].cr = stack[j].cr /\ stack[i].cr # NoCoroutine => i = j

\* What await() ties together stays tied: a coroutine in CS_AWAITING and the
\* one it waits for know each other, and that one can still finish or fail, so
\* that nobody waits for a coroutine that has forgotten it or is gone.
AwaitsAreSound == LinksMatch /\ AwaitersCanWake

\* No coroutine waits for itself, through however many others: the loops of
\* coroutine.c that follow awaitee end.
NoAwaitCycle ==
  ~ \E S \in SUBSET Coroutines :
      S # {} /\ \A c \in S : awaitee[c] \in S

\* A finished coroutine stays finished, and an awaiting one goes on only when
\* the one it waits for has finished.
FinishIsFinal ==
  [][\A c \in Coroutines :
       /\ state[c] = "finished" => state'[c] = "finished"
       /\ state[c] = "awaiting" /\ state'[c] = "running" =>
            /\ state[awaitee[c]] = "running"
            /\ state'[awaitee[c]] = "finished"]_vars

\* The assertions of coroutine.c as they are written.
AssertionsNeverFail == ~failed

\* doc/LPC/coroutines: if the object is destroyed, its coroutines are as
\* well, and any awaiting coroutines: none of them is continued.
OnlyLiveAreResumed ==
  [][\A c \in Coroutines :
       state[c] # "running" /\ state'[c] = "running" => owner[c] \notin destructed]_vars
=============================================================================
