--------------------------- MODULE CoroutineProofs ---------------------------
(***************************************************************************)
(* Proofs about Coroutine: the states of coroutines, the await lists and   *)
(* the control stack agree, for any number of coroutines and objects and   *)
(* any depth of the control stack.                                         *)
(***************************************************************************)
EXTENDS Coroutine, TLAPS, SequenceTheorems

\* The coroutine abort_coroutine() turns to next is asleep, and is not the
\* awaiter of any other any more.
AbortingIsCutOff ==
  ~failed /\ aborting # NoCoroutine =>
    /\ state[aborting] \in {"awaiting", "sleeping"}
    /\ \A d \in Coroutines : awaiter[d] # aborting

\* What is inductive: none of the parts is so without the others.
Links == LinksMatch /\ AwaitersCanWake /\ AbortingIsCutOff
IInv == TypeOK /\ AssertionsHold /\ Links /\ RunningOnce /\ NoAwaitCycle

-----------------------------------------------------------------------------
(* The control stack.                                                      *)

\* Dropping the current frame leaves the others as they are.
LEMMA PoppedFacts ==
  ASSUME stack \in Seq(Frames), stack # <<>>
  PROVE  /\ Len(stack) \in Nat \ {0}
         /\ Top \in Frames
         /\ Popped \in Seq(Frames)
         /\ Len(Popped) = Len(stack) - 1
         /\ DOMAIN Popped = 1 .. Len(stack) - 1
         /\ \A i \in 1 .. Len(stack) - 1 : Popped[i] = stack[i]
<1>1. Len(stack) \in Nat \ {0} /\ DOMAIN stack = 1 .. Len(stack)
  BY EmptySeq, LenProperties
<1>2. Top \in Frames
  BY <1>1, ElementOfSeq DEF Top
<1>3. Len(stack) - 1 \in Nat /\ 1 \in 1 .. Len(stack) + 1 /\ Len(stack) - 1 \in 1 - 1 .. Len(stack)
  BY <1>1
<1>4. /\ Popped \in Seq(Frames)
      /\ Len(Popped) = Len(stack) - 1
      /\ \A i \in 1 .. Len(stack) - 1 : Popped[i] = stack[i]
  BY <1>1, <1>3, SubSeqProperties DEF Popped
<1> QED
  BY <1>1, <1>2, <1>4, LenProperties

\* A new frame goes on top of the others.
LEMMA PushedFacts ==
  ASSUME stack \in Seq(Frames), NEW frame \in Frames
  PROVE  /\ Append(stack, frame) \in Seq(Frames)
         /\ Len(stack) \in Nat
         /\ Len(Append(stack, frame)) = Len(stack) + 1
         /\ DOMAIN stack = 1 .. Len(stack)
         /\ DOMAIN Append(stack, frame) = 1 .. Len(stack) + 1
         /\ Append(stack, frame)[Len(stack) + 1] = frame
         /\ \A i \in 1 .. Len(stack) : Append(stack, frame)[i] = stack[i]
BY AppendProperties, LenProperties

\* Replacing the current frame leaves the others as they are.
LEMMA ReplacedFacts ==
  ASSUME stack \in Seq(Frames), stack # <<>>, NEW frame \in Frames
  PROVE  /\ TopReplaced(frame) \in Seq(Frames)
         /\ Len(TopReplaced(frame)) = Len(stack)
         /\ Len(stack) \in Nat \ {0}
         /\ DOMAIN stack = 1 .. Len(stack)
         /\ DOMAIN TopReplaced(frame) = 1 .. Len(stack)
         /\ TopReplaced(frame)[Len(stack)] = frame
         /\ \A i \in 1 .. Len(stack) : i # Len(stack) => TopReplaced(frame)[i] = stack[i]
<1>1. Len(stack) \in Nat \ {0} /\ DOMAIN stack = 1 .. Len(stack)
  BY EmptySeq, LenProperties
<1>2. /\ TopReplaced(frame) \in Seq(Frames)
      /\ Len(TopReplaced(frame)) = Len(stack)
      /\ \A i \in 1 .. Len(stack) :
           TopReplaced(frame)[i] = IF i = Len(stack) THEN frame ELSE stack[i]
  BY <1>1, ExceptSeq DEF TopReplaced
<1>3. DOMAIN TopReplaced(frame) = 1 .. Len(stack)
  BY <1>2, LenProperties
<1>4. Len(stack) \in 1 .. Len(stack)
  BY <1>1
<1>5. TopReplaced(frame)[Len(stack)] = frame
  BY <1>2, <1>4
<1>6. \A i \in 1 .. Len(stack) : i # Len(stack) => TopReplaced(frame)[i] = stack[i]
  BY <1>2
<1> QED
  BY <1>1, <1>2, <1>3, <1>5, <1>6

-----------------------------------------------------------------------------
(* Facts about states that satisfy the invariant.                          *)

\* The coroutine that runs LPC code is running.
LEMMA TopRuns ==
  ASSUME TypeOK, RunningOnce, Executing, Top.cr # NoCoroutine
  PROVE  /\ Top.cr \in Coroutines
         /\ state[Top.cr] = "running"
<1>1. stack # <<>> /\ ~raising /\ stack \in Seq(Frames)
  BY DEF Executing, TypeOK
<1>2. Top \in Frames /\ Len(stack) \in 1 .. Len(stack) /\ DOMAIN stack = 1 .. Len(stack)
  BY <1>1, PoppedFacts, LenProperties
<1>3. Top.cr \in Coroutines
  BY <1>2 DEF Frames
<1>4. state[stack[Len(stack)].cr] = "running"
  BY <1>1, <1>2 DEF RunningOnce, Top
<1> QED
  BY <1>3, <1>4 DEF Top

\* Whatever has a frame below the current one is running.
LEMMA LowerFramesRun ==
  ASSUME TypeOK, RunningOnce, NEW i \in DOMAIN stack, stack[i].cr # NoCoroutine,
         i # Len(stack) \/ ~raising
  PROVE  stack[i].cr \in Coroutines /\ state[stack[i].cr] = "running"
<1>1. stack[i] \in Frames
  BY ElementOfSeq, LenProperties DEF TypeOK
<1> QED
  BY <1>1 DEF RunningOnce, Frames

\* get_resumable_coroutine() ends at a sleeping coroutine with an object, and
\* it meets nothing that is not reached by following awaitee.
LEMMA ResumesFacts ==
  ASSUME TypeOK, NEW t \in Coroutines, NEW r \in Coroutines, Resumes(t, r)
  PROVE  /\ state[r] = "sleeping"
         /\ owner[r] \in Objects
         /\ state[t] = "awaiting" \/ r = t
         /\ \A S \in SUBSET Coroutines :
              t \in S /\ (\A y \in S : state[y] = "awaiting" => awaitee[y] \in S) => r \in S
<1>1. state[r] = "sleeping" /\ owner[r] \in Objects
  BY DEF Resumes, TypeOK
<1>2. ASSUME NEW S \in SUBSET Coroutines,
             t \in S, \A y \in S : state[y] = "awaiting" => awaitee[y] \in S
      PROVE  r \in S
  BY <1>2 DEF Resumes, Chain
<1>3. ASSUME state[t] # "awaiting" PROVE r = t
  BY <1>2, <1>3, {t} \in SUBSET Coroutines
<1> QED
  BY <1>1, <1>2, <1>3

\* The awaiter of a coroutine is asleep until it finishes.
LEMMA AwaiterFacts ==
  ASSUME TypeOK, Links, ~failed, aborting = NoCoroutine,
         NEW c \in Coroutines, awaiter[c] # NoCoroutine
  PROVE  /\ awaiter[c] \in Coroutines
         /\ awaitee[awaiter[c]] = c
         /\ state[awaiter[c]] = "awaiting"
         /\ owner[awaiter[c]] \in Objects
         /\ state[c] \in {"running", "awaiting", "sleeping"}
         /\ \A d \in Coroutines : awaiter[d] = awaiter[c] => d = c
<1>1. awaiter[c] \in Coroutines /\ awaiter[c] # aborting
  BY DEF TypeOK
<1>2. awaitee[awaiter[c]] = c
  BY <1>1 DEF Links, LinksMatch
<1>3. c # NoCoroutine
  BY CoroutineAssumption
<1>4. state[awaiter[c]] = "awaiting" /\ state[c] \in {"running", "awaiting", "sleeping"}
  BY <1>1, <1>2, <1>3 DEF Links, AwaitersCanWake
<1>5. owner[awaiter[c]] \in Objects
  BY <1>1, <1>4 DEF TypeOK
<1>6. \A d \in Coroutines : awaiter[d] = awaiter[c] => awaitee[awaiter[c]] = d
  BY <1>1 DEF Links, LinksMatch
<1> QED
  BY <1>1, <1>2, <1>4, <1>5, <1>6
-----------------------------------------------------------------------------
(* Steps that change neither states nor links.                             *)

\* As long as these stay as they are, so do the parts about them.
LEMMA LinksKept ==
  ASSUME IInv, UNCHANGED <<crVars, aborting, failed>>
  PROVE  Links' /\ NoAwaitCycle' /\ (swapFailed' = swapFailed => AssertionsHold')
BY DEF IInv, Links, LinksMatch, AwaitersCanWake, AbortingIsCutOff, NoAwaitCycle,
       AssertionsHold, crVars, links

\* A frame without a coroutine is pushed.
LEMMA PushKeeps ==
  ASSUME IInv, Executing \/ stack = <<>>, NEW frame \in Frames, frame.cr = NoCoroutine,
         stack' = Append(stack, frame),
         UNCHANGED <<crVars, raising, aborting, destructed, swapFailed, failed>>
  PROVE  IInv'
<1>1. TypeOK'
  BY PushedFacts DEF IInv, TypeOK, crVars, links
<1>2. RunningOnce'
  <2>1. stack \in Seq(Frames) /\ state' = state
    BY DEF IInv, TypeOK, crVars
  <2>2. ASSUME NEW c \in Coroutines, state[c] = "running"
        PROVE  \E i \in DOMAIN stack' : stack'[i].cr = c
    BY <2>1, <2>2, PushedFacts DEF IInv, RunningOnce
  <2>3. ASSUME NEW i \in DOMAIN stack', stack'[i].cr # NoCoroutine
        PROVE  i \in DOMAIN stack /\ stack'[i] = stack[i]
    BY <2>1, <2>3, PushedFacts
  <2>4. ASSUME NEW i \in DOMAIN stack', stack'[i].cr # NoCoroutine
        PROVE  state[stack'[i].cr] = "running"
    <3>1. stack # <<>> /\ ~raising
      BY <2>1, <2>3, <2>4 DEF Executing
    <3> QED
      BY <2>3, <2>4, <3>1, LowerFramesRun DEF IInv
  <2> QED
    BY <2>1, <2>2, <2>3, <2>4 DEF IInv, RunningOnce
<1> QED
  BY <1>1, <1>2, LinksKept DEF IInv

\* The current frame, which has no coroutine that is running, is dropped.
LEMMA PopKeeps ==
  ASSUME IInv, stack # <<>>, Top.cr = NoCoroutine \/ state[Top.cr] # "running",
         stack' = Popped, raising' \in BOOLEAN,
         UNCHANGED <<crVars, aborting, destructed, swapFailed, failed>>
  PROVE  IInv'
<1>0. stack \in Seq(Frames) /\ state' = state /\ DOMAIN stack = 1 .. Len(stack)
  BY LenProperties DEF IInv, TypeOK, crVars
<1>1. TypeOK'
  BY <1>0, PoppedFacts DEF IInv, TypeOK, crVars, links
<1>2. RunningOnce'
  <2>1. ASSUME NEW c \in Coroutines, state[c] = "running"
        PROVE  \E i \in DOMAIN stack' : stack'[i].cr = c
    <3>1. PICK i \in DOMAIN stack : stack[i].cr = c
      BY <2>1 DEF IInv, RunningOnce
    <3>2. i # Len(stack)
      BY <2>1, <3>1, CoroutineAssumption DEF Top
    <3>3. i \in DOMAIN stack' /\ stack'[i] = stack[i]
      BY <1>0, <3>2, PoppedFacts
    <3> QED
      BY <3>1, <3>3
  <2>2. ASSUME NEW i \in DOMAIN stack'
        PROVE  i \in DOMAIN stack /\ i # Len(stack) /\ stack'[i] = stack[i]
    BY <1>0, PoppedFacts
  <2>3. ASSUME NEW i \in DOMAIN stack', stack'[i].cr # NoCoroutine
        PROVE  state[stack'[i].cr] = "running"
    BY <2>2, <2>3, LowerFramesRun DEF IInv
  <2> QED
    BY <1>0, <2>1, <2>2, <2>3 DEF IInv, RunningOnce
<1> QED
  BY <1>1, <1>2, LinksKept DEF IInv

LEMMA RaiseKeeps ==
  ASSUME IInv, RaiseError
  PROVE  IInv'
<1>1. TypeOK' /\ swapFailed' = swapFailed
  BY DEF IInv, TypeOK, RaiseError, crVars, links
<1>2. RunningOnce'
  BY DEF IInv, RunningOnce, RaiseError, Executing, crVars
<1> QED
  BY <1>1, <1>2, LinksKept DEF IInv, RaiseError

LEMMA DestructKeeps ==
  ASSUME IInv, NEW ob \in Objects, Destruct(ob)
  PROVE  IInv'
<1>1. TypeOK'
  BY DEF IInv, TypeOK, Destruct, crVars, runVars, links
<1>2. RunningOnce'
  BY DEF IInv, RunningOnce, Destruct, crVars, runVars
<1> QED
  BY <1>1, <1>2, LinksKept DEF IInv, Destruct, runVars

\* A sleeping coroutine is created; it had no links and no frame.
LEMMA CreateKeeps ==
  ASSUME IInv, NEW c \in Coroutines, NEW ob \in Objects, Create(c, ob)
  PROVE  IInv'
<1>1. TypeOK'
  BY DEF IInv, TypeOK, Create, States, runVars, links
<1>2. ~failed /\ aborting = NoCoroutine /\ ~raising /\ ~failed'
  BY DEF Create, Executing
<1>3. Links'
  BY <1>2, CoroutineAssumption
     DEF IInv, TypeOK, Links, LinksMatch, AwaitersCanWake, AbortingIsCutOff, Create, runVars, links
<1>4. RunningOnce'
  BY <1>2 DEF IInv, TypeOK, RunningOnce, Create, runVars
<1>5. NoAwaitCycle' /\ AssertionsHold'
  BY DEF IInv, NoAwaitCycle, AssertionsHold, Create, links
<1> QED
  BY <1>1, <1>3, <1>4, <1>5 DEF IInv
-----------------------------------------------------------------------------
(* Steps that resume a coroutine.                                          *)

\* The links do not change while a coroutine that waits for nobody changes
\* between running and sleeping.
LEMMA LinksKeptByResuming ==
  ASSUME IInv, ~failed, aborting = NoCoroutine, UNCHANGED <<links, aborting, failed>>,
         state' \in [Coroutines -> States],
         \A x \in Coroutines :
           state'[x] # state[x] =>
             /\ state[x] \in {"running", "sleeping"}
             /\ state'[x] \in {"running", "sleeping"}
  PROVE  Links' /\ NoAwaitCycle'
<1>1. NoAwaitCycle' /\ LinksMatch' /\ AbortingIsCutOff'
  BY DEF IInv, Links, LinksMatch, AbortingIsCutOff, NoAwaitCycle, links
<1>2. AwaitersCanWake'
  <2> SUFFICES ASSUME NEW c \in Coroutines
               PROVE  /\ state'[c] = "awaiting" <=> awaitee[c] # NoCoroutine
                      /\ awaitee[c] # NoCoroutine =>
                           state'[awaitee[c]] \in {"running", "awaiting", "sleeping"}
    BY DEF AwaitersCanWake, links
  <2>1. /\ state[c] = "awaiting" <=> awaitee[c] # NoCoroutine
        /\ awaitee[c] # NoCoroutine =>
             state[awaitee[c]] \in {"running", "awaiting", "sleeping"}
        /\ awaitee[c] \in Coroutines \cup {NoCoroutine}
    BY CoroutineAssumption DEF IInv, Links, AwaitersCanWake, TypeOK
  <2> QED
    BY <2>1
<1> QED
  BY <1>1, <1>2 DEF Links

LEMMA CallCoroutineKeeps ==
  ASSUME IInv, NEW t \in Coroutines, NEW r \in Coroutines, CallCoroutine(t, r)
  PROVE  IInv'
<1>1. /\ state[r] = "sleeping"
      /\ owner[r] \in Objects
      /\ stack # <<>> /\ ~raising /\ aborting = NoCoroutine /\ ~failed
  BY ResumesFacts DEF IInv, CallCoroutine, Executing
<1>2. Frame(r, owner[r], "fun") \in Frames /\ Frame(r, owner[r], "fun").cr = r
  BY <1>1 DEF Frame, Frames, Kinds
<1>3. stack \in Seq(Frames) /\ stack' = Append(stack, Frame(r, owner[r], "fun"))
  BY DEF IInv, TypeOK, CallCoroutine
<1>4. state' = [state EXCEPT ![r] = "running"] /\ state \in [Coroutines -> States]
  BY DEF IInv, TypeOK, CallCoroutine
<1>5. TypeOK'
  BY <1>1, <1>2, <1>3, <1>4, PushedFacts DEF IInv, TypeOK, CallCoroutine, States, links
<1>6. RunningOnce'
  <2>1. /\ DOMAIN stack = 1 .. Len(stack) /\ Len(stack) \in Nat
        /\ DOMAIN stack' = 1 .. Len(stack) + 1
        /\ stack'[Len(stack) + 1].cr = r
        /\ \A i \in DOMAIN stack : stack'[i] = stack[i]
    BY <1>2, <1>3, PushedFacts
  <2>2. \A i \in DOMAIN stack : stack[i].cr # NoCoroutine =>
          stack[i].cr \in Coroutines /\ state[stack[i].cr] = "running"
    BY <1>1, LowerFramesRun DEF IInv
  <2>3. \A i \in DOMAIN stack : stack[i].cr # r
    BY <1>1, <2>2, CoroutineAssumption
  <2>4. ASSUME NEW c \in Coroutines, state'[c] = "running"
        PROVE  \E i \in DOMAIN stack' : stack'[i].cr = c
    BY <1>4, <2>1, <2>4 DEF IInv, RunningOnce
  <2>5. ASSUME NEW i \in DOMAIN stack', stack'[i].cr # NoCoroutine
        PROVE  state'[stack'[i].cr] = "running"
    BY <1>4, <2>1, <2>2, <2>5
  <2>6. ASSUME NEW i \in DOMAIN stack', NEW j \in DOMAIN stack',
               stack'[i].cr = stack'[j].cr, stack'[i].cr # NoCoroutine
        PROVE  i = j
    BY <2>1, <2>3, <2>6 DEF IInv, RunningOnce
  <2> QED
    BY <2>4, <2>5, <2>6 DEF RunningOnce
<1>7. Links' /\ NoAwaitCycle'
  BY <1>1, <1>4, <1>5, LinksKeptByResuming DEF CallCoroutine, TypeOK
<1> QED
  BY <1>5, <1>6, <1>7 DEF IInv, AssertionsHold, CallCoroutine

\* The current coroutine c stops running and r, which slept, goes on in its
\* frame: exactly the running coroutines keep a frame.
LEMMA RunningOnceIfReplaced ==
  ASSUME TypeOK, RunningOnce, Executing,
         NEW c \in Coroutines, c = Top.cr,
         NEW r \in Coroutines, state[r] # "running", owner[r] \in Objects,
         stack' = TopReplaced(Frame(r, owner[r], "fun")),
         state'[c] # "running", state'[r] = "running",
         \A x \in Coroutines \ {c, r} : (state'[x] = "running") <=> (state[x] = "running")
  PROVE  RunningOnce' /\ stack' \in Seq(Frames)
<1>0. Frame(r, owner[r], "fun") \in Frames /\ Frame(r, owner[r], "fun").cr = r
  BY DEF Frame, Frames, Kinds
<1>1. /\ stack' \in Seq(Frames)
      /\ Len(stack) \in 1 .. Len(stack)
      /\ DOMAIN stack = 1 .. Len(stack)
      /\ DOMAIN stack' = DOMAIN stack
      /\ stack'[Len(stack)].cr = r
      /\ \A i \in DOMAIN stack : i # Len(stack) => stack'[i] = stack[i]
  <2>1. stack \in Seq(Frames) /\ stack # <<>>
    BY DEF TypeOK, Executing
  <2>2. /\ stack' \in Seq(Frames)
        /\ Len(stack) \in Nat \ {0}
        /\ DOMAIN stack = 1 .. Len(stack)
        /\ DOMAIN stack' = 1 .. Len(stack)
        /\ stack'[Len(stack)] = Frame(r, owner[r], "fun")
        /\ \A i \in 1 .. Len(stack) : i # Len(stack) => stack'[i] = stack[i]
    BY <1>0, <2>1, ReplacedFacts
  <2>3. Len(stack) \in 1 .. Len(stack)
    <3>1. Len(stack) \in Nat \ {0}
      BY <2>2
    <3> QED
      BY <3>1
  <2>4. stack'[Len(stack)].cr = r
    BY <1>0, <2>2
  <2> QED
    BY <2>2, <2>3, <2>4
<1>2. ASSUME NEW i \in DOMAIN stack, stack[i].cr # NoCoroutine
      PROVE  stack[i].cr \in Coroutines /\ state[stack[i].cr] = "running"
  BY <1>2, LowerFramesRun DEF Executing
<1>3. \A i \in DOMAIN stack : stack[i].cr # r /\ (i # Len(stack) => stack[i].cr # c)
  BY <1>1, <1>2, CoroutineAssumption DEF RunningOnce, Top
<1>4. ASSUME NEW x \in Coroutines, state'[x] = "running"
      PROVE  \E i \in DOMAIN stack' : stack'[i].cr = x
  <2>1. CASE x = r
    BY <1>1, <2>1
  <2>2. CASE x # r
    <3>1. PICK i \in DOMAIN stack : stack[i].cr = x
      BY <1>4, <2>2 DEF RunningOnce
    <3>2. i # Len(stack)
      BY <1>4, <3>1 DEF Top
    <3> QED
      BY <1>1, <3>1, <3>2
  <2> QED
    BY <2>1, <2>2
<1>5. ASSUME NEW i \in DOMAIN stack', stack'[i].cr # NoCoroutine
      PROVE  state'[stack'[i].cr] = "running"
  <2>1. CASE i = Len(stack)
    BY <1>1, <2>1
  <2>2. CASE i # Len(stack)
    BY <1>1, <1>2, <1>3, <1>5, <2>2
  <2> QED
    BY <2>1, <2>2
<1>6. ASSUME NEW i \in DOMAIN stack', NEW j \in DOMAIN stack',
             stack'[i].cr = stack'[j].cr, stack'[i].cr # NoCoroutine
      PROVE  i = j
  BY <1>1, <1>3, <1>6 DEF RunningOnce
<1> QED
  BY <1>1, <1>4, <1>5, <1>6 DEF RunningOnce

LEMMA YieldToKeeps ==
  ASSUME IInv, NEW t \in Coroutines, NEW r \in Coroutines, YieldTo(t, r)
  PROVE  IInv'
<1> DEFINE c == Top.cr
<1>1. /\ state[r] = "sleeping" /\ owner[r] \in Objects
      /\ c \in Coroutines /\ state[c] = "running" /\ c # r
      /\ Executing /\ aborting = NoCoroutine /\ ~failed
  BY ResumesFacts, TopRuns DEF IInv, YieldTo, Executing
<1>2. /\ state' = [state EXCEPT ![c] = "sleeping", ![r] = "running"]
      /\ state \in [Coroutines -> States]
  BY DEF IInv, TypeOK, YieldTo
<1>3. RunningOnce' /\ stack' \in Seq(Frames)
  BY <1>1, <1>2, RunningOnceIfReplaced DEF IInv, YieldTo
<1>4. TypeOK'
  BY <1>1, <1>2, <1>3 DEF IInv, TypeOK, YieldTo, States, links
<1>5. Links' /\ NoAwaitCycle'
  BY <1>1, <1>2, <1>4, LinksKeptByResuming DEF YieldTo, TypeOK
<1> QED
  BY <1>3, <1>4, <1>5 DEF IInv, AssertionsHold, YieldTo
\* The current frame is dropped, and its coroutine, if any, is not running
\* any more.
LEMMA RunningOnceIfPopped ==
  ASSUME TypeOK, RunningOnce, stack # <<>>, stack' = Popped,
         Top.cr # NoCoroutine => state'[Top.cr] # "running",
         \A x \in Coroutines : x # Top.cr => ((state'[x] = "running") <=> (state[x] = "running"))
  PROVE  RunningOnce' /\ stack' \in Seq(Frames)
<1>1. /\ stack' \in Seq(Frames)
      /\ Len(stack) \in Nat \ {0}
      /\ DOMAIN stack = 1 .. Len(stack)
      /\ DOMAIN stack' = 1 .. Len(stack) - 1
      /\ \A i \in 1 .. Len(stack) - 1 : stack'[i] = stack[i]
  BY PoppedFacts, LenProperties DEF TypeOK
<1>2. Len(stack) \in DOMAIN stack
  <2>1. Len(stack) \in Nat \ {0} /\ DOMAIN stack = 1 .. Len(stack)
    BY <1>1
  <2> QED
    BY <2>1
<1>3. ASSUME NEW i \in DOMAIN stack'
      PROVE  i \in DOMAIN stack /\ i # Len(stack) /\ stack'[i] = stack[i]
  BY <1>1
<1>4. ASSUME NEW i \in DOMAIN stack'
      PROVE  stack[i].cr # NoCoroutine => stack[i].cr # Top.cr
  BY <1>2, <1>3 DEF RunningOnce, Top
<1>5. ASSUME NEW x \in Coroutines, state'[x] = "running"
      PROVE  \E i \in DOMAIN stack' : stack'[i].cr = x
  <2>1. x # Top.cr /\ state[x] = "running"
    BY <1>5, CoroutineAssumption
  <2>2. PICK i \in DOMAIN stack : stack[i].cr = x
    BY <2>1 DEF RunningOnce
  <2>3. i # Len(stack)
    BY <2>1, <2>2 DEF Top
  <2>4. i \in DOMAIN stack' /\ stack'[i] = stack[i]
    BY <1>1, <2>3
  <2> QED
    BY <2>2, <2>4
<1>6. ASSUME NEW i \in DOMAIN stack', stack'[i].cr # NoCoroutine
      PROVE  state'[stack'[i].cr] = "running"
  <2>1. stack[i].cr \in Coroutines /\ state[stack[i].cr] = "running"
    BY <1>3, <1>6, LowerFramesRun
  <2> QED
    BY <1>3, <1>4, <1>6, <2>1
<1>7. ASSUME NEW i \in DOMAIN stack', NEW j \in DOMAIN stack',
             stack'[i].cr = stack'[j].cr, stack'[i].cr # NoCoroutine
      PROVE  i = j
  BY <1>3, <1>7 DEF RunningOnce
<1> QED
  BY <1>1, <1>5, <1>6, <1>7 DEF RunningOnce

\* The current coroutine stops running although its frame stays: an object
\* could not be swapped in, and the error is being raised.
LEMMA RunningOnceIfTopStays ==
  ASSUME TypeOK, RunningOnce, Executing,
         NEW c \in Coroutines, c = Top.cr,
         stack' = stack, raising', swapFailed',
         state'[c] # "running",
         \A x \in Coroutines \ {c} : (state'[x] = "running") <=> (state[x] = "running")
  PROVE  RunningOnce'
<1>1. stack # <<>> /\ ~raising /\ stack \in Seq(Frames)
  BY DEF Executing, TypeOK
<1>2. Len(stack) \in DOMAIN stack
  <2>1. Len(stack) \in Nat \ {0} /\ DOMAIN stack = 1 .. Len(stack)
    BY <1>1, PoppedFacts, LenProperties
  <2> QED
    BY <2>1
<1>3. ASSUME NEW i \in DOMAIN stack, stack[i].cr # NoCoroutine
      PROVE  stack[i].cr \in Coroutines /\ state[stack[i].cr] = "running"
  BY <1>1, <1>3, LowerFramesRun
<1>4. ASSUME NEW x \in Coroutines, state'[x] = "running"
      PROVE  \E i \in DOMAIN stack : stack[i].cr = x
  BY <1>4 DEF RunningOnce
<1>5. ASSUME NEW i \in DOMAIN stack, stack[i].cr # NoCoroutine, i # Len(stack)
      PROVE  state'[stack[i].cr] = "running"
  <2>1. stack[i].cr # c
    BY <1>2, <1>5 DEF RunningOnce, Top
  <2> QED
    BY <1>3, <1>5, <2>1
<1> QED
  BY <1>4, <1>5 DEF RunningOnce
LEMMA YieldToFailsKeeps ==
  ASSUME IInv, NEW t \in Coroutines, NEW r \in Coroutines, YieldToFails(t, r)
  PROVE  IInv'
<1> DEFINE c == Top.cr
<1>1. /\ c \in Coroutines /\ state[c] = "running"
      /\ Executing /\ aborting = NoCoroutine /\ ~failed
  BY TopRuns DEF IInv, YieldToFails, Executing
<1>2. /\ state' = [state EXCEPT ![c] = "sleeping"]
      /\ state \in [Coroutines -> States]
  BY DEF IInv, TypeOK, YieldToFails
<1>3. RunningOnce'
  BY <1>1, <1>2, RunningOnceIfTopStays DEF IInv, YieldToFails
<1>4. TypeOK'
  BY <1>1, <1>2 DEF IInv, TypeOK, YieldToFails, States, links
<1>5. Links' /\ NoAwaitCycle'
  BY <1>1, <1>2, <1>4, LinksKeptByResuming DEF YieldToFails, TypeOK
<1> QED
  BY <1>3, <1>4, <1>5 DEF IInv, AssertionsHold, YieldToFails

LEMMA YieldReturnKeeps ==
  ASSUME IInv, YieldReturn
  PROVE  IInv'
<1> DEFINE c == Top.cr
<1>1. /\ c \in Coroutines /\ state[c] = "running"
      /\ Executing /\ aborting = NoCoroutine /\ ~failed /\ stack # <<>>
  BY TopRuns DEF IInv, YieldReturn, Executing
<1>2. /\ state' = [state EXCEPT ![c] = "sleeping"]
      /\ state \in [Coroutines -> States]
  BY DEF IInv, TypeOK, YieldReturn
<1>3. RunningOnce' /\ stack' \in Seq(Frames)
  BY <1>1, <1>2, RunningOnceIfPopped DEF IInv, YieldReturn
<1>4. TypeOK'
  BY <1>1, <1>2, <1>3 DEF IInv, TypeOK, YieldReturn, States, links
<1>5. Links' /\ NoAwaitCycle'
  BY <1>1, <1>2, <1>4, LinksKeptByResuming DEF YieldReturn, TypeOK
<1> QED
  BY <1>3, <1>4, <1>5 DEF IInv, AssertionsHold, YieldReturn

-----------------------------------------------------------------------------
(* await().                                                                *)

\* The running coroutine c waits for t, which nobody awaits and which leads
\* to a coroutine r that is asleep: that makes no cycle.
LEMMA LinksKeptByAwaiting ==
  ASSUME IInv, ~failed, aborting = NoCoroutine, aborting' = NoCoroutine,
         NEW c \in Coroutines, state[c] = "running",
         NEW t \in Coroutines, NEW r \in Coroutines,
         Resumes(t, r), state[t] # "unused", awaiter[t] = NoCoroutine,
         failed' = ~AwaitAsserts(c, t),
         awaitee' = [awaitee EXCEPT ![c] = t],
         awaiter' = [awaiter EXCEPT ![t] = c],
         state' \in [Coroutines -> States],
         state'[c] = "awaiting",
         state'[r] \in {"sleeping", "running"},
         \A x \in Coroutines \ {c, r} : state'[x] = state[x]
  PROVE  Links' /\ NoAwaitCycle' /\ ~failed'
<1>1. /\ awaitee \in [Coroutines -> Coroutines \cup {NoCoroutine}]
      /\ awaiter \in [Coroutines -> Coroutines \cup {NoCoroutine}]
      /\ NoCoroutine \notin Coroutines
  BY CoroutineAssumption DEF IInv, TypeOK
<1>2. /\ state[r] = "sleeping" /\ (state[t] = "awaiting" \/ r = t)
      /\ \A S \in SUBSET Coroutines :
           t \in S /\ (\A y \in S : state[y] = "awaiting" => awaitee[y] \in S) => r \in S
  BY ResumesFacts DEF IInv
<1>3. /\ \A x, d \in Coroutines : awaitee[x] = d <=> awaiter[d] = x
      /\ \A x \in Coroutines :
           /\ state[x] = "awaiting" <=> awaitee[x] # NoCoroutine
           /\ awaitee[x] # NoCoroutine =>
                state[awaitee[x]] \in {"running", "awaiting", "sleeping"}
  BY <1>1 DEF IInv, Links, LinksMatch, AwaitersCanWake
<1>4. c # t /\ c # r /\ awaitee[c] = NoCoroutine /\ awaitee[r] = NoCoroutine
  BY <1>2, <1>3
<1>5. ~failed'
  BY <1>2, <1>4 DEF AwaitAsserts
<1>6. LinksMatch'
  BY <1>1, <1>3, <1>4 DEF LinksMatch
<1>7. AwaitersCanWake'
  <2> SUFFICES ASSUME NEW x \in Coroutines
               PROVE  /\ state'[x] = "awaiting" <=> awaitee'[x] # NoCoroutine
                      /\ awaitee'[x] # NoCoroutine =>
                           state'[awaitee'[x]] \in {"running", "awaiting", "sleeping"}
    BY DEF AwaitersCanWake
  <2>1. CASE x = c
    BY <1>1, <1>2, <1>4, <2>1
  <2>2. CASE x # c
    BY <1>1, <1>2, <1>3, <1>4, <2>2
  <2> QED
    BY <2>1, <2>2
<1>8. AbortingIsCutOff'
  BY DEF AbortingIsCutOff
<1>9. NoAwaitCycle'
  <2> SUFFICES ASSUME NEW S \in SUBSET Coroutines, S # {},
                      \A y \in S : awaitee'[y] \in S
               PROVE  FALSE
    BY DEF NoAwaitCycle
  <2>1. \A y \in S : y # c => awaitee[y] \in S
    BY <1>1
  <2>2. c \in S
    BY <2>1 DEF IInv, NoAwaitCycle
  <2>3. t \in S
    BY <1>1, <2>2
  <2>4. r \in S
    BY <1>2, <2>1, <2>3
  <2> QED
    BY <1>1, <1>4, <2>1, <2>4
<1> QED
  BY <1>5, <1>6, <1>7, <1>8, <1>9 DEF Links

LEMMA AwaitKeeps ==
  ASSUME IInv, NEW t \in Coroutines, NEW r \in Coroutines, Await(t, r)
  PROVE  IInv'
<1> DEFINE c == Top.cr
<1>1. /\ state[r] = "sleeping" /\ owner[r] \in Objects
      /\ c \in Coroutines /\ state[c] = "running" /\ c # r
      /\ Executing /\ aborting = NoCoroutine /\ ~failed
  BY ResumesFacts, TopRuns DEF IInv, Await, Executing
<1>2. /\ state' = [state EXCEPT ![c] = "awaiting", ![r] = "running"]
      /\ state \in [Coroutines -> States]
  BY DEF IInv, TypeOK, Await
<1>3. RunningOnce' /\ stack' \in Seq(Frames)
  BY <1>1, <1>2, RunningOnceIfReplaced DEF IInv, Await
<1>4. TypeOK'
  BY <1>1, <1>2, <1>3 DEF IInv, TypeOK, Await, States
<1>5. Links' /\ NoAwaitCycle' /\ ~failed'
  <2>1. /\ state' \in [Coroutines -> States]
        /\ state'[c] = "awaiting" /\ state'[r] = "running"
        /\ \A x \in Coroutines \ {c, r} : state'[x] = state[x]
    BY <1>1, <1>2, <1>4 DEF TypeOK
  <2> QED
    BY <1>1, <2>1, LinksKeptByAwaiting DEF Await
<1> QED
  BY <1>3, <1>4, <1>5 DEF IInv, AssertionsHold

LEMMA AwaitFailsKeeps ==
  ASSUME IInv, NEW t \in Coroutines, NEW r \in Coroutines, AwaitFails(t, r)
  PROVE  IInv'
<1> DEFINE c == Top.cr
<1>1. /\ state[r] = "sleeping"
      /\ c \in Coroutines /\ state[c] = "running" /\ c # r
      /\ Executing /\ aborting = NoCoroutine /\ ~failed
  BY ResumesFacts, TopRuns DEF IInv, AwaitFails, Executing
<1>2. /\ state' = [state EXCEPT ![c] = "awaiting"]
      /\ state \in [Coroutines -> States]
  BY DEF IInv, TypeOK, AwaitFails
<1>3. RunningOnce'
  BY <1>1, <1>2, RunningOnceIfTopStays DEF IInv, AwaitFails
<1>4. TypeOK'
  BY <1>1, <1>2 DEF IInv, TypeOK, AwaitFails, States
<1>5. Links' /\ NoAwaitCycle' /\ ~failed'
  <2>1. /\ state' \in [Coroutines -> States]
        /\ state'[c] = "awaiting" /\ state'[r] = "sleeping"
        /\ \A x \in Coroutines \ {c, r} : state'[x] = state[x]
    BY <1>1, <1>2, <1>4 DEF TypeOK
  <2> QED
    BY <1>1, <2>1, LinksKeptByAwaiting DEF AwaitFails
<1> QED
  BY <1>3, <1>4, <1>5 DEF IInv, AssertionsHold
-----------------------------------------------------------------------------
(* Finishing and aborting.                                                 *)

LEMMA FinishTypes ==
  ASSUME TypeOK, NEW c \in Coroutines, NEW s \in {"sleeping", "running"},
         awaiter[c] # NoCoroutine => owner[awaiter[c]] \in Objects /\ awaiter[c] # c,
         Finish(c, s)
  PROVE  /\ state' \in [Coroutines -> States]
         /\ owner' \in [Coroutines -> Objects \cup {NoObject}]
         /\ \A x \in Coroutines : state'[x] \notin {"unused", "finished"} => owner'[x] \in Objects
         /\ awaiter' \in [Coroutines -> Coroutines \cup {NoCoroutine}]
         /\ awaitee' \in [Coroutines -> Coroutines \cup {NoCoroutine}]
         /\ failed' \in BOOLEAN
<1>1. /\ state' \in [Coroutines -> States]
      /\ owner' \in [Coroutines -> Objects \cup {NoObject}]
      /\ awaiter' \in [Coroutines -> Coroutines \cup {NoCoroutine}]
      /\ awaitee' \in [Coroutines -> Coroutines \cup {NoCoroutine}]
      /\ failed' \in BOOLEAN
  BY DEF TypeOK, Finish, FinishState, UnlinkAwaitee, UnlinkAwaiter, States
<1>2. ASSUME NEW x \in Coroutines, state'[x] \notin {"unused", "finished"}
      PROVE  owner'[x] \in Objects
  <2>1. x # c
    BY <1>2 DEF Finish, FinishState
  <2>2. owner'[x] = owner[x]
    BY <2>1 DEF TypeOK, Finish
  <2>3. CASE x = awaiter[c]
    BY <2>2, <2>3, CoroutineAssumption
  <2>4. CASE x # awaiter[c]
    <3>1. state'[x] = state[x]
      BY <2>1, <2>4 DEF Finish, FinishState
    <3> QED
      BY <1>2, <2>2, <3>1 DEF TypeOK
  <2> QED
    BY <2>3, <2>4
<1> QED
  BY <1>1, <1>2

\* finish_coroutine() of a running coroutine: its awaiter is let go, whether
\* it is resumed, left asleep, or the next to be aborted.
LEMMA LinksKeptByFinishing ==
  ASSUME IInv, ~failed, aborting = NoCoroutine,
         NEW c \in Coroutines, state[c] = "running",
         NEW s \in {"sleeping", "running"}, Finish(c, s),
         aborting' = NoCoroutine \/ (s = "sleeping" /\ aborting' = awaiter[c])
  PROVE  Links' /\ NoAwaitCycle' /\ ~failed'
<1> DEFINE a == awaiter[c]
<1>1. /\ awaitee \in [Coroutines -> Coroutines \cup {NoCoroutine}]
      /\ awaiter \in [Coroutines -> Coroutines \cup {NoCoroutine}]
      /\ NoCoroutine \notin Coroutines
  BY CoroutineAssumption DEF IInv, TypeOK
<1>2. /\ \A x, d \in Coroutines : awaitee[x] = d <=> awaiter[d] = x
      /\ \A x \in Coroutines :
           /\ state[x] = "awaiting" <=> awaitee[x] # NoCoroutine
           /\ awaitee[x] # NoCoroutine =>
                state[awaitee[x]] \in {"running", "awaiting", "sleeping"}
  BY <1>1 DEF IInv, Links, LinksMatch, AwaitersCanWake
<1>3. /\ awaitee[c] = NoCoroutine
      /\ a # NoCoroutine => a \in Coroutines /\ a # c /\ awaitee[a] = c /\ state[a] = "awaiting"
  BY <1>1, <1>2
<1>4. /\ \A x \in Coroutines : state'[x] = IF x = c THEN "finished" ELSE IF x = a THEN s ELSE state[x]
      /\ \A x \in Coroutines : awaitee'[x] = IF x = a THEN NoCoroutine ELSE awaitee[x]
      /\ \A x \in Coroutines : awaiter'[x] = IF x = c THEN NoCoroutine ELSE awaiter[x]
  BY <1>1 DEF Finish, FinishState, UnlinkAwaitee, UnlinkAwaiter
<1>5. ~failed'
  BY <1>3 DEF Finish, FinishAsserts
<1>6. LinksMatch'
  <2> SUFFICES ASSUME NEW x \in Coroutines, NEW d \in Coroutines
               PROVE  awaitee'[x] = d <=> awaiter'[d] = x
    BY DEF LinksMatch
  <2> QED
    BY <1>1, <1>2, <1>3, <1>4
<1>7. AwaitersCanWake'
  <2> SUFFICES ASSUME NEW x \in Coroutines
               PROVE  /\ state'[x] = "awaiting" <=> awaitee'[x] # NoCoroutine
                      /\ awaitee'[x] # NoCoroutine =>
                           state'[awaitee'[x]] \in {"running", "awaiting", "sleeping"}
    BY DEF AwaitersCanWake
  <2>1. CASE x = c \/ x = a
    BY <1>3, <1>4, <2>1
  <2>2. CASE x # c /\ x # a
    <3>1. awaitee[x] # c
      BY <1>2, <2>2
    <3> QED
      BY <1>1, <1>2, <1>4, <2>2, <3>1
  <2> QED
    BY <2>1, <2>2
<1>8. AbortingIsCutOff'
  <2> SUFFICES ASSUME aborting' # NoCoroutine
               PROVE  /\ state'[a] \in {"awaiting", "sleeping"}
                      /\ \A d \in Coroutines : awaiter'[d] # a
    BY DEF AbortingIsCutOff
  <2>1. a # NoCoroutine /\ s = "sleeping"
    OBVIOUS
  <2>2. \A d \in Coroutines : awaiter[d] = a => d = c
    BY <1>2, <1>3, <2>1
  <2> QED
    BY <1>3, <1>4, <2>1, <2>2
<1>9. NoAwaitCycle'
  <2> SUFFICES ASSUME NEW S \in SUBSET Coroutines, S # {},
                      \A y \in S : awaitee'[y] \in S
               PROVE  FALSE
    BY DEF NoAwaitCycle
  <2>1. \A y \in S : awaitee[y] \in S
    BY <1>1, <1>4
  <2> QED
    BY <2>1 DEF IInv, NoAwaitCycle
<1> QED
  BY <1>5, <1>6, <1>7, <1>8, <1>9 DEF Links

\* Which coroutines are running after finish_coroutine(c).
LEMMA FinishRuns ==
  ASSUME TypeOK, Links, ~failed, aborting = NoCoroutine,
         NEW c \in Coroutines, NEW s \in {"sleeping", "running"}, Finish(c, s)
  PROVE  /\ state'[c] = "finished"
         /\ awaiter[c] # NoCoroutine =>
              /\ awaiter[c] \in Coroutines
              /\ owner[awaiter[c]] \in Objects
              /\ state[awaiter[c]] = "awaiting"
         /\ \A x \in Coroutines :
              x # c /\ x # awaiter[c] => state'[x] = state[x]
         /\ awaiter[c] # NoCoroutine /\ awaiter[c] # c => state'[awaiter[c]] = s
BY AwaiterFacts DEF Finish, FinishState

LEMMA FinishToCallerKeeps ==
  ASSUME IInv, FinishToCaller
  PROVE  IInv'
<1> DEFINE c == Top.cr
<1>1. /\ c \in Coroutines /\ state[c] = "running" /\ Executing
      /\ stack # <<>> /\ aborting = NoCoroutine /\ ~failed
      /\ awaiter[c] = NoCoroutine /\ Finish(c, "sleeping")
  BY TopRuns DEF IInv, FinishToCaller, Executing
<1>2. /\ state'[c] = "finished"
      /\ \A x \in Coroutines : x # c => state'[x] = state[x]
  BY <1>1, FinishRuns, CoroutineAssumption DEF IInv
<1>3. RunningOnce' /\ stack' \in Seq(Frames)
  BY <1>1, <1>2, RunningOnceIfPopped DEF IInv, FinishToCaller
<1>4. TypeOK'
  BY <1>1, <1>3, FinishTypes DEF IInv, TypeOK, FinishToCaller
<1>5. Links' /\ NoAwaitCycle' /\ ~failed'
  BY <1>1, LinksKeptByFinishing DEF FinishToCaller
<1> QED
  BY <1>3, <1>4, <1>5 DEF IInv, AssertionsHold

LEMMA FinishToAwaiterKeeps ==
  ASSUME IInv, FinishToAwaiter
  PROVE  IInv'
<1> DEFINE c == Top.cr
           a == awaiter[c]
<1>1. /\ c \in Coroutines /\ state[c] = "running" /\ Executing
      /\ aborting = NoCoroutine /\ ~failed
      /\ a # NoCoroutine /\ Finish(c, "running")
  BY TopRuns DEF IInv, FinishToAwaiter, Executing
<1>2. /\ a \in Coroutines /\ owner[a] \in Objects /\ state[a] = "awaiting" /\ a # c
      /\ state'[c] = "finished"
      /\ state'[a] = "running"
      /\ \A x \in Coroutines \ {c, a} : state'[x] = state[x]
  BY <1>1, FinishRuns DEF IInv
<1>3. RunningOnce' /\ stack' \in Seq(Frames)
  <2>1. stack' = TopReplaced(Frame(a, owner[a], "fun"))
    BY DEF FinishToAwaiter
  <2> HIDE DEF a
  <2> QED
    BY <1>1, <1>2, <2>1, RunningOnceIfReplaced DEF IInv
<1>4. TypeOK'
  BY <1>1, <1>2, <1>3, FinishTypes DEF IInv, TypeOK, FinishToAwaiter
<1>5. Links' /\ NoAwaitCycle' /\ ~failed'
  BY <1>1, LinksKeptByFinishing DEF FinishToAwaiter
<1> QED
  BY <1>3, <1>4, <1>5 DEF IInv, AssertionsHold

LEMMA FinishFailsKeeps ==
  ASSUME IInv, FinishFails
  PROVE  IInv'
<1> DEFINE c == Top.cr
           a == awaiter[c]
<1>1. /\ c \in Coroutines /\ state[c] = "running" /\ Executing
      /\ aborting = NoCoroutine /\ ~failed
      /\ a # NoCoroutine /\ Finish(c, "sleeping")
  BY TopRuns DEF IInv, FinishFails, Executing
<1>2. /\ a \in Coroutines /\ owner[a] \in Objects /\ state[a] = "awaiting" /\ a # c
      /\ state'[c] = "finished"
      /\ state'[a] = "sleeping"
      /\ \A x \in Coroutines \ {c, a} : state'[x] = state[x]
  BY <1>1, FinishRuns DEF IInv
<1>3. RunningOnce'
  BY <1>1, <1>2, RunningOnceIfTopStays DEF IInv, FinishFails
<1>4. TypeOK'
  BY <1>1, <1>2, FinishTypes DEF IInv, TypeOK, FinishFails
<1>5. Links' /\ NoAwaitCycle' /\ ~failed'
  BY <1>1, LinksKeptByFinishing DEF FinishFails
<1> QED
  BY <1>3, <1>4, <1>5 DEF IInv, AssertionsHold
\* abort_coroutine() begins: the topmost frame is dropped.  If its coroutine
\* is not running any more, it is finished for the second time.
LEMMA UnwindFrameKeeps ==
  ASSUME IInv, UnwindFrame
  PROVE  IInv'
<1> DEFINE c == Top.cr
<1>1. /\ raising /\ ~failed /\ aborting = NoCoroutine
      /\ stack # <<>> /\ stack \in Seq(Frames) /\ stack' = Popped
      /\ raising' \in BOOLEAN
      /\ UNCHANGED <<destructed, swapFailed>>
  BY DEF IInv, TypeOK, UnwindFrame
<1>2. Top \in Frames /\ c \in Coroutines \cup {NoCoroutine}
  BY <1>1, PoppedFacts DEF Frames
<1>3. CASE ~Aborts(c)
  <2>1. c = NoCoroutine \/ state[c] # "running"
    BY <1>3 DEF Aborts
  <2>2. UNCHANGED <<crVars, aborting, failed>>
    BY <1>3 DEF UnwindFrame
  <2> QED
    BY <1>1, <2>1, <2>2, PopKeeps
<1>4. CASE Aborts(c)
  <2>1. c \in Coroutines /\ Finish(c, "sleeping") /\ aborting' = awaiter[c]
    BY <1>2, <1>4 DEF Aborts, UnwindFrame
  <2>2. /\ state'[c] = "finished"
        /\ awaiter[c] # NoCoroutine =>
             /\ awaiter[c] \in Coroutines
             /\ owner[awaiter[c]] \in Objects
             /\ state[awaiter[c]] = "awaiting"
        /\ \A x \in Coroutines : x # c /\ x # awaiter[c] => state'[x] = state[x]
        /\ awaiter[c] # NoCoroutine /\ awaiter[c] # c => state'[awaiter[c]] = "sleeping"
    BY <1>1, <2>1, FinishRuns DEF IInv
  <2>3. RunningOnce' /\ stack' \in Seq(Frames)
    <3>1. ASSUME NEW x \in Coroutines, x # c
          PROVE  (state'[x] = "running") <=> (state[x] = "running")
      <4>1. CASE x = awaiter[c]
        BY <2>2, <3>1, <4>1, CoroutineAssumption
      <4>2. CASE x # awaiter[c]
        BY <2>2, <3>1, <4>2
      <4> QED
        BY <4>1, <4>2
    <3> QED
      BY <1>1, <2>2, <3>1, RunningOnceIfPopped DEF IInv
  <2>4. awaiter[c] # c
    <3> SUFFICES ASSUME awaiter[c] = c PROVE FALSE
      OBVIOUS
    <3>1. awaitee[c] = c
      BY <1>1, <2>1, AwaiterFacts, CoroutineAssumption DEF IInv
    <3>2. {c} \in SUBSET Coroutines /\ {c} # {} /\ \A y \in {c} : awaitee[y] \in {c}
      BY <2>1, <3>1
    <3> QED
      BY <3>2 DEF IInv, NoAwaitCycle
  <2>5. TypeOK'
    <3>1. aborting' \in Coroutines \cup {NoCoroutine}
      BY <2>1, <2>2
    <3> QED
      BY <1>1, <2>1, <2>2, <2>3, <2>4, <3>1, FinishTypes DEF IInv, TypeOK
  <2>6. CASE state[c] = "running"
    BY <1>1, <2>1, <2>3, <2>5, <2>6, LinksKeptByFinishing DEF IInv, AssertionsHold
  <2>7. CASE state[c] # "running"
    <3>1. failed'
      BY <2>1, <2>7 DEF Finish, FinishAsserts
    <3>2. swapFailed
      <4>1. stack[Len(stack)].cr # NoCoroutine /\ state[stack[Len(stack)].cr] # "running"
        BY <2>1, <2>7, CoroutineAssumption DEF Top
      <4>2. Len(stack) \in DOMAIN stack
        <5>1. Len(stack) \in Nat \ {0} /\ DOMAIN stack = 1 .. Len(stack)
          BY <1>1, PoppedFacts, LenProperties
        <5> QED
          BY <5>1
      <4> QED
        BY <4>1, <4>2 DEF IInv, RunningOnce
    <3>3. NoAwaitCycle'
      <4> SUFFICES ASSUME NEW S \in SUBSET Coroutines, S # {},
                          \A y \in S : awaitee'[y] \in S
                   PROVE  FALSE
        BY DEF NoAwaitCycle
      <4>1. \A y \in S : awaitee[y] \in S
        BY <2>1, CoroutineAssumption DEF Finish, UnlinkAwaitee
      <4> QED
        BY <4>1 DEF IInv, NoAwaitCycle
    <3>4. Links'
      BY <3>1 DEF Links, LinksMatch, AwaitersCanWake, AbortingIsCutOff
    <3> QED
      BY <1>1, <2>3, <2>5, <3>1, <3>2, <3>3, <3>4 DEF IInv, AssertionsHold
  <2> QED
    BY <2>6, <2>7
<1> QED
  BY <1>3, <1>4

\* The frame of a catch() has no coroutine.
LEMMA UnwindCatchKeeps ==
  ASSUME IInv, UnwindCatch
  PROVE  IInv'
<1>1. stack # <<>> /\ stack \in Seq(Frames) /\ Top.kind = "catch"
  BY DEF IInv, TypeOK, UnwindCatch
<1>2. Top \in Frames
  BY <1>1, PoppedFacts
<1>3. Top.cr = NoCoroutine
  BY <1>1, <1>2 DEF Frames
<1> QED
  BY <1>3, PopKeeps DEF UnwindCatch

\* One turn of the loop of abort_coroutine(): the next one to be aborted is
\* cut off from the one before.
LEMMA AbortAwaiterKeeps ==
  ASSUME IInv, AbortAwaiter
  PROVE  IInv'
<1> DEFINE a == aborting
           n == awaiter[aborting]
<1>1. /\ awaitee \in [Coroutines -> Coroutines \cup {NoCoroutine}]
      /\ awaiter \in [Coroutines -> Coroutines \cup {NoCoroutine}]
      /\ state \in [Coroutines -> States]
      /\ a \in Coroutines
      /\ NoCoroutine \notin Coroutines
  BY CoroutineAssumption DEF IInv, TypeOK, AbortAwaiter
<1>2. /\ ~failed
      /\ state' = [state EXCEPT ![a] = "finished"]
      /\ awaitee' = [awaitee EXCEPT ![a] = NoCoroutine]
      /\ awaiter' = [awaiter EXCEPT ![a] = NoCoroutine]
      /\ aborting' = n
      /\ UNCHANGED <<stack, raising, destructed, swapFailed>>
  BY DEF AbortAwaiter
<1>3. state[a] \in {"awaiting", "sleeping"} /\ \A d \in Coroutines : awaiter[d] # a
  BY <1>1, <1>2 DEF IInv, Links, AbortingIsCutOff
<1>4. ~failed'
  BY <1>3 DEF AbortAwaiter
<1>5. /\ \A x, d \in Coroutines : x # a => (awaitee[x] = d <=> awaiter[d] = x)
      /\ \A x \in Coroutines :
           x # a =>
             /\ state[x] = "awaiting" <=> awaitee[x] # NoCoroutine
             /\ awaitee[x] # NoCoroutine =>
                  state[awaitee[x]] \in {"running", "awaiting", "sleeping"}
  BY <1>2 DEF IInv, Links, LinksMatch, AwaitersCanWake
<1>6. n # NoCoroutine => n \in Coroutines /\ n # a /\ awaitee[n] = a /\ state[n] = "awaiting"
  BY <1>1, <1>3, <1>5
<1>7. TypeOK'
  BY <1>1, <1>2, <1>4 DEF IInv, TypeOK, AbortAwaiter, States
<1>8. RunningOnce'
  BY <1>1, <1>2, <1>3 DEF IInv, RunningOnce
<1>9. LinksMatch'
  <2> SUFFICES ASSUME NEW x \in Coroutines, NEW d \in Coroutines, x # n
               PROVE  awaitee'[x] = d <=> awaiter'[d] = x
    BY <1>2 DEF LinksMatch
  <2> QED
    BY <1>1, <1>2, <1>3, <1>5
<1>10. AwaitersCanWake'
  <2> SUFFICES ASSUME NEW x \in Coroutines, x # n
               PROVE  /\ state'[x] = "awaiting" <=> awaitee'[x] # NoCoroutine
                      /\ awaitee'[x] # NoCoroutine =>
                           state'[awaitee'[x]] \in {"running", "awaiting", "sleeping"}
    BY <1>2 DEF AwaitersCanWake
  <2>1. CASE x = a
    BY <1>1, <1>2, <2>1
  <2>2. CASE x # a
    <3>1. awaitee[x] # a
      BY <1>1, <1>5, <2>2
    <3> QED
      BY <1>1, <1>2, <1>5, <2>2, <3>1
  <2> QED
    BY <2>1, <2>2
<1>11. AbortingIsCutOff'
  <2> SUFFICES ASSUME n # NoCoroutine
               PROVE  /\ state'[n] \in {"awaiting", "sleeping"}
                      /\ \A d \in Coroutines : awaiter'[d] # n
    BY <1>2 DEF AbortingIsCutOff
  <2> QED
    BY <1>1, <1>2, <1>5, <1>6
<1>12. NoAwaitCycle'
  <2> SUFFICES ASSUME NEW S \in SUBSET Coroutines, S # {},
                      \A y \in S : awaitee'[y] \in S
               PROVE  FALSE
    BY DEF NoAwaitCycle
  <2>1. \A y \in S : awaitee[y] \in S
    BY <1>1, <1>2
  <2> QED
    BY <2>1 DEF IInv, NoAwaitCycle
<1> QED
  BY <1>4, <1>7, <1>8, <1>9, <1>10, <1>11, <1>12 DEF IInv, Links, AssertionsHold
-----------------------------------------------------------------------------
(* The invariant and what it implies.                                      *)

LEMMA InitEstablishes ==
  ASSUME Init
  PROVE  IInv
<1>1. TypeOK
  <2>1. <<>> \in Seq(Frames)
    BY EmptySeq
  <2> QED
    BY <2>1 DEF Init, TypeOK, States
<1>2. Links /\ AssertionsHold
  BY CoroutineAssumption
     DEF Init, Links, LinksMatch, AwaitersCanWake, AbortingIsCutOff, AssertionsHold
<1>3. RunningOnce
  <2>1. DOMAIN stack = {}
    BY EmptySeq, LenProperties DEF Init
  <2> QED
    BY <2>1 DEF Init, RunningOnce
<1>4. NoAwaitCycle
  <2> SUFFICES ASSUME NEW S \in SUBSET Coroutines, S # {},
                      \A y \in S : awaitee[y] \in S
               PROVE  FALSE
    BY DEF NoAwaitCycle
  <2> QED
    BY CoroutineAssumption DEF Init
<1> QED
  BY <1>1, <1>2, <1>3, <1>4 DEF IInv

LEMMA StepPreserves ==
  ASSUME IInv, [Next]_vars
  PROVE  IInv'
<1>1. CASE UNCHANGED vars
  <2>1. TypeOK' /\ RunningOnce'
    BY <1>1 DEF IInv, TypeOK, RunningOnce, vars, crVars, runVars, links
  <2> QED
    BY <1>1, <2>1, LinksKept DEF IInv, vars, runVars
<1>2. ASSUME NEW ob \in Objects, StartEvaluation(ob) PROVE IInv'
  <2>1. Frame(NoCoroutine, ob, "fun") \in Frames /\ Frame(NoCoroutine, ob, "fun").cr = NoCoroutine
    BY DEF Frame, Frames, Kinds
  <2>2. stack' = Append(stack, Frame(NoCoroutine, ob, "fun"))
    <3>1. Append(stack, Frame(NoCoroutine, ob, "fun")) = <<Frame(NoCoroutine, ob, "fun")>>
      BY <1>2 DEF StartEvaluation
    <3> QED
      BY <1>2, <3>1 DEF StartEvaluation
  <2> QED
    BY <1>2, <2>1, <2>2, PushKeeps DEF StartEvaluation
<1>3. ASSUME NEW ob \in Objects, NEW kind \in Kinds, Call(ob, kind) PROVE IInv'
  <2>1. Frame(NoCoroutine, ob, kind) \in Frames /\ Frame(NoCoroutine, ob, kind).cr = NoCoroutine
    BY <1>3 DEF Frame, Frames, Kinds
  <2> QED
    BY <1>3, <2>1, PushKeeps DEF Call
<1>4. CASE Catch
  <2>1. Top \in Frames
    BY <1>4, PoppedFacts DEF IInv, TypeOK, Catch, Executing
  <2>2. Frame(NoCoroutine, Top.ob, "catch") \in Frames /\ Frame(NoCoroutine, Top.ob, "catch").cr = NoCoroutine
    BY <2>1 DEF Frame, Frames, Kinds
  <2> QED
    BY <1>4, <2>2, PushKeeps DEF Catch
<1>5. CASE Return
  <2>1. stack # <<>> /\ Top.cr = NoCoroutine /\ raising' \in BOOLEAN
    BY <1>5 DEF IInv, TypeOK, Return, Executing
  <2> QED
    BY <1>5, <2>1, PopKeeps DEF Return
<1>6. CASE CallStep
  BY <1>2, <1>3, <1>4, <1>5, <1>6 DEF CallStep
<1>7. CASE ErrorStep
  BY <1>7, RaiseKeeps, UnwindFrameKeeps, UnwindCatchKeeps, AbortAwaiterKeeps DEF ErrorStep
<1>8. CASE YieldReturn \/ FinishToCaller \/ FinishToAwaiter \/ FinishFails
  BY <1>8, YieldReturnKeeps, FinishToCallerKeeps, FinishToAwaiterKeeps, FinishFailsKeeps
<1>9. ASSUME NEW c \in Coroutines, NEW ob \in Objects, Create(c, ob) PROVE IInv'
  BY <1>9, CreateKeeps
<1>10. ASSUME NEW ob \in Objects, Destruct(ob) PROVE IInv'
  BY <1>10, DestructKeeps
<1>11. ASSUME NEW t \in Coroutines, NEW r \in Coroutines,
              \/ CallCoroutine(t, r)
              \/ Await(t, r)
              \/ AwaitFails(t, r)
              \/ YieldTo(t, r)
              \/ YieldToFails(t, r)
       PROVE  IInv'
  BY <1>11, CallCoroutineKeeps, AwaitKeeps, AwaitFailsKeeps, YieldToKeeps, YieldToFailsKeeps
<1> QED
  BY <1>1, <1>6, <1>7, <1>8, <1>9, <1>10, <1>11 DEF Next

\* The invariant holds in every state of every execution.
THEOREM Invariance == Spec => []IInv
<1>1. Init => IInv
  BY InitEstablishes
<1>2. IInv /\ [Next]_vars => IInv'
  BY StepPreserves
<1> QED
  BY <1>1, <1>2, PTL DEF Spec

\* Every state of the driver is one the structures of coroutine.h can hold.
THEOREM TypeCorrect == Spec => []TypeOK
<1>1. IInv => TypeOK
  BY DEF IInv
<1> QED
  BY <1>1, Invariance, PTL

\* The assertions of coroutine.c fail only when an object to be resumed could
\* not be swapped in: awaiting, yielding, finishing and aborting in any other
\* order keep them.
THEOREM AssertionsAreSafe == Spec => []AssertionsHold
<1>1. IInv => AssertionsHold
  BY DEF IInv
<1> QED
  BY <1>1, Invariance, PTL

\* ->awaiter and ->awaitee are inverse to each other.
THEOREM LinksAreInverse == Spec => []LinksMatch
<1>1. IInv => LinksMatch
  BY DEF IInv, Links
<1> QED
  BY <1>1, Invariance, PTL

\* A coroutine in CS_AWAITING waits for one that can still finish or fail.
THEOREM AwaitersAreNotForgotten == Spec => []AwaitersCanWake
<1>1. IInv => AwaitersCanWake
  BY DEF IInv, Links
<1> QED
  BY <1>1, Invariance, PTL

\* Both: nobody waits for a coroutine that has forgotten it or is gone.
THEOREM AwaitsStaySound == Spec => []AwaitsAreSound
<1>1. LinksMatch /\ AwaitersCanWake => AwaitsAreSound
  BY DEF AwaitsAreSound
<1> QED
  BY <1>1, LinksAreInverse, AwaitersAreNotForgotten, PTL

\* A coroutine in CS_RUNNING has exactly one frame of the control stack.
THEOREM OneFramePerCoroutine == Spec => []RunningOnce
<1>1. IInv => RunningOnce
  BY DEF IInv
<1> QED
  BY <1>1, Invariance, PTL

\* get_resumable_coroutine() and abort_coroutine() never run in a circle.
THEOREM NoCircularAwait == Spec => []NoAwaitCycle
<1>1. IInv => NoAwaitCycle
  BY DEF IInv
<1> QED
  BY <1>1, Invariance, PTL

\* CS_FINISHED is final, and CS_AWAITING is left for CS_RUNNING only by the
\* step that finishes the coroutine that is waited for.
THEOREM FinishedStaysFinished == Spec => FinishIsFinal
<1> DEFINE Step(c) ==
      /\ state[c] = "finished" => state'[c] = "finished"
      /\ state[c] = "awaiting" /\ state'[c] = "running" =>
           /\ state[awaitee[c]] = "running"
           /\ state'[awaitee[c]] = "finished"
<1>1. ASSUME IInv, Next, NEW x \in Coroutines PROVE Step(x)
  <2>0. state \in [Coroutines -> States]
    BY <1>1 DEF IInv, TypeOK
  <2>1. ASSUME state' = state PROVE Step(x)
    BY <2>1
  <2>2. ASSUME NEW c \in Coroutines, state[c] = "unused", state' = [state EXCEPT ![c] = "sleeping"]
        PROVE  Step(x)
    BY <2>0, <2>2
  <2>3. ASSUME NEW c \in Coroutines, NEW ob \in Objects, Create(c, ob) PROVE Step(x)
    BY <2>2, <2>3 DEF Create
  <2>4. ASSUME NEW t \in Coroutines, NEW r \in Coroutines, CallCoroutine(t, r) PROVE Step(x)
    BY <1>1, <2>0, <2>4, ResumesFacts DEF CallCoroutine, IInv
  <2>5. ASSUME NEW t \in Coroutines, NEW r \in Coroutines,
               Await(t, r) \/ AwaitFails(t, r) \/ YieldTo(t, r) \/ YieldToFails(t, r)
        PROVE  Step(x)
    <3>1. Executing /\ Top.cr # NoCoroutine /\ Resumes(t, r)
      BY <2>5 DEF Await, AwaitFails, YieldTo, YieldToFails
    <3>2. Top.cr \in Coroutines /\ state[Top.cr] = "running" /\ state[r] = "sleeping"
      BY <1>1, <3>1, TopRuns, ResumesFacts DEF IInv
    <3>3. \E s \in {"awaiting", "sleeping"} :
            \/ state' = [state EXCEPT ![Top.cr] = s, ![r] = "running"]
            \/ state' = [state EXCEPT ![Top.cr] = s]
      BY <2>5 DEF Await, AwaitFails, YieldTo, YieldToFails
    <3> QED
      BY <2>0, <3>2, <3>3
  <2>6. CASE YieldReturn
    <3>1. state[Top.cr] = "running" /\ state' = [state EXCEPT ![Top.cr] = "sleeping"]
      BY <1>1, <2>6, TopRuns DEF IInv, YieldReturn
    <3> QED
      BY <2>0, <3>1
  <2>7. CASE FinishToCaller \/ FinishToAwaiter \/ FinishFails
    <3> DEFINE c == Top.cr
    <3>1. c \in Coroutines /\ state[c] = "running" /\ ~failed /\ aborting = NoCoroutine
      BY <1>1, <2>7, TopRuns DEF IInv, FinishToCaller, FinishToAwaiter, FinishFails, Executing
    <3>2. \/ Finish(c, "sleeping")
          \/ Finish(c, "running") /\ awaiter[c] # NoCoroutine
      BY <2>7 DEF FinishToCaller, FinishToAwaiter, FinishFails
    <3>3. state'[x] = IF x = c THEN "finished"
                      ELSE IF x = awaiter[c] THEN state'[awaiter[c]] ELSE state[x]
      BY <3>2 DEF Finish, FinishState
    <3>4. awaiter[c] # NoCoroutine => state[awaiter[c]] = "awaiting" /\ awaitee[awaiter[c]] = c
      BY <1>1, <3>1, AwaiterFacts DEF IInv
    <3>5. state'[c] = "finished"
      BY <3>1, <3>2 DEF Finish, FinishState
    <3> QED
      BY <3>1, <3>3, <3>4, <3>5, CoroutineAssumption
  <2>8. CASE UnwindFrame
    <3> DEFINE c == Top.cr
    <3>1. CASE ~Aborts(c)
      BY <2>1, <2>8, <3>1 DEF UnwindFrame, crVars
    <3>2. CASE Aborts(c)
      <4>1. c \in Coroutines /\ Finish(c, "sleeping") /\ ~failed /\ aborting = NoCoroutine
        BY <1>1, <2>8, <3>2, PoppedFacts DEF Aborts, UnwindFrame, IInv, TypeOK, Frames
      <4>2. awaiter[c] # NoCoroutine => state[awaiter[c]] = "awaiting"
        BY <1>1, <4>1, AwaiterFacts DEF IInv
      <4>3. state'[x] = IF x = c THEN "finished"
                        ELSE IF x = awaiter[c] THEN "sleeping" ELSE state[x]
        BY <4>1 DEF Finish, FinishState
      <4> QED
        BY <4>2, <4>3, CoroutineAssumption
    <3> QED
      BY <3>1, <3>2
  <2>9. CASE AbortAwaiter
    BY <2>0, <2>9 DEF AbortAwaiter
  <2>10. CASE CallStep \/ RaiseError \/ UnwindCatch \/ \E ob \in Objects : Destruct(ob)
    <3>1. state' = state
      BY <2>10 DEF CallStep, StartEvaluation, Call, Catch, Return, RaiseError, UnwindCatch,
                   Destruct, crVars
    <3> QED
      BY <2>1, <3>1
  <2> QED
    BY <1>1, <2>3, <2>4, <2>5, <2>6, <2>7, <2>8, <2>9, <2>10 DEF Next, ErrorStep
<1>2. IInv /\ [Next]_vars => [\A c \in Coroutines : Step(c)]_vars
  BY <1>1
<1>3. Spec => [][\A c \in Coroutines : Step(c)]_vars
  BY <1>2, Invariance, PTL DEF Spec
<1> QED
  BY <1>3 DEF FinishIsFinal
=============================================================================
