-------------------------------- MODULE Erq --------------------------------
(***************************************************************************)
(* The interface of the driver to the ERQ, an external process that does   *)
(* slow things for it: send_erq(), attach_erq_demon(), the part of         *)
(* get_message() that handles the answers, stop_erq_demon() and            *)
(* start_erq_demon() of comm.c.                                            *)
(*                                                                         *)
(* A request with a callback gets a handle, the index of an entry of       *)
(* pending_erq[].  LPC code runs in commands (the stack is empty), in the  *)
(* callback of an answer, in stale_erq() of the master and in the hook     *)
(* H_ERQ_STOP, and may use all the efuns there.  What the loops of the     *)
(* driver keep over such a call is in the frames of the stack, the         *)
(* innermost first.  Messages are read whole.                              *)
(***************************************************************************)
EXTENDS Integers, Sequences, FiniteSets

CONSTANTS
  Requests,       \* requests with a callback
  Objects,        \* the objects their callbacks are bound to
  Owner,          \* the object of each request
  Spawns,         \* the requests that may be answered several times
  Users,          \* users whose connection may become that of the ERQ
  None,
  MaxPendingErq,  \* MAX_PENDING_ERQ
  MaxStarts,      \* bound: calls of start_erq_demon() after the first
  MaxWire,        \* bound: messages of the ERQ that are not yet read
  RestartAnywhere,\* may the callbacks of the ERQ attach another one?
  DestructAnyone  \* may objects that wait for several answers go?

ASSUME ErqAssumption ==
  /\ Owner \in [Requests -> Objects] /\ Spawns \subseteq Requests
  /\ None \notin Requests \cup Users \cup Int
  /\ Requests \cap Int = {}
  /\ Users \cap {"hook", "fork"} = {}
  /\ MaxPendingErq \in Nat \ {0} /\ MaxStarts \in Nat /\ MaxWire \in Nat
  /\ RestartAnywhere \in BOOLEAN /\ DestructAnyone \in BOOLEAN

VARIABLES
  erq,        \* the static variables of comm.c
  stack,      \* calls of the driver in which LPC code runs
  peer,       \* the other end of the connection: is it alive, what it has
              \* been asked and not finished, its messages not yet read
  destructed, \* objects that are destructed
  users,      \* users that are connected
  flagged,    \* those with FLAG_PROTO_ERQ
  status,     \* history: what became of each request
  starts      \* bound: calls of start_erq_demon() so far

vars == <<erq, stack, peer, destructed, users, flagged, status, starts>>

Handles == 0 .. MaxPendingErq - 1

(* The entry after the others, for all requests without a callback.        *)
NoCallback == MaxPendingErq

(* A message that claims to be shorter than its header.                    *)
BadLength == -1

(***************************************************************************)
(* pending_erq[].fun: the field u of an entry that is T_INVALID links the  *)
(* free list, and that of a closure is the closure.                        *)
(***************************************************************************)
FreeEntry(next) == [type |-> "invalid", u |-> next]
Closure(r) == [type |-> "closure", u |-> r]

IsPending(e, h) == h \in Handles /\ e.pending[h].type = "closure"

(* Mutant: the entry is invalid but keeps what was in it.                  *)
FreeHandleUnlinked(e, h) ==
  [e EXCEPT !.pending[h].type = "invalid", !.free = h]

FreeHandle(e, h) ==
  [e EXCEPT !.pending[h] = FreeEntry(e.free), !.free = h]

(* The rest of a message that another ERQ gets means nothing to it.        *)
Torn(unsent) ==
  IF unsent = None THEN None ELSE [handle |-> NoCallback, req |-> None]

NewPeer == [alive |-> TRUE, asked |-> {}, wire |-> <<>>]
NoPeer == [alive |-> FALSE, asked |-> {}, wire |-> <<>>]

(***************************************************************************)
(* start_erq_demon(); started says whether the ERQ answers with `1'.       *)
(***************************************************************************)
FreeList == [h \in Handles |-> FreeEntry(IF h = 0 THEN None ELSE h - 1)]

StartErqDemon(e, started) ==
  [e EXCEPT !.pending = FreeList,
            !.free = MaxPendingErq - 1,
            !.demon = IF started THEN "on" ELSE @,
            !.unsent = IF started THEN Torn(@) ELSE @]

(***************************************************************************)
(* shutdown_erq_demon(), and the frame of stop_erq_demon() in which its    *)
(* loop tells the master of each pending request.  `then' says what its    *)
(* caller does next: the hook (which is in stop_erq_demon() itself), the   *)
(* fork of another ERQ or the user that becomes one.                       *)
(***************************************************************************)
ShutdownErqDemon(e) ==
  [e EXCEPT !.demon = "none", !.unsent = None, !.buf = <<>>]

StopFrame(then) == [at |-> "stop", next |-> 0, then |-> then]

StopErqDemon(then, frames) ==
  /\ erq.demon = "on"
  /\ erq' = ShutdownErqDemon(erq)
  /\ peer' = NoPeer
  /\ stack' = <<StopFrame(then)>> \o frames

LpcFrame(at) == [at |-> at]

LpcRuns == stack # <<>> => Head(stack).at \in {"call", "hook"}

(* In which calls the mudlib attaches an ERQ.                              *)
MayAttach ==
  /\ LpcRuns
  /\ stack # <<>> /\ ~RestartAnywhere => Head(stack).at = "hook"

(***************************************************************************)
(* send_erq(): the rest of the message before is written first; the new    *)
(* one may stay unfinished in its turn.                                    *)
(***************************************************************************)
CanWrite == erq.demon = "on" /\ (erq.unsent = None \/ peer.alive)

Asked(unsent) == IF unsent = None \/ unsent.req = None THEN {} ELSE {unsent}

Write(msg, whole) ==
  /\ CanWrite
  /\ whole => peer.alive
  /\ peer' = [peer EXCEPT !.asked = @ \cup Asked(erq.unsent)
                                      \cup (IF whole THEN Asked(msg) ELSE {})]

SendErq(r, whole) ==
  LET h == erq.free
      msg == [handle |-> h, req |-> r]
  IN  /\ LpcRuns
      /\ status[r] = "new" /\ Owner[r] \notin destructed
      /\ h \in Handles
      /\ Write(msg, whole)
      /\ erq' = [erq EXCEPT !.free = erq.pending[h].u,
                            !.pending[h] = Closure(r),
                            !.unsent = IF whole THEN None ELSE msg]
      /\ status' = [status EXCEPT ![r] = "waiting"]
      /\ UNCHANGED <<stack, destructed, users, flagged, starts>>

(* A request without callback, also the driver's own for a host name.      *)
SendErqNoCallback(whole) ==
  LET msg == [handle |-> NoCallback, req |-> None]
  IN  /\ LpcRuns
      /\ Write(msg, whole)
      /\ erq' = [erq EXCEPT !.unsent = IF whole THEN None ELSE msg]
      /\ UNCHANGED <<stack, destructed, users, flagged, status, starts>>

(***************************************************************************)
(* attach_erq_demon().  FLAG_ERQ_STOP is "stop": the old connection is     *)
(* closed and the user that brings the new one not yet gone.               *)
(***************************************************************************)
Start(e) ==
  \E started \in BOOLEAN :
    /\ erq' = StartErqDemon(e, started)
    /\ peer' = IF started THEN NewPeer ELSE peer

AttachErqName(doClose) ==
  /\ MayAttach
  /\ starts < MaxStarts
  /\ starts' = starts + 1
  /\ \/ /\ erq.demon = "none"
        /\ Start(erq)
        /\ UNCHANGED stack
     \/ /\ erq.demon = "stop" /\ doClose
        /\ Start([erq EXCEPT !.proto = None])
        /\ UNCHANGED stack
     \/ doClose /\ StopErqDemon("fork", stack)
  /\ UNCHANGED <<destructed, users, flagged, status>>

BecomeProto(e, u) == [e EXCEPT !.proto = u]

AttachErqUser(u, doClose) ==
  /\ MayAttach
  /\ u \in users
  /\ \/ /\ erq.demon = "stop" => doClose
        /\ erq.demon # "on"
        /\ erq' = BecomeProto(erq, u)
        /\ flagged' = flagged \cup {u}
        /\ UNCHANGED <<stack, peer>>
     \/ doClose /\ StopErqDemon(u, stack) /\ UNCHANGED flagged
  /\ UNCHANGED <<destructed, users, status, starts>>

(* A write to the user fails: do_close forgets what the user was to become. *)
FailToWrite(u) ==
  /\ LpcRuns
  /\ u \in flagged
  /\ flagged' = flagged \ {u}
  /\ UNCHANGED <<erq, stack, peer, destructed, users, status, starts>>

(* remove_interactive(): the user leaves, because of attach_erq_demon() or *)
(* of its own; only get_message() and remove_object() do this.             *)
RemoveInteractive(u) ==
  /\ stack = <<>>
  /\ u \in users
  /\ users' = users \ {u}
  /\ flagged' = flagged \ {u}
  /\ IF u \in flagged /\ erq.proto = u
     THEN /\ erq' = [erq EXCEPT !.demon = "on", !.proto = None,
                                !.unsent = Torn(@)]
          /\ peer' = NewPeer
     ELSE UNCHANGED <<erq, peer>>
  /\ UNCHANGED <<stack, destructed, status, starts>>

(* destruct() of an object to which callbacks are bound.                   *)
Destruct(o) ==
  /\ LpcRuns
  /\ o \notin destructed
  /\ DestructAnyone \/ \A r \in Spawns : Owner[r] = o => status[r] # "waiting"
  /\ destructed' = destructed \cup {o}
  /\ UNCHANGED <<erq, stack, peer, users, flagged, status, starts>>

(* The callback, stale_erq() or the hook returns or fails: errors are      *)
(* caught by secure_callback_lambda() and callback_master().               *)
Return ==
  /\ stack # <<>> /\ LpcRuns
  /\ stack' = Tail(stack)
  /\ UNCHANGED <<erq, peer, destructed, users, flagged, status, starts>>

(***************************************************************************)
(* The loop of stop_erq_demon() over pending_erq[], and its end.           *)
(***************************************************************************)
Stopping == stack # <<>> /\ Head(stack).at = "stop"

(* Mutant: the last entry is not looked at.                                *)
PendingFromNotLast(e, h) ==
  {g \in Handles : h <= g /\ g < MaxPendingErq - 1 /\ IsPending(e, g)}

PendingFrom(e, h) == {g \in Handles : h <= g /\ IsPending(e, g)}

Lowest(S) == CHOOSE g \in S : \A h \in S : g <= h

TellStale ==
  LET frame == Head(stack)
      stale == PendingFrom(erq, frame.next)
      h == Lowest(stale)
  IN  /\ Stopping /\ stale # {}
      /\ erq' = FreeHandle(erq, h)
      /\ stack' = <<LpcFrame("call"), [frame EXCEPT !.next = h + 1]>>
                    \o Tail(stack)
      /\ status' = [status EXCEPT ![erq.pending[h].u] = "done"]
      /\ UNCHANGED <<peer, destructed, users, flagged, starts>>

EndStop ==
  LET frame == Head(stack)
  IN  /\ Stopping /\ PendingFrom(erq, frame.next) = {}
      /\ \/ /\ frame.then = "hook"
            /\ \E set \in BOOLEAN :
                 stack' = (IF set THEN <<LpcFrame("hook")>> ELSE <<>>)
                            \o Tail(stack)
            /\ UNCHANGED <<erq, peer, flagged>>
         \/ /\ frame.then = "fork"
            /\ Start([erq EXCEPT !.proto = None])
            /\ stack' = Tail(stack)
            /\ UNCHANGED flagged
         \/ /\ frame.then \in Users
            /\ erq' = [BecomeProto(erq, frame.then) EXCEPT !.demon = "stop"]
            /\ flagged' = flagged \cup {frame.then}
            /\ stack' = Tail(stack)
            /\ UNCHANGED peer
      /\ UNCHANGED <<destructed, users, status, starts>>

(***************************************************************************)
(* get_message(): data from the ERQ.  The frame of the loop has the        *)
(* messages from rp on (rest), whether rp has moved, whether the loop was  *)
(* left by `break', and the answer for which LPC code is called: its       *)
(* handle, keep_handle, the callback that is called and, for the property, *)
(* the request the ERQ answered.                                           *)
(***************************************************************************)
LoopFrame(rest) ==
  [at |-> "loop", rest |-> rest, moved |-> FALSE, broken |-> FALSE,
   answer |-> None]

ReadErq ==
  /\ stack = <<>> /\ erq.demon = "on" /\ peer.wire # <<>>
  /\ erq' = [erq EXCEPT !.buf = @ \o peer.wire]
  /\ stack' = <<LoopFrame(erq.buf \o peer.wire)>>
  /\ peer' = [peer EXCEPT !.wire = <<>>]
  /\ UNCHANGED <<destructed, users, flagged, status, starts>>

(* No data: the connection is gone.                                        *)
LoseErq ==
  /\ stack = <<>> /\ peer.wire = <<>> /\ ~peer.alive
  /\ StopErqDemon("hook", <<>>)
  /\ UNCHANGED <<destructed, users, flagged, status, starts>>

Looping == stack # <<>> /\ Head(stack).at = "loop" /\ Head(stack).answer = None

MoreMessages == Looping /\ Head(stack).rest # <<>> /\ ~Head(stack).broken

NextMessage(frame) == [frame EXCEPT !.rest = Tail(@), !.moved = TRUE]

(* A message of less than eight bytes: stop_erq_demon(), and `break'.      *)
HandleBadMessage ==
  LET loop == [Head(stack) EXCEPT !.broken = TRUE]
  IN  /\ MoreMessages /\ Head(loop.rest).handle = BadLength
      /\ IF erq.demon = "on" THEN StopErqDemon("hook", <<loop>>)
         ELSE stack' = <<loop>> /\ UNCHANGED <<erq, peer>>
      /\ UNCHANGED <<destructed, users, flagged, status, starts>>

(* Messages for other handles are no error.                                *)
IgnoreMessage ==
  LET loop == Head(stack)
  IN  /\ MoreMessages /\ Head(loop.rest).handle # BadLength
      /\ ~IsPending(erq, Head(loop.rest).handle)
      /\ stack' = <<NextMessage(loop)>>
      /\ UNCHANGED <<erq, peer, destructed, users, flagged, status, starts>>

(* An answer: its callback is called unless the object is destructed.      *)
HandleAnswer ==
  LET loop == Head(stack)
      m == Head(loop.rest)
      called == erq.pending[m.handle].u
      answer == [handle |-> m.handle, keep |-> m.keep, req |-> m.req,
                 called |-> called]
  IN  /\ MoreMessages /\ IsPending(erq, m.handle)
      /\ stack' = (IF Owner[called] \in destructed THEN <<>>
                   ELSE <<LpcFrame("call")>>)
                    \o <<[loop EXCEPT !.answer = answer]>>
      /\ UNCHANGED <<erq, peer, destructed, users, flagged, status, starts>>

(* Mutant: every answer is the last one.                                   *)
EveryAnswerIsLast(a) == a.handle \in Handles

IsLastAnswer(a) == ~a.keep \/ Owner[a.called] \in destructed

(* After the callback: the handle is freed unless more answers follow.     *)
FinishAnswer ==
  LET loop == Head(stack)
      a == loop.answer
      done == IsLastAnswer(a)
  IN  /\ stack # <<>> /\ loop.at = "loop" /\ a # None
      /\ erq' = IF done THEN FreeHandle(erq, a.handle) ELSE erq
      /\ status' = IF done THEN [status EXCEPT ![a.called] = "done"]
                   ELSE status
      /\ stack' = <<[NextMessage(loop) EXCEPT !.answer = None]>>
      /\ UNCHANGED <<peer, destructed, users, flagged, starts>>

(* The data that were processed are deleted from the buffer.               *)
EndLoop ==
  LET loop == Head(stack)
  IN  /\ Looping /\ (loop.rest = <<>> \/ loop.broken)
      /\ erq' = IF loop.moved THEN [erq EXCEPT !.buf = loop.rest] ELSE erq
      /\ stack' = <<>>
      /\ UNCHANGED <<peer, destructed, users, flagged, status, starts>>

(***************************************************************************)
(* The ERQ, an external process: it answers what it was asked, once or     *)
(* with the handle kept, sends messages that belong to no handle or are    *)
(* none, and dies.  An answer too long for an array is ignored, like one   *)
(* to nobody (`fits').                                                     *)
(***************************************************************************)
Sends(msg, asked) ==
  /\ peer.alive /\ Len(peer.wire) < MaxWire
  /\ peer' = [peer EXCEPT !.wire = Append(@, msg), !.asked = asked]
  /\ UNCHANGED <<erq, stack, destructed, users, flagged, status, starts>>

ErqAnswers(q, keep, fits) ==
  /\ q \in peer.asked /\ (keep => q.req \in Spawns)
  /\ Sends([handle |-> IF fits THEN q.handle ELSE NoCallback,
            req |-> IF fits THEN q.req ELSE None,
            keep |-> keep /\ fits],
           IF keep THEN peer.asked ELSE peer.asked \ {q})

ErqSendsOther(handle) ==
  Sends([handle |-> handle, req |-> None, keep |-> FALSE], peer.asked)

ErqDies ==
  /\ peer.alive
  /\ peer' = [peer EXCEPT !.alive = FALSE, !.asked = {}]
  /\ UNCHANGED <<erq, stack, destructed, users, flagged, status, starts>>

(***************************************************************************)
(* main() starts the first ERQ, which may fail.                            *)
(***************************************************************************)
Init ==
  /\ \E started \in BOOLEAN :
       /\ erq = [pending |-> FreeList, free |-> MaxPendingErq - 1,
                 demon |-> IF started THEN "on" ELSE "none",
                 proto |-> None, unsent |-> None, buf |-> <<>>]
       /\ peer = IF started THEN NewPeer ELSE NoPeer
  /\ stack = <<>>
  /\ destructed = {}
  /\ users = Users
  /\ flagged = {}
  /\ status = [r \in Requests |-> "new"]
  /\ starts = 0

Next ==
  \/ \E r \in Requests, whole \in BOOLEAN : SendErq(r, whole)
  \/ \E whole \in BOOLEAN : SendErqNoCallback(whole)
  \/ \E doClose \in BOOLEAN : AttachErqName(doClose)
  \/ \E u \in Users, doClose \in BOOLEAN : AttachErqUser(u, doClose)
  \/ \E u \in Users : FailToWrite(u)
  \/ \E u \in Users : RemoveInteractive(u)
  \/ \E o \in Objects : Destruct(o)
  \/ Return
  \/ TellStale
  \/ EndStop
  \/ ReadErq
  \/ LoseErq
  \/ HandleBadMessage
  \/ IgnoreMessage
  \/ HandleAnswer
  \/ FinishAnswer
  \/ EndLoop
  \/ \E q \in peer.asked, keep, fits \in BOOLEAN : ErqAnswers(q, keep, fits)
  \/ \E handle \in {NoCallback, BadLength} : ErqSendsOther(handle)
  \/ ErqDies

Spec == Init /\ [][Next]_vars

(***************************************************************************)
(* Properties.                                                             *)
(***************************************************************************)
Messages == [handle : Handles \cup {NoCallback, BadLength},
             req : Requests \cup {None}, keep : BOOLEAN]

(* The variables have their types: in particular an entry of pending_erq[] *)
(* links the free list if and only if it is T_INVALID.                     *)
TypeOK ==
  /\ DOMAIN erq.pending = Handles
  /\ \A h \in Handles :
       erq.pending[h] \in {FreeEntry(g) : g \in Handles \cup {None}}
                            \cup {Closure(r) : r \in Requests}
  /\ erq.free \in Handles \cup {None}
  /\ erq.demon \in {"on", "none", "stop"} /\ erq.proto \in Users \cup {None}
  /\ erq.unsent \in [handle : Handles \cup {NoCallback},
                     req : Requests \cup {None}] \cup {None}
  /\ \A i \in DOMAIN erq.buf : erq.buf[i] \in Messages
  /\ \A i \in DOMAIN stack : stack[i].at \in {"call", "hook", "stop", "loop"}
  /\ peer.alive \in BOOLEAN
  /\ peer.asked \subseteq [handle : Handles, req : Requests]
  /\ \A i \in DOMAIN peer.wire : peer.wire[i] \in Messages
  /\ destructed \subseteq Objects /\ flagged \subseteq users
  /\ users \subseteq Users
  /\ status \in [Requests -> {"new", "waiting", "done"}]
  /\ starts \in 0 .. MaxStarts

(* The entry after n links of the free list.                               *)
FreeAt ==
  LET f[n \in 0 .. MaxPendingErq] ==
        IF n = 0 THEN erq.free
        ELSE IF f[n - 1] \in Handles THEN erq.pending[f[n - 1]].u ELSE None
  IN  f

(* The free list of pending_erq[] has each free entry once and ends.       *)
FreeListIsWhole ==
  /\ FreeAt[MaxPendingErq] = None
  /\ {FreeAt[n] : n \in DOMAIN FreeAt} \ {None}
       = {h \in Handles : erq.pending[h].type = "invalid"}

(* A request with a callback whose last answer has not come and for which  *)
(* the master was not told by stale_erq() that it will not come, is in     *)
(* pending_erq[], so that one or the other can still happen.               *)
EveryPendingIsTold ==
  \A r \in Requests :
    status[r] = "waiting" => \E h \in Handles : erq.pending[h] = Closure(r)

(* At any time, also inside the callbacks that send, attach and destruct,  *)
(* each handle is free or belongs to one request that waits, and each      *)
(* request that waits has one handle.  So no handle is lost or given away  *)
(* twice over answers, losses of the ERQ and restarts.                     *)
HandlesArePartitioned ==
  /\ FreeListIsWhole
  /\ EveryPendingIsTold
  /\ \A h \in Handles : IsPending(erq, h) =>
       /\ status[erq.pending[h].u] = "waiting"
       /\ \A g \in Handles \ {h} : erq.pending[g] # erq.pending[h]

(* An answer is given to the callback of the request the ERQ answers,      *)
(* although handles are reused and answers to earlier owners of a handle   *)
(* may still be on their way.                                              *)
AnswersReachTheirAsker ==
  \A i \in DOMAIN stack :
    stack[i].at = "loop" /\ stack[i].answer # None =>
      stack[i].answer.req = stack[i].answer.called
=============================================================================
