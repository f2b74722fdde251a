------------------------------ MODULE ErqProofs ------------------------------
(***************************************************************************)
(* Proofs about Erq, for any number of requests, objects, users and        *)
(* handles, any number of restarts and messages on their way:              *)
(*   - every handle is in the free list or belongs to one request that     *)
(*     waits, if the mudlib does not attach an ERQ in the callbacks of the *)
(*     one before;                                                         *)
(*   - an answer goes to the request that was asked, if besides no object  *)
(*     is destructed that waits for several answers.                       *)
(***************************************************************************)
EXTENDS Erq, TLAPS, SequenceTheorems, FiniteSetTheorems, WellFoundedInduction

-----------------------------------------------------------------------------
(* The parts of the inductive invariant.                                   *)

Entries == {FreeEntry(g) : g \in Handles \cup {None}} \cup {Closure(r) : r \in Requests}

(* A request on its way to the ERQ, and a message without one.             *)
Asks == [handle : Handles, req : Requests]
Others == {[handle |-> NoCallback, req |-> None]}

ErqStates ==
  [pending : [Handles -> Entries], free : Handles \cup {None},
   demon : {"on", "none", "stop"}, proto : Users \cup {None},
   unsent : Asks \cup Others \cup {None}, buf : Seq(Messages)]

Peers == [alive : BOOLEAN, asked : SUBSET Asks, wire : Seq(Messages)]

(* The frames of the stack.                                                *)
Answers == [handle : Handles, keep : BOOLEAN, req : Requests \cup {None}, called : Requests]
LpcFrames == [at : {"call", "hook"}]
StopFrames == [at : {"stop"}, next : 0 .. MaxPendingErq, then : {"hook", "fork"} \cup Users]
LoopFrames == [at : {"loop"}, rest : Seq(Messages), moved : BOOLEAN, broken : BOOLEAN,
               answer : Answers \cup {None}]
Frames == LpcFrames \cup StopFrames \cup LoopFrames

Typed ==
  /\ erq \in ErqStates /\ peer \in Peers /\ stack \in Seq(Frames)
  /\ destructed \subseteq Objects /\ flagged \subseteq users /\ users \subseteq Users
  /\ status \in [Requests -> {"new", "waiting", "done"}]
  /\ starts \in 0 .. MaxStarts

(* The free list is s: each free entry once, linked in this order.         *)
IsFreeList(pending, free, s) ==
  /\ s \in Seq(Handles)
  /\ \A i, j \in DOMAIN s : s[i] = s[j] => i = j
  /\ \A h \in Handles : pending[h].type = "invalid" <=> \E i \in DOMAIN s : s[i] = h
  /\ free = IF s = <<>> THEN None ELSE s[1]
  /\ \A i \in DOMAIN s : pending[s[i]].u = IF i = Len(s) THEN None ELSE s[i + 1]

(* Each handle is in the free list or belongs to one request that waits.   *)
Shared(pending, st) ==
  /\ \A h \in Handles : pending[h].type = "closure" =>
       /\ st[pending[h].u] = "waiting"
       /\ \A g \in Handles \ {h} : pending[g] # pending[h]
  /\ \A r \in Requests : st[r] = "waiting" => \E h \in Handles : pending[h] = Closure(r)

HandlesOK(pending, free, st) ==
  /\ \E s \in Seq(Handles) : IsFreeList(pending, free, s)
  /\ Shared(pending, st)

(* Without an ERQ nothing is on its way, and only those requests have a    *)
(* handle of which the master is still to be told.                         *)
OffIsQuiet == erq.demon # "on" => peer = NoPeer /\ erq.unsent = None

OffIsTold ==
  erq.demon # "on" =>
    \A h \in Handles : IsPending(erq, h) =>
      \E i \in DOMAIN stack : stack[i].at = "stop" /\ stack[i].next <= h

(* The loop of stop_erq_demon() runs without an ERQ, with nothing above it *)
(* but stale_erq() of the master.                                          *)
UnderCall(i) == i = 1 \/ (i = 2 /\ stack[1].at = "call")

StopsOK ==
  /\ \A i \in DOMAIN stack : stack[i].at = "call" => i = 1
  /\ \A i \in DOMAIN stack : stack[i].at = "stop" =>
       UnderCall(i) /\ erq.demon = "none" /\ stack[i].then \in {"hook", "fork"} \cup users

(* The loop of get_message() is the first frame there was; the answer it   *)
(* is at is the first message not yet done, and its handle is in use.      *)
AtBadMessage(messages) == messages # <<>> /\ Head(messages).handle = BadLength

AnswerOK(loop) ==
  /\ loop.rest # <<>>
  /\ LET m == Head(loop.rest)
         a == loop.answer
     IN  /\ a.handle = m.handle /\ a.keep = m.keep /\ a.req = m.req
         /\ erq.pending[a.handle] = Closure(a.called)

LoopsOK ==
  \A i \in DOMAIN stack : stack[i].at = "loop" =>
    /\ i = Len(stack)
    /\ stack[i].broken => stack[i].answer = None /\ AtBadMessage(stack[i].rest)
    /\ ~stack[i].broken =>
         UnderCall(i) /\ erq.demon = "on" /\ (stack[i].answer # None => AnswerOK(stack[i]))

(* What is in the buffer between two calls of get_message() cannot be      *)
(* read: it begins with the message that ended the loop.                   *)
BufferOK ==
  /\ (\A i \in DOMAIN stack : stack[i].at # "loop") => erq.buf = <<>> \/ AtBadMessage(erq.buf)
  /\ \A i \in DOMAIN stack : stack[i].at = "loop" /\ ~stack[i].moved =>
       /\ stack[i].rest # <<>>
       /\ erq.buf = <<>> \/ (erq.buf # <<>> /\ Head(erq.buf) = Head(stack[i].rest))

StackOK == StopsOK /\ LoopsOK /\ BufferOK

(* The invariant about the handles.                                        *)
HInv ==
  /\ Typed
  /\ HandlesOK(erq.pending, erq.free, status)
  /\ OffIsQuiet /\ OffIsTold
  /\ StackOK

(* The messages that get_message() has read and not done with, and those   *)
(* that it has not read.                                                   *)
UnreadOf(st) ==
  IF st # <<>> /\ st[Len(st)].at = "loop" /\ ~st[Len(st)].broken
  THEN st[Len(st)].rest ELSE <<>>

Line == UnreadOf(stack) \o peer.wire

(* Those before the first that ends the loop.                              *)
Readable(line) == {i \in DOMAIN line : \A j \in 1 .. i : line[j].handle # BadLength}

(* The last answer to a request.                                           *)
IsFinal(m) == m.handle \in Handles /\ ~m.keep

(* The messages in line, what the ERQ was asked and what it is still to be *)
(* sent are for the owners of their handles, and nothing comes behind the  *)
(* last answer.                                                            *)
LineOK(pending, line) ==
  /\ \A i \in Readable(line) : line[i].handle \in Handles =>
       /\ pending[line[i].handle] = Closure(line[i].req)
       /\ line[i].req \in Requests
       /\ line[i].keep => line[i].req \in Spawns
  /\ \A i, j \in Readable(line) : i < j /\ IsFinal(line[i]) => line[j].handle # line[i].handle

AskedOK(pending, line, asked) ==
  \A q \in asked :
    /\ pending[q.handle] = Closure(q.req)
    /\ \A i \in Readable(line) : IsFinal(line[i]) => line[i].handle # q.handle

UnsentOK(pending, line, asked, unsent) ==
  unsent \in Asks \ {None} =>
    /\ pending[unsent.handle] = Closure(unsent.req)
    /\ unsent \notin asked
    /\ \A i \in Readable(line) : line[i].handle # unsent.handle

MessagesOK(pending, line, asked, unsent) ==
  /\ LineOK(pending, line)
  /\ AskedOK(pending, line, asked)
  /\ UnsentOK(pending, line, asked, unsent)

(* The object of a request that is answered several times stays.           *)
SpawnsLive ==
  \A h \in Handles : \A r \in Spawns :
    erq.pending[h] = Closure(r) => Owner[r] \notin destructed

(* The invariant about the answers.                                        *)
AInv ==
  /\ MessagesOK(erq.pending, Line, peer.asked, erq.unsent)
  /\ SpawnsLive

-----------------------------------------------------------------------------
(* Sequences, and the least number of a set.                               *)

\* A set of natural numbers has a least one.
LEMMA NatMin ==
  ASSUME NEW T, T \subseteq Nat, T # {}
  PROVE  \E n \in T : \A m \in T : n <= m
<1> DEFINE R == {ss \in Nat \X Nat : ss[1] < ss[2]}
<1>1. IsWellFoundedOn(R, Nat)
  BY NatLessThanWellFounded DEF OpToRel
<1>2. PICK x \in T : \A y \in T : <<y, x>> \notin R
  BY <1>1, WFMin
<1>3. ASSUME NEW y \in T
      PROVE  x <= y
  <2>1. <<y, x>> \in Nat \X Nat /\ <<y, x>>[1] = y /\ <<y, x>>[2] = x
    OBVIOUS
  <2>2. ~(y < x)
    BY <1>2, <2>1
  <2> QED
    BY <2>2
<1> QED
  BY <1>3

\* An element comes to the head.
LEMMA PrependFacts ==
  ASSUME NEW S, NEW s \in Seq(S), NEW o \in S
  PROVE  /\ Len(s) \in Nat /\ DOMAIN s = 1 .. Len(s)
         /\ <<o>> \o s \in Seq(S)
         /\ Len(<<o>> \o s) = Len(s) + 1
         /\ DOMAIN (<<o>> \o s) = 1 .. Len(s) + 1
         /\ (<<o>> \o s)[1] = o
         /\ \A i \in 2 .. Len(s) + 1 : (<<o>> \o s)[i] = s[i - 1]
<1>1. <<o>> \in Seq(S) /\ Len(<<o>>) = 1 /\ <<o>>[1] = o
  OBVIOUS
<1>2. Len(s) \in Nat /\ DOMAIN s = 1 .. Len(s)
  BY LenProperties
<1>3. /\ <<o>> \o s \in Seq(S) /\ Len(<<o>> \o s) = 1 + Len(s)
      /\ \A i \in 1 .. 1 + Len(s) : (<<o>> \o s)[i] = IF i <= 1 THEN <<o>>[i] ELSE s[i - 1]
  BY <1>1, ConcatProperties
<1>4. DOMAIN (<<o>> \o s) = 1 .. Len(s) + 1
  BY <1>2, <1>3, LenProperties
<1> QED
  BY <1>1, <1>2, <1>3, <1>4

\* The head goes.
LEMMA PopFacts ==
  ASSUME NEW S, NEW s \in Seq(S), s # << >>
  PROVE  /\ Len(s) \in Nat \ {0} /\ DOMAIN s = 1 .. Len(s)
         /\ Head(s) = s[1] /\ s[1] \in S
         /\ Tail(s) \in Seq(S) /\ Len(Tail(s)) = Len(s) - 1
         /\ DOMAIN Tail(s) = 1 .. Len(s) - 1
         /\ \A i \in 1 .. Len(s) - 1 : Tail(s)[i] = s[i + 1]
         /\ Tail(s) = <<>> <=> Len(s) = 1
<1>1. Len(s) \in Nat \ {0} /\ DOMAIN s = 1 .. Len(s)
  BY EmptySeq, LenProperties
<1>2. Head(s) \in S /\ Tail(s) \in Seq(S) /\ Len(Tail(s)) = Len(s) - 1
      /\ \A i \in 1 .. Len(s) - 1 : Tail(s)[i] = s[i + 1]
  BY HeadTailProperties
<1>3. Head(s) = s[1]
  OBVIOUS
<1>4. DOMAIN Tail(s) = 1 .. Len(s) - 1
  BY <1>1, <1>2, LenProperties
<1>5. Tail(s) = <<>> <=> Len(s) = 1
  <2>1. Tail(s) = <<>> <=> Len(Tail(s)) = 0
    BY <1>2, EmptySeq
  <2> QED
    BY <1>1, <1>2, <2>1
<1> QED
  BY <1>1, <1>2, <1>3, <1>4, <1>5

\* The head of a concatenation goes.
LEMMA ConcatTail ==
  ASSUME NEW S, NEW s \in Seq(S), NEW t \in Seq(S), s # << >>
  PROVE  Head(s \o t) = Head(s) /\ Tail(s \o t) = Tail(s) \o t
<1> DEFINE c == s \o t
           d == Tail(s) \o t
<1>1. /\ Len(s) \in Nat \ {0} /\ Head(s) = s[1] /\ Tail(s) \in Seq(S)
      /\ Len(Tail(s)) = Len(s) - 1 /\ \A i \in 1 .. Len(s) - 1 : Tail(s)[i] = s[i + 1]
  BY PopFacts
<1>2. Len(t) \in Nat
  BY LenProperties
<1>3. /\ c \in Seq(S) /\ Len(c) = Len(s) + Len(t)
      /\ \A i \in 1 .. Len(s) + Len(t) : c[i] = IF i <= Len(s) THEN s[i] ELSE t[i - Len(s)]
  BY ConcatProperties
<1>4. /\ d \in Seq(S) /\ Len(d) = Len(s) - 1 + Len(t)
      /\ \A i \in 1 .. Len(s) - 1 + Len(t) :
           d[i] = IF i <= Len(s) - 1 THEN Tail(s)[i] ELSE t[i - (Len(s) - 1)]
  BY <1>1, ConcatProperties
<1>5. c # << >>
  BY <1>1, ConcatEqualIffEmpty
<1> HIDE DEF c, d
<1>6. /\ Head(c) = c[1] /\ Tail(c) \in Seq(S) /\ Len(Tail(c)) = Len(c) - 1
      /\ \A i \in 1 .. Len(c) - 1 : Tail(c)[i] = c[i + 1]
  BY <1>3, <1>5, PopFacts
<1>7. Head(c) = Head(s)
  BY <1>1, <1>2, <1>3, <1>6
<1>8. \A i \in 1 .. Len(d) : Tail(c)[i] = d[i]
  <2> TAKE i \in 1 .. Len(d)
  <2>1. /\ i \in 1 .. Len(s) - 1 + Len(t) /\ i + 1 \in 1 .. Len(s) + Len(t)
        /\ i + 1 - Len(s) = i - (Len(s) - 1)
    BY <1>1, <1>2, <1>4
  <2>2. Tail(c)[i] = c[i + 1]
    BY <1>1, <1>2, <1>3, <1>6, <2>1
  <2>3. CASE i <= Len(s) - 1
    BY <1>1, <1>2, <1>3, <1>4, <2>1, <2>2, <2>3
  <2>4. CASE ~(i <= Len(s) - 1)
    <3>1. ~(i + 1 <= Len(s))
      BY <1>1, <2>1, <2>4
    <3>2. c[i + 1] = t[i + 1 - Len(s)]
      BY <1>3, <2>1, <3>1
    <3>3. d[i] = t[i - (Len(s) - 1)]
      BY <1>4, <2>1, <2>4
    <3> QED
      BY <2>1, <2>2, <3>2, <3>3
  <2> QED
    BY <2>3, <2>4
<1>9. Len(Tail(c)) = Len(d)
  BY <1>1, <1>2, <1>3, <1>4, <1>6
<1>10. Tail(c) = d
  BY <1>4, <1>6, <1>8, <1>9, SeqEqual
<1> QED
  BY <1>7, <1>10 DEF c, d

\* Something is appended behind a concatenation.
LEMMA ConcatAppend ==
  ASSUME NEW S, NEW s \in Seq(S), NEW t \in Seq(S), NEW e \in S
  PROVE  s \o Append(t, e) = Append(s \o t, e)
<1>1. <<e>> \in Seq(S) /\ s \o t \in Seq(S)
  BY ConcatProperties
<1>2. Append(t, e) = t \o <<e>> /\ Append(s \o t, e) = (s \o t) \o <<e>>
  BY <1>1, AppendIsConcat
<1>3. s \o (t \o <<e>>) = (s \o t) \o <<e>>
  BY <1>1, ConcatAssociative
<1> QED
  BY <1>2, <1>3

LEMMA PairFacts ==
  ASSUME NEW S, NEW a \in S, NEW b \in S
  PROVE  /\ <<a, b>> \in Seq(S) /\ Len(<<a, b>>) = 2
         /\ <<a, b>>[1] = a /\ <<a, b>>[2] = b
OBVIOUS

-----------------------------------------------------------------------------
(* The handles.                                                            *)

LEMMA EntryFacts ==
  ASSUME NEW e \in Entries
  PROVE  /\ e.type = "invalid" => e.u \in Handles \cup {None} /\ e = FreeEntry(e.u)
         /\ e.type = "closure" => e.u \in Requests /\ e = Closure(e.u)
         /\ e.type \in {"invalid", "closure"}
BY DEF Entries, FreeEntry, Closure

LEMMA NewEntries ==
  /\ \A g \in Handles \cup {None} :
       FreeEntry(g) \in Entries /\ FreeEntry(g).type = "invalid" /\ FreeEntry(g).u = g
  /\ \A r \in Requests :
       Closure(r) \in Entries /\ Closure(r).type = "closure" /\ Closure(r).u = r
BY DEF Entries, FreeEntry, Closure

LEMMA HandleFacts ==
  /\ MaxPendingErq \in Nat \ {0}
  /\ Handles \subseteq Nat /\ None \notin Handles /\ None \notin Requests
  /\ NoCallback \notin Handles /\ BadLength \notin Handles /\ NoCallback # BadLength
  /\ Handles \cap Requests = {}
BY ErqAssumption DEF Handles, NoCallback, BadLength

\* send_erq() takes the first entry of the free list.
LEMMA SendKeeps ==
  ASSUME NEW p \in [Handles -> Entries], NEW f, NEW st \in [Requests -> {"new", "waiting", "done"}],
         HandlesOK(p, f, st), f \in Handles, NEW r \in Requests, st[r] = "new"
  PROVE  /\ p[f].type = "invalid" /\ p[f].u \in Handles \cup {None}
         /\ HandlesOK([p EXCEPT ![f] = Closure(r)], p[f].u, [st EXCEPT ![r] = "waiting"])
<1> DEFINE q == [p EXCEPT ![f] = Closure(r)]
           t == [st EXCEPT ![r] = "waiting"]
<1>1. PICK s \in Seq(Handles) : IsFreeList(p, f, s)
  BY DEF HandlesOK
<1>2. s # <<>> /\ s[1] = f
  BY <1>1, HandleFacts DEF IsFreeList
<1>3. /\ Len(s) \in Nat \ {0} /\ DOMAIN s = 1 .. Len(s)
      /\ Tail(s) \in Seq(Handles) /\ Len(Tail(s)) = Len(s) - 1
      /\ DOMAIN Tail(s) = 1 .. Len(s) - 1
      /\ \A i \in 1 .. Len(s) - 1 : Tail(s)[i] = s[i + 1]
      /\ Tail(s) = <<>> <=> Len(s) = 1
  BY <1>2, PopFacts
<1>4. p[f].type = "invalid" /\ p[f].u = IF Len(s) = 1 THEN None ELSE s[2]
  BY <1>1, <1>2, <1>3 DEF IsFreeList
<1>5. p[f].u \in Handles \cup {None}
  BY <1>4, EntryFacts
<1>6. /\ q \in [Handles -> Entries] /\ q[f].type = "closure" /\ q[f].u = r /\ q[f] = Closure(r)
      /\ \A h \in Handles \ {f} : q[h] = p[h]
  BY NewEntries
<1>7. t[r] = "waiting" /\ \A x \in Requests \ {r} : t[x] = st[x]
  OBVIOUS
<1> HIDE DEF q, t
<1>8. IsFreeList(q, p[f].u, Tail(s))
  <2>1. \A i, j \in 1 .. Len(s) : s[i] = s[j] => i = j
    BY <1>1, <1>3 DEF IsFreeList
  <2>2. \A i \in 1 .. Len(s) - 1 : s[i + 1] # f /\ s[i + 1] \in Handles
    <3> TAKE i \in 1 .. Len(s) - 1
    <3>1. i + 1 \in 1 .. Len(s) /\ 1 \in 1 .. Len(s) /\ i + 1 # 1
      BY <1>3
    <3>2. s[i + 1] \in Handles
      BY <1>3, <3>1, ElementOfSeq
    <3> QED
      BY <1>2, <2>1, <3>1, <3>2
  <2>3. \A i, j \in DOMAIN Tail(s) : Tail(s)[i] = Tail(s)[j] => i = j
    <3> TAKE i, j \in DOMAIN Tail(s)
    <3>1. i + 1 \in 1 .. Len(s) /\ j + 1 \in 1 .. Len(s) /\ (i + 1 = j + 1 => i = j)
      BY <1>3
    <3> QED
      BY <1>3, <2>1, <3>1
  <2>4. ASSUME NEW h \in Handles
        PROVE  q[h].type = "invalid" <=> \E i \in DOMAIN Tail(s) : Tail(s)[i] = h
    <3>1. CASE h = f
      BY <1>3, <1>6, <2>2, <3>1
    <3>2. CASE h # f
      <4>1. q[h].type = "invalid" <=> \E i \in 1 .. Len(s) : s[i] = h
        <5>1. p[h].type = "invalid" <=> \E i \in DOMAIN s : s[i] = h
          BY <1>1 DEF IsFreeList
        <5>2. q[h] = p[h] /\ DOMAIN s = 1 .. Len(s)
          BY <1>3, <1>6, <3>2
        <5> QED
          BY <5>1, <5>2
      <4>2. ASSUME NEW i \in 1 .. Len(s), s[i] = h
            PROVE  \E j \in DOMAIN Tail(s) : Tail(s)[j] = h
        <5>1. i # 1 /\ i - 1 \in 1 .. Len(s) - 1 /\ (i - 1) + 1 = i
          BY <1>2, <1>3, <3>2, <4>2
        <5>2. Tail(s)[i - 1] = h
          BY <1>3, <4>2, <5>1
        <5> QED
          BY <1>3, <5>1, <5>2
      <4>3. ASSUME NEW j \in DOMAIN Tail(s), Tail(s)[j] = h
            PROVE  \E i \in 1 .. Len(s) : s[i] = h
        <5>1. j + 1 \in 1 .. Len(s) /\ s[j + 1] = h
          BY <1>3, <4>3
        <5> QED
          BY <5>1
      <4> QED
        BY <4>1, <4>2, <4>3
    <3> QED
      BY <3>1, <3>2
  <2>5. p[f].u = IF Tail(s) = <<>> THEN None ELSE Tail(s)[1]
    <3>1. CASE Len(s) = 1
      BY <1>3, <1>4, <3>1, EmptySeq
    <3>2. CASE Len(s) # 1
      <4>1. 1 \in 1 .. Len(s) - 1 /\ Tail(s)[1] = s[2]
        BY <1>3, <3>2
      <4>2. Tail(s) # <<>>
        BY <1>3, <3>2
      <4> QED
        BY <1>4, <3>2, <4>1, <4>2
    <3> QED
      BY <3>1, <3>2
  <2>6. ASSUME NEW i \in DOMAIN Tail(s)
        PROVE  q[Tail(s)[i]].u = IF i = Len(Tail(s)) THEN None ELSE Tail(s)[i + 1]
    <3>1. i \in 1 .. Len(s) - 1 /\ i + 1 \in 1 .. Len(s) /\ Tail(s)[i] = s[i + 1]
      BY <1>3
    <3>2. q[s[i + 1]] = p[s[i + 1]]
      BY <1>6, <2>2, <3>1
    <3>3. p[s[i + 1]].u = IF i + 1 = Len(s) THEN None ELSE s[(i + 1) + 1]
      BY <1>1, <1>3, <3>1 DEF IsFreeList
    <3>4. CASE i = Len(s) - 1
      BY <1>3, <3>1, <3>2, <3>3, <3>4
    <3>5. CASE i # Len(s) - 1
      <4>1. i + 1 \in 1 .. Len(s) - 1 /\ i # Len(Tail(s)) /\ i + 1 # Len(s)
        BY <1>3, <3>1, <3>5
      <4>2. Tail(s)[i + 1] = s[(i + 1) + 1]
        BY <1>3, <4>1
      <4> QED
        BY <3>1, <3>2, <3>3, <4>1, <4>2
    <3> QED
      BY <3>4, <3>5
  <2> QED
    BY <1>3, <2>3, <2>4, <2>5, <2>6 DEF IsFreeList
<1>9. Shared(q, t)
  <2>1. ASSUME NEW h \in Handles, q[h].type = "closure"
        PROVE  t[q[h].u] = "waiting" /\ \A g \in Handles \ {h} : q[g] # q[h]
    <3>1. \A g \in Handles \ {f} : p[g] # Closure(r)
      BY EntryFacts, NewEntries DEF HandlesOK, Shared
    <3>2. CASE h = f
      BY <1>6, <1>7, <3>1, <3>2
    <3>3. CASE h # f
      <4>1. p[h].type = "closure" /\ p[h].u \in Requests /\ st[p[h].u] = "waiting"
            /\ \A g \in Handles \ {h} : p[g] # p[h]
        BY <1>6, <2>1, <3>3, EntryFacts DEF HandlesOK, Shared
      <4>2. p[h] # Closure(r) /\ p[h].u # r
        BY <3>1, <3>3, <4>1
      <4> QED
        BY <1>6, <1>7, <3>3, <4>1, <4>2
    <3> QED
      BY <3>2, <3>3
  <2>2. ASSUME NEW x \in Requests, t[x] = "waiting"
        PROVE  \E h \in Handles : q[h] = Closure(x)
    <3>1. CASE x = r
      BY <1>6, <3>1
    <3>2. CASE x # r
      <4>1. PICK h \in Handles : p[h] = Closure(x)
        BY <1>7, <2>2, <3>2 DEF HandlesOK, Shared
      <4>2. h # f
        BY <1>4, <4>1, NewEntries
      <4> QED
        BY <1>6, <4>1, <4>2
    <3> QED
      BY <3>1, <3>2
  <2> QED
    BY <2>1, <2>2 DEF Shared
<1> QED
  BY <1>3, <1>4, <1>5, <1>8, <1>9 DEF HandlesOK, q, t

\* An answer or stale_erq() gives a handle back, which becomes the first free.
LEMMA FreeKeeps ==
  ASSUME NEW p \in [Handles -> Entries], NEW f \in Handles \cup {None},
         NEW st \in [Requests -> {"new", "waiting", "done"}],
         HandlesOK(p, f, st), NEW h \in Handles, p[h].type = "closure"
  PROVE  /\ [p EXCEPT ![h] = FreeEntry(f)] \in [Handles -> Entries]
         /\ HandlesOK([p EXCEPT ![h] = FreeEntry(f)], h, [st EXCEPT ![p[h].u] = "done"])
<1> DEFINE q == [p EXCEPT ![h] = FreeEntry(f)]
           r == p[h].u
           t == [st EXCEPT ![r] = "done"]
<1>1. PICK s \in Seq(Handles) : IsFreeList(p, f, s)
  BY DEF HandlesOK
<1> DEFINE n == <<h>> \o s
<1>2. /\ Len(s) \in Nat /\ DOMAIN s = 1 .. Len(s)
      /\ n \in Seq(Handles) /\ Len(n) = Len(s) + 1 /\ DOMAIN n = 1 .. Len(s) + 1
      /\ n[1] = h /\ \A i \in 2 .. Len(s) + 1 : n[i] = s[i - 1]
  BY PrependFacts
<1>3. r \in Requests /\ p[h] = Closure(r)
  BY EntryFacts
<1>4. /\ q \in [Handles -> Entries] /\ q[h].type = "invalid" /\ q[h].u = f
      /\ \A g \in Handles \ {h} : q[g] = p[g]
  BY NewEntries
<1>5. t[r] = "done" /\ \A x \in Requests \ {r} : t[x] = st[x]
  BY <1>3
<1> HIDE DEF q, r, t, n
<1>6. IsFreeList(q, h, n)
  <2>1. \A i \in 1 .. Len(s) : s[i] # h /\ s[i] \in Handles
    BY <1>1, <1>2, ElementOfSeq DEF IsFreeList
  <2>2. \A i, j \in 1 .. Len(s) : s[i] = s[j] => i = j
    BY <1>1, <1>2 DEF IsFreeList
  <2>3. ASSUME NEW i \in DOMAIN n, NEW j \in DOMAIN n, n[i] = n[j]
        PROVE  i = j
    <3>1. CASE i = 1 /\ j = 1
      BY <3>1
    <3>2. CASE i = 1 /\ j # 1
      <4>1. j \in 2 .. Len(s) + 1 /\ j - 1 \in 1 .. Len(s)
        BY <1>2, <3>2
      <4> QED
        BY <1>2, <2>1, <2>3, <3>2, <4>1
    <3>3. CASE i # 1 /\ j = 1
      <4>1. i \in 2 .. Len(s) + 1 /\ i - 1 \in 1 .. Len(s)
        BY <1>2, <3>3
      <4> QED
        BY <1>2, <2>1, <2>3, <3>3, <4>1
    <3>4. CASE i # 1 /\ j # 1
      <4>1. /\ i \in 2 .. Len(s) + 1 /\ i - 1 \in 1 .. Len(s)
            /\ j \in 2 .. Len(s) + 1 /\ j - 1 \in 1 .. Len(s)
        BY <1>2, <3>4
      <4>2. i - 1 = j - 1
        BY <1>2, <2>2, <2>3, <4>1
      <4> QED
        BY <4>1, <4>2
    <3> QED
      BY <3>1, <3>2, <3>3, <3>4
  <2>4. ASSUME NEW g \in Handles
        PROVE  q[g].type = "invalid" <=> \E i \in DOMAIN n : n[i] = g
    <3>1. CASE g = h
      BY <1>2, <1>4, <3>1
    <3>2. CASE g # h
      <4>1. q[g].type = "invalid" <=> \E i \in 1 .. Len(s) : s[i] = g
        <5>1. p[g].type = "invalid" <=> \E i \in DOMAIN s : s[i] = g
          BY <1>1 DEF IsFreeList
        <5> QED
          BY <1>2, <1>4, <3>2, <5>1
      <4>2. ASSUME NEW i \in 1 .. Len(s), s[i] = g
            PROVE  \E j \in DOMAIN n : n[j] = g
        <5>1. i + 1 \in 2 .. Len(s) + 1 /\ (i + 1) - 1 = i /\ i + 1 \in DOMAIN n
          BY <1>2
        <5>2. n[i + 1] = g
          BY <1>2, <4>2, <5>1
        <5> QED
          BY <5>1, <5>2
      <4>3. ASSUME NEW j \in DOMAIN n, n[j] = g
            PROVE  \E i \in 1 .. Len(s) : s[i] = g
        <5>1. j \in 2 .. Len(s) + 1 /\ j - 1 \in 1 .. Len(s)
          BY <1>2, <3>2, <4>3
        <5>2. s[j - 1] = g
          BY <1>2, <4>3, <5>1
        <5> QED
          BY <5>1, <5>2
      <4> QED
        BY <4>1, <4>2, <4>3
    <3> QED
      BY <3>1, <3>2
  <2>5. n # <<>>
    BY <1>2, EmptySeq
  <2>6. ASSUME NEW i \in DOMAIN n
        PROVE  q[n[i]].u = IF i = Len(n) THEN None ELSE n[i + 1]
    <3>1. CASE i = 1
      <4>1. q[n[i]].u = f
        BY <1>2, <1>4, <3>1
      <4>2. CASE s = <<>>
        <5>1. Len(s) = 0
          BY <4>2, EmptySeq
        <5> QED
          BY <1>1, <1>2, <3>1, <4>1, <4>2, <5>1 DEF IsFreeList
      <4>3. CASE s # <<>>
        <5>1. Len(s) \in Nat \ {0}
          BY <4>3, EmptySeq
        <5>2. 2 \in 2 .. Len(s) + 1 /\ n[2] = s[1] /\ i # Len(n)
          BY <1>2, <3>1, <5>1
        <5> QED
          BY <1>1, <3>1, <4>1, <4>3, <5>2 DEF IsFreeList
      <4> QED
        BY <4>2, <4>3
    <3>2. CASE i # 1
      <4>1. i \in 2 .. Len(s) + 1 /\ i - 1 \in 1 .. Len(s) /\ n[i] = s[i - 1]
        BY <1>2, <3>2
      <4>2. q[s[i - 1]] = p[s[i - 1]]
        BY <1>4, <2>1, <4>1
      <4>3. p[s[i - 1]].u = IF i - 1 = Len(s) THEN None ELSE s[(i - 1) + 1]
        BY <1>1, <1>2, <4>1 DEF IsFreeList
      <4>4. CASE i = Len(n)
        BY <1>2, <4>1, <4>2, <4>3, <4>4
      <4>5. CASE i # Len(n)
        <5>1. i + 1 \in 2 .. Len(s) + 1 /\ n[i + 1] = s[(i + 1) - 1] /\ i - 1 # Len(s)
              /\ (i + 1) - 1 = (i - 1) + 1
          BY <1>2, <4>1, <4>5
        <5> QED
          BY <4>1, <4>2, <4>3, <4>5, <5>1
      <4> QED
        BY <4>4, <4>5
    <3> QED
      BY <3>1, <3>2
  <2> QED
    BY <1>2, <2>3, <2>4, <2>5, <2>6 DEF IsFreeList
<1>7. Shared(q, t)
  <2>1. ASSUME NEW g \in Handles, q[g].type = "closure"
        PROVE  t[q[g].u] = "waiting" /\ \A x \in Handles \ {g} : q[x] # q[g]
    <3>1. g # h /\ q[g] = p[g]
      BY <1>4, <2>1
    <3>2. p[g].type = "closure" /\ p[g].u \in Requests /\ st[p[g].u] = "waiting"
          /\ p[g] = Closure(p[g].u) /\ \A x \in Handles \ {g} : p[x] # p[g]
      BY <2>1, <3>1, EntryFacts DEF HandlesOK, Shared
    <3>3. p[g].u # r
      BY <1>3, <3>1, <3>2
    <3> QED
      BY <1>4, <1>5, <2>1, <3>1, <3>2, <3>3
  <2>2. ASSUME NEW x \in Requests, t[x] = "waiting"
        PROVE  \E g \in Handles : q[g] = Closure(x)
    <3>1. x # r /\ st[x] = "waiting"
      BY <1>5, <2>2
    <3>2. PICK g \in Handles : p[g] = Closure(x)
      BY <3>1 DEF HandlesOK, Shared
    <3>3. g # h
      BY <1>3, <3>1, <3>2, NewEntries
    <3> QED
      BY <1>4, <3>2, <3>3
  <2> QED
    BY <2>1, <2>2 DEF Shared
<1> QED
  BY <1>2, <1>4, <1>6, <1>7 DEF HandlesOK, q, r, t

\* start_erq_demon() makes a new list, which loses nobody if nobody has a handle.
LEMMA FreshList ==
  ASSUME NEW st, \A r \in Requests : st[r] # "waiting"
  PROVE  /\ FreeList \in [Handles -> Entries] /\ MaxPendingErq - 1 \in Handles
         /\ HandlesOK(FreeList, MaxPendingErq - 1, st)
<1> DEFINE s == [i \in 1 .. MaxPendingErq |-> MaxPendingErq - i]
<1>1. s \in Seq(Handles) /\ Len(s) = MaxPendingErq /\ DOMAIN s = 1 .. MaxPendingErq
  BY HandleFacts DEF Handles
<1>2. \A h \in Handles : IF h = 0 THEN TRUE ELSE h - 1 \in Handles
  BY HandleFacts DEF Handles
<1>3. /\ FreeList \in [Handles -> Entries]
      /\ \A h \in Handles : /\ FreeList[h].type = "invalid"
                            /\ FreeList[h].u = IF h = 0 THEN None ELSE h - 1
  BY <1>2, NewEntries DEF FreeList
<1>4. MaxPendingErq - 1 \in Handles
  BY HandleFacts DEF Handles
<1>5. IsFreeList(FreeList, MaxPendingErq - 1, s)
  <2>1. \A i, j \in DOMAIN s : s[i] = s[j] => i = j
    BY HandleFacts
  <2>2. ASSUME NEW h \in Handles
        PROVE  \E i \in DOMAIN s : s[i] = h
    <3>1. MaxPendingErq - h \in DOMAIN s /\ s[MaxPendingErq - h] = h
      BY HandleFacts DEF Handles
    <3> QED
      BY <3>1
  <2>3. s # <<>> /\ s[1] = MaxPendingErq - 1
    BY <1>1, HandleFacts, EmptySeq
  <2>4. ASSUME NEW i \in DOMAIN s
        PROVE  FreeList[s[i]].u = IF i = Len(s) THEN None ELSE s[i + 1]
    <3>1. s[i] = MaxPendingErq - i /\ MaxPendingErq - i \in Handles
      BY HandleFacts DEF Handles
    <3>2. FreeList[s[i]].u = IF MaxPendingErq - i = 0 THEN None ELSE MaxPendingErq - i - 1
      BY <1>3, <3>1
    <3>3. CASE i = MaxPendingErq
      BY <1>1, <3>2, <3>3, HandleFacts
    <3>4. CASE i # MaxPendingErq
      BY <1>1, <3>2, <3>4, HandleFacts
    <3> QED
      BY <3>3, <3>4
  <2> HIDE DEF s
  <2> QED
    BY <1>1, <1>3, <2>1, <2>2, <2>3, <2>4 DEF IsFreeList
<1>6. Shared(FreeList, st)
  BY <1>3 DEF Shared
<1> QED
  BY <1>1, <1>3, <1>4, <1>5, <1>6 DEF HandlesOK

\* Following the links from free gives each free entry once, and then None.
LEMMA WholeList ==
  ASSUME erq.pending \in [Handles -> Entries], NEW s \in Seq(Handles),
         IsFreeList(erq.pending, erq.free, s)
  PROVE  FreeListIsWhole
<1> DEFINE N == MaxPendingErq
           g == [n \in 0 .. N |-> IF n < Len(s) THEN s[n + 1] ELSE None]
           F(f) == [n \in 0 .. N |-> IF n = 0 THEN erq.free
                     ELSE IF f[n - 1] \in Handles THEN erq.pending[f[n - 1]].u ELSE None]
<1>1. N \in Nat \ {0} /\ Len(s) \in Nat /\ DOMAIN s = 1 .. Len(s)
      /\ \A i \in 1 .. Len(s) : s[i] \in Handles
  BY HandleFacts, LenProperties, ElementOfSeq
<1>2. Len(s) <= N
  <2>1. SUFFICES ASSUME Len(s) > N PROVE FALSE
    BY <1>1
  <2>2. IsFiniteSet(Handles) /\ Cardinality(Handles) = N
    BY <1>1, FS_Interval DEF Handles
  <2>3. IsFiniteSet(1 .. Len(s)) /\ Cardinality(1 .. Len(s)) = Len(s)
    <3>1. 1 \in Int /\ Len(s) \in Int /\ ~(1 > Len(s)) /\ Len(s) - 1 + 1 = Len(s)
      BY <1>1, <2>1
    <3> QED
      BY <3>1, FS_Interval
  <2>4. s \in [1 .. Len(s) -> Handles]
    BY LenProperties
  <2>5. \E x, y \in 1 .. Len(s) : x # y /\ s[x] = s[y]
    BY <1>1, <2>1, <2>2, <2>3, <2>4, FS_PigeonHole
  <2> QED
    BY <1>1, <2>5 DEF IsFreeList
<1>3. g = F(g)
  <2>1. g[0] = erq.free
    <3>1. CASE s = <<>>
      BY <1>1, <3>1, EmptySeq DEF IsFreeList
    <3>2. CASE s # <<>>
      <4>1. Len(s) \in Nat \ {0}
        BY <3>2, EmptySeq
      <4> QED
        BY <1>1, <3>2, <4>1 DEF IsFreeList
    <3> QED
      BY <3>1, <3>2
  <2>2. ASSUME NEW n \in 1 .. N
        PROVE  g[n] = IF g[n - 1] \in Handles THEN erq.pending[g[n - 1]].u ELSE None
    <3>1. n \in 0 .. N /\ n - 1 \in 0 .. N /\ (n - 1) + 1 = n
      BY <1>1
    <3>2. CASE n <= Len(s)
      <4>1. n \in 1 .. Len(s) /\ g[n - 1] = s[n] /\ s[n] \in Handles
        BY <1>1, <3>1, <3>2
      <4>2. erq.pending[s[n]].u = IF n = Len(s) THEN None ELSE s[n + 1]
        BY <1>1, <4>1 DEF IsFreeList
      <4>3. g[n] = IF n < Len(s) THEN s[n + 1] ELSE None
        BY <3>1
      <4> HIDE DEF g
      <4> QED
        BY <1>1, <3>2, <4>1, <4>2, <4>3
    <3>3. CASE n > Len(s)
      <4>1. g[n - 1] = None /\ g[n] = None
        BY <1>1, <3>1, <3>3
      <4> QED
        BY <4>1, HandleFacts
    <3> QED
      BY <1>1, <3>2, <3>3
  <2> HIDE DEF g
  <2>3. ASSUME NEW n \in 0 .. N
        PROVE  g[n] = F(g)[n]
    BY <1>1, <2>1, <2>2
  <2>4. g = [n \in 0 .. N |-> g[n]]
    BY DEF g
  <2> QED
    BY <2>3, <2>4
<1>4. FreeAt = F(FreeAt)
  <2>1. FreeAt = CHOOSE f : f = F(f)
    BY DEF FreeAt
  <2> HIDE DEF F, g
  <2> QED
    BY <1>3, <2>1
<1>5. \A n \in 0 .. N : FreeAt[n] = g[n]
  <2> DEFINE T == {n \in 0 .. N : FreeAt[n] # g[n]}
  <2>1. SUFFICES ASSUME T # {} PROVE FALSE
    OBVIOUS
  <2>2. PICK n \in T : \A m \in T : n <= m
    <3>1. T \subseteq Nat
      BY <1>1
    <3> HIDE DEF T
    <3> QED
      BY <2>1, <3>1, NatMin
  <2>3. n \in 0 .. N /\ FreeAt[n] # g[n]
    BY <2>2
  <2>4. CASE n = 0
    BY <1>1, <1>3, <1>4, <2>3, <2>4
  <2>5. CASE n # 0
    <3>1. n - 1 \in 0 .. N /\ n - 1 \notin T
      BY <1>1, <2>2, <2>3, <2>5
    <3>2. FreeAt[n - 1] = g[n - 1]
      BY <3>1
    <3> HIDE DEF g, T
    <3>3. /\ FreeAt[n] = IF FreeAt[n - 1] \in Handles THEN erq.pending[FreeAt[n - 1]].u ELSE None
          /\ g[n] = IF g[n - 1] \in Handles THEN erq.pending[g[n - 1]].u ELSE None
      BY <1>3, <1>4, <2>3, <2>5
    <3> QED
      BY <2>3, <3>2, <3>3
  <2> QED
    BY <2>4, <2>5
<1>6. DOMAIN FreeAt = 0 .. N
  BY <1>4
<1>7. FreeAt[N] = None
  BY <1>1, <1>2, <1>5
<1>8. ASSUME NEW n \in 0 .. N, FreeAt[n] # None
      PROVE  FreeAt[n] \in Handles /\ erq.pending[FreeAt[n]].type = "invalid"
  <2>1. FreeAt[n] = s[n + 1] /\ n + 1 \in 1 .. Len(s)
    BY <1>1, <1>5, <1>8
  <2> QED
    BY <1>1, <2>1 DEF IsFreeList
<1>9. ASSUME NEW h \in Handles, erq.pending[h].type = "invalid"
      PROVE  h \in {FreeAt[n] : n \in DOMAIN FreeAt} \ {None}
  <2>1. PICK i \in 1 .. Len(s) : s[i] = h
    BY <1>1, <1>9 DEF IsFreeList
  <2>2. i - 1 \in 0 .. N /\ i - 1 < Len(s) /\ (i - 1) + 1 = i
    BY <1>1, <1>2
  <2>3. FreeAt[i - 1] = h
    BY <1>5, <2>1, <2>2
  <2> QED
    BY <1>6, <2>2, <2>3, HandleFacts
<1> HIDE DEF F, g, N
<1> QED
  BY <1>6, <1>7, <1>8, <1>9 DEF FreeListIsWhole, N

-----------------------------------------------------------------------------
(* The handles stay partitioned: one lemma for each action.                *)

LEMMA FrameFacts ==
  ASSUME NEW f \in Frames
  PROVE  /\ f.at \in {"call", "hook", "stop", "loop"}
         /\ f.at = "stop" =>
              f \in StopFrames /\ f.next \in 0 .. MaxPendingErq
              /\ f.then \in {"hook", "fork"} \cup Users
         /\ f.at = "loop" =>
              f \in LoopFrames /\ f.rest \in Seq(Messages) /\ f.moved \in BOOLEAN
              /\ f.broken \in BOOLEAN /\ f.answer \in Answers \cup {None}
BY DEF Frames, LpcFrames, StopFrames, LoopFrames

LEMMA StateFacts ==
  ASSUME Typed
  PROVE  /\ erq.pending \in [Handles -> Entries] /\ erq.free \in Handles \cup {None}
         /\ erq.demon \in {"on", "none", "stop"} /\ erq.proto \in Users \cup {None}
         /\ erq.unsent \in Asks \cup Others \cup {None} /\ erq.buf \in Seq(Messages)
         /\ peer.alive \in BOOLEAN /\ peer.asked \subseteq Asks /\ peer.wire \in Seq(Messages)
         /\ Len(stack) \in Nat /\ DOMAIN stack = 1 .. Len(stack)
         /\ \A i \in DOMAIN stack : stack[i] \in Frames
<1>1. Len(stack) \in Nat /\ DOMAIN stack = 1 .. Len(stack)
  BY LenProperties DEF Typed
<1>2. \A i \in 1 .. Len(stack) : stack[i] \in Frames
  BY ElementOfSeq DEF Typed
<1> QED
  BY <1>1, <1>2 DEF Typed, ErqStates, Peers

\* A request that is written has been asked; a message without one asks nothing.
LEMMA AskedFacts ==
  ASSUME NEW u \in Asks \cup Others \cup {None}
  PROVE  Asked(u) \subseteq Asks
BY ErqAssumption DEF Asked, Asks, Others

LEMMA SendErqKeeps ==
  ASSUME HInv, NEW r \in Requests, NEW whole \in BOOLEAN, SendErq(r, whole)
  PROVE  HInv'
<1> DEFINE h == erq.free
           msg == [handle |-> h, req |-> r]
<1>1. h \in Handles /\ status[r] = "new" /\ msg \in Asks \cup Others /\ Write(msg, whole)
  BY DEF SendErq, Asks
<1>2. Typed
  BY DEF HInv
<1>3. peer' \in Peers /\ erq.demon = "on"
  <2>1. Asked(erq.unsent) \subseteq Asks /\ Asked(msg) \subseteq Asks
    BY <1>1, <1>2, StateFacts, AskedFacts
  <2> HIDE DEF msg
  <2> QED
    BY <1>1, <1>2, <2>1 DEF Write, CanWrite, Typed, Peers
<1>4. /\ erq.pending[h].type = "invalid" /\ erq.pending[h].u \in Handles \cup {None}
      /\ HandlesOK([erq.pending EXCEPT ![h] = Closure(r)], erq.pending[h].u,
                   [status EXCEPT ![r] = "waiting"])
  <2>1. /\ status \in [Requests -> {"new", "waiting", "done"}]
        /\ HandlesOK(erq.pending, erq.free, status) /\ erq.pending \in [Handles -> Entries]
    BY <1>2, StateFacts DEF HInv, Typed
  <2> QED
    BY <1>1, <2>1, SendKeeps
<1>5. /\ erq' = [erq EXCEPT !.free = erq.pending[h].u, !.pending[h] = Closure(r),
                            !.unsent = IF whole THEN None ELSE msg]
      /\ status' = [status EXCEPT ![r] = "waiting"]
      /\ UNCHANGED <<stack, destructed, users, flagged, starts>>
  BY DEF SendErq
<1>6. /\ erq'.pending = [erq.pending EXCEPT ![h] = Closure(r)] /\ erq'.free = erq.pending[h].u
      /\ erq'.demon = erq.demon /\ erq'.buf = erq.buf
  BY <1>2, <1>5 DEF Typed, ErqStates
<1>7. erq' \in ErqStates
  BY <1>1, <1>2, <1>4, <1>5, NewEntries DEF Typed, ErqStates
<1>8. Typed'
  BY <1>2, <1>3, <1>5, <1>7 DEF Typed
<1>9. HandlesOK(erq.pending, erq.free, status)'
  BY <1>4, <1>5, <1>6
<1>10. OffIsQuiet' /\ OffIsTold'
  BY <1>3, <1>6 DEF OffIsQuiet, OffIsTold
<1>11. StopsOK' /\ BufferOK'
  BY <1>5, <1>6 DEF HInv, StackOK, StopsOK, BufferOK, UnderCall
<1>12. LoopsOK'
  <2>1. ASSUME NEW loop \in LoopFrames, loop.answer # None, AnswerOK(loop)
        PROVE  AnswerOK(loop)'
    <3>1. loop.answer \in Answers
      BY <2>1 DEF LoopFrames
    <3>2. loop.answer.handle \in Handles /\ loop.answer.called \in Requests
      BY <3>1 DEF Answers
    <3>3. loop.answer.handle # h
      BY <1>4, <2>1, <3>2, NewEntries DEF AnswerOK
    <3> QED
      BY <1>1, <1>2, <1>6, <2>1, <3>2, <3>3, StateFacts DEF AnswerOK
  <2> QED
    BY <1>2, <1>5, <1>6, <2>1, StateFacts, FrameFacts DEF HInv, StackOK, LoopsOK, UnderCall
<1> QED
  BY <1>8, <1>9, <1>10, <1>11, <1>12 DEF HInv, StackOK

LEMMA SendErqNoCallbackKeeps ==
  ASSUME HInv, NEW whole \in BOOLEAN, SendErqNoCallback(whole)
  PROVE  HInv'
<1> DEFINE msg == [handle |-> NoCallback, req |-> None]
<1>1. Typed /\ msg \in Asks \cup Others /\ Write(msg, whole)
  BY DEF SendErqNoCallback, Others, HInv
<1>2. peer' \in Peers /\ erq.demon = "on"
  <2>1. Asked(erq.unsent) \subseteq Asks /\ Asked(msg) \subseteq Asks
    BY <1>1, StateFacts, AskedFacts
  <2> HIDE DEF msg
  <2> QED
    BY <1>1, <2>1 DEF Write, CanWrite, Typed, Peers
<1>3. /\ erq' = [erq EXCEPT !.unsent = IF whole THEN None ELSE msg]
      /\ UNCHANGED <<stack, destructed, users, flagged, status, starts>>
  BY DEF SendErqNoCallback
<1>4. /\ erq'.pending = erq.pending /\ erq'.free = erq.free
      /\ erq'.demon = erq.demon /\ erq'.buf = erq.buf /\ erq' \in ErqStates
  BY <1>1, <1>3 DEF Typed, ErqStates
<1>5. Typed'
  BY <1>1, <1>2, <1>3, <1>4 DEF Typed
<1>6. HandlesOK(erq.pending, erq.free, status)'
  BY <1>3, <1>4 DEF HInv
<1>7. OffIsQuiet' /\ OffIsTold'
  BY <1>2, <1>4 DEF OffIsQuiet, OffIsTold
<1>8. StackOK'
  BY <1>3, <1>4 DEF HInv, StackOK, StopsOK, LoopsOK, BufferOK, UnderCall, AnswerOK
<1> QED
  BY <1>5, <1>6, <1>7, <1>8 DEF HInv

\* Where an ERQ is attached no loop of the driver is at work.
LEMMA AttachFacts ==
  ASSUME HInv, ~RestartAnywhere, MayAttach
  PROVE  /\ \A i \in DOMAIN stack : stack[i].at \in {"hook", "loop"}
         /\ \A i \in DOMAIN stack : stack[i].at = "loop" => stack[i].broken
         /\ erq.demon # "on" => \A h \in Handles : ~IsPending(erq, h)
<1>1. Typed
  BY DEF HInv
<1>2. CASE stack = <<>>
  <2>1. DOMAIN stack = {}
    BY <1>2
  <2> QED
    BY <2>1 DEF HInv, OffIsTold
<1>3. CASE stack # <<>>
  <2>1. 1 \in DOMAIN stack /\ stack[1].at = "hook"
    BY <1>1, <1>3, PopFacts DEF MayAttach, LpcRuns, Typed
  <2>2. \A i \in DOMAIN stack : stack[i].at # "call" /\ stack[i].at # "stop" /\ ~(UnderCall(i) /\ stack[i].at = "loop")
    BY <2>1 DEF HInv, StackOK, StopsOK, UnderCall
  <2>3. \A i \in DOMAIN stack : stack[i].at \in {"hook", "loop"}
    BY <1>1, <2>2, StateFacts, FrameFacts
  <2>4. \A i \in DOMAIN stack : stack[i].at = "loop" => stack[i].broken
    BY <2>2 DEF HInv, StackOK, LoopsOK
  <2> QED
    BY <2>2, <2>3, <2>4 DEF HInv, OffIsTold
<1> QED
  BY <1>2, <1>3

\* stop_erq_demon() is entered with no loop at work below.
LEMMA StopKeeps ==
  ASSUME HInv, NEW then \in {"hook", "fork"} \cup users, NEW frames \in Seq(Frames),
         \A i \in DOMAIN frames : frames[i].at \in {"hook", "loop"},
         \A i \in DOMAIN frames : frames[i].at = "loop" =>
           /\ i = Len(frames) /\ frames[i].broken /\ frames[i].answer = None
           /\ AtBadMessage(frames[i].rest),
         StopErqDemon(then, frames), UNCHANGED <<destructed, users, flagged, status>>,
         starts' \in 0 .. MaxStarts
  PROVE  HInv'
<1> DEFINE f == StopFrame(then)
<1>1. Typed
  BY DEF HInv
<1>2. /\ f \in Frames /\ f.at = "stop" /\ f.next = 0 /\ f.then = then
  BY <1>1, HandleFacts DEF StopFrame, Frames, StopFrames, Typed
<1>3. stack' = <<f>> \o frames /\ peer' = NoPeer /\ erq' = ShutdownErqDemon(erq)
  BY DEF StopErqDemon
<1>4. /\ erq' \in ErqStates /\ erq'.pending = erq.pending /\ erq'.free = erq.free
      /\ erq'.demon = "none" /\ erq'.unsent = None /\ erq'.buf = <<>>
  BY <1>1, <1>3, EmptySeq DEF Typed, ErqStates, ShutdownErqDemon
<1>5. NoPeer \in Peers
  BY EmptySeq DEF NoPeer, Peers
<1> HIDE DEF f
<1>6. /\ Len(frames) \in Nat /\ DOMAIN frames = 1 .. Len(frames)
      /\ stack' \in Seq(Frames) /\ Len(stack') = Len(frames) + 1
      /\ DOMAIN stack' = 1 .. Len(frames) + 1 /\ stack'[1] = f
      /\ \A i \in 2 .. Len(frames) + 1 : stack'[i] = frames[i - 1]
  BY <1>2, <1>3, PrependFacts
<1>7. Typed'
  BY <1>1, <1>3, <1>4, <1>5, <1>6 DEF Typed
<1>8. HandlesOK(erq.pending, erq.free, status)'
  BY <1>4 DEF HInv
<1>9. OffIsQuiet' /\ OffIsTold'
  <2>1. 1 \in DOMAIN stack' /\ \A h \in Handles : 0 <= h
    BY <1>6, HandleFacts
  <2>2. OffIsQuiet'
    BY <1>3, <1>4 DEF OffIsQuiet
  <2>3. \A h \in Handles : stack'[1].at = "stop" /\ stack'[1].next <= h
    BY <1>2, <1>6, <2>1
  <2>4. OffIsTold'
    BY <2>1, <2>3 DEF OffIsTold
  <2> QED
    BY <2>2, <2>4
<1>10. \A i \in DOMAIN stack' : i # 1 => i - 1 \in DOMAIN frames /\ stack'[i] = frames[i - 1]
  BY <1>6
<1>11. StopsOK'
  BY <1>2, <1>4, <1>6, <1>10 DEF StopsOK, UnderCall
<1>12. LoopsOK'
  <2>1. \A i \in DOMAIN stack' : i - 1 = Len(frames) => i = Len(stack')
    BY <1>6
  <2> QED
    BY <1>2, <1>6, <1>10, <2>1 DEF LoopsOK
<1>13. BufferOK'
  BY <1>2, <1>4, <1>6, <1>10 DEF BufferOK, AtBadMessage
<1> QED
  BY <1>7, <1>8, <1>9, <1>11, <1>12, <1>13 DEF HInv, StackOK

\* start_erq_demon() is called when no handle is in use.
LEMMA StartKeeps ==
  ASSUME HInv, NEW e, e \in {erq, [erq EXCEPT !.proto = None]}, erq.demon # "on",
         \A h \in Handles : ~IsPending(erq, h), Start(e)
  PROVE  /\ erq' \in ErqStates /\ peer' \in Peers /\ erq'.buf = erq.buf
         /\ erq'.demon \in {erq.demon, "on"}
         /\ HandlesOK(erq'.pending, erq'.free, status)
         /\ OffIsQuiet' /\ \A h \in Handles : ~IsPending(erq', h)
<1>1. PICK started \in BOOLEAN :
        erq' = StartErqDemon(e, started) /\ peer' = IF started THEN NewPeer ELSE peer
  BY DEF Start
<1>2. /\ FreeList \in [Handles -> Entries] /\ MaxPendingErq - 1 \in Handles
      /\ HandlesOK(FreeList, MaxPendingErq - 1, status)
  <2>1. \A h \in Handles : erq.pending[h].type # "closure"
    BY DEF IsPending
  <2>2. ASSUME NEW r \in Requests, status[r] = "waiting"
        PROVE  FALSE
    <3>1. PICK h \in Handles : erq.pending[h] = Closure(r)
      BY <2>2 DEF HInv, HandlesOK, Shared
    <3> QED
      BY <2>1, <3>1, NewEntries
  <2> QED
    BY <2>2, FreshList
<1>3. /\ e \in ErqStates /\ e.buf = erq.buf /\ e.demon = erq.demon /\ e.unsent = erq.unsent
  BY DEF HInv, Typed, ErqStates
<1>4. erq.unsent = None /\ peer = NoPeer
  BY DEF HInv, OffIsQuiet
<1>5. /\ erq' \in ErqStates /\ erq'.pending = FreeList /\ erq'.free = MaxPendingErq - 1
      /\ erq'.demon = (IF started THEN "on" ELSE erq.demon) /\ erq'.buf = erq.buf
      /\ erq'.unsent = None
  BY <1>1, <1>2, <1>3, <1>4 DEF StartErqDemon, Torn, ErqStates
<1>6. peer' \in Peers
  BY <1>1, EmptySeq DEF NewPeer, Peers, HInv, Typed
<1>7. \A h \in Handles : ~IsPending(erq', h)
  BY <1>5 DEF IsPending, FreeList, FreeEntry
<1> QED
  BY <1>1, <1>2, <1>4, <1>5, <1>6, <1>7 DEF OffIsQuiet

LEMMA AttachErqNameKeeps ==
  ASSUME HInv, ~RestartAnywhere, NEW doClose \in BOOLEAN, AttachErqName(doClose)
  PROVE  HInv'
<1>1. /\ MayAttach /\ starts' = starts + 1 /\ starts < MaxStarts
      /\ UNCHANGED <<destructed, users, flagged, status>>
  BY DEF AttachErqName
<1>2. Typed /\ starts' \in 0 .. MaxStarts
  BY <1>1, ErqAssumption DEF HInv, Typed
<1>3. CASE StopErqDemon("fork", stack)
  BY <1>1, <1>2, <1>3, AttachFacts, StopKeeps DEF HInv, StackOK, LoopsOK, Typed
<1>4. ASSUME NEW e \in {erq, [erq EXCEPT !.proto = None]}, erq.demon # "on", Start(e),
             UNCHANGED stack
      PROVE  HInv'
  <2>1. \A h \in Handles : ~IsPending(erq, h)
    BY <1>1, <1>4, AttachFacts
  <2>2. /\ erq' \in ErqStates /\ peer' \in Peers /\ erq'.buf = erq.buf
        /\ HandlesOK(erq'.pending, erq'.free, status)
        /\ OffIsQuiet' /\ \A h \in Handles : ~IsPending(erq', h)
    BY <1>4, <2>1, StartKeeps
  <2>3. Typed'
    BY <1>1, <1>2, <1>4, <2>2 DEF Typed
  <2>4. OffIsTold'
    BY <2>2 DEF OffIsTold
  <2>5. StopsOK' /\ LoopsOK' /\ BufferOK'
    BY <1>1, <1>4, <2>2, AttachFacts DEF HInv, StackOK, StopsOK, LoopsOK, BufferOK
  <2> QED
    BY <1>1, <2>2, <2>3, <2>4, <2>5 DEF HInv, StackOK
<1>5. \/ StopErqDemon("fork", stack)
      \/ erq.demon = "none" /\ Start(erq) /\ UNCHANGED stack
      \/ erq.demon = "stop" /\ Start([erq EXCEPT !.proto = None]) /\ UNCHANGED stack
  BY DEF AttachErqName
<1> QED
  BY <1>3, <1>4, <1>5

LEMMA AttachErqUserKeeps ==
  ASSUME HInv, ~RestartAnywhere, NEW u \in Users, NEW doClose \in BOOLEAN, AttachErqUser(u, doClose)
  PROVE  HInv'
<1>1. /\ MayAttach /\ u \in users /\ UNCHANGED <<destructed, users, status, starts>>
  BY DEF AttachErqUser
<1>2. Typed
  BY DEF HInv
<1>3. CASE StopErqDemon(u, stack) /\ UNCHANGED flagged
  BY <1>1, <1>2, <1>3, AttachFacts, StopKeeps DEF HInv, StackOK, LoopsOK, Typed
<1>4. CASE erq.demon # "on" /\ erq' = BecomeProto(erq, u) /\ flagged' = flagged \cup {u}
           /\ UNCHANGED <<stack, peer>>
  <2>1. /\ erq' \in ErqStates /\ erq'.pending = erq.pending /\ erq'.free = erq.free
        /\ erq'.demon = erq.demon /\ erq'.unsent = erq.unsent /\ erq'.buf = erq.buf
    BY <1>2, <1>4 DEF Typed, ErqStates, BecomeProto
  <2>2. Typed'
    BY <1>1, <1>2, <1>4, <2>1 DEF Typed
  <2>3. HandlesOK(erq.pending, erq.free, status)'
    BY <1>1, <2>1 DEF HInv
  <2>4. OffIsQuiet' /\ OffIsTold'
    BY <1>4, <2>1 DEF HInv, OffIsQuiet, OffIsTold, IsPending
  <2>5. StackOK'
    BY <1>1, <1>4, <2>1 DEF HInv, StackOK, StopsOK, LoopsOK, BufferOK, UnderCall, AnswerOK
  <2> QED
    BY <2>2, <2>3, <2>4, <2>5 DEF HInv
<1> QED
  BY <1>3, <1>4 DEF AttachErqUser

LEMMA FailToWriteKeeps ==
  ASSUME HInv, NEW u \in Users, FailToWrite(u)
  PROVE  HInv'
BY DEF FailToWrite, HInv, Typed, OffIsQuiet, OffIsTold, StackOK, StopsOK, LoopsOK, BufferOK,
       UnderCall, AnswerOK

LEMMA DestructKeeps ==
  ASSUME HInv, NEW o \in Objects, Destruct(o)
  PROVE  HInv'
BY DEF Destruct, HInv, Typed, OffIsQuiet, OffIsTold, StackOK, StopsOK, LoopsOK, BufferOK,
       UnderCall, AnswerOK

LEMMA RemoveInteractiveKeeps ==
  ASSUME HInv, NEW u \in Users, RemoveInteractive(u)
  PROVE  HInv'
<1>1. /\ stack = <<>> /\ users' = users \ {u} /\ flagged' = flagged \ {u}
      /\ UNCHANGED <<stack, destructed, status, starts>>
  BY DEF RemoveInteractive
<1>2. Typed
  BY DEF HInv
<1>3. /\ erq' \in ErqStates /\ erq'.pending = erq.pending /\ erq'.free = erq.free
      /\ erq'.buf = erq.buf /\ peer' \in Peers
      /\ \/ erq'.demon = "on"
         \/ UNCHANGED <<erq, peer>>
  <2>1. CASE u \in flagged /\ erq.proto = u
    <3>1. /\ erq' = [erq EXCEPT !.demon = "on", !.proto = None, !.unsent = Torn(@)]
          /\ peer' = NewPeer
      BY <2>1 DEF RemoveInteractive
    <3>2. Torn(erq.unsent) \in Asks \cup Others \cup {None}
      BY DEF Torn, Others
    <3>3. peer' \in Peers
      BY <3>1, EmptySeq DEF NewPeer, Peers
    <3> QED
      BY <1>2, <3>1, <3>2, <3>3 DEF Typed, ErqStates
  <2>2. CASE ~(u \in flagged /\ erq.proto = u)
    BY <1>2, <2>2 DEF RemoveInteractive, Typed
  <2> QED
    BY <2>1, <2>2
<1>4. Typed'
  BY <1>1, <1>2, <1>3 DEF Typed
<1>5. HandlesOK(erq.pending, erq.free, status)'
  BY <1>1, <1>3 DEF HInv
<1>6. OffIsQuiet' /\ OffIsTold'
  BY <1>1, <1>3 DEF HInv, OffIsQuiet, OffIsTold
<1>7. DOMAIN stack = {}
  BY <1>1
<1>8. StackOK'
  BY <1>1, <1>3, <1>7 DEF HInv, StackOK, StopsOK, LoopsOK, BufferOK
<1> QED
  BY <1>4, <1>5, <1>6, <1>8 DEF HInv

LEMMA ReturnKeeps ==
  ASSUME HInv, Return
  PROVE  HInv'
<1>1. /\ stack # <<>> /\ stack' = Tail(stack)
      /\ UNCHANGED <<erq, peer, destructed, users, flagged, status, starts>>
  BY DEF Return
<1>2. /\ Len(stack) \in Nat \ {0} /\ DOMAIN stack = 1 .. Len(stack) /\ Head(stack) = stack[1]
      /\ stack' \in Seq(Frames) /\ Len(stack') = Len(stack) - 1
      /\ DOMAIN stack' = 1 .. Len(stack) - 1
      /\ \A i \in 1 .. Len(stack) - 1 : stack'[i] = stack[i + 1]
  BY <1>1, PopFacts DEF HInv, Typed
<1>3. 1 \in DOMAIN stack /\ stack[1].at \in {"call", "hook"}
  BY <1>1, <1>2 DEF Return, LpcRuns
<1>4. \A i \in DOMAIN stack' : i \in Nat \ {0} /\ i + 1 \in DOMAIN stack /\ i + 1 # 1
                               /\ stack'[i] = stack[i + 1]
                               /\ (i + 1 = 2 <=> i = 1)
                               /\ (i + 1 = Len(stack) <=> i = Len(stack'))
  BY <1>2
<1>5. \A i \in DOMAIN stack : i # 1 => i - 1 \in DOMAIN stack' /\ stack'[i - 1] = stack[i]
  BY <1>2
<1>6. Typed'
  BY <1>1, <1>2 DEF HInv, Typed
<1>7. HandlesOK(erq.pending, erq.free, status)'
  BY <1>1 DEF HInv
<1>8. OffIsQuiet'
  BY <1>1 DEF HInv, OffIsQuiet
<1>9. OffIsTold'
  <2>1. ASSUME NEW h \in Handles, \E i \in DOMAIN stack : stack[i].at = "stop" /\ stack[i].next <= h
        PROVE  \E i \in DOMAIN stack' : stack'[i].at = "stop" /\ stack'[i].next <= h
    BY <1>3, <1>5, <2>1
  <2> QED
    BY <1>1, <2>1 DEF HInv, OffIsTold
<1>10. StopsOK'
  BY <1>1, <1>3, <1>4 DEF HInv, StackOK, StopsOK, UnderCall
<1>11. LoopsOK'
  BY <1>1, <1>3, <1>4 DEF HInv, StackOK, LoopsOK, UnderCall, AnswerOK
<1>12. BufferOK'
  <2>1. (\A i \in DOMAIN stack' : stack'[i].at # "loop") => \A i \in DOMAIN stack : stack[i].at # "loop"
    BY <1>3, <1>5
  <2> QED
    BY <1>1, <1>4, <2>1 DEF HInv, StackOK, BufferOK
<1> QED
  BY <1>6, <1>7, <1>8, <1>9, <1>10, <1>11, <1>12 DEF HInv, StackOK

\* Where stop_erq_demon() is at work its frame is the first.
LEMMA StopFacts ==
  ASSUME HInv, Stopping
  PROVE  /\ Len(stack) \in Nat \ {0} /\ DOMAIN stack = 1 .. Len(stack) /\ Head(stack) = stack[1]
         /\ stack[1] \in StopFrames /\ stack[1].at = "stop"
         /\ Tail(stack) \in Seq(Frames) /\ Len(Tail(stack)) = Len(stack) - 1
         /\ DOMAIN Tail(stack) = 1 .. Len(stack) - 1
         /\ \A i \in 1 .. Len(stack) - 1 : Tail(stack)[i] = stack[i + 1]
         /\ \A i \in DOMAIN stack : i # 1 =>
              /\ stack[i].at \in {"hook", "loop"}
              /\ stack[i].at = "loop" => i = Len(stack) /\ stack[i].broken
         /\ erq.demon = "none"
<1>1. stack # <<>> /\ Head(stack).at = "stop"
  BY DEF Stopping
<1>2. /\ Len(stack) \in Nat \ {0} /\ DOMAIN stack = 1 .. Len(stack) /\ Head(stack) = stack[1]
      /\ Tail(stack) \in Seq(Frames) /\ Len(Tail(stack)) = Len(stack) - 1
      /\ DOMAIN Tail(stack) = 1 .. Len(stack) - 1
      /\ \A i \in 1 .. Len(stack) - 1 : Tail(stack)[i] = stack[i + 1]
  BY <1>1, PopFacts DEF HInv, Typed
<1>3. 1 \in DOMAIN stack /\ stack[1] \in StopFrames /\ stack[1].at = "stop"
  BY <1>1, <1>2, StateFacts, FrameFacts DEF HInv
<1>4. erq.demon = "none"
  BY <1>3 DEF HInv, StackOK, StopsOK
<1>5. ASSUME NEW i \in DOMAIN stack, i # 1
      PROVE  stack[i].at \in {"hook", "loop"}
  <2>1. ~UnderCall(i)
    BY <1>3, <1>5 DEF UnderCall
  <2>2. stack[i].at # "stop" /\ stack[i].at # "call"
    BY <1>5, <2>1 DEF HInv, StackOK, StopsOK
  <2> QED
    BY <2>2, StateFacts, FrameFacts DEF HInv
<1>6. ASSUME NEW i \in DOMAIN stack, stack[i].at = "loop"
      PROVE  i = Len(stack) /\ stack[i].broken
  BY <1>4, <1>6 DEF HInv, StackOK, LoopsOK
<1> QED
  BY <1>1, <1>2, <1>3, <1>4, <1>5, <1>6

LEMMA LowestFacts ==
  ASSUME NEW S, S \subseteq Nat, S # {}
  PROVE  Lowest(S) \in S /\ \A h \in S : Lowest(S) <= h
BY NatMin DEF Lowest

LEMMA TellStaleKeeps ==
  ASSUME HInv, TellStale
  PROVE  HInv'
<1> DEFINE frame == stack[1]
           stale == PendingFrom(erq, frame.next)
           h == Lowest(stale)
           top == <<LpcFrame("call"), [frame EXCEPT !.next = h + 1]>>
<1>1. /\ Stopping /\ Head(stack) = frame /\ stale # {}
      /\ erq' = FreeHandle(erq, h)
      /\ stack' = top \o Tail(stack)
      /\ status' = [status EXCEPT ![erq.pending[h].u] = "done"]
      /\ UNCHANGED <<peer, destructed, users, flagged, starts>>
  BY StopFacts DEF TellStale
<1>2. Typed
  BY DEF HInv
<1>3. h \in stale /\ \A g \in stale : h <= g
  <2>1. stale \subseteq Nat
    BY HandleFacts DEF PendingFrom
  <2> HIDE DEF stale
  <2> QED
    BY <1>1, <2>1, LowestFacts
<1>4. /\ h \in Handles /\ h \in Nat /\ erq.pending[h].type = "closure" /\ h + 1 \in 0 .. MaxPendingErq
      /\ frame.next <= h
      /\ \A g \in Handles : IsPending(erq, g) /\ frame.next <= g => h <= g
  <2>1. h \in Handles /\ erq.pending[h].type = "closure" /\ frame.next <= h
    BY <1>3 DEF PendingFrom, IsPending
  <2>2. h \in Nat /\ h + 1 \in 0 .. MaxPendingErq
    BY <2>1, HandleFacts DEF Handles
  <2>3. \A g \in Handles : IsPending(erq, g) /\ frame.next <= g => g \in stale
    BY DEF PendingFrom
  <2> HIDE DEF h, stale
  <2> QED
    BY <1>3, <2>1, <2>2, <2>3
<1> HIDE DEF h, stale
<1>5. /\ [erq.pending EXCEPT ![h] = FreeEntry(erq.free)] \in [Handles -> Entries]
      /\ HandlesOK([erq.pending EXCEPT ![h] = FreeEntry(erq.free)], h,
                   [status EXCEPT ![erq.pending[h].u] = "done"])
  BY <1>2, <1>4, StateFacts, FreeKeeps DEF HInv, Typed
<1>6. /\ erq'.pending = [erq.pending EXCEPT ![h] = FreeEntry(erq.free)] /\ erq'.free = h
      /\ erq'.demon = erq.demon /\ erq'.unsent = erq.unsent /\ erq'.buf = erq.buf
      /\ erq' \in ErqStates
  BY <1>1, <1>2, <1>4, <1>5 DEF Typed, ErqStates, FreeHandle
<1>7. /\ top \in Seq(Frames) /\ Len(top) = 2 /\ top[1].at = "call" /\ top[2].at = "stop"
      /\ top[2].next = h + 1 /\ top[2].then = frame.then
  <2>1. LpcFrame("call") \in Frames /\ LpcFrame("call").at = "call"
    BY DEF LpcFrame, Frames, LpcFrames
  <2>2. /\ [frame EXCEPT !.next = h + 1] \in Frames
        /\ [frame EXCEPT !.next = h + 1].next = h + 1
        /\ [frame EXCEPT !.next = h + 1].at = "stop"
        /\ [frame EXCEPT !.next = h + 1].then = frame.then
    <3>1. frame \in StopFrames /\ frame.at = "stop"
      BY <1>1, StopFacts
    <3> HIDE DEF frame
    <3> QED
      BY <1>4, <3>1 DEF Frames, StopFrames
  <2> DEFINE a == LpcFrame("call")
             b == [frame EXCEPT !.next = h + 1]
  <2> HIDE DEF a, b
  <2>3. top = <<a, b>>
    BY DEF a, b
  <2>4. a \in Frames /\ b \in Frames /\ a.at = "call"
        /\ b.at = "stop" /\ b.next = h + 1 /\ b.then = frame.then
    BY <2>1, <2>2 DEF a, b
  <2> QED
    BY <2>3, <2>4, PairFacts
<1> HIDE DEF top, frame
<1>8. /\ stack' \in Seq(Frames) /\ Len(stack') = Len(stack) + 1 /\ DOMAIN stack' = 1 .. Len(stack) + 1
      /\ stack'[1] = top[1] /\ stack'[2] = top[2]
      /\ \A i \in DOMAIN stack' : i # 1 /\ i # 2 =>
           i - 1 \in DOMAIN stack /\ i - 1 # 1 /\ stack'[i] = stack[i - 1]
           /\ (i - 1 = Len(stack) <=> i = Len(stack'))
  <2>1. /\ Len(stack) \in Nat \ {0} /\ DOMAIN stack = 1 .. Len(stack)
        /\ Tail(stack) \in Seq(Frames) /\ Len(Tail(stack)) = Len(stack) - 1
        /\ \A i \in 1 .. Len(stack) - 1 : Tail(stack)[i] = stack[i + 1]
    BY <1>1, StopFacts
  <2>2. /\ stack' \in Seq(Frames) /\ Len(stack') = 2 + (Len(stack) - 1)
        /\ \A i \in 1 .. 2 + (Len(stack) - 1) :
             stack'[i] = IF i <= 2 THEN top[i] ELSE Tail(stack)[i - 2]
    <3> DEFINE t == Tail(stack)
    <3> HIDE DEF t
    <3>1. t \in Seq(Frames) /\ Len(t) = Len(stack) - 1 /\ stack' = top \o t
      BY <1>1, <2>1 DEF t
    <3>2. /\ top \o t \in Seq(Frames) /\ Len(top \o t) = Len(top) + Len(t)
          /\ \A i \in 1 .. Len(top) + Len(t) :
               (top \o t)[i] = IF i <= Len(top) THEN top[i] ELSE t[i - Len(top)]
      BY <1>7, <3>1, ConcatProperties
    <3> QED
      BY <1>7, <3>1, <3>2 DEF t
  <2>3. DOMAIN stack' = 1 .. Len(stack) + 1
    BY <2>1, <2>2, LenProperties
  <2>4. ASSUME NEW i \in DOMAIN stack', i # 1, i # 2
        PROVE  i - 1 \in DOMAIN stack /\ i - 1 # 1 /\ stack'[i] = stack[i - 1]
               /\ (i - 1 = Len(stack) <=> i = Len(stack'))
    <3>1. i \in 1 .. 2 + (Len(stack) - 1) /\ ~(i <= 2) /\ i - 2 \in 1 .. Len(stack) - 1
          /\ (i - 2) + 1 = i - 1
      BY <2>1, <2>3, <2>4
    <3> QED
      BY <2>1, <2>2, <2>3, <2>4, <3>1
  <2> QED
    BY <2>1, <2>2, <2>3, <2>4
<1>9. /\ \A i \in DOMAIN stack : i # 1 =>
           /\ stack[i].at \in {"hook", "loop"}
           /\ stack[i].at = "loop" => i = Len(stack) /\ stack[i].broken
      /\ 1 \in DOMAIN stack /\ Len(stack) \in Nat \ {0} /\ DOMAIN stack = 1 .. Len(stack)
      /\ frame = stack[1] /\ frame.at = "stop" /\ erq.demon = "none"
      /\ frame.then \in {"hook", "fork"} \cup users
  <2>1. 1 \in DOMAIN stack /\ stack[1].at = "stop" /\ frame = stack[1]
    BY <1>1, StopFacts DEF frame
  <2>2. frame.then \in {"hook", "fork"} \cup users
    BY <2>1 DEF HInv, StackOK, StopsOK
  <2> QED
    BY <1>1, <2>1, <2>2, StopFacts
<1>10. Typed'
  BY <1>1, <1>2, <1>6, <1>8, <1>4, EntryFacts, StateFacts DEF Typed
<1>11. HandlesOK(erq.pending, erq.free, status)'
  BY <1>1, <1>5, <1>6
<1>12. OffIsQuiet'
  BY <1>1, <1>6 DEF HInv, OffIsQuiet
<1>13. OffIsTold'
  <2>1. 2 \in DOMAIN stack' /\ stack'[2].at = "stop" /\ stack'[2].next = h + 1
    BY <1>7, <1>8, <1>9
  <2>2. ASSUME NEW g \in Handles, IsPending(erq', g)
        PROVE  h + 1 <= g
    <3>1. g # h /\ IsPending(erq, g)
      BY <1>2, <1>4, <1>6, <2>2, StateFacts, NewEntries DEF IsPending
    <3>2. frame.next <= g
      BY <1>9, <3>1 DEF HInv, OffIsTold
    <3>3. h <= g /\ g \in Nat
      BY <1>4, <3>1, <3>2, HandleFacts
    <3> QED
      BY <1>4, <3>1, <3>3
  <2> QED
    BY <2>1, <2>2 DEF OffIsTold
<1>14. StopsOK'
  <2>1. ASSUME NEW i \in DOMAIN stack', i # 1, i # 2
        PROVE  stack'[i].at \in {"hook", "loop"}
    BY <1>8, <1>9, <2>1
  <2>2. UnderCall(2)' /\ erq'.demon = "none" /\ top[2].then \in {"hook", "fork"} \cup users'
    BY <1>1, <1>6, <1>7, <1>8, <1>9 DEF UnderCall
  <2> QED
    BY <1>7, <1>8, <2>1, <2>2 DEF StopsOK
<1>15. LoopsOK'
  <2>1. \A i \in DOMAIN stack' : stack'[i].at = "loop" =>
          i # 1 /\ i # 2 /\ i = Len(stack') /\ stack'[i].broken
    BY <1>7, <1>8, <1>9
  <2>2. \A i \in DOMAIN stack : stack[i].at = "loop" /\ stack[i].broken =>
          stack[i].answer = None /\ AtBadMessage(stack[i].rest)
    BY DEF HInv, StackOK, LoopsOK
  <2> QED
    BY <1>8, <2>1, <2>2 DEF LoopsOK
<1>16. BufferOK'
  <2>1. (\A i \in DOMAIN stack' : stack'[i].at # "loop") => \A i \in DOMAIN stack : stack[i].at # "loop"
    <3>1. SUFFICES ASSUME NEW i \in DOMAIN stack, stack[i].at = "loop"
                   PROVE  \E j \in DOMAIN stack' : stack'[j].at = "loop"
      OBVIOUS
    <3>2. i # 1 /\ i + 1 \in DOMAIN stack' /\ i + 1 # 1 /\ i + 1 # 2 /\ (i + 1) - 1 = i
      BY <1>8, <1>9, <3>1
    <3> QED
      BY <1>8, <3>1, <3>2
  <2>2. \A i \in DOMAIN stack' : stack'[i].at = "loop" => i # 1 /\ i # 2
    BY <1>7, <1>8
  <2> QED
    BY <1>6, <1>8, <2>1, <2>2 DEF HInv, StackOK, BufferOK
<1> QED
  BY <1>10, <1>11, <1>12, <1>13, <1>14, <1>15, <1>16 DEF HInv, StackOK

(* A stack without a loop at work.                                         *)
Idle(st, buf) ==
  /\ \A i \in DOMAIN st : st[i].at \in {"hook", "loop"}
  /\ \A i \in DOMAIN st : st[i].at = "loop" =>
       /\ i = Len(st) /\ st[i].broken /\ st[i].answer = None /\ AtBadMessage(st[i].rest)
       /\ ~st[i].moved =>
            /\ st[i].rest # <<>>
            /\ buf = <<>> \/ (buf # <<>> /\ Head(buf) = Head(st[i].rest))
  /\ (\A i \in DOMAIN st : st[i].at # "loop") => buf = <<>> \/ AtBadMessage(buf)

LEMMA IdleStack ==
  ASSUME NEW st, NEW buf, Idle(st, buf), stack' = st, erq'.buf = buf
  PROVE  StackOK'
<1>1. StopsOK'
  BY DEF StopsOK, Idle
<1>2. LoopsOK'
  BY DEF LoopsOK, Idle
<1>3. BufferOK'
  BY DEF BufferOK, Idle
<1> QED
  BY <1>1, <1>2, <1>3 DEF StackOK

LEMMA EndStopKeeps ==
  ASSUME HInv, EndStop
  PROVE  HInv'
<1> DEFINE frame == stack[1]
           t == Tail(stack)
<1>1. /\ Stopping /\ Head(stack) = frame /\ PendingFrom(erq, frame.next) = {}
      /\ UNCHANGED <<destructed, users, status, starts>>
  BY StopFacts DEF EndStop
<1>2. Typed
  BY DEF HInv
<1>3. /\ Len(stack) \in Nat \ {0} /\ DOMAIN stack = 1 .. Len(stack)
      /\ t \in Seq(Frames) /\ Len(t) = Len(stack) - 1 /\ DOMAIN t = 1 .. Len(stack) - 1
      /\ frame.at = "stop" /\ erq.demon = "none"
      /\ \A i \in DOMAIN t : i \in Nat \ {0} /\ i + 1 \in DOMAIN stack /\ i + 1 # 1
                             /\ t[i] = stack[i + 1] /\ (i + 1 = Len(stack) <=> i = Len(t))
      /\ \A i \in DOMAIN stack : i # 1 => i - 1 \in DOMAIN t /\ t[i - 1] = stack[i]
  <2>1. /\ Len(stack) \in Nat \ {0} /\ DOMAIN stack = 1 .. Len(stack)
        /\ t \in Seq(Frames) /\ Len(t) = Len(stack) - 1 /\ DOMAIN t = 1 .. Len(stack) - 1
        /\ frame.at = "stop" /\ erq.demon = "none"
        /\ \A i \in 1 .. Len(stack) - 1 : t[i] = stack[i + 1]
    BY <1>1, StopFacts
  <2> HIDE DEF t, frame
  <2> QED
    BY <2>1
<1> HIDE DEF t
<1>4. Idle(t, erq.buf)
  <2>1. \A i \in DOMAIN stack : i # 1 =>
          /\ stack[i].at \in {"hook", "loop"}
          /\ stack[i].at = "loop" => i = Len(stack) /\ stack[i].broken
    BY <1>1, StopFacts
  <2>2. \A i \in DOMAIN stack : stack[i].at = "loop" /\ stack[i].broken =>
          stack[i].answer = None /\ AtBadMessage(stack[i].rest)
    BY DEF HInv, StackOK, LoopsOK
  <2>3. \A i \in DOMAIN stack : stack[i].at = "loop" /\ ~stack[i].moved =>
          /\ stack[i].rest # <<>>
          /\ erq.buf = <<>> \/ (erq.buf # <<>> /\ Head(erq.buf) = Head(stack[i].rest))
    BY DEF HInv, StackOK, BufferOK
  <2>4. (\A i \in DOMAIN t : t[i].at # "loop") => \A i \in DOMAIN stack : stack[i].at # "loop"
    BY <1>3
  <2> QED
    BY <1>3, <2>1, <2>2, <2>3, <2>4 DEF HInv, StackOK, BufferOK, Idle
<1>5. \A h \in Handles : ~IsPending(erq, h)
  <2>1. ASSUME NEW h \in Handles, IsPending(erq, h)
        PROVE  FALSE
    <3>1. PICK i \in DOMAIN stack : stack[i].at = "stop" /\ stack[i].next <= h
      BY <1>3, <2>1 DEF HInv, OffIsTold
    <3>2. i = 1
      BY <1>1, <3>1, StopFacts
    <3>3. h \in PendingFrom(erq, frame.next)
      BY <2>1, <3>1, <3>2 DEF PendingFrom
    <3> QED
      BY <1>1, <3>3
  <2> QED
    BY <2>1
<1>6. frame.then \in {"hook", "fork"} \cup users
  <2>1. 1 \in DOMAIN stack
    BY <1>3
  <2> QED
    BY <1>3, <2>1 DEF HInv, StackOK, StopsOK
<1> HIDE DEF frame
<1>7. CASE /\ frame.then = "fork" /\ Start([erq EXCEPT !.proto = None]) /\ stack' = t
           /\ UNCHANGED flagged
  <2>1. /\ erq' \in ErqStates /\ peer' \in Peers /\ erq'.buf = erq.buf
        /\ HandlesOK(erq'.pending, erq'.free, status)
        /\ OffIsQuiet' /\ \A h \in Handles : ~IsPending(erq', h)
    BY <1>3, <1>5, <1>7, StartKeeps
  <2>2. Typed'
    BY <1>1, <1>2, <1>3, <1>7, <2>1 DEF Typed
  <2>3. OffIsTold'
    BY <2>1 DEF OffIsTold
  <2>4. StackOK'
    BY <1>4, <1>7, <2>1, IdleStack
  <2> QED
    BY <1>1, <2>1, <2>2, <2>3, <2>4 DEF HInv
<1>8. CASE /\ frame.then \in Users
           /\ erq' = [BecomeProto(erq, frame.then) EXCEPT !.demon = "stop"]
           /\ flagged' = flagged \cup {frame.then} /\ stack' = t /\ UNCHANGED peer
  <2>1. /\ erq' \in ErqStates /\ erq'.pending = erq.pending /\ erq'.free = erq.free
        /\ erq'.demon = "stop" /\ erq'.unsent = erq.unsent /\ erq'.buf = erq.buf
    BY <1>2, <1>8 DEF Typed, ErqStates, BecomeProto
  <2>2. frame.then \in users
    BY <1>6, <1>8, ErqAssumption
  <2>3. Typed'
    BY <1>1, <1>2, <1>3, <1>8, <2>1, <2>2 DEF Typed
  <2>4. HandlesOK(erq.pending, erq.free, status)'
    BY <1>1, <2>1 DEF HInv
  <2>5. OffIsQuiet' /\ OffIsTold'
    BY <1>3, <1>5, <1>8, <2>1 DEF HInv, OffIsQuiet, OffIsTold, IsPending
  <2>6. StackOK'
    BY <1>4, <1>8, <2>1, IdleStack
  <2> QED
    BY <2>3, <2>4, <2>5, <2>6 DEF HInv
<1>9. CASE /\ frame.then = "hook" /\ UNCHANGED <<erq, peer, flagged>>
           /\ stack' = t \/ stack' = <<LpcFrame("hook")>> \o t
  <2>1. stack' \in Seq(Frames) /\ Idle(stack', erq.buf)
    <3>1. CASE stack' = t
      BY <1>3, <1>4, <3>1
    <3>2. CASE stack' = <<LpcFrame("hook")>> \o t
      <4> DEFINE f == LpcFrame("hook")
      <4>1. f \in Frames /\ f.at = "hook"
        BY DEF LpcFrame, Frames, LpcFrames
      <4> HIDE DEF f
      <4>2. /\ Len(t) \in Nat /\ DOMAIN t = 1 .. Len(t)
            /\ stack' \in Seq(Frames) /\ Len(stack') = Len(t) + 1 /\ DOMAIN stack' = 1 .. Len(t) + 1
            /\ stack'[1] = f /\ \A i \in 2 .. Len(t) + 1 : stack'[i] = t[i - 1]
        <5>1. t \in Seq(Frames) /\ stack' = <<f>> \o t
          BY <1>3, <3>2 DEF f
        <5> HIDE DEF Frames
        <5> QED
          BY <4>1, <5>1, PrependFacts
      <4>3. \A i \in DOMAIN stack' : i # 1 =>
              i - 1 \in DOMAIN t /\ stack'[i] = t[i - 1] /\ (i - 1 = Len(t) <=> i = Len(stack'))
        BY <4>2
      <4>4. (\A i \in DOMAIN stack' : stack'[i].at # "loop") => \A i \in DOMAIN t : t[i].at # "loop"
        <5>1. \A i \in DOMAIN t : i + 1 \in DOMAIN stack' /\ stack'[i + 1] = t[i]
          BY <4>2
        <5> QED
          BY <5>1
      <4>5. \A i \in DOMAIN stack' : stack'[i].at \in {"hook", "loop"}
        BY <1>4, <4>1, <4>2, <4>3 DEF Idle
      <4>6. ASSUME NEW i \in DOMAIN stack', stack'[i].at = "loop"
            PROVE  /\ i = Len(stack') /\ stack'[i].broken /\ stack'[i].answer = None
                   /\ AtBadMessage(stack'[i].rest)
                   /\ ~stack'[i].moved =>
                        /\ stack'[i].rest # <<>>
                        /\ erq.buf = <<>> \/ (erq.buf # <<>> /\ Head(erq.buf) = Head(stack'[i].rest))
        <5>1. i # 1
          BY <4>1, <4>2, <4>6
        <5>2. i - 1 \in DOMAIN t /\ stack'[i] = t[i - 1] /\ (i - 1 = Len(t) <=> i = Len(stack'))
          BY <4>3, <5>1
        <5> QED
          BY <1>4, <4>6, <5>2 DEF Idle
      <4> QED
        BY <1>4, <4>2, <4>4, <4>5, <4>6 DEF Idle
    <3> QED
      BY <1>9, <3>1, <3>2
  <2>2. Typed'
    BY <1>1, <1>2, <1>9, <2>1 DEF Typed
  <2>3. HandlesOK(erq.pending, erq.free, status)'
    BY <1>1, <1>9 DEF HInv
  <2>4. OffIsQuiet' /\ OffIsTold'
    BY <1>5, <1>9 DEF HInv, OffIsQuiet, OffIsTold, IsPending
  <2>5. StackOK'
    <3>1. Idle(stack', erq'.buf)
      BY <1>9, <2>1
    <3> QED
      BY <3>1, IdleStack
  <2> QED
    BY <2>2, <2>3, <2>4, <2>5 DEF HInv
<1>10. \/ frame.then = "fork" /\ Start([erq EXCEPT !.proto = None]) /\ stack' = t /\ UNCHANGED flagged
       \/ /\ frame.then \in Users
          /\ erq' = [BecomeProto(erq, frame.then) EXCEPT !.demon = "stop"]
          /\ flagged' = flagged \cup {frame.then} /\ stack' = t /\ UNCHANGED peer
       \/ /\ frame.then = "hook" /\ UNCHANGED <<erq, peer, flagged>>
          /\ stack' = t \/ stack' = <<LpcFrame("hook")>> \o t
  <2>1. <<>> \o t = t
    BY <1>3, ConcatEmptySeq
  <2> QED
    BY <1>1, <2>1 DEF EndStop, t, frame
<1> QED
  BY <1>7, <1>8, <1>9, <1>10

LEMMA LoseErqKeeps ==
  ASSUME HInv, LoseErq
  PROVE  HInv'
<1>1. /\ StopErqDemon("hook", <<>>) /\ UNCHANGED <<destructed, users, flagged, status, starts>>
  BY DEF LoseErq
<1>2. <<>> \in Seq(Frames) /\ DOMAIN <<>> = {} /\ starts \in 0 .. MaxStarts
  BY EmptySeq DEF HInv, Typed
<1> QED
  BY <1>1, <1>2, StopKeeps

LEMMA OneFrame ==
  ASSUME NEW S, NEW f \in S
  PROVE  <<f>> \in Seq(S) /\ Len(<<f>>) = 1 /\ DOMAIN <<f>> = {1} /\ <<f>>[1] = f
OBVIOUS

\* get_message() at work is the only frame; without an answer at hand it is not
\* below a callback.
LEMMA LoopFacts ==
  ASSUME HInv, stack # <<>>, Head(stack).at = "loop"
  PROVE  /\ Len(stack) = 1 /\ DOMAIN stack = {1} /\ Head(stack) = stack[1] /\ stack = <<stack[1]>>
         /\ stack[1] \in LoopFrames /\ stack[1].at = "loop" /\ stack[1].rest \in Seq(Messages)
         /\ stack[1].moved \in BOOLEAN /\ stack[1].broken \in BOOLEAN
         /\ stack[1].broken => stack[1].answer = None /\ AtBadMessage(stack[1].rest)
         /\ ~stack[1].broken =>
              erq.demon = "on" /\ (stack[1].answer # None => AnswerOK(stack[1]))
         /\ ~stack[1].moved =>
              /\ stack[1].rest # <<>>
              /\ erq.buf = <<>> \/ (erq.buf # <<>> /\ Head(erq.buf) = Head(stack[1].rest))
<1>1. /\ Len(stack) \in Nat \ {0} /\ DOMAIN stack = 1 .. Len(stack) /\ Head(stack) = stack[1]
      /\ stack \in Seq(Frames)
  BY PopFacts DEF HInv, Typed
<1>2. 1 \in DOMAIN stack /\ stack[1] \in Frames /\ stack[1].at = "loop"
  BY <1>1, StateFacts DEF HInv
<1>3. Len(stack) = 1
  BY <1>2 DEF HInv, StackOK, LoopsOK
<1>4. stack = <<stack[1]>>
  <2>1. /\ <<stack[1]>> \in Seq(Frames) /\ Len(<<stack[1]>>) = 1 /\ <<stack[1]>>[1] = stack[1]
    BY <1>2, OneFrame
  <2>2. \A i \in 1 .. Len(stack) : stack[i] = <<stack[1]>>[i]
    BY <1>3, <2>1
  <2> QED
    BY <1>1, <1>3, <2>1, <2>2, SeqEqual
<1> QED
  BY <1>1, <1>2, <1>3, <1>4, FrameFacts DEF HInv, StackOK, LoopsOK, BufferOK

\* What a stack with get_message() at work must be like.
LEMMA LoopStack ==
  ASSUME NEW f \in LoopFrames, f.at = "loop", ~f.broken, erq'.demon = "on",
         f.answer # None => AnswerOK(f)',
         ~f.moved =>
           f.rest # <<>> /\ (erq'.buf = <<>> \/ (erq'.buf # <<>> /\ Head(erq'.buf) = Head(f.rest))),
         stack' = <<f>> \/ stack' = <<LpcFrame("call")>> \o <<f>>
  PROVE  stack' \in Seq(Frames) /\ StackOK'
<1>1. f \in Frames
  BY DEF Frames
<1>2. /\ stack' \in Seq(Frames) /\ Len(stack') \in {1, 2} /\ DOMAIN stack' = 1 .. Len(stack')
      /\ stack'[Len(stack')] = f /\ (Len(stack') = 2 => stack'[1].at = "call")
  <2>1. CASE stack' = <<f>>
    BY <1>1, <2>1, OneFrame
  <2>2. CASE stack' = <<LpcFrame("call")>> \o <<f>>
    <3> DEFINE c == LpcFrame("call")
    <3>1. c \in Frames /\ c.at = "call"
      BY DEF LpcFrame, Frames, LpcFrames
    <3> HIDE DEF c
    <3> DEFINE t == <<f>>
    <3>2. t \in Seq(Frames) /\ Len(t) = 1 /\ t[1] = f
      BY <1>1, OneFrame
    <3>3. stack' = <<c>> \o t
      BY <2>2 DEF c
    <3> HIDE DEF t
    <3>4. /\ stack' \in Seq(Frames) /\ Len(stack') = Len(t) + 1
          /\ DOMAIN stack' = 1 .. Len(t) + 1 /\ stack'[1] = c
          /\ \A i \in 2 .. Len(t) + 1 : stack'[i] = t[i - 1]
      BY <3>1, <3>2, <3>3, PrependFacts
    <3> QED
      BY <3>1, <3>2, <3>4
  <2> QED
    BY <2>1, <2>2
<1>3. \A i \in DOMAIN stack' : stack'[i].at # "call" => i = Len(stack') /\ stack'[i] = f
  BY <1>2
<1>4. /\ Len(stack') \in DOMAIN stack' /\ stack'[Len(stack')].at = "loop"
      /\ Len(stack') = 1 \/ (Len(stack') = 2 /\ stack'[1].at = "call")
  BY <1>2
<1>5. StopsOK'
  <2>1. \A i \in DOMAIN stack' : stack'[i].at = "call" => i = 1
    BY <1>2
  <2>2. \A i \in DOMAIN stack' : stack'[i].at # "stop"
    BY <1>3
  <2> QED
    BY <2>1, <2>2 DEF StopsOK
<1>6. LoopsOK'
  <2>1. ASSUME NEW i \in DOMAIN stack', stack'[i].at = "loop"
        PROVE  i = Len(stack') /\ stack'[i] = f /\ UnderCall(i)'
    BY <1>3, <1>4, <2>1 DEF UnderCall
  <2> QED
    BY <2>1 DEF LoopsOK
<1>7. BufferOK'
  BY <1>3, <1>4 DEF BufferOK
<1> QED
  BY <1>2, <1>5, <1>6, <1>7 DEF StackOK

LEMMA ReadErqKeeps ==
  ASSUME HInv, ReadErq
  PROVE  HInv'
<1> DEFINE data == erq.buf \o peer.wire
           f == LoopFrame(data)
<1>1. /\ stack = <<>> /\ erq.demon = "on" /\ peer.wire # <<>>
      /\ erq' = [erq EXCEPT !.buf = data] /\ stack' = <<f>>
      /\ peer' = [peer EXCEPT !.wire = <<>>]
      /\ UNCHANGED <<destructed, users, flagged, status, starts>>
  BY DEF ReadErq
<1>2. Typed
  BY DEF HInv
<1>3. data \in Seq(Messages) /\ data # <<>>
  BY <1>1, <1>2, StateFacts, ConcatProperties, ConcatEqualIffEmpty
<1> HIDE DEF data
<1>4. /\ erq' \in ErqStates /\ erq'.pending = erq.pending /\ erq'.free = erq.free
      /\ erq'.demon = "on" /\ erq'.buf = data
  BY <1>1, <1>2, <1>3 DEF Typed, ErqStates
<1>5. peer' \in Peers
  BY <1>1, <1>2, EmptySeq DEF Typed, Peers
<1>6. /\ f \in LoopFrames /\ f.at = "loop" /\ ~f.broken /\ f.answer = None /\ f.rest = data
  BY <1>3 DEF LoopFrame, LoopFrames
<1> HIDE DEF f
<1>7. stack' \in Seq(Frames) /\ StackOK'
  BY <1>1, <1>3, <1>4, <1>6, LoopStack
<1>8. Typed'
  BY <1>1, <1>2, <1>4, <1>5, <1>7 DEF Typed
<1>9. HandlesOK(erq.pending, erq.free, status)'
  BY <1>1, <1>4 DEF HInv
<1>10. OffIsQuiet' /\ OffIsTold'
  BY <1>4 DEF OffIsQuiet, OffIsTold
<1> QED
  BY <1>7, <1>8, <1>9, <1>10 DEF HInv

LEMMA HandleBadMessageKeeps ==
  ASSUME HInv, HandleBadMessage
  PROVE  HInv'
<1> DEFINE loop == [Head(stack) EXCEPT !.broken = TRUE]
<1>1. /\ stack # <<>> /\ Head(stack).at = "loop" /\ Head(stack).answer = None
      /\ Head(stack).rest # <<>> /\ ~Head(stack).broken /\ Head(loop.rest).handle = BadLength
      /\ UNCHANGED <<destructed, users, flagged, status, starts>>
  BY DEF HandleBadMessage, MoreMessages, Looping
<1>2. Head(stack) = stack[1] /\ stack[1] \in LoopFrames /\ erq.demon = "on"
  BY <1>1, LoopFacts
<1>3. StopErqDemon("hook", <<loop>>)
  BY <1>2 DEF HandleBadMessage
<1>4. /\ loop \in Frames /\ loop.at = "loop" /\ loop.broken /\ loop.answer = None
      /\ AtBadMessage(loop.rest)
  <2>1. loop \in LoopFrames
    BY <1>2 DEF LoopFrames
  <2>2. loop.at = "loop" /\ loop.broken /\ loop.answer = None /\ loop.rest = Head(stack).rest
    BY <1>1, <1>2 DEF LoopFrames
  <2> HIDE DEF loop
  <2> QED
    BY <1>1, <2>1, <2>2 DEF Frames, AtBadMessage
<1> DEFINE frames == <<loop>>
<1> HIDE DEF loop
<1>5. frames \in Seq(Frames) /\ Len(frames) = 1 /\ DOMAIN frames = {1} /\ frames[1] = loop
  BY <1>4, OneFrame
<1>6. starts' \in 0 .. MaxStarts
  BY <1>1 DEF HInv, Typed
<1>7. StopErqDemon("hook", frames)
  BY <1>3 DEF loop
<1> HIDE DEF frames
<1>8. /\ \A i \in DOMAIN frames : frames[i].at \in {"hook", "loop"}
      /\ \A i \in DOMAIN frames : frames[i].at = "loop" =>
           /\ i = Len(frames) /\ frames[i].broken /\ frames[i].answer = None
           /\ AtBadMessage(frames[i].rest)
  BY <1>4, <1>5
<1> QED
  BY <1>1, <1>5, <1>6, <1>7, <1>8, StopKeeps

\* The loop goes on to the next message.
LEMMA NextMessageFacts ==
  ASSUME NEW f \in LoopFrames, f.rest # <<>>
  PROVE  /\ NextMessage(f) \in LoopFrames /\ NextMessage(f).at = "loop" /\ NextMessage(f).moved
         /\ NextMessage(f).broken = f.broken /\ NextMessage(f).answer = f.answer
         /\ NextMessage(f).rest = Tail(f.rest)
<1>1. Tail(f.rest) \in Seq(Messages)
  BY PopFacts DEF LoopFrames
<1> QED
  BY <1>1 DEF NextMessage, LoopFrames

LEMMA IgnoreMessageKeeps ==
  ASSUME HInv, IgnoreMessage
  PROVE  HInv'
<1> DEFINE f == NextMessage(Head(stack))
<1>1. /\ stack # <<>> /\ Head(stack).at = "loop" /\ Head(stack).answer = None
      /\ Head(stack).rest # <<>> /\ ~Head(stack).broken /\ stack' = <<f>>
      /\ UNCHANGED <<erq, peer, destructed, users, flagged, status, starts>>
  BY DEF IgnoreMessage, MoreMessages, Looping
<1>2. Head(stack) = stack[1] /\ stack[1] \in LoopFrames /\ erq.demon = "on"
  BY <1>1, LoopFacts
<1>3. f \in LoopFrames /\ f.at = "loop" /\ f.moved /\ ~f.broken /\ f.answer = None
  BY <1>1, <1>2, NextMessageFacts
<1> HIDE DEF f
<1>4. stack' \in Seq(Frames) /\ StackOK'
  BY <1>1, <1>2, <1>3, LoopStack
<1>5. Typed'
  BY <1>1, <1>4 DEF HInv, Typed
<1>6. HandlesOK(erq.pending, erq.free, status)'
  BY <1>1 DEF HInv
<1>7. OffIsQuiet' /\ OffIsTold'
  BY <1>1, <1>2 DEF OffIsQuiet, OffIsTold
<1> QED
  BY <1>4, <1>5, <1>6, <1>7 DEF HInv

LEMMA HandleAnswerKeeps ==
  ASSUME HInv, HandleAnswer
  PROVE  HInv'
<1> DEFINE loop == stack[1]
           m == Head(loop.rest)
           called == erq.pending[m.handle].u
           answer == [handle |-> m.handle, keep |-> m.keep, req |-> m.req, called |-> called]
           g == [loop EXCEPT !.answer = answer]
<1>1. /\ stack # <<>> /\ Head(stack).at = "loop" /\ Head(stack).answer = None
      /\ Head(stack).rest # <<>> /\ ~Head(stack).broken
      /\ UNCHANGED <<erq, peer, destructed, users, flagged, status, starts>>
  BY DEF HandleAnswer, MoreMessages, Looping
<1>2. /\ Head(stack) = loop /\ loop \in LoopFrames /\ erq.demon = "on" /\ loop.at = "loop"
      /\ ~loop.moved =>
              /\ loop.rest # <<>>
              /\ erq.buf = <<>> \/ (erq.buf # <<>> /\ Head(erq.buf) = Head(loop.rest))
  BY <1>1, LoopFacts
<1>3. /\ IsPending(erq, m.handle)
      /\ stack' = (IF Owner[called] \in destructed THEN <<>> ELSE <<LpcFrame("call")>>) \o <<g>>
  BY <1>2 DEF HandleAnswer
<1> HIDE DEF loop
<1>4. m \in Messages
  BY <1>1, <1>2, PopFacts DEF LoopFrames
<1>5. /\ m.handle \in Handles /\ called \in Requests
      /\ erq.pending[m.handle] = Closure(called)
  BY <1>3, StateFacts, EntryFacts DEF IsPending, HInv
<1>6. answer \in Answers
  BY <1>4, <1>5 DEF Answers, Messages
<1>7. PICK f : f = g
  OBVIOUS
<1>8. /\ f \in LoopFrames /\ f.at = "loop" /\ ~f.broken /\ f.answer = answer
      /\ f.rest = loop.rest /\ f.moved = loop.moved
  <2> HIDE DEF answer
  <2> QED
    BY <1>1, <1>2, <1>6, <1>7 DEF LoopFrames
<1>9. stack' = <<f>> \/ stack' = <<LpcFrame("call")>> \o <<f>>
  <2> HIDE DEF g
  <2> DEFINE t == <<f>>
  <2>1. t \in Seq(LoopFrames)
    BY <1>8
  <2>2. stack' = (IF Owner[called] \in destructed THEN <<>> ELSE <<LpcFrame("call")>>) \o t
    BY <1>3, <1>7
  <2> HIDE DEF t, called
  <2>3. stack' = t \/ stack' = <<LpcFrame("call")>> \o t
    BY <2>1, <2>2, ConcatEmptySeq
  <2> QED
    BY <2>3 DEF t
<1>10. f.answer # None => AnswerOK(f)'
  <2>1. answer.handle = m.handle /\ answer.keep = m.keep /\ answer.req = m.req
        /\ answer.called = called
    OBVIOUS
  <2> HIDE DEF answer, called
  <2>2. f.rest # <<>> /\ Head(f.rest) = m
    BY <1>1, <1>2, <1>8
  <2> HIDE DEF m, g
  <2>3. /\ f.answer.handle = Head(f.rest).handle /\ f.answer.keep = Head(f.rest).keep
        /\ f.answer.req = Head(f.rest).req
        /\ erq'.pending[f.answer.handle] = Closure(f.answer.called)
    BY <1>1, <1>5, <1>8, <2>1, <2>2
  <2> QED
    BY <2>2, <2>3 DEF AnswerOK
<1> HIDE DEF g, answer, m, called
<1>11. ~f.moved =>
         f.rest # <<>> /\ (erq'.buf = <<>> \/ (erq'.buf # <<>> /\ Head(erq'.buf) = Head(f.rest)))
  BY <1>1, <1>2, <1>8
<1>12. stack' \in Seq(Frames) /\ StackOK'
  BY <1>1, <1>2, <1>8, <1>9, <1>10, <1>11, LoopStack
<1>13. Typed'
  BY <1>1, <1>12 DEF HInv, Typed
<1>14. HandlesOK(erq.pending, erq.free, status)'
  BY <1>1 DEF HInv
<1>15. OffIsQuiet' /\ OffIsTold'
  BY <1>1, <1>2 DEF OffIsQuiet, OffIsTold
<1> QED
  BY <1>12, <1>13, <1>14, <1>15 DEF HInv

LEMMA FinishAnswerKeeps ==
  ASSUME HInv, FinishAnswer
  PROVE  HInv'
<1> DEFINE loop == stack[1]
           a == loop.answer
           f == [NextMessage(loop) EXCEPT !.answer = None]
<1>1. /\ stack # <<>> /\ Head(stack).at = "loop" /\ Head(stack).answer # None
      /\ UNCHANGED <<peer, destructed, users, flagged, starts>>
  BY DEF FinishAnswer
<1>2. /\ Head(stack) = loop /\ loop \in LoopFrames /\ loop.at = "loop"
      /\ erq.demon = "on" /\ ~loop.broken /\ AnswerOK(loop)
  BY <1>1, LoopFacts
<1>3. /\ erq' = (IF IsLastAnswer(a) THEN FreeHandle(erq, a.handle) ELSE erq)
      /\ status' = (IF IsLastAnswer(a) THEN [status EXCEPT ![a.called] = "done"] ELSE status)
      /\ stack' = <<f>>
  BY <1>2 DEF FinishAnswer
<1>4. a \in Answers /\ a.handle \in Handles /\ a.called \in Requests
      /\ erq.pending[a.handle] = Closure(a.called)
  BY <1>1, <1>2 DEF LoopFrames, Answers, AnswerOK
<1>5. f \in LoopFrames /\ f.at = "loop" /\ ~f.broken /\ f.answer = None /\ f.moved
  <2>1. loop.rest # <<>>
    BY <1>2 DEF AnswerOK
  <2> DEFINE g == NextMessage(loop)
  <2>2. g \in LoopFrames /\ g.at = "loop" /\ g.moved /\ ~g.broken
    BY <1>2, <2>1, NextMessageFacts
  <2> HIDE DEF g
  <2>3. f = [g EXCEPT !.answer = None]
    BY DEF g
  <2> QED
    BY <2>2, <2>3 DEF LoopFrames
<1> HIDE DEF f, a, loop
<1>6. Typed
  BY DEF HInv
<1>7. /\ erq' \in ErqStates /\ erq'.demon = "on"
      /\ status' \in [Requests -> {"new", "waiting", "done"}]
      /\ HandlesOK(erq'.pending, erq'.free, status')
  <2>1. CASE IsLastAnswer(a)
    <3> DEFINE h == a.handle
               p == erq.pending
    <3>1. /\ p \in [Handles -> Entries] /\ erq.free \in Handles \cup {None}
          /\ status \in [Requests -> {"new", "waiting", "done"}]
          /\ HandlesOK(p, erq.free, status) /\ h \in Handles
          /\ p[h].type = "closure" /\ p[h].u = a.called
      BY <1>4, <1>6, StateFacts, NewEntries DEF HInv, Typed
    <3>2. /\ [p EXCEPT ![h] = FreeEntry(erq.free)] \in [Handles -> Entries]
          /\ HandlesOK([p EXCEPT ![h] = FreeEntry(erq.free)], h, [status EXCEPT ![p[h].u] = "done"])
      BY <3>1, FreeKeeps
    <3>3. /\ erq'.pending = [p EXCEPT ![h] = FreeEntry(erq.free)] /\ erq'.free = h
          /\ erq' \in ErqStates /\ erq'.demon = erq.demon
      BY <1>3, <1>4, <1>6, <2>1, <3>2 DEF Typed, ErqStates, FreeHandle
    <3>4. status' = [status EXCEPT ![p[h].u] = "done"]
      BY <1>3, <2>1, <3>1
    <3>5. status' \in [Requests -> {"new", "waiting", "done"}]
      BY <1>4, <1>6, <3>1, <3>4 DEF Typed
    <3> QED
      BY <1>2, <3>2, <3>3, <3>4, <3>5
  <2>2. CASE ~IsLastAnswer(a)
    BY <1>2, <1>3, <1>6, <2>2 DEF HInv, Typed
  <2> QED
    BY <2>1, <2>2
<1>8. stack' \in Seq(Frames) /\ StackOK'
  BY <1>3, <1>5, <1>7, LoopStack
<1>9. Typed'
  BY <1>1, <1>6, <1>7, <1>8 DEF Typed
<1>10. OffIsQuiet' /\ OffIsTold'
  BY <1>7 DEF OffIsQuiet, OffIsTold
<1> QED
  BY <1>7, <1>8, <1>9, <1>10 DEF HInv

LEMMA EndLoopKeeps ==
  ASSUME HInv, EndLoop
  PROVE  HInv'
<1> DEFINE loop == stack[1]
<1>1. /\ stack # <<>> /\ Head(stack).at = "loop" /\ Head(stack).answer = None
      /\ stack' = <<>>
      /\ UNCHANGED <<peer, destructed, users, flagged, status, starts>>
  BY DEF EndLoop, Looping
<1>2. /\ Head(stack) = loop /\ loop \in LoopFrames /\ loop.at = "loop" /\ DOMAIN stack = {1}
      /\ loop.rest \in Seq(Messages) /\ loop.moved \in BOOLEAN /\ loop.broken \in BOOLEAN
      /\ loop.broken => AtBadMessage(loop.rest)
      /\ ~loop.moved =>
           /\ loop.rest # <<>>
           /\ erq.buf = <<>> \/ (erq.buf # <<>> /\ Head(erq.buf) = Head(loop.rest))
  BY <1>1, LoopFacts
<1>3. /\ loop.rest = <<>> \/ loop.broken
      /\ erq' = IF loop.moved THEN [erq EXCEPT !.buf = loop.rest] ELSE erq
  BY <1>2 DEF EndLoop
<1> HIDE DEF loop
<1>4. Typed
  BY DEF HInv
<1>5. /\ erq' \in ErqStates /\ erq'.pending = erq.pending /\ erq'.free = erq.free
      /\ erq'.demon = erq.demon /\ erq'.unsent = erq.unsent
      /\ erq'.buf = IF loop.moved THEN loop.rest ELSE erq.buf
  BY <1>2, <1>3, <1>4 DEF Typed, ErqStates
<1>6. erq'.buf = <<>> \/ AtBadMessage(erq'.buf)
  BY <1>2, <1>3, <1>5 DEF AtBadMessage
<1>7. Typed'
  BY <1>1, <1>4, <1>5, EmptySeq DEF Typed
<1>8. HandlesOK(erq.pending, erq.free, status)'
  BY <1>1, <1>5 DEF HInv
<1>9. OffIsQuiet' /\ OffIsTold'
  <2>1. \A i \in DOMAIN stack : stack[i].at # "stop"
    BY <1>2 DEF loop
  <2> QED
    BY <1>1, <1>5, <2>1 DEF HInv, OffIsQuiet, OffIsTold, IsPending
<1>10. Idle(<<>>, erq'.buf)
  BY <1>6 DEF Idle
<1>11. StackOK'
  BY <1>1, <1>10, IdleStack
<1> QED
  BY <1>7, <1>8, <1>9, <1>11 DEF HInv

\* The ERQ only puts messages on the wire.
LEMMA SendsKeeps ==
  ASSUME HInv, NEW m \in Messages, NEW q, q \subseteq Asks, Sends(m, q)
  PROVE  HInv'
<1>1. /\ peer.alive /\ peer' = [peer EXCEPT !.wire = Append(@, m), !.asked = q]
      /\ UNCHANGED <<erq, stack, destructed, users, flagged, status, starts>>
  BY DEF Sends
<1>2. peer' \in Peers
  <2>1. Append(peer.wire, m) \in Seq(Messages)
    BY StateFacts, AppendProperties DEF HInv
  <2> QED
    BY <1>1, <2>1 DEF HInv, Typed, Peers
<1>3. Typed'
  BY <1>1, <1>2 DEF HInv, Typed
<1>4. erq.demon = "on"
  BY <1>1 DEF HInv, OffIsQuiet, NoPeer
<1>5. OffIsQuiet' /\ OffIsTold'
  BY <1>1, <1>4 DEF OffIsQuiet, OffIsTold
<1>6. StackOK' /\ HandlesOK(erq.pending, erq.free, status)'
  BY <1>1 DEF HInv, StackOK, StopsOK, LoopsOK, BufferOK, UnderCall, AnswerOK
<1> QED
  BY <1>3, <1>5, <1>6 DEF HInv

LEMMA ErqAnswersKeeps ==
  ASSUME HInv, NEW q \in peer.asked, NEW keep \in BOOLEAN, NEW fits \in BOOLEAN,
         ErqAnswers(q, keep, fits)
  PROVE  HInv'
<1> DEFINE m == [handle |-> IF fits THEN q.handle ELSE NoCallback,
                 req |-> IF fits THEN q.req ELSE None, keep |-> keep /\ fits]
           left == IF keep THEN peer.asked ELSE peer.asked \ {q}
<1>1. q \in Asks /\ peer.asked \subseteq Asks
  BY StateFacts DEF HInv
<1>2. m \in Messages /\ left \subseteq Asks
  BY <1>1 DEF Messages, Asks
<1>3. Sends(m, left)
  BY DEF ErqAnswers
<1> HIDE DEF m, left
<1> QED
  BY <1>2, <1>3, SendsKeeps

LEMMA ErqSendsOtherKeeps ==
  ASSUME HInv, NEW handle \in {NoCallback, BadLength}, ErqSendsOther(handle)
  PROVE  HInv'
<1> DEFINE m == [handle |-> handle, req |-> None, keep |-> FALSE]
<1>1. m \in Messages /\ peer.asked \subseteq Asks
  BY StateFacts DEF Messages, HInv
<1>2. Sends(m, peer.asked)
  BY DEF ErqSendsOther
<1> HIDE DEF m
<1> QED
  BY <1>1, <1>2, SendsKeeps

LEMMA ErqDiesKeeps ==
  ASSUME HInv, ErqDies
  PROVE  HInv'
<1>1. /\ peer.alive /\ peer' = [peer EXCEPT !.alive = FALSE, !.asked = {}]
      /\ UNCHANGED <<erq, stack, destructed, users, flagged, status, starts>>
  BY DEF ErqDies
<1>2. peer' \in Peers
  BY <1>1 DEF HInv, Typed, Peers
<1>3. Typed'
  BY <1>1, <1>2 DEF HInv, Typed
<1>4. erq.demon = "on"
  BY <1>1 DEF HInv, OffIsQuiet, NoPeer
<1>5. OffIsQuiet' /\ OffIsTold'
  BY <1>1, <1>4 DEF OffIsQuiet, OffIsTold
<1>6. StackOK' /\ HandlesOK(erq.pending, erq.free, status)'
  BY <1>1 DEF HInv, StackOK, StopsOK, LoopsOK, BufferOK, UnderCall, AnswerOK
<1> QED
  BY <1>3, <1>5, <1>6 DEF HInv

-----------------------------------------------------------------------------
(* The theorems about the handles.                                         *)

LEMMA InitHandles ==
  ASSUME Init
  PROVE  HInv
<1>1. PICK started \in BOOLEAN :
        /\ erq = [pending |-> FreeList, free |-> MaxPendingErq - 1,
                  demon |-> IF started THEN "on" ELSE "none",
                  proto |-> None, unsent |-> None, buf |-> <<>>]
        /\ peer = IF started THEN NewPeer ELSE NoPeer
  BY DEF Init
<1>2. /\ stack = <<>> /\ destructed = {} /\ users = Users /\ flagged = {} /\ starts = 0
      /\ status = [r \in Requests |-> "new"]
  BY DEF Init
<1>3. /\ FreeList \in [Handles -> Entries] /\ MaxPendingErq - 1 \in Handles
      /\ HandlesOK(FreeList, MaxPendingErq - 1, status)
  BY <1>2, FreshList
<1> DEFINE none == <<>>
<1>4. none \in Seq(Frames) /\ none \in Seq(Messages) /\ DOMAIN none = {}
  BY EmptySeq
<1>5. erq \in ErqStates /\ erq.buf = <<>>
  BY <1>1, <1>3, <1>4 DEF ErqStates
<1>6. peer \in Peers
  BY <1>1, <1>4 DEF Peers, NewPeer, NoPeer
<1>7. Typed
  BY <1>2, <1>4, <1>5, <1>6, ErqAssumption DEF Typed
<1>8. HandlesOK(erq.pending, erq.free, status)
  BY <1>1, <1>3
<1>9. OffIsQuiet
  BY <1>1 DEF OffIsQuiet
<1>10. OffIsTold
  BY <1>1 DEF OffIsTold, IsPending, FreeList, FreeEntry
<1>11. StackOK
  BY <1>2, <1>4, <1>5 DEF StackOK, StopsOK, LoopsOK, BufferOK
<1> QED
  BY <1>7, <1>8, <1>9, <1>10, <1>11 DEF HInv

LEMMA StepHandles ==
  ASSUME HInv, ~RestartAnywhere, [Next]_vars
  PROVE  HInv'
<1>1. CASE UNCHANGED vars
  BY <1>1 DEF vars, HInv, Typed, OffIsQuiet, OffIsTold, StackOK, StopsOK, LoopsOK, BufferOK,
              UnderCall, AnswerOK, IsPending
<1>2. CASE \E r \in Requests, whole \in BOOLEAN : SendErq(r, whole)
  BY <1>2, SendErqKeeps
<1>3. CASE \E whole \in BOOLEAN : SendErqNoCallback(whole)
  BY <1>3, SendErqNoCallbackKeeps
<1>4. CASE \E doClose \in BOOLEAN : AttachErqName(doClose)
  BY <1>4, AttachErqNameKeeps
<1>5. CASE \E u \in Users, doClose \in BOOLEAN : AttachErqUser(u, doClose)
  BY <1>5, AttachErqUserKeeps
<1>6. CASE \E u \in Users : FailToWrite(u)
  BY <1>6, FailToWriteKeeps
<1>7. CASE \E u \in Users : RemoveInteractive(u)
  BY <1>7, RemoveInteractiveKeeps
<1>8. CASE \E o \in Objects : Destruct(o)
  BY <1>8, DestructKeeps
<1>9. CASE Return
  BY <1>9, ReturnKeeps
<1>10. CASE TellStale
  BY <1>10, TellStaleKeeps
<1>11. CASE EndStop
  BY <1>11, EndStopKeeps
<1>12. CASE ReadErq
  BY <1>12, ReadErqKeeps
<1>13. CASE LoseErq
  BY <1>13, LoseErqKeeps
<1>14. CASE HandleBadMessage
  BY <1>14, HandleBadMessageKeeps
<1>15. CASE IgnoreMessage
  BY <1>15, IgnoreMessageKeeps
<1>16. CASE HandleAnswer
  BY <1>16, HandleAnswerKeeps
<1>17. CASE FinishAnswer
  BY <1>17, FinishAnswerKeeps
<1>18. CASE EndLoop
  BY <1>18, EndLoopKeeps
<1>19. CASE \E q \in peer.asked, keep, fits \in BOOLEAN : ErqAnswers(q, keep, fits)
  BY <1>19, ErqAnswersKeeps
<1>20. CASE \E handle \in {NoCallback, BadLength} : ErqSendsOther(handle)
  BY <1>20, ErqSendsOtherKeeps
<1>21. CASE ErqDies
  BY <1>21, ErqDiesKeeps
<1> QED
  BY <1>1, <1>2, <1>3, <1>4, <1>5, <1>6, <1>7, <1>8, <1>9, <1>10, <1>11, <1>12, <1>13,
     <1>14, <1>15, <1>16, <1>17, <1>18, <1>19, <1>20, <1>21 DEF Next

(* The inductive invariant about the handles holds in every state.         *)
THEOREM HandlesInvariance ==
  ASSUME ~RestartAnywhere
  PROVE  Spec => []HInv
<1>1. Init => HInv
  BY InitHandles
<1>2. HInv /\ [Next]_vars => HInv'
  BY StepHandles
<1> QED
  BY <1>1, <1>2, PTL DEF Spec

(* The variables have their types; in particular the field u of an entry   *)
(* of pending_erq[] is a link of the free list exactly if it is T_INVALID. *)
THEOREM TypeCorrect ==
  ASSUME ~RestartAnywhere
  PROVE  Spec => []TypeOK
<1>1. HInv => TypeOK
  <2> SUFFICES ASSUME HInv PROVE TypeOK
    OBVIOUS
  <2>1. Typed
    BY DEF HInv
  <2>2. /\ DOMAIN erq.pending = Handles /\ \A h \in Handles : erq.pending[h] \in Entries
        /\ erq.unsent \in [handle : Handles \cup {NoCallback},
                           req : Requests \cup {None}] \cup {None}
    BY <2>1, StateFacts DEF Asks, Others
  <2>3. \A i \in DOMAIN erq.buf : erq.buf[i] \in Messages
    BY <2>1, StateFacts, ElementOfSeq
  <2>4. \A i \in DOMAIN peer.wire : peer.wire[i] \in Messages
    BY <2>1, StateFacts, ElementOfSeq
  <2>5. \A i \in DOMAIN stack : stack[i].at \in {"call", "hook", "stop", "loop"}
    BY <2>1, StateFacts, FrameFacts
  <2> QED
    BY <2>1, <2>2, <2>3, <2>4, <2>5, StateFacts DEF TypeOK, Typed, Entries, Asks
<1> QED
  BY <1>1, HandlesInvariance, PTL

(* Each handle is free or belongs to one request that waits, and each      *)
(* request that waits has one handle: send_erq(), get_message() and        *)
(* stop_erq_demon() lose no handle and give none away twice, whatever the  *)
(* callbacks do, as long as they do not attach another ERQ.                *)
THEOREM HandlesStayPartitioned ==
  ASSUME ~RestartAnywhere
  PROVE  Spec => []HandlesArePartitioned
<1>1. HInv => HandlesArePartitioned
  <2> SUFFICES ASSUME HInv PROVE HandlesArePartitioned
    OBVIOUS
  <2>1. FreeListIsWhole
    BY StateFacts, WholeList DEF HInv, HandlesOK
  <2>2. EveryPendingIsTold
    BY DEF HInv, HandlesOK, Shared, EveryPendingIsTold
  <2> QED
    BY <2>1, <2>2 DEF HInv, HandlesOK, Shared, HandlesArePartitioned, IsPending
<1> QED
  BY <1>1, HandlesInvariance, PTL

-----------------------------------------------------------------------------
(* The messages in line.                                                   *)

LEMMA ReadableFacts ==
  ASSUME NEW line \in Seq(Messages)
  PROVE  /\ Len(line) \in Nat /\ Readable(line) \subseteq 1 .. Len(line)
         /\ \A i \in Readable(line) : line[i] \in Messages /\ line[i].handle # BadLength
<1>1. Len(line) \in Nat /\ DOMAIN line = 1 .. Len(line)
  BY LenProperties
<1>2. \A i \in 1 .. Len(line) : line[i] \in Messages
  BY ElementOfSeq
<1> QED
  BY <1>1, <1>2 DEF Readable

LEMMA ReadableHead ==
  ASSUME NEW line \in Seq(Messages), line # <<>>, Head(line).handle # BadLength
  PROVE  line[1] = Head(line) /\ 1 \in Readable(line)
<1>1. line[1] = Head(line) /\ Len(line) \in Nat \ {0} /\ DOMAIN line = 1 .. Len(line)
  BY PopFacts
<1>2. 1 \in DOMAIN line /\ \A j \in 1 .. 1 : line[j].handle # BadLength
  BY <1>1
<1> QED
  BY <1>1, <1>2 DEF Readable

\* A new connection: nothing has been asked of it.
LEMMA NothingAsked ==
  ASSUME NEW pending, NEW unsent, unsent \notin Asks \ {None}
  PROVE  MessagesOK(pending, <<>>, {}, unsent)
<1>1. Readable(<<>>) = {}
  BY DEF Readable
<1> QED
  BY <1>1 DEF MessagesOK, LineOK, AskedOK, UnsentOK

\* The first message is done with; its handle is freed only if it is final.
LEMMA TailKeeps ==
  ASSUME NEW pending, NEW line \in Seq(Messages), NEW asked, NEW unsent,
         asked \subseteq Asks, MessagesOK(pending, line, asked, unsent),
         line # <<>>, Head(line).handle # BadLength,
         NEW new, \A h \in Handles :
                    new[h] = pending[h] \/ (IsFinal(Head(line)) /\ h = Head(line).handle)
  PROVE  MessagesOK(new, Tail(line), asked, unsent)
<1> DEFINE tail == Tail(line)
<1>1. /\ Len(line) \in Nat \ {0} /\ Head(line) = line[1] /\ DOMAIN line = 1 .. Len(line)
      /\ tail \in Seq(Messages) /\ DOMAIN tail = 1 .. Len(line) - 1
      /\ \A i \in 1 .. Len(line) - 1 : tail[i] = line[i + 1]
  BY PopFacts
<1> HIDE DEF tail
<1>2. 1 \in Readable(line)
  BY <1>1 DEF Readable
<1>3. ASSUME NEW i \in Readable(tail)
      PROVE  i \in Nat /\ i + 1 \in Readable(line) /\ tail[i] = line[i + 1]
  <2>1. i \in 1 .. Len(line) - 1 /\ \A j \in 1 .. i : tail[j].handle # BadLength
    BY <1>1 DEF Readable
  <2>2. ASSUME NEW j \in 1 .. i + 1
        PROVE  line[j].handle # BadLength
    <3>1. CASE j = 1
      BY <1>1, <3>1
    <3>2. CASE j # 1
      <4>1. j - 1 \in 1 .. i /\ j - 1 \in 1 .. Len(line) - 1 /\ (j - 1) + 1 = j
        BY <1>1, <2>1, <3>2
      <4> QED
        BY <1>1, <2>1, <4>1
    <3> QED
      BY <3>1, <3>2
  <2>3. i + 1 \in 1 .. Len(line)
    BY <1>1, <2>1
  <2> QED
    BY <1>1, <2>1, <2>2, <2>3 DEF Readable
<1>4. \A i \in Readable(tail) : IsFinal(Head(line)) => tail[i].handle # Head(line).handle
  <2> TAKE i \in Readable(tail)
  <2>1. i + 1 \in Readable(line) /\ 1 < i + 1 /\ tail[i] = line[i + 1]
    BY <1>1, <1>3 DEF Readable
  <2> QED
    BY <1>1, <1>2, <2>1 DEF MessagesOK, LineOK
<1>5. LineOK(new, tail)
  <2>1. ASSUME NEW i \in Readable(tail), tail[i].handle \in Handles
        PROVE  /\ new[tail[i].handle] = Closure(tail[i].req)
               /\ tail[i].req \in Requests
               /\ tail[i].keep => tail[i].req \in Spawns
    BY <1>3, <1>4, <2>1 DEF MessagesOK, LineOK
  <2>2. ASSUME NEW i \in Readable(tail), NEW j \in Readable(tail), i < j, IsFinal(tail[i])
        PROVE  tail[j].handle # tail[i].handle
    <3>1. i + 1 \in Readable(line) /\ j + 1 \in Readable(line) /\ i + 1 < j + 1
      BY <1>3, <2>2
    <3> QED
      BY <1>3, <2>2, <3>1 DEF MessagesOK, LineOK
  <2> QED
    BY <2>1, <2>2 DEF LineOK
<1>6. AskedOK(new, tail, asked)
  <2>1. ASSUME NEW q \in asked
        PROVE  new[q.handle] = Closure(q.req)
    <3>1. q.handle \in Handles /\ pending[q.handle] = Closure(q.req)
      BY DEF Asks, MessagesOK, AskedOK
    <3>2. IsFinal(Head(line)) => Head(line).handle # q.handle
      BY <1>1, <1>2 DEF MessagesOK, AskedOK
    <3> QED
      BY <3>1, <3>2
  <2>2. ASSUME NEW q \in asked, NEW i \in Readable(tail), IsFinal(tail[i])
        PROVE  tail[i].handle # q.handle
    BY <1>3, <2>2 DEF MessagesOK, AskedOK
  <2> QED
    BY <2>1, <2>2 DEF AskedOK
<1>7. UnsentOK(new, tail, asked, unsent)
  <2> SUFFICES ASSUME unsent \in Asks \ {None}
               PROVE  /\ new[unsent.handle] = Closure(unsent.req)
                      /\ unsent \notin asked
                      /\ \A i \in Readable(tail) : tail[i].handle # unsent.handle
    BY DEF UnsentOK
  <2>1. unsent.handle \in Handles /\ pending[unsent.handle] = Closure(unsent.req)
    BY DEF Asks, MessagesOK, UnsentOK
  <2>2. Head(line).handle # unsent.handle
    BY <1>1, <1>2 DEF MessagesOK, UnsentOK
  <2>3. \A i \in Readable(tail) : tail[i].handle # unsent.handle
    BY <1>3 DEF MessagesOK, UnsentOK
  <2>4. unsent \notin asked
    BY DEF MessagesOK, UnsentOK
  <2> QED
    BY <2>1, <2>2, <2>3, <2>4
<1> QED
  BY <1>5, <1>6, <1>7 DEF MessagesOK, tail

\* The ERQ sends a message: for nobody, or for one that was asked, and if it is final
\* the ERQ has been asked nothing more with this handle.
LEMMA AppendKeeps ==
  ASSUME NEW pending, NEW line \in Seq(Messages), NEW asked, NEW unsent, NEW m \in Messages,
         asked \subseteq Asks, MessagesOK(pending, line, asked, unsent),
         NEW left, left \subseteq asked,
         m.handle \in Handles =>
           /\ [handle |-> m.handle, req |-> m.req] \in asked
           /\ m.keep => m.req \in Spawns
           /\ ~m.keep => [handle |-> m.handle, req |-> m.req] \notin left
  PROVE  MessagesOK(pending, Append(line, m), left, unsent)
<1> DEFINE longer == Append(line, m)
           n == Len(line) + 1
           q == [handle |-> m.handle, req |-> m.req]
<1>1. /\ Len(line) \in Nat /\ longer \in Seq(Messages) /\ Len(longer) = n /\ longer[n] = m
      /\ \A i \in 1 .. Len(line) : longer[i] = line[i]
      /\ DOMAIN line = 1 .. Len(line) /\ DOMAIN longer = 1 .. n
  <2>1. longer \in Seq(Messages) /\ Len(longer) = Len(line) + 1
        /\ \A i \in 1 .. Len(line) + 1 : longer[i] = IF i <= Len(line) THEN line[i] ELSE m
    BY AppendProperties
  <2>2. Len(line) \in Nat /\ DOMAIN line = 1 .. Len(line) /\ DOMAIN longer = 1 .. Len(longer)
    BY <2>1, LenProperties
  <2> QED
    BY <2>1, <2>2
<1> HIDE DEF longer
<1>2. \A i \in Readable(longer) : i = n \/ (i \in Readable(line) /\ longer[i] = line[i])
  BY <1>1 DEF Readable
<1>3. \A i \in Readable(line) : i < n
  BY <1>1 DEF Readable
<1>4. q.handle = m.handle /\ q.req = m.req
  OBVIOUS
<1>5. m.handle \in Handles =>
        /\ pending[m.handle] = Closure(m.req) /\ m.req \in Requests
        /\ \A i \in Readable(line) : IsFinal(line[i]) => line[i].handle # m.handle
  BY <1>4 DEF MessagesOK, AskedOK, Asks
<1>6. \A x \in Asks :
        x.handle = m.handle /\ pending[x.handle] = Closure(x.req) /\ pending[m.handle] = Closure(m.req)
          => x = q
  BY NewEntries DEF Asks, Closure
<1> HIDE DEF q
<1>7. LineOK(pending, longer)
  <2>1. ASSUME NEW i \in Readable(longer), longer[i].handle \in Handles
        PROVE  /\ pending[longer[i].handle] = Closure(longer[i].req)
               /\ longer[i].req \in Requests
               /\ longer[i].keep => longer[i].req \in Spawns
    BY <1>1, <1>2, <1>5, <2>1 DEF MessagesOK, LineOK
  <2>2. ASSUME NEW i \in Readable(longer), NEW j \in Readable(longer), i < j, IsFinal(longer[i])
        PROVE  longer[j].handle # longer[i].handle
    <3>1. i \in Readable(line) /\ longer[i] = line[i] /\ line[i].handle \in Handles
      BY <1>1, <1>2, <1>3, <2>2 DEF Readable, IsFinal
    <3>2. CASE j = n
      BY <1>1, <1>5, <2>2, <3>1, <3>2
    <3>3. CASE j # n
      BY <1>2, <2>2, <3>1, <3>3 DEF MessagesOK, LineOK
    <3> QED
      BY <3>2, <3>3
  <2> QED
    BY <2>1, <2>2 DEF LineOK
<1>8. AskedOK(pending, longer, left)
  <2>1. ASSUME NEW x \in left
        PROVE  pending[x.handle] = Closure(x.req) /\ x \in Asks
    BY DEF MessagesOK, AskedOK
  <2>2. ASSUME NEW x \in left, NEW i \in Readable(longer), IsFinal(longer[i])
        PROVE  longer[i].handle # x.handle
    <3>1. CASE i = n
      <4>1. m.handle \in Handles /\ ~m.keep
        BY <1>1, <2>2, <3>1 DEF IsFinal
      <4>2. q \notin left
        BY <4>1 DEF q
      <4> QED
        BY <1>1, <1>5, <1>6, <2>1, <3>1, <4>1, <4>2
    <3>2. CASE i # n
      BY <1>2, <2>2, <3>2 DEF MessagesOK, AskedOK
    <3> QED
      BY <3>1, <3>2
  <2> QED
    BY <2>1, <2>2 DEF AskedOK
<1>9. UnsentOK(pending, longer, left, unsent)
  <2> SUFFICES ASSUME unsent \in Asks \ {None}
               PROVE  /\ pending[unsent.handle] = Closure(unsent.req)
                      /\ unsent \notin left
                      /\ \A i \in Readable(longer) : longer[i].handle # unsent.handle
    BY DEF UnsentOK
  <2>1. /\ pending[unsent.handle] = Closure(unsent.req) /\ unsent \notin asked
        /\ \A i \in Readable(line) : line[i].handle # unsent.handle
        /\ unsent.handle \in Handles
    BY DEF MessagesOK, UnsentOK, Asks
  <2>2. m.handle # unsent.handle
    <3>1. m.handle \in Handles => q \in asked
      BY DEF q
    <3> QED
      BY <1>5, <1>6, <2>1, <3>1
  <2> QED
    BY <1>1, <1>2, <2>1, <2>2
<1> QED
  BY <1>7, <1>8, <1>9 DEF MessagesOK, longer

\* A request is written, or kept to be written; its handle was free.
LEMMA AskKeeps ==
  ASSUME NEW pending, NEW line \in Seq(Messages), NEW asked, NEW unsent,
         asked \subseteq Asks, unsent \in Asks \cup Others \cup {None},
         MessagesOK(pending, line, asked, unsent),
         NEW new, NEW more, NEW last, NEW msg \in Asks \cup Others, NEW whole \in BOOLEAN,
         \A h \in Handles : new[h] = pending[h] \/ (pending[h].type # "closure" /\ h = msg.handle),
         msg \in Asks => /\ new[msg.handle] = Closure(msg.req)
                         /\ pending[msg.handle].type # "closure",
         more = asked \cup Asked(unsent) \cup (IF whole THEN Asked(msg) ELSE {}),
         last = IF whole THEN None ELSE msg
  PROVE  MessagesOK(new, line, more, last)
<1>1. \A u : u \in Asked(unsent) => u = unsent /\ u \in Asks \ {None}
  BY AskedFacts DEF Asked
<1>2. \A u : u \in Asked(msg) => u = msg /\ u \in Asks
  <2>1. msg \in Asks \cup Others \cup {None}
    OBVIOUS
  <2> QED
    BY <2>1, AskedFacts DEF Asked
<1>3. \A r : Closure(r).type = "closure"
  BY DEF Closure
<1>4. /\ \A i \in Readable(line) : line[i].handle \in Handles =>
           pending[line[i].handle].type = "closure" /\ new[line[i].handle] = pending[line[i].handle]
      /\ \A q \in asked \cup Asked(unsent) :
           /\ q \in Asks /\ q.handle \in Handles
           /\ pending[q.handle] = Closure(q.req) /\ pending[q.handle].type = "closure"
           /\ new[q.handle] = pending[q.handle]
           /\ \A i \in Readable(line) : IsFinal(line[i]) => line[i].handle # q.handle
  <2>1. ASSUME NEW i \in Readable(line), line[i].handle \in Handles
        PROVE  pending[line[i].handle].type = "closure"
               /\ new[line[i].handle] = pending[line[i].handle]
    BY <1>3, <2>1 DEF MessagesOK, LineOK
  <2>2. ASSUME NEW q \in asked \cup Asked(unsent)
        PROVE  /\ q \in Asks /\ q.handle \in Handles
               /\ pending[q.handle] = Closure(q.req)
               /\ \A i \in Readable(line) : IsFinal(line[i]) => line[i].handle # q.handle
    <3>1. CASE q \in asked
      BY <3>1 DEF MessagesOK, AskedOK, Asks
    <3>2. CASE q \in Asked(unsent)
      BY <1>1, <3>2 DEF MessagesOK, UnsentOK, Asks
    <3> QED
      BY <3>1, <3>2
  <2> QED
    BY <1>3, <2>1, <2>2
<1>5. msg \in Asks =>
        /\ msg.handle \in Handles /\ new[msg.handle] = Closure(msg.req)
        /\ \A i \in Readable(line) : line[i].handle # msg.handle
        /\ msg \notin asked \cup Asked(unsent)
  BY <1>4 DEF Asks
<1>6. LineOK(new, line)
  BY <1>4 DEF MessagesOK, LineOK
<1>7. AskedOK(new, line, more)
  <2>1. ASSUME NEW q \in more
        PROVE  /\ new[q.handle] = Closure(q.req)
               /\ \A i \in Readable(line) : IsFinal(line[i]) => line[i].handle # q.handle
    <3>1. CASE q \in asked \cup Asked(unsent)
      BY <1>4, <3>1
    <3>2. CASE q \in Asked(msg)
      BY <1>2, <1>5, <3>2
    <3> QED
      BY <3>1, <3>2
  <2> QED
    BY <2>1 DEF AskedOK
<1>8. UnsentOK(new, line, more, last)
  <2>1. CASE whole
    BY <2>1 DEF UnsentOK
  <2>2. CASE ~whole
    BY <1>5, <2>2 DEF UnsentOK
  <2> QED
    BY <2>1, <2>2
<1> QED
  BY <1>6, <1>7, <1>8 DEF MessagesOK

-----------------------------------------------------------------------------
(* The steps keep the messages for the owners of their handles.            *)

\* Only the loop of get_message(), as the first frame of all, has messages.
LEMMA UnreadFacts ==
  ASSUME NEW st \in Seq(Frames)
  PROVE  /\ UnreadOf(st) \in Seq(Messages)
         /\ (\A i \in DOMAIN st : st[i].at = "loop" => st[i].broken) => UnreadOf(st) = <<>>
<1>1. st # <<>> => Len(st) \in DOMAIN st /\ st[Len(st)] \in Frames
  BY PopFacts, ElementOfSeq
<1>2. ASSUME NEW empty, empty = <<>>
      PROVE  empty \in Seq(Messages)
  BY <1>2, EmptySeq
<1> QED
  BY <1>1, <1>2, FrameFacts DEF UnreadOf

LEMMA UnreadTail ==
  ASSUME NEW st \in Seq(Frames), st # <<>>, st[1].at # "loop"
  PROVE  UnreadOf(Tail(st)) = UnreadOf(st)
<1>1. /\ Len(st) \in Nat \ {0} /\ Len(Tail(st)) = Len(st) - 1
      /\ \A i \in 1 .. Len(st) - 1 : Tail(st)[i] = st[i + 1]
      /\ Tail(st) = <<>> <=> Len(st) = 1
  BY PopFacts
<1>2. CASE Len(st) = 1
  BY <1>1, <1>2 DEF UnreadOf
<1>3. CASE Len(st) # 1
  <2>1. Tail(st)[Len(Tail(st))] = st[Len(st)]
    BY <1>1, <1>3
  <2> QED
    BY <1>1, <1>3, <2>1 DEF UnreadOf
<1> QED
  BY <1>2, <1>3

LEMMA UnreadLoop ==
  ASSUME NEW f \in LoopFrames, f.at = "loop", ~f.broken,
         NEW st, st = <<f>> \/ st = <<LpcFrame("call")>> \o <<f>>
  PROVE  UnreadOf(st) = f.rest
<1>1. CASE st = <<f>>
  BY <1>1 DEF UnreadOf
<1>2. CASE st = <<LpcFrame("call")>> \o <<f>>
  <2>1. LpcFrame("call") \in Frames /\ f \in Frames
    BY DEF Frames, LpcFrames, LpcFrame
  <2> DEFINE c == LpcFrame("call")
             t == <<f>>
  <2>2. t \in Seq(Frames) /\ Len(t) = 1 /\ t[1] = f
    BY <2>1, OneFrame
  <2> HIDE DEF c, t
  <2>3. st = <<c>> \o t
    BY <1>2 DEF c, t
  <2>4. st \in Seq(Frames) /\ Len(st) = 2 /\ st[2] = t[1]
    <3>1. c \in Frames
      BY <2>1 DEF c
    <3>2. /\ <<c>> \o t \in Seq(Frames) /\ Len(<<c>> \o t) = Len(t) + 1
          /\ \A i \in 2 .. Len(t) + 1 : (<<c>> \o t)[i] = t[i - 1]
      BY <2>2, <3>1, PrependFacts
    <3> QED
      BY <2>2, <2>3, <3>2
  <2>5. st # <<>>
    <3>1. Len(<<>>) = 0 /\ 2 # 0
      OBVIOUS
    <3> QED
      BY <2>4, <3>1, Zenon
  <2> QED
    BY <2>2, <2>4, <2>5 DEF UnreadOf
<1> QED
  BY <1>1, <1>2

LEMMA LineFacts ==
  ASSUME HInv
  PROVE  /\ UnreadOf(stack) \in Seq(Messages) /\ Line \in Seq(Messages)
         /\ peer.wire \in Seq(Messages)
         /\ (\A i \in DOMAIN stack : stack[i].at = "loop" => stack[i].broken) =>
              UnreadOf(stack) = <<>>
         /\ (\A i \in DOMAIN stack : stack[i].at # "loop") => UnreadOf(stack) = <<>>
<1>1. stack \in Seq(Frames) /\ peer.wire \in Seq(Messages)
  BY StateFacts DEF HInv, Typed
<1>2. UnreadOf(stack) \in Seq(Messages)
  BY <1>1, UnreadFacts
<1>3. Line \in Seq(Messages)
  BY <1>1, <1>2, ConcatProperties DEF Line
<1> QED
  BY <1>1, <1>2, <1>3, UnreadFacts

\* Handles are freed and objects stay: nobody new waits.
LEMMA SpawnsStay ==
  ASSUME SpawnsLive, UNCHANGED destructed,
         \A h \in Handles : erq'.pending[h] = erq.pending[h] \/ erq'.pending[h].type # "closure"
  PROVE  SpawnsLive'
<1>1. \A r : Closure(r).type = "closure"
  BY DEF Closure
<1> QED
  BY <1>1 DEF SpawnsLive

\* Without an ERQ there are no messages.
LEMMA QuietLine ==
  ASSUME HInv', erq'.demon # "on", SpawnsLive'
  PROVE  AInv'
<1>1. /\ peer' = NoPeer /\ erq'.unsent = None
      /\ \A i \in DOMAIN stack' : stack'[i].at = "loop" => stack'[i].broken
      /\ stack' \in Seq(Frames)
  BY DEF HInv, OffIsQuiet, StackOK, LoopsOK, Typed
<1>2. UnreadOf(stack') = <<>>
  BY <1>1, UnreadFacts
<1>3. peer'.wire = <<>> /\ peer'.asked = {}
  BY <1>1 DEF NoPeer
<1>4. Line' = <<>>
  <2>1. Line' = <<>> \o <<>>
    BY <1>2, <1>3 DEF Line
  <2> QED
    BY <2>1
<1>5. MessagesOK(erq'.pending, <<>>, {}, None)
  BY NothingAsked
<1> QED
  BY <1>1, <1>3, <1>4, <1>5 DEF AInv

\* A new ERQ has not been asked anything.
LEMMA NewLine ==
  ASSUME HInv', peer' = NewPeer, erq'.unsent \in Others \cup {None}, SpawnsLive',
         \A i \in DOMAIN stack' : stack'[i].at = "loop" => stack'[i].broken
  PROVE  AInv'
<1>1. UnreadOf(stack') = <<>>
  BY UnreadFacts DEF HInv, Typed
<1>2. peer'.wire = <<>> /\ peer'.asked = {}
  BY DEF NewPeer
<1>3. Line' = <<>>
  <2>1. Line' = <<>> \o <<>>
    BY <1>1, <1>2 DEF Line
  <2> QED
    BY <2>1
<1>4. erq'.unsent \notin Asks \ {None}
  BY HandleFacts DEF Asks, Others
<1>5. MessagesOK(erq'.pending, <<>>, {}, erq'.unsent)
  BY <1>4, NothingAsked
<1> QED
  BY <1>2, <1>3, <1>5 DEF AInv

LEMMA SendErqAnswers ==
  ASSUME HInv, AInv, NEW r \in Requests, NEW whole \in BOOLEAN, SendErq(r, whole)
  PROVE  AInv'
<1> DEFINE h == erq.free
           msg == [handle |-> h, req |-> r]
<1>1. /\ Owner[r] \notin destructed /\ h \in Handles /\ status[r] = "new"
      /\ peer' = [peer EXCEPT !.asked = @ \cup Asked(erq.unsent)
                                          \cup (IF whole THEN Asked(msg) ELSE {})]
      /\ erq' = [erq EXCEPT !.free = erq.pending[h].u, !.pending[h] = Closure(r),
                            !.unsent = IF whole THEN None ELSE msg]
      /\ UNCHANGED <<stack, destructed>>
  BY DEF SendErq, Write
<1>2. /\ erq \in ErqStates /\ peer \in Peers /\ erq.pending \in [Handles -> Entries]
      /\ status \in [Requests -> {"new", "waiting", "done"}]
      /\ HandlesOK(erq.pending, erq.free, status)
  BY StateFacts DEF HInv, Typed
<1>3. erq.pending[h].type = "invalid"
  <2> DEFINE p == erq.pending
             st == status
  <2>1. p \in [Handles -> Entries] /\ st \in [Requests -> {"new", "waiting", "done"}]
        /\ HandlesOK(p, h, st) /\ h \in Handles /\ st[r] = "new"
    BY <1>1, <1>2
  <2> HIDE DEF p, st, h
  <2>2. p[h].type = "invalid"
    BY <2>1, SendKeeps
  <2> QED
    BY <2>2 DEF p
<1>4. msg \in Asks /\ msg.handle = h /\ msg.req = r
  BY <1>1 DEF Asks
<1> HIDE DEF msg
<1>5. /\ erq'.pending = [erq.pending EXCEPT ![h] = Closure(r)]
      /\ erq'.unsent = IF whole THEN None ELSE msg
  BY <1>1, <1>2 DEF ErqStates
<1>6. /\ erq'.pending[h] = Closure(r)
      /\ \A g \in Handles : erq'.pending[g] = erq.pending[g] \/ g = h
  BY <1>1, <1>2, <1>5
<1>7. /\ peer'.asked = peer.asked \cup Asked(erq.unsent) \cup (IF whole THEN Asked(msg) ELSE {})
      /\ peer'.wire = peer.wire
  BY <1>1, <1>2 DEF Peers
<1>8. Line' = Line /\ Line \in Seq(Messages)
  BY <1>1, <1>7, LineFacts DEF Line
<1>9. peer.asked \subseteq Asks /\ erq.unsent \in Asks \cup Others \cup {None}
  BY StateFacts DEF HInv
<1>10. MessagesOK(erq'.pending, Line, peer'.asked, erq'.unsent)
  <2>1. MessagesOK(erq.pending, Line, peer.asked, erq.unsent)
    BY DEF AInv
  <2>2. msg \in Asks \cup Others
    BY <1>4
  <2>3. \A g \in Handles : erq'.pending[g] = erq.pending[g]
                           \/ (erq.pending[g].type # "closure" /\ g = msg.handle)
    BY <1>3, <1>4, <1>6
  <2>4. erq'.pending[msg.handle] = Closure(msg.req) /\ erq.pending[msg.handle].type # "closure"
    BY <1>3, <1>4, <1>6
  <2> HIDE DEF h
  <2> DEFINE p == erq.pending
             new == erq'.pending
             line == Line
             asked == peer.asked
             more == peer'.asked
             unsent == erq.unsent
             last == erq'.unsent
  <2>5. line \in Seq(Messages) /\ asked \subseteq Asks /\ unsent \in Asks \cup Others \cup {None}
    BY <1>8, <1>9
  <2>6. more = asked \cup Asked(unsent) \cup (IF whole THEN Asked(msg) ELSE {})
        /\ last = IF whole THEN None ELSE msg
    BY <1>5, <1>7
  <2> HIDE DEF p, new, line, asked, more, unsent, last
  <2>7. MessagesOK(p, line, asked, unsent)
    BY <2>1 DEF p, line, asked, unsent
  <2>8. \A g \in Handles : new[g] = p[g] \/ (p[g].type # "closure" /\ g = msg.handle)
    BY <2>3 DEF p, new
  <2>9. new[msg.handle] = Closure(msg.req) /\ p[msg.handle].type # "closure"
    BY <2>4 DEF p, new
  <2>10. MessagesOK(new, line, more, last)
    BY <2>2, <2>5, <2>6, <2>7, <2>8, <2>9, AskKeeps
  <2> QED
    BY <2>10 DEF new, line, more, last
<1>11. SpawnsLive'
  <2>1. \A x, y : Closure(x) = Closure(y) => x = y
    BY DEF Closure
  <2> QED
    BY <1>1, <1>6, <2>1 DEF AInv, SpawnsLive
<1> QED
  BY <1>5, <1>7, <1>8, <1>10, <1>11 DEF AInv

LEMMA SendErqNoCallbackAnswers ==
  ASSUME HInv, AInv, NEW whole \in BOOLEAN, SendErqNoCallback(whole)
  PROVE  AInv'
<1> DEFINE msg == [handle |-> NoCallback, req |-> None]
<1>1. /\ peer' = [peer EXCEPT !.asked = @ \cup Asked(erq.unsent)
                                          \cup (IF whole THEN Asked(msg) ELSE {})]
      /\ erq' = [erq EXCEPT !.unsent = IF whole THEN None ELSE msg]
      /\ UNCHANGED <<stack, destructed>>
  BY DEF SendErqNoCallback, Write
<1>2. erq \in ErqStates /\ peer \in Peers
  BY DEF HInv, Typed
<1>3. msg \in Others /\ msg \notin Asks
  BY HandleFacts DEF Others, Asks
<1> HIDE DEF msg
<1>4. erq'.pending = erq.pending /\ erq'.unsent = IF whole THEN None ELSE msg
  BY <1>1, <1>2 DEF ErqStates
<1>5. /\ peer'.asked = peer.asked \cup Asked(erq.unsent) \cup (IF whole THEN Asked(msg) ELSE {})
      /\ peer'.wire = peer.wire
  BY <1>1, <1>2 DEF Peers
<1>6. Line' = Line /\ Line \in Seq(Messages)
  BY <1>1, <1>5, LineFacts DEF Line
<1>7. peer.asked \subseteq Asks /\ erq.unsent \in Asks \cup Others \cup {None}
  BY StateFacts DEF HInv
<1>8. MessagesOK(erq.pending, Line, peer'.asked, erq'.unsent)
  <2>1. MessagesOK(erq.pending, Line, peer.asked, erq.unsent)
    BY DEF AInv
  <2>2. msg \in Asks \cup Others
    BY <1>3
  <2> QED
    BY <1>3, <1>4, <1>5, <1>6, <1>7, <2>1, <2>2, AskKeeps
<1>9. SpawnsLive'
  BY <1>1, <1>4, SpawnsStay DEF AInv
<1> QED
  BY <1>4, <1>5, <1>6, <1>8, <1>9 DEF AInv

\* The ERQ is stopped or stays away.
LEMMA StepToQuiet ==
  ASSUME AInv, HInv', erq'.demon # "on", UNCHANGED destructed,
         \A h \in Handles : erq'.pending[h] = erq.pending[h] \/ erq'.pending[h].type # "closure"
  PROVE  AInv'
BY SpawnsStay, QuietLine DEF AInv

LEMMA StopAnswers ==
  ASSUME HInv, AInv, HInv', UNCHANGED destructed,
         NEW then, NEW frames, StopErqDemon(then, frames)
  PROVE  AInv'
<1>1. erq'.demon = "none" /\ erq'.pending = erq.pending
  BY DEF HInv, Typed, ErqStates, StopErqDemon, ShutdownErqDemon
<1> QED
  BY <1>1, StepToQuiet

LEMMA StartAnswers ==
  ASSUME HInv, AInv, HInv', UNCHANGED destructed,
         NEW e, e \in {erq, [erq EXCEPT !.proto = None]}, erq.demon # "on", Start(e),
         \A i \in DOMAIN stack' : \E j \in DOMAIN stack : stack'[i] = stack[j]
  PROVE  AInv'
<1>1. PICK started \in BOOLEAN :
        erq' = StartErqDemon(e, started) /\ peer' = IF started THEN NewPeer ELSE peer
  BY DEF Start
<1>2. e \in ErqStates /\ e.demon = erq.demon /\ e.unsent = None
  BY DEF HInv, Typed, ErqStates, OffIsQuiet
<1>3. /\ erq'.pending = FreeList /\ erq'.unsent = None
      /\ erq'.demon = IF started THEN "on" ELSE erq.demon
  BY <1>1, <1>2 DEF StartErqDemon, Torn, ErqStates
<1>4. \A h \in Handles : erq'.pending[h].type # "closure"
  BY <1>3 DEF FreeList, FreeEntry
<1>5. \A i \in DOMAIN stack' : stack'[i].at = "loop" => stack'[i].broken
  BY DEF HInv, StackOK, LoopsOK
<1>6. SpawnsLive'
  BY <1>4, SpawnsStay DEF AInv
<1>7. CASE started
  BY <1>1, <1>3, <1>5, <1>6, <1>7, NewLine
<1>8. CASE ~started
  BY <1>3, <1>6, <1>8, QuietLine
<1> QED
  BY <1>7, <1>8

LEMMA AttachErqNameAnswers ==
  ASSUME HInv, AInv, HInv', NEW doClose \in BOOLEAN, AttachErqName(doClose)
  PROVE  AInv'
<1>1. UNCHANGED destructed
  BY DEF AttachErqName
<1>2. CASE erq.demon = "none" /\ Start(erq) /\ UNCHANGED stack
  <2>1. \A i \in DOMAIN stack' : \E j \in DOMAIN stack : stack'[i] = stack[j]
    BY <1>2
  <2> QED
    BY <1>1, <1>2, <2>1, StartAnswers
<1>3. CASE erq.demon = "stop" /\ Start([erq EXCEPT !.proto = None]) /\ UNCHANGED stack
  <2>1. \A i \in DOMAIN stack' : \E j \in DOMAIN stack : stack'[i] = stack[j]
    BY <1>3
  <2> QED
    BY <1>1, <1>3, <2>1, StartAnswers
<1>4. CASE StopErqDemon("fork", stack)
  BY <1>1, <1>4, StopAnswers
<1> QED
  BY <1>2, <1>3, <1>4 DEF AttachErqName

LEMMA AttachErqUserAnswers ==
  ASSUME HInv, AInv, HInv', NEW u \in Users, NEW doClose \in BOOLEAN, AttachErqUser(u, doClose)
  PROVE  AInv'
<1>1. UNCHANGED destructed
  BY DEF AttachErqUser
<1>2. CASE erq.demon # "on" /\ erq' = BecomeProto(erq, u)
  <2>1. erq'.demon = erq.demon /\ erq'.pending = erq.pending
    BY <1>2 DEF HInv, Typed, ErqStates, BecomeProto
  <2> QED
    BY <1>1, <1>2, <2>1, StepToQuiet
<1>3. CASE StopErqDemon(u, stack)
  BY <1>1, <1>3, StopAnswers
<1> QED
  BY <1>2, <1>3 DEF AttachErqUser

LEMMA RemoveInteractiveAnswers ==
  ASSUME HInv, AInv, HInv', NEW u \in Users, RemoveInteractive(u)
  PROVE  AInv'
<1>1. UNCHANGED <<stack, destructed>> /\ stack = <<>>
  BY DEF RemoveInteractive
<1>2. CASE UNCHANGED <<erq, peer>>
  BY <1>1, <1>2 DEF AInv, Line, SpawnsLive
<1>3. CASE /\ erq' = [erq EXCEPT !.demon = "on", !.proto = None, !.unsent = Torn(@)]
           /\ peer' = NewPeer
  <2>1. erq'.pending = erq.pending /\ erq'.unsent = Torn(erq.unsent)
    BY <1>3 DEF HInv, Typed, ErqStates
  <2>2. erq'.unsent \in Others \cup {None}
    BY <2>1 DEF Torn, Others
  <2>3. SpawnsLive'
    BY <1>1, <2>1, SpawnsStay DEF AInv
  <2>4. \A i \in DOMAIN stack' : stack'[i].at = "loop" => stack'[i].broken
    BY <1>1
  <2> QED
    BY <1>3, <2>2, <2>3, <2>4, NewLine
<1> QED
  BY <1>2, <1>3 DEF RemoveInteractive

\* An object that waits for several answers is not destructed.
LEMMA DestructAnswers ==
  ASSUME HInv, AInv, ~DestructAnyone, NEW o \in Objects, Destruct(o)
  PROVE  AInv'
<1>1. /\ \A r \in Spawns : Owner[r] = o => status[r] # "waiting"
      /\ destructed' = destructed \cup {o} /\ UNCHANGED <<erq, stack, peer>>
  BY DEF Destruct
<1>2. ASSUME NEW h \in Handles, NEW r \in Spawns, erq.pending[h] = Closure(r)
      PROVE  status[r] = "waiting"
  <2>1. erq.pending[h].type = "closure" /\ erq.pending[h].u = r
    BY <1>2 DEF Closure
  <2> QED
    BY <2>1 DEF HInv, HandlesOK, Shared
<1>3. SpawnsLive'
  BY <1>1, <1>2 DEF AInv, SpawnsLive
<1> QED
  BY <1>1, <1>3 DEF AInv, Line

LEMMA ReturnAnswers ==
  ASSUME HInv, AInv, Return
  PROVE  AInv'
<1>1. /\ stack # <<>> /\ stack' = Tail(stack) /\ Head(stack).at \in {"call", "hook"}
      /\ UNCHANGED <<erq, peer, destructed>>
  BY DEF Return, LpcRuns
<1>2. stack \in Seq(Frames) /\ Head(stack) = stack[1]
  BY <1>1, PopFacts DEF HInv, Typed
<1>3. UnreadOf(stack') = UnreadOf(stack)
  BY <1>1, <1>2, UnreadTail
<1> QED
  BY <1>1, <1>3 DEF AInv, Line, SpawnsLive

\* The loops of stop_erq_demon() run without an ERQ.
LEMMA StoppingIsOff ==
  ASSUME HInv, Stopping
  PROVE  /\ erq.demon = "none" /\ stack \in Seq(Frames) /\ stack # <<>> /\ Head(stack) = stack[1]
         /\ stack[1] \in StopFrames
<1>1. stack # <<>> /\ Head(stack).at = "stop"
  BY DEF Stopping
<1>2. stack \in Seq(Frames) /\ Head(stack) = stack[1] /\ 1 \in DOMAIN stack /\ stack[1] \in Frames
  BY <1>1, PopFacts DEF HInv, Typed
<1> QED
  BY <1>1, <1>2, FrameFacts DEF HInv, StackOK, StopsOK

LEMMA TellStaleAnswers ==
  ASSUME HInv, AInv, HInv', TellStale
  PROVE  AInv'
<1> DEFINE h == Lowest(PendingFrom(erq, Head(stack).next))
<1>1. erq.demon = "none"
  BY StoppingIsOff DEF TellStale
<1>2. erq' = FreeHandle(erq, h) /\ UNCHANGED destructed
  BY DEF TellStale
<1> HIDE DEF h
<1>3. erq'.demon = "none" /\ erq'.pending = [erq.pending EXCEPT ![h] = FreeEntry(erq.free)]
  BY <1>1, <1>2 DEF FreeHandle, HInv, Typed, ErqStates
<1>4. \A g \in Handles : erq'.pending[g] = erq.pending[g] \/ erq'.pending[g].type # "closure"
  BY <1>3 DEF FreeEntry, HInv, Typed, ErqStates
<1> QED
  BY <1>2, <1>3, <1>4, StepToQuiet

LEMMA EndStopAnswers ==
  ASSUME HInv, AInv, HInv', EndStop
  PROVE  AInv'
<1>1. erq.demon = "none" /\ stack \in Seq(Frames) /\ stack # <<>> /\ UNCHANGED destructed
  BY StoppingIsOff DEF EndStop
<1>2. CASE UNCHANGED erq
  BY <1>1, <1>2, StepToQuiet
<1>3. CASE Start([erq EXCEPT !.proto = None]) /\ stack' = Tail(stack)
  <2>1. /\ Len(stack) \in Nat \ {0} /\ DOMAIN stack = 1 .. Len(stack)
        /\ DOMAIN Tail(stack) = 1 .. Len(stack) - 1
        /\ \A i \in 1 .. Len(stack) - 1 : Tail(stack)[i] = stack[i + 1]
    BY <1>1, PopFacts
  <2>2. ASSUME NEW i \in DOMAIN stack'
        PROVE  \E j \in DOMAIN stack : stack'[i] = stack[j]
    <3>1. i + 1 \in DOMAIN stack /\ stack'[i] = stack[i + 1]
      BY <1>3, <2>1
    <3> QED
      BY <3>1
  <2> QED
    BY <1>1, <1>3, <2>2, StartAnswers
<1>4. CASE erq' = [BecomeProto(erq, Head(stack).then) EXCEPT !.demon = "stop"]
  <2>1. erq'.demon = "stop" /\ erq'.pending = erq.pending
    BY <1>4 DEF BecomeProto, HInv, Typed, ErqStates
  <2> QED
    BY <1>1, <2>1, StepToQuiet
<1> QED
  BY <1>2, <1>3, <1>4 DEF EndStop

\* A buffer that begins with the message that ended the loop is not read on.
LEMMA ReadErqAnswers ==
  ASSUME HInv, AInv, ReadErq
  PROVE  AInv'
<1> DEFINE data == erq.buf \o peer.wire
<1>1. /\ stack = <<>> /\ erq' = [erq EXCEPT !.buf = data] /\ stack' = <<LoopFrame(data)>>
      /\ peer' = [peer EXCEPT !.wire = <<>>] /\ UNCHANGED destructed
  BY DEF ReadErq
<1>2. /\ peer.wire \in Seq(Messages) /\ erq.buf \in Seq(Messages) /\ data \in Seq(Messages)
  BY StateFacts, ConcatProperties DEF HInv
<1>3. erq.buf = <<>> \/ AtBadMessage(erq.buf)
  BY <1>1 DEF HInv, StackOK, BufferOK
<1>4. /\ erq'.pending = erq.pending /\ erq'.unsent = erq.unsent
      /\ peer'.wire = <<>> /\ peer'.asked = peer.asked
  BY <1>1 DEF HInv, Typed, ErqStates, Peers
<1>5. Line = peer.wire
  <2>1. Line = <<>> \o peer.wire
    BY <1>1 DEF Line, UnreadOf
  <2> QED
    BY <1>2, <2>1, ConcatEmptySeq
<1> DEFINE f == LoopFrame(data)
<1>6. f \in LoopFrames /\ f.at = "loop" /\ ~f.broken /\ f.rest = data
  <2> HIDE DEF data
  <2> QED
    BY <1>2 DEF LoopFrame, LoopFrames
<1>7. Line' = data
  <2> HIDE DEF f, data
  <2>1. UnreadOf(stack') = data
    BY <1>1, <1>6, UnreadLoop DEF f
  <2>2. Line' = data \o <<>>
    BY <1>4, <2>1 DEF Line
  <2> QED
    BY <1>2, <2>2, ConcatEmptySeq
<1>8. MessagesOK(erq.pending, Line, peer.asked, erq.unsent)
  BY DEF AInv
<1>9. MessagesOK(erq.pending, data, peer.asked, erq.unsent)
  <2>1. CASE erq.buf = <<>>
    <3>1. data = peer.wire
      BY <1>2, <2>1, ConcatEmptySeq
    <3> QED
      BY <1>5, <1>8, <3>1
  <2>2. CASE AtBadMessage(erq.buf)
    <3>1. erq.buf # <<>> /\ Head(erq.buf).handle = BadLength
      BY <2>2 DEF AtBadMessage
    <3>2. data # <<>> /\ Head(data).handle = BadLength
      <4> DEFINE b == erq.buf
                 w == peer.wire
      <4>1. b \in Seq(Messages) /\ w \in Seq(Messages) /\ b # <<>> /\ Head(b).handle = BadLength
        BY <1>2, <3>1
      <4> HIDE DEF b, w
      <4>2. b \o w # <<>> /\ Head(b \o w) = Head(b)
        BY <4>1, ConcatTail, ConcatEqualIffEmpty
      <4> QED
        BY <4>1, <4>2 DEF b, w
    <3> HIDE DEF data
    <3>3. Readable(data) = {}
      <4>1. Head(data) = data[1]
        BY <1>2, <3>2, PopFacts
      <4>2. \A i \in Readable(data) : i \in Nat /\ 1 \in 1 .. i /\ data[1].handle # BadLength
        BY <1>2, ReadableFacts DEF Readable
      <4> QED
        BY <3>2, <4>1, <4>2
    <3>4. LineOK(erq.pending, data)
      BY <3>3 DEF LineOK
    <3>5. AskedOK(erq.pending, data, peer.asked)
      BY <1>8, <3>3 DEF AskedOK, MessagesOK
    <3>6. UnsentOK(erq.pending, data, peer.asked, erq.unsent)
      BY <1>8, <3>3 DEF UnsentOK, MessagesOK
    <3> QED
      BY <3>4, <3>5, <3>6 DEF MessagesOK
  <2> QED
    BY <1>3, <2>1, <2>2
<1>10. SpawnsLive'
  BY <1>1, <1>4 DEF AInv, SpawnsLive
<1> QED
  BY <1>4, <1>7, <1>9, <1>10 DEF AInv

LEMMA HandleBadMessageAnswers ==
  ASSUME HInv, AInv, HInv', HandleBadMessage
  PROVE  AInv'
<1>1. /\ stack # <<>> /\ Head(stack).at = "loop" /\ Head(stack).answer = None
      /\ ~Head(stack).broken /\ UNCHANGED destructed
  BY DEF HandleBadMessage, MoreMessages, Looping
<1>2. erq.demon = "on"
  BY <1>1, LoopFacts
<1>3. StopErqDemon("hook", <<[Head(stack) EXCEPT !.broken = TRUE]>>)
  BY <1>2 DEF HandleBadMessage
<1> QED
  BY <1>1, <1>3, StopAnswers

\* The loop of get_message() is at the first message of the line.
LEMMA LineInLoop ==
  ASSUME HInv, NEW f \in LoopFrames, f.at = "loop", ~f.broken, f.rest # <<>>,
         stack = <<f>> \/ stack = <<LpcFrame("call")>> \o <<f>>
  PROVE  /\ Line \in Seq(Messages) /\ Line # <<>> /\ Head(Line) = Head(f.rest)
         /\ Tail(Line) = Tail(f.rest) \o peer.wire
<1>1. f.rest \in Seq(Messages) /\ peer.wire \in Seq(Messages) /\ Line \in Seq(Messages)
  BY LineFacts DEF LoopFrames
<1>2. Line = f.rest \o peer.wire
  BY UnreadLoop DEF Line
<1>3. Line # <<>>
  BY <1>1, <1>2, ConcatEqualIffEmpty
<1>4. Head(Line) = Head(f.rest) /\ Tail(Line) = Tail(f.rest) \o peer.wire
  BY <1>1, <1>2, ConcatTail
<1> QED
  BY <1>1, <1>3, <1>4

LEMMA IgnoreMessageAnswers ==
  ASSUME HInv, AInv, IgnoreMessage
  PROVE  AInv'
<1> DEFINE loop == stack[1]
           f == NextMessage(loop)
<1>1. /\ stack # <<>> /\ Head(stack).at = "loop" /\ Head(stack).answer = None
      /\ Head(stack).rest # <<>> /\ ~Head(stack).broken
      /\ UNCHANGED <<erq, peer, destructed>>
  BY DEF IgnoreMessage, MoreMessages, Looping
<1>2. Head(stack) = loop /\ loop \in LoopFrames
  BY <1>1, LoopFacts
<1>3. stack' = <<f>> /\ Head(loop.rest).handle # BadLength
  BY <1>2 DEF IgnoreMessage
<1>4. stack = <<loop>>
  BY <1>1, LoopFacts
<1>5. f \in LoopFrames /\ f.at = "loop" /\ ~f.broken /\ f.rest = Tail(loop.rest)
  BY <1>1, <1>2, NextMessageFacts
<1>6. /\ Line \in Seq(Messages) /\ Line # <<>> /\ Head(Line) = Head(loop.rest)
      /\ Tail(Line) = Tail(loop.rest) \o peer.wire
  <2> HIDE DEF loop
  <2> QED
    BY <1>1, <1>2, <1>4, LineInLoop
<1> HIDE DEF loop, f
<1>7. Line' = Tail(Line)
  BY <1>1, <1>3, <1>5, <1>6, UnreadLoop DEF Line
<1>8. MessagesOK(erq.pending, Tail(Line), peer.asked, erq.unsent)
  <2>1. peer.asked \subseteq Asks /\ MessagesOK(erq.pending, Line, peer.asked, erq.unsent)
    BY StateFacts DEF HInv, AInv
  <2> QED
    BY <1>3, <1>6, <2>1, TailKeeps
<1> QED
  BY <1>1, <1>7, <1>8 DEF AInv, SpawnsLive

LEMMA HandleAnswerAnswers ==
  ASSUME HInv, AInv, HandleAnswer
  PROVE  AInv'
<1> DEFINE loop == stack[1]
           m == Head(loop.rest)
           called == erq.pending[m.handle].u
           answer == [handle |-> m.handle, keep |-> m.keep, req |-> m.req, called |-> called]
           f == [loop EXCEPT !.answer = answer]
           callFrames == IF Owner[called] \in destructed THEN <<>> ELSE <<LpcFrame("call")>>
<1>1. /\ stack # <<>> /\ Head(stack).at = "loop" /\ Head(stack).answer = None
      /\ Head(stack).rest # <<>> /\ ~Head(stack).broken
      /\ UNCHANGED <<erq, peer, destructed>>
  BY DEF HandleAnswer, MoreMessages, Looping
<1>2. Head(stack) = loop /\ loop \in LoopFrames /\ loop.at = "loop" /\ stack = <<loop>>
  BY <1>1, LoopFacts
<1>3. stack' = callFrames \o <<f>> /\ IsPending(erq, m.handle)
  BY <1>2 DEF HandleAnswer
<1>4. callFrames = <<>> \/ callFrames = <<LpcFrame("call")>>
  OBVIOUS
<1> HIDE DEF loop, callFrames
<1>5. answer \in Answers
  <2>1. m \in Messages
    BY <1>1, <1>2, PopFacts DEF LoopFrames
  <2>2. m.handle \in Handles /\ called \in Requests
    BY <1>3, StateFacts, EntryFacts DEF IsPending, HInv
  <2> QED
    BY <2>1, <2>2 DEF Answers, Messages
<1> HIDE DEF answer
<1>6. f \in LoopFrames /\ f.at = "loop" /\ ~f.broken /\ f.rest = loop.rest
  BY <1>1, <1>2, <1>5 DEF LoopFrames
<1> HIDE DEF f
<1>7. stack' = <<f>> \/ stack' = <<LpcFrame("call")>> \o <<f>>
  <2> DEFINE t == <<f>>
  <2>1. t \in Seq(LoopFrames) /\ stack' = callFrames \o t
    BY <1>3, <1>6
  <2> HIDE DEF t
  <2>2. stack' = t \/ stack' = <<LpcFrame("call")>> \o t
    BY <1>4, <2>1, ConcatEmptySeq
  <2> QED
    BY <2>2 DEF t
<1>8. UnreadOf(stack') = loop.rest
  BY <1>6, <1>7, UnreadLoop
<1>9. UnreadOf(stack) = loop.rest
  BY <1>1, <1>2, UnreadLoop
<1> QED
  BY <1>1, <1>8, <1>9 DEF AInv, SpawnsLive, Line

\* The last answer frees the handle, and nothing more comes with it.
LEMMA FinishAnswerAnswers ==
  ASSUME HInv, AInv, FinishAnswer
  PROVE  AInv'
<1> DEFINE loop == stack[1]
           a == loop.answer
           f == [NextMessage(loop) EXCEPT !.answer = None]
           m == Head(loop.rest)
<1>1. /\ stack # <<>> /\ Head(stack).at = "loop" /\ Head(stack).answer # None
      /\ UNCHANGED <<peer, destructed>>
  BY DEF FinishAnswer
<1>2. /\ Head(stack) = loop /\ loop \in LoopFrames /\ loop.at = "loop" /\ stack = <<loop>>
      /\ ~loop.broken /\ AnswerOK(loop)
  BY <1>1, LoopFacts
<1>3. /\ erq' = (IF IsLastAnswer(a) THEN FreeHandle(erq, a.handle) ELSE erq)
      /\ stack' = <<f>>
  BY <1>2 DEF FinishAnswer
<1>4. /\ a \in Answers /\ a.handle \in Handles /\ a.called \in Requests
      /\ erq.pending[a.handle] = Closure(a.called)
      /\ loop.rest # <<>> /\ a.handle = m.handle /\ a.keep = m.keep /\ a.req = m.req
  BY <1>1, <1>2 DEF LoopFrames, Answers, AnswerOK
<1>5. f \in LoopFrames /\ f.at = "loop" /\ ~f.broken /\ f.rest = Tail(loop.rest)
  <2> DEFINE g == NextMessage(loop)
  <2>1. g \in LoopFrames /\ g.at = "loop" /\ ~g.broken /\ g.rest = Tail(loop.rest)
    BY <1>2, <1>4, NextMessageFacts
  <2> HIDE DEF g
  <2>2. f = [g EXCEPT !.answer = None]
    BY DEF g
  <2> QED
    BY <2>1, <2>2 DEF LoopFrames
<1> HIDE DEF f, loop
<1>6. /\ Line \in Seq(Messages) /\ Line # <<>> /\ Head(Line) = m
      /\ Tail(Line) = Tail(loop.rest) \o peer.wire
  BY <1>2, <1>4, LineInLoop
<1>7. Line' = Tail(Line)
  BY <1>1, <1>3, <1>5, <1>6, UnreadLoop DEF Line
<1>8. /\ peer.asked \subseteq Asks /\ MessagesOK(erq.pending, Line, peer.asked, erq.unsent)
      /\ erq.pending \in [Handles -> Entries] /\ erq \in ErqStates
  BY StateFacts DEF HInv, Typed, AInv
<1>9. m.handle \in Handles /\ m.handle # BadLength
  BY <1>4, HandleFacts
<1> HIDE DEF a, m
<1>10. erq'.unsent = erq.unsent
  BY <1>3, <1>8 DEF FreeHandle, ErqStates
<1>11. \A h \in Handles :
         \/ erq'.pending[h] = erq.pending[h]
         \/ IsLastAnswer(a) /\ h = m.handle /\ erq'.pending[h].type # "closure"
  <2>1. CASE IsLastAnswer(a)
    <3>1. erq'.pending = [erq.pending EXCEPT ![a.handle] = FreeEntry(erq.free)]
      BY <1>3, <1>8, <2>1 DEF FreeHandle, ErqStates
    <3> QED
      BY <1>4, <1>8, <2>1, <3>1, NewEntries DEF FreeEntry
  <2>2. CASE ~IsLastAnswer(a)
    BY <1>3, <2>2
  <2> QED
    BY <2>1, <2>2
\* The object of a request that is answered several times is not destructed.
<1>12. IsLastAnswer(a) => IsFinal(m)
  <2>1. CASE ~a.keep
    BY <1>4, <1>9, <2>1 DEF IsFinal
  <2>2. CASE a.keep
    <3>1. Line[1] = m /\ 1 \in Readable(Line)
      BY <1>6, <1>9, ReadableHead
    <3>2. erq.pending[m.handle] = Closure(m.req) /\ (m.keep => m.req \in Spawns)
      BY <1>8, <1>9, <3>1 DEF MessagesOK, LineOK
    <3>3. a.called = m.req
      BY <1>4, <3>2 DEF Closure
    <3>4. Owner[a.called] \notin destructed
      BY <1>4, <1>9, <2>2, <3>2, <3>3 DEF AInv, SpawnsLive
    <3> QED
      BY <2>2, <3>4 DEF IsLastAnswer
  <2>3. a.keep \in BOOLEAN
    BY <1>4 DEF Answers
  <2> QED
    BY <2>1, <2>2
<1>13. MessagesOK(erq'.pending, Tail(Line), peer.asked, erq.unsent)
  <2>1. \A h \in Handles :
          erq'.pending[h] = erq.pending[h] \/ (IsFinal(Head(Line)) /\ h = Head(Line).handle)
    BY <1>6, <1>11, <1>12
  <2> QED
    BY <1>6, <1>8, <1>9, <2>1, TailKeeps
<1>14. SpawnsLive'
  <2>1. \A h \in Handles : erq'.pending[h] = erq.pending[h] \/ erq'.pending[h].type # "closure"
    BY <1>11
  <2> QED
    BY <1>1, <2>1, SpawnsStay DEF AInv
<1> QED
  BY <1>1, <1>7, <1>10, <1>13, <1>14 DEF AInv

LEMMA EndLoopAnswers ==
  ASSUME HInv, AInv, EndLoop
  PROVE  AInv'
<1>1. /\ stack # <<>> /\ Head(stack).at = "loop" /\ stack' = <<>>
      /\ Head(stack).rest = <<>> \/ Head(stack).broken
      /\ UNCHANGED <<peer, destructed>>
  BY DEF EndLoop, Looping
<1>2. erq'.pending = erq.pending /\ erq'.unsent = erq.unsent
  BY DEF EndLoop, HInv, Typed, ErqStates
<1>3. Len(stack) = 1 /\ Head(stack) = stack[1]
  BY <1>1, LoopFacts
<1>4. UnreadOf(stack) = <<>> /\ UnreadOf(stack') = <<>>
  BY <1>1, <1>3 DEF UnreadOf
<1> QED
  BY <1>1, <1>2, <1>4 DEF AInv, Line, SpawnsLive

\* The ERQ answers what it was asked, or sends what is for nobody.
LEMMA SendsAnswers ==
  ASSUME HInv, AInv, NEW m \in Messages, NEW left, left \subseteq peer.asked, Sends(m, left),
         m.handle \in Handles =>
           /\ [handle |-> m.handle, req |-> m.req] \in peer.asked
           /\ m.keep => m.req \in Spawns
           /\ ~m.keep => [handle |-> m.handle, req |-> m.req] \notin left
  PROVE  AInv'
<1>1. /\ peer' = [peer EXCEPT !.wire = Append(@, m), !.asked = left]
      /\ UNCHANGED <<erq, stack, destructed>>
  BY DEF Sends
<1>2. peer'.wire = Append(peer.wire, m) /\ peer'.asked = left
  BY <1>1 DEF HInv, Typed, Peers
<1>3. /\ UnreadOf(stack) \in Seq(Messages) /\ peer.wire \in Seq(Messages) /\ Line \in Seq(Messages)
  BY LineFacts
<1>4. Line' = Append(Line, m)
  BY <1>1, <1>2, <1>3, ConcatAppend DEF Line
<1>5. MessagesOK(erq.pending, Append(Line, m), left, erq.unsent)
  <2>1. peer.asked \subseteq Asks /\ MessagesOK(erq.pending, Line, peer.asked, erq.unsent)
    BY StateFacts DEF HInv, AInv
  <2> QED
    BY <1>3, <2>1, AppendKeeps
<1> QED
  BY <1>1, <1>2, <1>4, <1>5 DEF AInv, SpawnsLive

LEMMA ErqAnswersAnswers ==
  ASSUME HInv, AInv, NEW q \in peer.asked, NEW keep \in BOOLEAN, NEW fits \in BOOLEAN,
         ErqAnswers(q, keep, fits)
  PROVE  AInv'
<1> DEFINE m == [handle |-> IF fits THEN q.handle ELSE NoCallback,
                 req |-> IF fits THEN q.req ELSE None, keep |-> keep /\ fits]
           left == IF keep THEN peer.asked ELSE peer.asked \ {q}
<1>1. q \in Asks /\ q = [handle |-> q.handle, req |-> q.req] /\ q.handle \in Handles
  BY StateFacts DEF HInv, Asks
<1>2. m \in Messages /\ left \subseteq peer.asked
  BY <1>1 DEF Messages, Asks
<1>3. Sends(m, left) /\ (keep => q.req \in Spawns)
  BY DEF ErqAnswers
<1>4. m.handle \in Handles =>
        /\ [handle |-> m.handle, req |-> m.req] = q
        /\ m.req = q.req /\ m.keep = keep
  <2>1. CASE fits
    BY <1>1, <2>1
  <2>2. CASE ~fits
    BY <2>2, HandleFacts
  <2> QED
    BY <2>1, <2>2
<1>5. ~keep => q \notin left
  OBVIOUS
<1> HIDE DEF m, left
<1> QED
  BY <1>2, <1>3, <1>4, <1>5, SendsAnswers

LEMMA ErqSendsOtherAnswers ==
  ASSUME HInv, AInv, NEW handle \in {NoCallback, BadLength}, ErqSendsOther(handle)
  PROVE  AInv'
<1> DEFINE m == [handle |-> handle, req |-> None, keep |-> FALSE]
<1>1. m \in Messages /\ m.handle \notin Handles
  BY HandleFacts DEF Messages
<1>2. Sends(m, peer.asked)
  BY DEF ErqSendsOther
<1> HIDE DEF m
<1> QED
  BY <1>1, <1>2, SendsAnswers

LEMMA ErqDiesAnswers ==
  ASSUME HInv, AInv, ErqDies
  PROVE  AInv'
<1>1. /\ peer' = [peer EXCEPT !.alive = FALSE, !.asked = {}]
      /\ UNCHANGED <<erq, stack, destructed>>
  BY DEF ErqDies
<1>2. peer'.wire = peer.wire /\ peer'.asked = {}
  BY <1>1 DEF HInv, Typed, Peers
<1>3. Line' = Line /\ SpawnsLive'
  BY <1>1, <1>2 DEF Line, AInv, SpawnsLive
<1>4. MessagesOK(erq.pending, Line, {}, erq.unsent)
  BY DEF AInv, MessagesOK, AskedOK, UnsentOK
<1> QED
  BY <1>1, <1>2, <1>3, <1>4 DEF AInv

-----------------------------------------------------------------------------
(* The theorems about the answers.                                         *)

LEMMA InitAnswers ==
  ASSUME Init
  PROVE  AInv
<1>1. /\ stack = <<>> /\ destructed = {} /\ erq.unsent = None
      /\ peer = NewPeer \/ peer = NoPeer
  BY DEF Init
<1>2. peer.wire = <<>> /\ peer.asked = {}
  BY <1>1 DEF NewPeer, NoPeer
<1>3. Line = <<>>
  <2>1. Line = <<>> \o <<>>
    BY <1>1, <1>2 DEF Line, UnreadOf
  <2> QED
    BY <2>1
<1>4. MessagesOK(erq.pending, <<>>, {}, None)
  BY NothingAsked
<1> QED
  BY <1>1, <1>2, <1>3, <1>4 DEF AInv, SpawnsLive

LEMMA StepAnswers ==
  ASSUME HInv, AInv, ~RestartAnywhere, ~DestructAnyone, [Next]_vars
  PROVE  AInv'
<1>1. HInv'
  BY StepHandles
<1>2. CASE UNCHANGED <<erq, stack, peer, destructed>>
  BY <1>2 DEF AInv, Line, SpawnsLive
<1>3. CASE \E r \in Requests, whole \in BOOLEAN : SendErq(r, whole)
  BY <1>3, SendErqAnswers
<1>4. CASE \E whole \in BOOLEAN : SendErqNoCallback(whole)
  BY <1>4, SendErqNoCallbackAnswers
<1>5. CASE \E doClose \in BOOLEAN : AttachErqName(doClose)
  BY <1>1, <1>5, AttachErqNameAnswers
<1>6. CASE \E u \in Users, doClose \in BOOLEAN : AttachErqUser(u, doClose)
  BY <1>1, <1>6, AttachErqUserAnswers
<1>7. CASE \E u \in Users : FailToWrite(u)
  BY <1>2, <1>7 DEF FailToWrite
<1>8. CASE \E u \in Users : RemoveInteractive(u)
  BY <1>1, <1>8, RemoveInteractiveAnswers
<1>9. CASE \E o \in Objects : Destruct(o)
  BY <1>9, DestructAnswers
<1>10. CASE Return
  BY <1>10, ReturnAnswers
<1>11. CASE TellStale
  BY <1>1, <1>11, TellStaleAnswers
<1>12. CASE EndStop
  BY <1>1, <1>12, EndStopAnswers
<1>13. CASE ReadErq
  BY <1>13, ReadErqAnswers
<1>14. CASE LoseErq
  BY <1>1, <1>14, StopAnswers DEF LoseErq
<1>15. CASE HandleBadMessage
  BY <1>1, <1>15, HandleBadMessageAnswers
<1>16. CASE IgnoreMessage
  BY <1>16, IgnoreMessageAnswers
<1>17. CASE HandleAnswer
  BY <1>17, HandleAnswerAnswers
<1>18. CASE FinishAnswer
  BY <1>18, FinishAnswerAnswers
<1>19. CASE EndLoop
  BY <1>19, EndLoopAnswers
<1>20. CASE \E q \in peer.asked, keep, fits \in BOOLEAN : ErqAnswers(q, keep, fits)
  BY <1>20, ErqAnswersAnswers
<1>21. CASE \E handle \in {NoCallback, BadLength} : ErqSendsOther(handle)
  BY <1>21, ErqSendsOtherAnswers
<1>22. CASE ErqDies
  BY <1>22, ErqDiesAnswers
<1>23. CASE UNCHANGED vars
  BY <1>2, <1>23 DEF vars
<1> QED
  BY <1>3, <1>4, <1>5, <1>6, <1>7, <1>8, <1>9, <1>10, <1>11, <1>12, <1>13, <1>14, <1>15,
     <1>16, <1>17, <1>18, <1>19, <1>20, <1>21, <1>22, <1>23 DEF Next

(* The inductive invariant about the answers holds in every state.         *)
THEOREM AnswersInvariance ==
  ASSUME ~RestartAnywhere, ~DestructAnyone
  PROVE  Spec => [](HInv /\ AInv)
<1>1. Init => HInv /\ AInv
  BY InitHandles, InitAnswers
<1>2. (HInv /\ AInv) /\ [Next]_vars => (HInv /\ AInv)'
  BY StepHandles, StepAnswers
<1> QED
  BY <1>1, <1>2, PTL DEF Spec

(* get_message() gives an answer to the callback of the request that the   *)
(* ERQ answers, although handles are used again and requests, rests of     *)
(* requests and answers are on their way or in the buffer.                 *)
THEOREM AnswersStayWithTheirAsker ==
  ASSUME ~RestartAnywhere, ~DestructAnyone
  PROVE  Spec => []AnswersReachTheirAsker
<1>1. HInv /\ AInv => AnswersReachTheirAsker
  <2> SUFFICES ASSUME HInv, AInv, NEW i \in DOMAIN stack,
                      stack[i].at = "loop", stack[i].answer # None
               PROVE  stack[i].answer.req = stack[i].answer.called
    BY DEF AnswersReachTheirAsker
  <2> DEFINE loop == stack[i]
             m == Head(loop.rest)
  <2>1. i = Len(stack) /\ ~loop.broken /\ AnswerOK(loop) /\ stack # <<>>
    BY DEF HInv, StackOK, LoopsOK
  <2>2. loop \in LoopFrames /\ loop.rest \in Seq(Messages) /\ loop.answer \in Answers
    BY StateFacts, FrameFacts DEF HInv
  <2>3. UnreadOf(stack) = loop.rest
    BY <2>1 DEF UnreadOf
  <2>4. /\ loop.rest # <<>> /\ loop.answer.handle = m.handle /\ loop.answer.req = m.req
        /\ m.handle \in Handles /\ erq.pending[m.handle] = Closure(loop.answer.called)
    BY <2>1, <2>2 DEF AnswerOK, Answers
  <2> HIDE DEF loop
  <2>5. Line = loop.rest \o peer.wire
    BY <2>3 DEF Line
  <2>6. Line \in Seq(Messages) /\ Line # <<>> /\ Head(Line) = m
    <3>1. peer.wire \in Seq(Messages) /\ Line \in Seq(Messages)
      BY LineFacts
    <3> DEFINE b == loop.rest
               w == peer.wire
    <3>2. b \in Seq(Messages) /\ w \in Seq(Messages) /\ b # <<>> /\ Head(b) = m
      BY <2>2, <2>4, <3>1
    <3> HIDE DEF b, w, m
    <3>3. b \o w # <<>> /\ Head(b \o w) = Head(b)
      BY <3>2, ConcatTail, ConcatEqualIffEmpty
    <3> QED
      BY <2>5, <3>1, <3>2, <3>3 DEF b, w
  <2>7. Line[1] = m /\ 1 \in Readable(Line)
    BY <2>4, <2>6, HandleFacts, ReadableHead
  <2>8. erq.pending[m.handle] = Closure(m.req)
    BY <2>4, <2>7 DEF AInv, MessagesOK, LineOK
  <2>9. loop.answer.called = m.req
    BY <2>4, <2>8 DEF Closure
  <2> QED
    BY <2>4, <2>9 DEF loop
<1> QED
  BY <1>1, AnswersInvariance, PTL

=============================================================================
