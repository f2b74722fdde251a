--------------------------- MODULE HeartBeatProofs ---------------------------
(***************************************************************************)
(* Proofs about HeartBeat: the list of heart beats, its counter, the flags *)
(* of the objects and next_hb always agree; two beats of an object are the *)
(* interval apart; and the loop visits the objects oldest beat first, so   *)
(* that it leaves nobody behind who is due.  For any number of objects,    *)
(* any interval and any clock that does not go backwards.                  *)
(***************************************************************************)
EXTENDS HeartBeat, TLAPS, SequenceTheorems

-----------------------------------------------------------------------------
(* What changing the list of heart beats does to a sequence.               *)

\* An element comes to the head.
LEMMA PrependFacts ==
  ASSUME NEW S, NEW s \in Seq(S), NEW o \in S
  PROVE  /\ Len(s) \in Nat /\ DOMAIN s = 1 .. Len(s)
         /\ <<o>> \o s \in Seq(S)
         /\ Len(<<o>> \o s) = Len(s) + 1
         /\ DOMAIN (<<o>> \o s) = 1 .. Len(s) + 1
         /\ (<<o>> \o s)[1] = o
         /\ \A i \in 2 .. Len(s) + 1 : (<<o>> \o s)[i] = s[i - 1]
<1>1. <<o>> \in Seq(S) /\ Len(<<o>>) = 1 /\ <<o>>[1] = o
  OBVIOUS
<1>2. Len(s) \in Nat /\ DOMAIN s = 1 .. Len(s)
  BY LenProperties
<1>3. /\ <<o>> \o s \in Seq(S) /\ Len(<<o>> \o s) = 1 + Len(s)
      /\ \A i \in 1 .. 1 + Len(s) : (<<o>> \o s)[i] = IF i <= 1 THEN <<o>>[i] ELSE s[i - 1]
  BY <1>1, ConcatProperties
<1>4. DOMAIN (<<o>> \o s) = 1 .. Len(s) + 1
  BY <1>2, <1>3, LenProperties
<1> QED
  BY <1>1, <1>2, <1>3, <1>4

\* An element goes.
LEMMA RemoveAtFacts ==
  ASSUME NEW S, NEW s \in Seq(S), NEW i \in DOMAIN s
  PROVE  /\ Len(s) \in Nat \ {0} /\ DOMAIN s = 1 .. Len(s)
         /\ RemoveAt(s, i) \in Seq(S)
         /\ Len(RemoveAt(s, i)) = Len(s) - 1
         /\ DOMAIN RemoveAt(s, i) = 1 .. Len(s) - 1
         /\ \A j \in 1 .. Len(s) - 1 : RemoveAt(s, i)[j] = s[IF j < i THEN j ELSE j + 1]
<1>1. Len(s) \in Nat \ {0} /\ DOMAIN s = 1 .. Len(s) /\ i \in 1 .. Len(s)
  BY LenProperties
<1>2. \A j \in 1 .. Len(s) : s[j] \in S
  BY ElementOfSeq
<1> DEFINE a == SubSeq(s, 1, i - 1)
           b == SubSeq(s, i + 1, Len(s))
<1>3. a \in Seq(S) /\ Len(a) = i - 1 /\ \A j \in 1 .. i - 1 : a[j] = s[j]
  BY <1>1, <1>2, SubSeqProperties
<1>4. b \in Seq(S) /\ Len(b) = Len(s) - i /\ \A j \in 1 .. Len(s) - i : b[j] = s[j + i]
  BY <1>1, <1>2, SubSeqProperties
<1> HIDE DEF a, b
<1>5. /\ a \o b \in Seq(S) /\ Len(a \o b) = Len(a) + Len(b)
      /\ \A j \in 1 .. Len(a) + Len(b) :
           (a \o b)[j] = IF j <= Len(a) THEN a[j] ELSE b[j - Len(a)]
  BY <1>3, <1>4, ConcatProperties
<1>6. Len(a) + Len(b) = Len(s) - 1
  BY <1>1, <1>3, <1>4
<1>7. \A j \in 1 .. Len(s) - 1 : (a \o b)[j] = s[IF j < i THEN j ELSE j + 1]
  <2> TAKE j \in 1 .. Len(s) - 1
  <2>1. CASE j < i
    BY <1>1, <1>3, <1>6, <1>5, <2>1
  <2>2. CASE ~(j < i)
    <3>1. j - (i - 1) \in 1 .. Len(s) - i /\ (j - (i - 1)) + i = j + 1
      BY <1>1, <2>2
    <3>2. (a \o b)[j] = b[j - (i - 1)]
      BY <1>1, <1>3, <1>6, <1>5, <2>2
    <3> QED
      BY <1>4, <2>2, <3>1, <3>2
  <2> QED
    BY <2>1, <2>2
<1>8. RemoveAt(s, i) = a \o b
  BY DEF RemoveAt, a, b
<1>9. DOMAIN RemoveAt(s, i) = 1 .. Len(s) - 1
  BY <1>6, <1>8, <1>5, LenProperties
<1> QED
  BY <1>1, <1>6, <1>7, <1>8, <1>9, <1>5

\* An element comes before element i, or behind the last one.
LEMMA InsertAtFacts ==
  ASSUME NEW S, NEW s \in Seq(S), NEW e \in S, NEW i \in 1 .. Len(s) + 1
  PROVE  /\ Len(s) \in Nat /\ DOMAIN s = 1 .. Len(s)
         /\ InsertAt(s, i, e) \in Seq(S)
         /\ Len(InsertAt(s, i, e)) = Len(s) + 1
         /\ DOMAIN InsertAt(s, i, e) = 1 .. Len(s) + 1
         /\ InsertAt(s, i, e)[i] = e
         /\ \A j \in 1 .. i - 1 : InsertAt(s, i, e)[j] = s[j]
         /\ \A j \in i + 1 .. Len(s) + 1 : InsertAt(s, i, e)[j] = s[j - 1]
<1>1. Len(s) \in Nat /\ DOMAIN s = 1 .. Len(s) /\ i \in 1 .. Len(s) + 1
  BY LenProperties
<1>2. \A j \in 1 .. Len(s) : s[j] \in S
  BY ElementOfSeq
<1> DEFINE a == SubSeq(s, 1, i - 1)
           b == SubSeq(s, i, Len(s))
           c == a \o <<e>>
<1>3. a \in Seq(S) /\ Len(a) = i - 1 /\ \A j \in 1 .. i - 1 : a[j] = s[j]
  BY <1>1, <1>2, SubSeqProperties
<1>4. /\ b \in Seq(S) /\ Len(b) = Len(s) - i + 1
      /\ \A j \in 1 .. Len(s) - i + 1 : b[j] = s[i + j - 1]
  BY <1>1, <1>2, SubSeqProperties
<1> HIDE DEF a, b
<1>5. <<e>> \in Seq(S) /\ Len(<<e>>) = 1 /\ <<e>>[1] = e
  OBVIOUS
<1>6. /\ c \in Seq(S) /\ Len(c) = Len(a) + 1
      /\ \A j \in 1 .. Len(a) + 1 : c[j] = IF j <= Len(a) THEN a[j] ELSE <<e>>[j - Len(a)]
  BY <1>3, <1>5, ConcatProperties
<1> HIDE DEF c
<1>7. /\ c \o b \in Seq(S) /\ Len(c \o b) = Len(c) + Len(b)
      /\ \A j \in 1 .. Len(c) + Len(b) :
           (c \o b)[j] = IF j <= Len(c) THEN c[j] ELSE b[j - Len(c)]
  BY <1>4, <1>6, ConcatProperties
<1>8. InsertAt(s, i, e) = c \o b
  BY DEF InsertAt, a, b, c
<1>9. Len(c) = i /\ Len(c) + Len(b) = Len(s) + 1
  BY <1>1, <1>3, <1>4, <1>6
<1>10. c[i] = e /\ \A j \in 1 .. i - 1 : c[j] = s[j]
  BY <1>1, <1>3, <1>5, <1>6
<1>11. /\ \A j \in 1 .. i - 1 : (c \o b)[j] = s[j]
       /\ \A j \in i + 1 .. Len(s) + 1 : (c \o b)[j] = s[j - 1]
  <2>1. ASSUME NEW j \in 1 .. i - 1
        PROVE  (c \o b)[j] = s[j]
    BY <1>1, <1>7, <1>9, <1>10
  <2>2. ASSUME NEW j \in i + 1 .. Len(s) + 1
        PROVE  (c \o b)[j] = s[j - 1]
    <3>1. j - i \in 1 .. Len(s) - i + 1 /\ i + (j - i) - 1 = j - 1
      BY <1>1
    <3>2. (c \o b)[j] = b[j - i]
      BY <1>1, <1>7, <1>9
    <3> QED
      BY <1>4, <3>1, <3>2
  <2> QED
    BY <2>1, <2>2
<1>12. (c \o b)[i] = e
  BY <1>1, <1>7, <1>9, <1>10
<1>13. DOMAIN InsertAt(s, i, e) = 1 .. Len(s) + 1
  BY <1>7, <1>8, <1>9, LenProperties
<1> QED
  BY <1>1, <1>7, <1>8, <1>9, <1>11, <1>12, <1>13

-----------------------------------------------------------------------------


\* The nodes, the flags of their objects, the counter and next_hb agree.
NodesOK ==
  /\ hbList \in Seq(Objects)
  /\ IsInjective(hbList)
  /\ ToSet(hbList) = hbFlags
  /\ numHbObjs = Len(hbList)
  /\ nextHb \in hbFlags \cup {NoObject}
  /\ tlast \in [Objects -> Nat]

FlagsOK == synch \in BOOLEAN /\ enabled \in BOOLEAN /\ alarm \in BOOLEAN

\* The other variables.  An error is only handled for an object.
RunOK ==
  /\ currentTime \in Nat /\ timeOfLastHb \in Nat
  /\ phase \in Phases
  /\ currentHb \in Objects \cup {NoObject}
  /\ culprit \in Objects \cup {NoObject}
  /\ phase = "error" => culprit \in Objects
  /\ destructed \subseteq Objects
  /\ hbFlags \cap destructed = {}
  /\ lastBeat \in [Objects -> Nat]

\* No beat was later than the node knows, none is in the future.
BeatsKnown ==
  \A ob \in Objects : /\ lastBeat[ob] <= currentTime
                      /\ ob \in hbFlags => lastBeat[ob] <= tlast[ob]
                      /\ ob \in hbFlags => tlast[ob] <= currentTime

\* The place in the list at which the loop goes on.
First == IF nextHb = NoObject THEN 1 ELSE Index(nextHb)

\* A loop that goes on at place k comes to place i before it comes to place j.
Before(k, i, j) == \/ i < j /\ j < k
                   \/ i < j /\ k <= i
                   \/ j < k /\ k <= i

\* What VisitsOldestFirst says, without the sequence it is about.
RoundInOrder ==
  \A i, j \in DOMAIN hbList : Before(First, i, j) => tlast[hbList[i]] <= tlast[hbList[j]]

\* Heart beats that are disabled in a round make the next one start anew.
OrderKept == ~MayDisable => enabled /\ RoundInOrder

IInv == NodesOK /\ FlagsOK /\ RunOK /\ BeatsKnown /\ OrderKept

-----------------------------------------------------------------------------
(* The list.                                                               *)

LEMMA NodeFacts ==
  ASSUME NodesOK
  PROVE  /\ Len(hbList) \in Nat /\ DOMAIN hbList = 1 .. Len(hbList)
         /\ \A i \in 1 .. Len(hbList) : hbList[i] \in hbFlags /\ hbList[i] \in Objects
         /\ \A ob \in hbFlags : ob \in Objects /\ ob # NoObject
         /\ \A ob \in hbFlags : Index(ob) \in 1 .. Len(hbList) /\ hbList[Index(ob)] = ob
         /\ \A i, j \in 1 .. Len(hbList) : hbList[i] = hbList[j] => i = j
         /\ \A i \in 1 .. Len(hbList) : Index(hbList[i]) = i
         /\ NoObject \notin Objects
<1>1. hbList \in Seq(Objects)
  BY DEF NodesOK
<1>2. Len(hbList) \in Nat /\ DOMAIN hbList = 1 .. Len(hbList)
  BY <1>1, LenProperties
<1>3. hbFlags = {hbList[i] : i \in 1 .. Len(hbList)}
  BY <1>2 DEF NodesOK, ToSet
<1>4. \A i \in 1 .. Len(hbList) : hbList[i] \in Objects
  BY <1>1, ElementOfSeq
<1>5. \A i, j \in 1 .. Len(hbList) : hbList[i] = hbList[j] => i = j
  BY <1>2 DEF NodesOK, IsInjective
<1>6. \A ob \in hbFlags : Index(ob) \in 1 .. Len(hbList) /\ hbList[Index(ob)] = ob
  BY <1>2, <1>3 DEF Index
<1> QED
  BY <1>2, <1>3, <1>4, <1>5, <1>6, HeartBeatAssumption

\* Where a list goes on whose next_hb is the object at place p.
LEMMA NextFirst ==
  ASSUME IsInjective(hbList'), NEW p \in DOMAIN hbList', nextHb' = hbList'[p],
         nextHb' # NoObject
  PROVE  First' = p
BY DEF First, Index, IsInjective

LEMMA FirstFacts ==
  ASSUME NodesOK
  PROVE  /\ First \in Nat \ {0}
         /\ nextHb # NoObject => First \in 1 .. Len(hbList) /\ hbList[First] = nextHb
         /\ nextHb = NoObject => First = 1
BY NodeFacts DEF First, NodesOK

\* The object whose turn it is, if there is one.
LEMMA ThisFacts ==
  ASSUME NodesOK, numHbObjs > 0
  PROVE  /\ This \in hbFlags /\ First \in 1 .. Len(hbList)
         /\ hbList[First] = This /\ Index(This) = First
<1>1. Len(hbList) > 0 /\ 1 \in 1 .. Len(hbList)
  BY NodeFacts DEF NodesOK
<1>2. CASE nextHb = NoObject
  BY <1>1, <1>2, NodeFacts, FirstFacts DEF This
<1>3. CASE nextHb # NoObject
  BY <1>3, NodeFacts, FirstFacts DEF This
<1> QED
  BY <1>2, <1>3

\* A node is unlinked.  next_hb is moved on if it is this node; it then does
\* not matter if it was given by a pointer or by being NULL.
LEMMA UnlinkKeeps ==
  ASSUME IInv, NEW ob \in hbFlags, Unlink(ob),
         \/ Index(ob) = First /\ nextHb' = After(ob)
         \/ nextHb # ob /\ nextHb' = nextHb,
         currentTime' = currentTime, lastBeat' = lastBeat
  PROVE  /\ NodesOK' /\ BeatsKnown' /\ hbFlags' = hbFlags \ {ob}
         /\ RoundInOrder => RoundInOrder'
<1> DEFINE p == Index(ob)
           n == Len(hbList)
           m(j) == IF j < p THEN j ELSE j + 1
<1>1. NodesOK
  BY DEF IInv
<1>2. n \in Nat /\ p \in 1 .. n /\ hbList[p] = ob /\ ob \in Objects
  BY <1>1, NodeFacts
<1>3. /\ hbList' \in Seq(Objects) /\ Len(hbList') = n - 1
      /\ DOMAIN hbList' = 1 .. n - 1
      /\ \A j \in 1 .. n - 1 : hbList'[j] = hbList[m(j)]
  <2>1. hbList \in Seq(Objects) /\ p \in DOMAIN hbList
    BY <1>1, <1>2, NodeFacts DEF NodesOK
  <2>2. hbList' = RemoveAt(hbList, p)
    BY DEF Unlink
  <2> QED
    BY <2>1, <2>2, RemoveAtFacts
<1>4. \A i, j \in 1 .. n : hbList[i] = hbList[j] => i = j
  BY <1>1, NodeFacts
<1>5. \A j \in 1 .. n - 1 : m(j) \in 1 .. n /\ m(j) # p
  BY <1>2
<1>6. \A i, j \in 1 .. n - 1 : m(i) = m(j) => i = j
  BY <1>2
<1> HIDE DEF m
<1>7. IsInjective(hbList')
  BY <1>3, <1>4, <1>5, <1>6 DEF IsInjective
<1>8. hbFlags' = hbFlags \ {ob}
  BY DEF Unlink
<1>9. ToSet(hbList') = hbFlags'
  <2>1. ASSUME NEW x \in hbFlags \ {ob}
        PROVE  \E j \in 1 .. n - 1 : hbList'[j] = x
    <3>1. PICK i \in 1 .. n : hbList[i] = x
      BY <1>1, NodeFacts
    <3>2. i # p
      BY <1>2, <2>1, <3>1
    <3>3. CASE i < p
      BY <1>2, <1>3, <3>1, <3>3 DEF m
    <3>4. CASE i > p
      <4>1. i - 1 \in 1 .. n - 1 /\ m(i - 1) = i
        BY <1>2, <3>4 DEF m
      <4> QED
        BY <1>3, <3>1, <4>1
    <3> QED
      BY <1>2, <3>2, <3>3, <3>4
  <2>2. \A j \in 1 .. n - 1 : hbList'[j] \in hbFlags \ {ob}
    BY <1>1, <1>2, <1>3, <1>4, <1>5, NodeFacts
  <2> QED
    BY ZenonT(300), <1>3, <1>8, <2>1, <2>2 DEF ToSet
<1>10. numHbObjs' = Len(hbList')
  BY <1>1, <1>3 DEF Unlink, NodesOK
<1>11. /\ tlast' \in [Objects -> Nat]
       /\ \A x \in hbFlags' : tlast'[x] = tlast[x]
  BY <1>1, <1>2, <1>8 DEF Unlink, NodesOK
\* The place at which the loop goes on.
<1>12. nextHb' \in hbFlags' \cup {NoObject}
       /\ First' = IF p < First THEN First - 1
                   ELSE IF p = First /\ p = n THEN 1 ELSE First
  <2>1. First \in Nat \ {0}
    BY <1>1, FirstFacts
  <2>2. CASE p = First /\ nextHb' = After(ob) /\ p = n
    BY <2>2 DEF After, First
  <2>3. CASE p = First /\ nextHb' = After(ob) /\ p # n
    <3>1. p \in 1 .. n - 1 /\ m(p) = p + 1
      BY <1>2, <2>3 DEF m
    <3>2. nextHb' = hbList[p + 1]
      BY <2>3 DEF After
    <3>3. nextHb' = hbList'[p] /\ nextHb' \in hbFlags'
      BY <1>3, <1>9, <3>1, <3>2 DEF ToSet
    <3>4. nextHb' # NoObject
      BY <1>1, <1>8, <3>3, NodeFacts
    <3>5. First' = p
      BY <1>3, <1>7, <3>1, <3>3, <3>4, NextFirst
    <3> QED
      BY <1>2, <2>1, <2>3, <3>3, <3>5
  <2>4. CASE nextHb # ob /\ nextHb' = nextHb /\ nextHb = NoObject
    <3>1. First = 1 /\ First' = 1
      BY <2>4 DEF First
    <3> QED
      BY <1>2, <2>4, <3>1
  <2>5. CASE nextHb # ob /\ nextHb' = nextHb /\ nextHb # NoObject
    <3>1. First \in 1 .. n /\ hbList[First] = nextHb /\ First # p
      BY <1>1, <1>2, <2>5, FirstFacts
    <3>2. nextHb' \in hbFlags'
      BY <1>1, <1>8, <2>5 DEF NodesOK
    <3>3. CASE First < p
      <4>1. First \in 1 .. n - 1 /\ m(First) = First
        BY <1>2, <3>1, <3>3 DEF m
      <4>2. First' = First
        BY <1>3, <1>7, <2>5, <3>1, <4>1, NextFirst
      <4> QED
        BY <1>2, <3>1, <3>2, <3>3, <4>2
    <3>4. CASE First > p
      <4>1. First - 1 \in 1 .. n - 1 /\ m(First - 1) = First
        BY <1>2, <3>1, <3>4 DEF m
      <4>2. First' = First - 1
        BY <1>3, <1>7, <2>5, <3>1, <4>1, NextFirst
      <4> QED
        BY <1>2, <3>1, <3>2, <3>4, <4>2
    <3> QED
      BY <1>2, <3>1, <3>3, <3>4
  <2> QED
    BY <2>2, <2>3, <2>4, <2>5
<1>13. NodesOK'
  BY <1>3, <1>7, <1>9, <1>10, <1>11, <1>12 DEF NodesOK
<1>14. BeatsKnown'
  BY <1>8, <1>11 DEF IInv, BeatsKnown
<1>15. RoundInOrder => RoundInOrder'
  <2> SUFFICES ASSUME RoundInOrder, NEW i \in 1 .. n - 1, NEW j \in 1 .. n - 1,
                      Before(First', i, j)
               PROVE  tlast'[hbList'[i]] <= tlast'[hbList'[j]]
    BY <1>3 DEF RoundInOrder
  <2>1. First \in Nat \ {0}
    BY <1>1, FirstFacts
  <2>2. Before(First, m(i), m(j))
    BY <1>2, <1>12, <2>1 DEF Before, m
  <2>3. tlast[hbList[m(i)]] <= tlast[hbList[m(j)]]
    BY <1>1, <1>5, <2>2, NodeFacts DEF RoundInOrder
  <2> QED
    BY <1>3, <1>9, <1>11, <2>3 DEF ToSet
<1> QED
  BY <1>8, <1>13, <1>14, <1>15

\* A node comes where the loop reaches it last: before the one at which the
\* loop goes on, or to the head, next_hb being set to what was the head.
LEMMA InsertKeeps ==
  ASSUME IInv, NEW ob \in Objects \ hbFlags, ob \notin destructed, TurnOn(ob),
         currentTime' = currentTime, lastBeat' = lastBeat
  PROVE  /\ NodesOK' /\ BeatsKnown' /\ hbFlags' = hbFlags \cup {ob}
         /\ RoundInOrder => RoundInOrder'
<1> DEFINE p == First
           n == Len(hbList)
           m(j) == IF j < p THEN j ELSE j - 1
<1>1. NodesOK
  BY DEF IInv
<1>2. n \in Nat /\ p \in 1 .. n + 1 /\ (n > 0 => p \in 1 .. n)
  BY <1>1, NodeFacts, FirstFacts
<1>3. /\ hbList \in Seq(Objects) /\ DOMAIN hbList = 1 .. n
      /\ n = 0 <=> hbList = << >>
  BY <1>1, NodeFacts, EmptySeq DEF NodesOK
<1>4. /\ hbList' = (IF NextIsHead THEN <<ob>> \o hbList
                    ELSE InsertAt(hbList, Index(nextHb), ob))
      /\ nextHb' = (IF nextHb = NoObject /\ hbList # << >> THEN Head(hbList) ELSE nextHb)
      /\ hbFlags' = hbFlags \cup {ob} /\ numHbObjs' = numHbObjs + 1
      /\ tlast' = [tlast EXCEPT ![ob] = currentTime]
  BY DEF TurnOn
<1>5. hbList # << >> => Head(hbList) = hbList[1]
  BY <1>3
<1>6. \A i, j \in 1 .. n : hbList[i] = hbList[j] => i = j
  BY <1>1, NodeFacts
<1>7. /\ hbList' \in Seq(Objects) /\ Len(hbList') = n + 1
      /\ DOMAIN hbList' = 1 .. n + 1 /\ hbList'[p] = ob
      /\ \A j \in 1 .. n + 1 : j # p => hbList'[j] = hbList[m(j)]
  <2>1. CASE NextIsHead
    <3>1. p = 1
      BY <1>1, <1>2, <1>3, <1>5, <1>6, <2>1, FirstFacts DEF NextIsHead, NodesOK
    <3>2. hbList' = <<ob>> \o hbList
      BY <1>4, <2>1
    <3>3. /\ hbList' \in Seq(Objects) /\ Len(hbList') = n + 1
          /\ DOMAIN hbList' = 1 .. n + 1 /\ hbList'[1] = ob
          /\ \A j \in 2 .. n + 1 : hbList'[j] = hbList[j - 1]
      BY <1>3, <3>2, PrependFacts
    <3>4. \A j \in 1 .. n + 1 : j # p => j \in 2 .. n + 1 /\ m(j) = j - 1
      BY <1>2, <3>1
    <3> QED
      BY <3>1, <3>3, <3>4
  <2>2. CASE ~NextIsHead
    <3>1. p = Index(nextHb)
      BY <2>2 DEF NextIsHead, First
    <3>2. hbList' = InsertAt(hbList, p, ob)
      BY <1>4, <2>2, <3>1
    <3>3. hbList \in Seq(Objects) /\ ob \in Objects /\ p \in 1 .. Len(hbList) + 1
      BY <1>2, <1>3
    <3>4. hbList' \in Seq(Objects) /\ Len(hbList') = n + 1
      BY <3>2, <3>3, InsertAtFacts
    <3>5. DOMAIN hbList' = 1 .. n + 1 /\ hbList'[p] = ob
      BY <3>2, <3>3, InsertAtFacts
    <3>6. /\ \A j \in 1 .. p - 1 : hbList'[j] = hbList[j]
          /\ \A j \in p + 1 .. n + 1 : hbList'[j] = hbList[j - 1]
      BY <3>2, <3>3, InsertAtFacts
    <3>7. ASSUME NEW j \in 1 .. n + 1, j # p
          PROVE  hbList'[j] = hbList[m(j)]
      <4>1. n \in Nat /\ p \in Int /\ j \in Int
        BY <1>2
      <4>2. \/ j \in 1 .. p - 1 /\ m(j) = j
            \/ j \in p + 1 .. n + 1 /\ m(j) = j - 1
        BY <3>7, <4>1
      <4> QED
        BY <3>6, <4>2
    <3> QED
      BY <3>4, <3>5, <3>7
  <2> QED
    BY <2>1, <2>2
<1>8. \A j \in 1 .. n + 1 : j # p => m(j) \in 1 .. n
  BY <1>2
<1>9. \A i, j \in 1 .. n + 1 : i # p /\ j # p /\ m(i) = m(j) => i = j
  BY <1>2
<1> HIDE DEF m
<1>10. \A j \in 1 .. n + 1 : j # p => hbList'[j] \in hbFlags /\ hbList'[j] # ob
  BY <1>1, <1>7, <1>8, NodeFacts
<1>11. IsInjective(hbList')
  BY <1>6, <1>7, <1>8, <1>9, <1>10 DEF IsInjective
<1>12. ToSet(hbList') = hbFlags'
  <2>1. ASSUME NEW x \in hbFlags
        PROVE  \E j \in 1 .. n + 1 : hbList'[j] = x
    <3>1. PICK i \in 1 .. n : hbList[i] = x
      BY <1>1, NodeFacts
    <3>2. CASE i < p
      <4>1. i \in 1 .. n + 1 /\ i # p /\ m(i) = i
        BY <1>2, <3>2 DEF m
      <4> QED
        BY <1>7, <3>1, <4>1
    <3>3. CASE i >= p
      <4>1. i + 1 \in 1 .. n + 1 /\ i + 1 # p /\ m(i + 1) = i
        BY <1>2, <3>3 DEF m
      <4> QED
        BY <1>7, <3>1, <4>1
    <3> QED
      BY <1>2, <3>2, <3>3
  <2>2. \A j \in 1 .. n + 1 : hbList'[j] \in hbFlags \cup {ob}
    BY <1>7, <1>10
  <2>3. p \in 1 .. n + 1 /\ hbList'[p] = ob
    BY <1>2, <1>7
  <2>4. \A x \in hbFlags' : \E j \in 1 .. n + 1 : hbList'[j] = x
    BY <1>4, <2>1, <2>3
  <2>5. \A j \in 1 .. n + 1 : hbList'[j] \in hbFlags'
    BY <1>4, <2>2
  <2> QED
    BY <1>7, <2>4, <2>5 DEF ToSet
<1>13. nextHb' \in hbFlags' \cup {NoObject}
       /\ First' = IF n = 0 THEN 1 ELSE p + 1
  <2>1. CASE n = 0
    <3>1. hbList = << >> /\ nextHb = NoObject
      BY <1>1, <1>2, <1>3, <2>1, NodeFacts DEF NodesOK
    <3> QED
      BY <1>4, <2>1, <3>1 DEF First
  <2>2. CASE n # 0
    <3>1. p \in 1 .. n /\ hbList # << >> /\ 1 \in 1 .. n
      BY <1>2, <1>3, <2>2
    <3>2. nextHb' = hbList[p]
      BY <1>1, <1>4, <1>5, <3>1, FirstFacts
    <3>3. p + 1 \in 1 .. n + 1 /\ p + 1 # p /\ m(p + 1) = p
      BY <1>2, <3>1 DEF m
    <3>4. nextHb' = hbList'[p + 1] /\ nextHb' \in hbFlags /\ nextHb' # NoObject
      BY <1>1, <1>7, <3>1, <3>2, <3>3, NodeFacts
    <3>5. First' = p + 1
      BY <1>7, <1>11, <3>3, <3>4, NextFirst
    <3> QED
      BY <1>4, <2>2, <3>4, <3>5
  <2> QED
    BY <2>1, <2>2
<1>14. /\ tlast' \in [Objects -> Nat]
       /\ tlast'[ob] = currentTime
       /\ \A x \in hbFlags : tlast'[x] = tlast[x]
  BY <1>1, <1>4 DEF IInv, RunOK, NodesOK
<1>15. NodesOK'
  BY <1>1, <1>4, <1>7, <1>11, <1>12, <1>13, <1>14 DEF NodesOK
<1>16. BeatsKnown'
  BY <1>4, <1>14 DEF IInv, BeatsKnown, RunOK
<1>17. RoundInOrder => RoundInOrder'
  <2> SUFFICES ASSUME RoundInOrder, NEW i \in 1 .. n + 1, NEW j \in 1 .. n + 1,
                      Before(First', i, j)
               PROVE  tlast'[hbList'[i]] <= tlast'[hbList'[j]]
    BY <1>7 DEF RoundInOrder
  <2>1. i # p
    BY <1>2, <1>13 DEF Before
  <2>2. hbList'[i] \in hbFlags /\ tlast'[hbList'[i]] = tlast[hbList[m(i)]]
        /\ m(i) \in 1 .. n
    BY <1>7, <1>8, <1>10, <1>14, <2>1
  <2>3. CASE j = p
    <3>1. tlast[hbList'[i]] <= currentTime /\ hbList'[i] \in Objects
      BY <1>1, <2>2, NodeFacts DEF IInv, BeatsKnown
    <3> QED
      BY <1>7, <1>14, <2>2, <2>3, <3>1
  <2>4. CASE j # p
    <3>1. Before(p, m(i), m(j)) /\ m(j) \in 1 .. n
      BY <1>2, <1>8, <1>13, <2>1, <2>4 DEF Before, m
    <3>2. tlast[hbList[m(i)]] <= tlast[hbList[m(j)]]
      BY <1>3, <2>2, <3>1 DEF RoundInOrder
    <3>3. tlast'[hbList'[j]] = tlast[hbList[m(j)]]
      BY <1>7, <1>10, <1>14, <2>4
    <3> QED
      BY <2>2, <3>2, <3>3
  <2> QED
    BY <2>3, <2>4
<1> QED
  BY <1>4, <1>15, <1>16, <1>17

\* The object whose turn it is has its beat: the loop reaches it last now.
LEMMA BeatListKeeps ==
  ASSUME IInv, NEW ob \in Objects, Beat(ob)
  PROVE  /\ NodesOK' /\ BeatsKnown' /\ lastBeat' \in [Objects -> Nat]
         /\ RoundInOrder => RoundInOrder'
<1> DEFINE p == First
           n == Len(hbList)
<1>1. NodesOK
  BY DEF IInv
<1>2. /\ ob = This /\ numHbObjs > 0
      /\ tlast' = [tlast EXCEPT ![ob] = currentTime]
      /\ lastBeat' = [lastBeat EXCEPT ![ob] = currentTime]
      /\ nextHb' = After(ob)
      /\ UNCHANGED <<hbList, hbFlags, numHbObjs, currentTime>>
  BY DEF Beat, LoopReaches, timeVars
<1>3. p \in 1 .. n /\ n \in Nat /\ hbList[p] = ob /\ Index(ob) = p /\ ob \in hbFlags
  BY <1>1, <1>2, ThisFacts, NodeFacts
<1>4. nextHb' \in hbFlags' \cup {NoObject}
      /\ First' = IF p = n THEN 1 ELSE p + 1
  <2>1. CASE p = n
    BY <1>2, <1>3, <2>1 DEF After, First
  <2>2. CASE p # n
    <3>1. p + 1 \in 1 .. n /\ nextHb' = hbList[p + 1]
      BY <1>2, <1>3, <2>2 DEF After
    <3>2. nextHb' \in hbFlags /\ nextHb' # NoObject
      BY <1>1, <3>1, NodeFacts
    <3>3. IsInjective(hbList') /\ p + 1 \in DOMAIN hbList' /\ nextHb' = hbList'[p + 1]
      BY <1>1, <1>2, <3>1, NodeFacts DEF NodesOK
    <3>4. First' = p + 1
      BY <3>2, <3>3, NextFirst
    <3> QED
      BY <1>2, <2>2, <3>2, <3>4
  <2> QED
    BY <2>1, <2>2
<1>5. /\ tlast' \in [Objects -> Nat] /\ lastBeat' \in [Objects -> Nat]
      /\ tlast'[ob] = currentTime
      /\ \A x \in Objects : x # ob => tlast'[x] = tlast[x] /\ lastBeat'[x] = lastBeat[x]
      /\ lastBeat'[ob] = currentTime
  BY <1>1, <1>2 DEF IInv, RunOK, NodesOK
<1>6. NodesOK'
  BY <1>1, <1>2, <1>4, <1>5 DEF NodesOK
<1>7. BeatsKnown'
  BY <1>2, <1>5 DEF IInv, BeatsKnown, RunOK
<1>8. RoundInOrder => RoundInOrder'
  <2> SUFFICES ASSUME RoundInOrder, NEW i \in 1 .. n, NEW j \in 1 .. n,
                      Before(First', i, j)
               PROVE  tlast'[hbList[i]] <= tlast'[hbList[j]]
    BY <1>1, <1>2, NodeFacts DEF RoundInOrder
  <2>1. i # p
    BY <1>3, <1>4 DEF Before
  <2>2. hbList[i] # ob /\ hbList[i] \in Objects /\ hbList[i] \in hbFlags
    BY <1>1, <1>3, <2>1, NodeFacts
  <2>3. CASE j = p
    BY <1>3, <1>5, <2>2, <2>3 DEF IInv, BeatsKnown
  <2>4. CASE j # p
    <3>1. Before(p, i, j)
      BY <1>3, <1>4, <2>1, <2>4 DEF Before
    <3>2. tlast[hbList[i]] <= tlast[hbList[j]]
      BY <1>1, <3>1, NodeFacts DEF RoundInOrder
    <3>3. hbList[j] # ob /\ hbList[j] \in Objects
      BY <1>1, <1>3, <2>4, NodeFacts
    <3> QED
      BY <1>5, <2>2, <3>2, <3>3
  <2> QED
    BY <2>3, <2>4
<1> QED
  BY <1>5, <1>6, <1>7, <1>8

\* Time passes at most.
LEMMA SameListKeeps ==
  ASSUME IInv, UNCHANGED hbVars, currentTime' \in Nat, currentTime' >= currentTime,
         lastBeat' = lastBeat
  PROVE  NodesOK' /\ BeatsKnown' /\ (RoundInOrder => RoundInOrder')
<1>1. UNCHANGED <<hbList, nextHb, hbFlags, numHbObjs, tlast>>
  BY DEF hbVars
<1>2. NodesOK'
  BY <1>1 DEF IInv, NodesOK
<1>3. BeatsKnown'
  <2>1. \A ob \in hbFlags : tlast[ob] \in Nat
    BY NodeFacts DEF IInv, NodesOK
  <2>2. \A ob \in Objects : lastBeat[ob] \in Nat /\ currentTime \in Nat
    BY DEF IInv, RunOK
  <2> QED
    BY <1>1, <2>1, <2>2 DEF IInv, BeatsKnown
<1>4. RoundInOrder => RoundInOrder'
  BY <1>1 DEF RoundInOrder, First, Index
<1> QED
  BY <1>2, <1>3, <1>4

LEMMA TurnOffKeeps ==
  ASSUME IInv, NEW ob \in Objects, TurnOff(ob), currentTime' = currentTime,
         lastBeat' = lastBeat
  PROVE  /\ NodesOK' /\ BeatsKnown' /\ hbFlags' = hbFlags \ {ob}
         /\ RoundInOrder => RoundInOrder'
<1>1. CASE ob \in destructed \/ ob \notin hbFlags
  <2>1. UNCHANGED hbVars /\ ob \notin hbFlags
    BY <1>1 DEF TurnOff, IInv, RunOK
  <2>2. currentTime' \in Nat /\ currentTime' >= currentTime
    BY DEF IInv, RunOK
  <2>3. hbFlags' = hbFlags \ {ob}
    BY <2>1 DEF hbVars
  <2> QED
    BY <2>1, <2>2, <2>3, SameListKeeps
<1>2. CASE ~(ob \in destructed \/ ob \notin hbFlags)
  <2>1. /\ ob \in hbFlags /\ Unlink(ob)
        /\ nextHb' = IF nextHb = ob THEN After(ob) ELSE nextHb
    BY <1>2 DEF TurnOff
  <2>2. nextHb = ob => Index(ob) = First
    BY <2>1, NodeFacts DEF First, IInv
  <2> QED
    BY <2>1, <2>2, UnlinkKeeps
<1> QED
  BY <1>1, <1>2

LEMMA TurnOnKeeps ==
  ASSUME IInv, NEW ob \in Objects, TurnOn(ob), currentTime' = currentTime,
         lastBeat' = lastBeat
  PROVE  /\ NodesOK' /\ BeatsKnown' /\ hbFlags' \cap destructed = {}
         /\ RoundInOrder => RoundInOrder'
<1>1. hbFlags \cap destructed = {} /\ currentTime' \in Nat /\ currentTime' >= currentTime
  BY DEF IInv, RunOK
<1>2. CASE ob \in destructed \/ ob \in hbFlags
  <2>1. UNCHANGED hbVars /\ hbFlags' = hbFlags
    BY <1>2 DEF TurnOn, hbVars
  <2> QED
    BY <1>1, <2>1, SameListKeeps
<1>3. CASE ~(ob \in destructed \/ ob \in hbFlags)
  BY <1>1, <1>3, InsertKeeps
<1> QED
  BY <1>2, <1>3

-----------------------------------------------------------------------------
(* The steps.                                                              *)

\* What is left to be shown when the list is in order.
LEMMA RestKeeps ==
  ASSUME IInv, NodesOK', BeatsKnown', RoundInOrder => RoundInOrder', FlagsOK', RunOK',
         ~MayDisable => enabled' = enabled
  PROVE  IInv'
BY Zenon DEF IInv, OrderKept

LEMMA FlagsStay ==
  ASSUME IInv, UNCHANGED <<synch, enabled>>, alarm' \in BOOLEAN
  PROVE  FlagsOK'
BY Zenon DEF IInv, FlagsOK

LEMMA SetHeartBeatKeeps ==
  ASSUME IInv, NEW ob \in Objects, NEW to \in BOOLEAN, SetHeartBeat(ob, to)
  PROVE  IInv'
<1>1. /\ UNCHANGED <<currentTime, timeOfLastHb, synch, phase, currentHb, culprit,
                     enabled, alarm, destructed, lastBeat>>
      /\ TurnOn(ob) \/ TurnOff(ob)
  BY DEF SetHeartBeat, timeVars, runVars
<1>2. /\ NodesOK' /\ BeatsKnown' /\ hbFlags' \cap destructed = {}
      /\ RoundInOrder => RoundInOrder'
  <2>1. hbFlags \cap destructed = {}
    BY DEF IInv, RunOK
  <2>2. CASE TurnOn(ob)
    BY <1>1, <2>2, TurnOnKeeps
  <2>3. CASE TurnOff(ob)
    BY <1>1, <2>1, <2>3, TurnOffKeeps
  <2> QED
    BY <1>1, <2>2, <2>3
<1>3. RunOK'
  BY <1>1, <1>2 DEF IInv, RunOK
<1>4. alarm' \in BOOLEAN
  BY <1>1, Zenon DEF IInv, FlagsOK
<1> QED
  BY <1>1, <1>2, <1>3, <1>4, FlagsStay, RestKeeps

LEMMA DestructKeeps ==
  ASSUME IInv, NEW ob \in Objects, Destruct(ob)
  PROVE  IInv'
<1>1. /\ UNCHANGED <<currentTime, timeOfLastHb, synch, phase, currentHb, culprit,
                     enabled, alarm, lastBeat>>
      /\ TurnOff(ob) /\ destructed' = destructed \cup {ob}
  BY DEF Destruct, timeVars, runVars
<1>2. /\ NodesOK' /\ BeatsKnown' /\ hbFlags' = hbFlags \ {ob}
      /\ RoundInOrder => RoundInOrder'
  BY <1>1, TurnOffKeeps
<1>3. RunOK'
  BY <1>1, <1>2 DEF IInv, RunOK
<1>4. alarm' \in BOOLEAN
  BY <1>1, Zenon DEF IInv, FlagsOK
<1> QED
  BY <1>1, <1>2, <1>3, <1>4, FlagsStay, RestKeeps

\* Steps that leave the list alone and no time passes.
LEMMA OthersKeep ==
  ASSUME IInv, EnableHeartBeats \/ Alarm \/ BeatReturns \/ EndLoop
  PROVE  IInv'
<1>1. /\ UNCHANGED <<hbVars, currentTime, synch, culprit, destructed, lastBeat>>
      /\ timeOfLastHb' \in {timeOfLastHb, currentTime}
      /\ currentHb' \in {currentHb, NoObject}
      /\ phase' = phase \/ phase' \in {"loop", "idle"}
  BY DEF EnableHeartBeats, Alarm, BeatReturns, EndLoop, timeVars, runVars
<1>2. NodesOK' /\ BeatsKnown' /\ (RoundInOrder => RoundInOrder')
  <2>1. currentTime' \in Nat /\ currentTime' >= currentTime
    BY <1>1 DEF IInv, RunOK
  <2> QED
    BY <1>1, <2>1, SameListKeeps
<1>3. RunOK'
  BY <1>1 DEF IInv, RunOK, hbVars, Phases, LpcPhases
<1>4. FlagsOK' /\ (~MayDisable => enabled' = enabled)
  BY Zenon DEF EnableHeartBeats, Alarm, BeatReturns, EndLoop, timeVars, IInv, FlagsOK
<1> QED
  BY <1>2, <1>3, <1>4, RestKeeps

LEMMA StartCycleKeeps ==
  ASSUME IInv, NEW step \in ClockSteps, StartCycle(step)
  PROVE  IInv'
<1>1. /\ currentTime' \in Nat /\ currentTime' >= currentTime /\ currentTime \in Nat
      /\ UNCHANGED <<hbList, hbFlags, numHbObjs, tlast, currentHb, culprit, synch, enabled,
                     destructed, lastBeat>>
      /\ timeOfLastHb' \in {timeOfLastHb, currentTime'}
      /\ phase' \in {phase, "loop"}
      /\ alarm' = FALSE
  BY HeartBeatAssumption DEF StartCycle, IInv, RunOK, hbVars
<1>2. nextHb' = nextHb \/ (nextHb' = NoObject /\ (~enabled \/ numHbObjs = 0))
  <2>1. numHbObjs \in Nat
    BY NodeFacts DEF IInv, NodesOK
  <2> QED
    BY <2>1 DEF StartCycle, hbVars
<1>3. NodesOK'
  BY <1>1, <1>2 DEF IInv, NodesOK
<1>4. BeatsKnown'
  <2>1. \A ob \in hbFlags : tlast[ob] \in Nat
    BY NodeFacts DEF IInv, NodesOK
  <2>2. \A ob \in Objects : lastBeat[ob] \in Nat
    BY DEF IInv, RunOK
  <2> QED
    BY <1>1, <2>1, <2>2 DEF IInv, BeatsKnown
<1>5. ~MayDisable => enabled' /\ RoundInOrder'
  <2> SUFFICES ASSUME ~MayDisable
               PROVE  enabled' /\ RoundInOrder'
    OBVIOUS
  <2>1. enabled /\ enabled' /\ RoundInOrder
    BY <1>1, Zenon DEF IInv, OrderKept
  <2>2. CASE nextHb' = nextHb
    BY <1>1, <2>1, <2>2 DEF RoundInOrder, First, Index
  <2>3. CASE numHbObjs = 0
    BY <1>1, <2>1, <2>3, NodeFacts DEF RoundInOrder, IInv, NodesOK
  <2> QED
    BY <1>2, <2>1, <2>2, <2>3
<1>6. RunOK'
  BY <1>1 DEF IInv, RunOK, Phases, LpcPhases
<1>7. FlagsOK'
  BY <1>1, FlagsStay
<1> QED
  BY <1>3, <1>4, <1>5, <1>6, <1>7, Zenon DEF IInv, OrderKept

LEMMA BeatKeeps ==
  ASSUME IInv, NEW ob \in Objects, Beat(ob)
  PROVE  IInv'
<1>1. /\ UNCHANGED <<hbFlags, currentTime, timeOfLastHb, synch, culprit, enabled, alarm,
                     destructed>>
      /\ currentHb' = ob /\ phase' = "beat"
  BY DEF Beat, timeVars
<1>2. /\ NodesOK' /\ BeatsKnown' /\ lastBeat' \in [Objects -> Nat]
      /\ RoundInOrder => RoundInOrder'
  BY BeatListKeeps
<1>3. RunOK'
  BY <1>1, <1>2 DEF IInv, RunOK, Phases, LpcPhases
<1>4. alarm' \in BOOLEAN
  BY <1>1, Zenon DEF IInv, FlagsOK
<1> QED
  BY <1>1, <1>2, <1>3, <1>4, FlagsStay, RestKeeps

LEMMA DropBeatlessKeeps ==
  ASSUME IInv, NEW ob \in Objects, DropBeatless(ob)
  PROVE  IInv'
<1>1. /\ UNCHANGED <<currentTime, timeOfLastHb, synch, phase, currentHb, culprit, enabled,
                     alarm, destructed, lastBeat>>
      /\ ob = This /\ numHbObjs > 0 /\ Unlink(ob) /\ nextHb' = After(ob)
  BY DEF DropBeatless, LoopReaches, timeVars, runVars
<1>2. ob \in hbFlags /\ Index(ob) = First
  BY <1>1, ThisFacts DEF IInv
<1>3. /\ NodesOK' /\ BeatsKnown' /\ hbFlags' = hbFlags \ {ob}
      /\ RoundInOrder => RoundInOrder'
  BY <1>1, <1>2, UnlinkKeeps
<1>4. RunOK'
  BY <1>1, <1>3 DEF IInv, RunOK
<1>5. alarm' \in BOOLEAN
  BY <1>1, Zenon DEF IInv, FlagsOK
<1> QED
  BY <1>1, <1>3, <1>4, <1>5, FlagsStay, RestKeeps

LEMMA BeatFailsKeeps ==
  ASSUME IInv, BeatFails
  PROVE  IInv'
<1>1. /\ UNCHANGED <<currentTime, timeOfLastHb, synch, enabled, alarm, destructed, lastBeat>>
      /\ currentHb \in Objects /\ culprit' = currentHb /\ currentHb' = NoObject
      /\ TurnOff(currentHb) /\ phase' = "error"
  BY DEF BeatFails, timeVars, IInv, RunOK
<1>2. /\ NodesOK' /\ BeatsKnown' /\ hbFlags' = hbFlags \ {currentHb}
      /\ RoundInOrder => RoundInOrder'
  BY <1>1, TurnOffKeeps
<1>3. RunOK'
  BY <1>1, <1>2 DEF IInv, RunOK, Phases, LpcPhases
<1>4. alarm' \in BOOLEAN
  BY <1>1, Zenon DEF IInv, FlagsOK
<1> QED
  BY <1>1, <1>2, <1>3, <1>4, FlagsStay, RestKeeps

LEMMA ErrorHandledKeeps ==
  ASSUME IInv, NEW turnOn \in BOOLEAN, NEW caught \in BOOLEAN,
         ErrorHandled(turnOn, caught)
  PROVE  IInv'
<1>1. /\ UNCHANGED <<currentTime, timeOfLastHb, synch, currentHb, enabled, alarm, destructed,
                     lastBeat>>
      /\ culprit \in Objects /\ culprit' = NoObject /\ phase' \in {"beat", "loop"}
      /\ TurnOn(culprit) \/ UNCHANGED hbVars
  BY DEF ErrorHandled, timeVars, IInv, RunOK
<1>2. /\ NodesOK' /\ BeatsKnown' /\ hbFlags' \cap destructed = {}
      /\ RoundInOrder => RoundInOrder'
  <2>1. CASE TurnOn(culprit)
    BY <1>1, <2>1, TurnOnKeeps
  <2>2. CASE UNCHANGED hbVars
    <3>1. currentTime' \in Nat /\ currentTime' >= currentTime /\ hbFlags' = hbFlags
          /\ hbFlags \cap destructed = {}
      BY <1>1, <2>2 DEF IInv, RunOK, hbVars
    <3> QED
      BY <1>1, <2>2, <3>1, SameListKeeps
  <2> QED
    BY <1>1, <2>1, <2>2
<1>3. RunOK'
  BY <1>1, <1>2 DEF IInv, RunOK, Phases, LpcPhases
<1>4. alarm' \in BOOLEAN
  BY <1>1, Zenon DEF IInv, FlagsOK
<1> QED
  BY <1>1, <1>2, <1>3, <1>4, FlagsStay, RestKeeps

LEMMA InitHolds == Init => IInv
<1> SUFFICES ASSUME Init
             PROVE  IInv
  OBVIOUS
<1>1. hbList = << >> /\ DOMAIN hbList = {} /\ Len(hbList) = 0
  BY DEF Init
<1>2. NodesOK
  <2>1. hbList \in Seq(Objects) /\ IsInjective(hbList) /\ ToSet(hbList) = {}
    BY <1>1 DEF IsInjective, ToSet
  <2> QED
    BY <1>1, <2>1 DEF Init, NodesOK
<1>3. FlagsOK
  BY HeartBeatAssumption, Zenon DEF Init, FlagsOK
<1>4. RunOK
  BY HeartBeatAssumption DEF Init, RunOK, Phases, LpcPhases
<1>5. BeatsKnown
  BY HeartBeatAssumption DEF Init, BeatsKnown
<1>6. enabled /\ RoundInOrder
  <2>1. enabled
    BY Zenon DEF Init
  <2> QED
    BY <1>1, <2>1 DEF RoundInOrder
<1> QED
  BY <1>2, <1>3, <1>4, <1>5, <1>6, Zenon DEF IInv, OrderKept

LEMMA NextKeeps ==
  ASSUME IInv, [Next]_vars
  PROVE  IInv'
<1>1. CASE UNCHANGED vars
  <2>1. UNCHANGED <<hbVars, currentTime, timeOfLastHb, synch, phase, currentHb, culprit,
                    enabled, alarm, destructed, lastBeat>>
    BY <1>1 DEF vars, timeVars, runVars
  <2>2. currentTime' \in Nat /\ currentTime' >= currentTime
    BY <2>1 DEF IInv, RunOK
  <2>3. RunOK'
    BY <2>1 DEF IInv, RunOK, hbVars
  <2>4. alarm' \in BOOLEAN
    BY <2>1, Zenon DEF IInv, FlagsOK
  <2> QED
    BY <2>1, <2>2, <2>3, <2>4, SameListKeeps, FlagsStay, RestKeeps
<1>2. CASE Next
  BY <1>2, SetHeartBeatKeeps, DestructKeeps, OthersKeep, StartCycleKeeps, BeatKeeps,
     DropBeatlessKeeps, BeatFailsKeeps, ErrorHandledKeeps
     DEF Next, LoopStep, ErrorStep
<1> QED
  BY <1>1, <1>2

-----------------------------------------------------------------------------
(* Theorems.                                                               *)

\* The invariant holds in every reachable state.
THEOREM Invariance == Spec => []IInv
BY InitHolds, NextKeeps, PTL DEF Spec

\* Types.
THEOREM TypeCorrect == Spec => []TypeOK
<1>1. IInv => TypeOK
  <2> SUFFICES ASSUME IInv
               PROVE  TypeOK
    OBVIOUS
  <2>1. /\ hbList \in Seq(Objects) /\ nextHb \in Objects \cup {NoObject}
        /\ hbFlags \subseteq Objects /\ numHbObjs \in Nat /\ tlast \in [Objects -> Nat]
    BY NodeFacts DEF IInv, NodesOK
  <2>2. synch \in BOOLEAN /\ enabled \in BOOLEAN /\ alarm \in BOOLEAN
    BY Zenon DEF IInv, FlagsOK
  <2>3. /\ currentTime \in Nat /\ timeOfLastHb \in Nat /\ phase \in Phases
        /\ currentHb \in Objects \cup {NoObject} /\ culprit \in Objects \cup {NoObject}
        /\ destructed \subseteq Objects /\ lastBeat \in [Objects -> Nat]
    BY DEF IInv, RunOK
  <2> QED
    BY <2>1, <2>2, <2>3, Zenon DEF TypeOK
<1> QED
  BY <1>1, Invariance, PTL

\* The list, its counter, the flags of the objects and next_hb agree, and no
\* destructed object is left in the list.
THEOREM ListStaysConsistent == Spec => []ListIsConsistent
<1>1. IInv => ListIsConsistent
  BY DEF IInv, NodesOK, RunOK, ListIsConsistent
<1> QED
  BY <1>1, Invariance, PTL

\* Two beats of an object are the interval apart.
THEOREM BeatsAreSpaced == Spec => BeatSpacing
<1> DEFINE Spaced == \A ob \in Objects :
             phase = "loop" /\ phase' = "beat" /\ currentHb' = ob /\ lastBeat[ob] # 0
               => currentTime >= lastBeat[ob] + Interval
<1>1. IInv /\ [Next]_vars => [Spaced]_vars
  <2> SUFFICES ASSUME IInv, Next, NEW ob \in Objects,
                      phase = "loop", phase' = "beat", currentHb' = ob
               PROVE  currentTime >= lastBeat[ob] + Interval
    OBVIOUS
  <2>1. Beat(ob)
    BY DEF Next, SetHeartBeat, Destruct, EnableHeartBeats, Alarm, StartCycle, LoopStep,
           Beat, DropBeatless, BeatReturns, BeatFails, ErrorStep, ErrorHandled, EndLoop,
           LpcPhases, timeVars, runVars
  <2>2. ob \in hbFlags /\ currentTime >= tlast[ob] + Interval
    BY <2>1, ThisFacts DEF Beat, LoopReaches, IsDue, IInv
  <2>3. lastBeat[ob] \in Nat /\ tlast[ob] \in Nat /\ currentTime \in Nat
        /\ lastBeat[ob] <= tlast[ob] /\ Interval \in Nat
    BY <2>2, HeartBeatAssumption DEF IInv, BeatsKnown, RunOK, NodesOK
  <2> QED
    BY <2>2, <2>3
<1> QED
  BY <1>1, Invariance, PTL DEF Spec, BeatSpacing

\* The sequence of VisitsOldestFirst is the list from First on, around.
LEMMA RoundIsInOrder ==
  ASSUME IInv, RoundInOrder
  PROVE  VisitsOldestFirst
<1> DEFINE n == Len(hbList)
           r(i) == IF i <= n - First + 1 THEN First + i - 1 ELSE i - (n - First + 1)
<1>1. NodesOK /\ n \in Nat /\ hbList \in Seq(Objects) /\ DOMAIN hbList = 1 .. n
      /\ First \in Nat \ {0}
  BY NodeFacts, FirstFacts DEF IInv, NodesOK
<1>2. CASE nextHb = NoObject
  <2>1. Round = hbList /\ First = 1
    BY <1>2 DEF Round, First
  <2> QED
    BY <1>1, <2>1 DEF VisitsOldestFirst, RoundInOrder, Before
<1>3. CASE nextHb # NoObject
  <2> DEFINE a == SubSeq(hbList, First, n)
             b == SubSeq(hbList, 1, First - 1)
  <2>1. First \in 1 .. n /\ Round = a \o b
    BY <1>1, <1>3, FirstFacts DEF Round, First
  <2>2. \A i \in 1 .. n : hbList[i] \in Objects
    BY <1>1, NodeFacts
  <2>3. /\ a \in Seq(Objects) /\ Len(a) = n - First + 1
        /\ \A i \in 1 .. n - First + 1 : a[i] = hbList[First + i - 1]
    BY <1>1, <2>1, <2>2, SubSeqProperties
  <2>4. /\ b \in Seq(Objects) /\ Len(b) = First - 1
        /\ \A i \in 1 .. First - 1 : b[i] = hbList[i]
    BY <1>1, <2>1, <2>2, SubSeqProperties
  <2> HIDE DEF a, b
  <2>5. /\ a \o b \in Seq(Objects) /\ Len(a \o b) = Len(a) + Len(b)
        /\ \A i \in 1 .. Len(a) + Len(b) :
             (a \o b)[i] = IF i <= Len(a) THEN a[i] ELSE b[i - Len(a)]
    BY <2>3, <2>4, ConcatProperties
  <2>6. Len(a) + Len(b) = n
    BY <1>1, <2>1, <2>3, <2>4
  <2>7. DOMAIN Round = 1 .. n
    BY <2>1, <2>5, <2>6, LenProperties
  <2>8. \A i \in 1 .. n : r(i) \in 1 .. n
    BY <1>1, <2>1
  <2>9. ASSUME NEW i \in 1 .. n
        PROVE  Round[i] = hbList[r(i)]
    <3>1. CASE i <= n - First + 1
      BY <1>1, <2>1, <2>3, <2>5, <2>6, <3>1
    <3>2. CASE ~(i <= n - First + 1)
      <4>1. i - (n - First + 1) \in 1 .. First - 1
        BY <1>1, <2>1, <3>2
      <4>2. (a \o b)[i] = b[i - (n - First + 1)]
        BY <1>1, <2>3, <2>5, <2>6, <3>2
      <4> QED
        BY <2>1, <2>4, <3>2, <4>1, <4>2
    <3> QED
      BY <3>1, <3>2
  <2>10. \A i, j \in 1 .. n : i < j => Before(First, r(i), r(j))
    BY <1>1, <2>1 DEF Before
  <2> HIDE DEF r
  <2> QED
    BY <1>1, <2>7, <2>8, <2>9, <2>10 DEF VisitsOldestFirst, RoundInOrder
<1> QED
  BY <1>2, <1>3

\* The loop visits the objects oldest beat first, if LPC code does not switch
\* heart beats off altogether.
THEOREM OldestFirst ==
  ASSUME ~MayDisable
  PROVE  Spec => []VisitsOldestFirst
<1>1. IInv => VisitsOldestFirst
  BY RoundIsInOrder, Zenon DEF IInv, OrderKept
<1> QED
  BY <1>1, Invariance, PTL

\* So it is right that a round ends at the first object that is not due.
THEOREM NobodyDueIsLeft ==
  ASSUME ~MayDisable
  PROVE  Spec => NoneDueLeft
<1> DEFINE Left == phase = "loop" /\ phase' = "idle" /\ ~alarm =>
                     \A ob \in hbFlags : ~IsDue(ob)
<1>1. IInv /\ [Next]_vars => [Left]_vars
  <2> SUFFICES ASSUME IInv, RoundInOrder, Next, phase = "loop", phase' = "idle", ~alarm,
                      NEW ob \in hbFlags
               PROVE  ~IsDue(ob)
    BY Zenon DEF IInv, OrderKept
  <2>1. EndLoop
    BY DEF Next, SetHeartBeat, Destruct, EnableHeartBeats, Alarm, StartCycle, LoopStep,
           Beat, DropBeatless, BeatReturns, BeatFails, ErrorStep, ErrorHandled, EndLoop,
           LpcPhases, timeVars, runVars
  <2>2. NodesOK /\ numHbObjs = Len(hbList) /\ Len(hbList) \in Nat
    BY NodeFacts DEF IInv, NodesOK
  <2>3. PICK j \in 1 .. Len(hbList) : hbList[j] = ob
    BY <2>2, NodeFacts
  <2>4. numHbObjs > 0
    BY <2>2, <2>3
  <2>5. ~IsDue(This)
    BY <2>1, <2>4 DEF EndLoop
  <2>6. First \in 1 .. Len(hbList) /\ hbList[First] = This /\ This \in hbFlags
    BY <2>2, <2>4, ThisFacts
  <2>7. CASE j = First
    BY <2>3, <2>5, <2>6, <2>7
  <2>8. CASE j # First
    <3>1. Before(First, First, j)
      BY <2>2, <2>3, <2>6, <2>8 DEF Before
    <3>2. tlast[This] <= tlast[ob]
      BY <2>2, <2>3, <2>6, <3>1, NodeFacts DEF RoundInOrder
    <3>3. tlast[This] \in Nat /\ tlast[ob] \in Nat /\ currentTime \in Nat /\ Interval \in Nat
      BY <2>2, <2>6, NodeFacts, HeartBeatAssumption DEF IInv, RunOK, NodesOK
    <3> QED
      BY <2>5, <3>2, <3>3 DEF IsDue
  <2> QED
    BY <2>7, <2>8
<1> QED
  BY <1>1, Invariance, PTL DEF Spec, NoneDueLeft
=============================================================================
