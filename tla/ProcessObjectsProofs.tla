------------------------ MODULE ProcessObjectsProofs ------------------------
(***************************************************************************)
(* Proofs about ProcessObjects: each object is in one list, and no call of *)
(* process_objects() handles an object twice, for any number of objects,   *)
(* references and loads.                                                   *)
(***************************************************************************)
EXTENDS ProcessObjects, TLAPS, SequenceTheorems

-----------------------------------------------------------------------------
(* What the operations on the object list do to a sequence.                *)

\* An element comes to the head.
LEMMA PrependFacts ==
  ASSUME NEW S, NEW s \in Seq(S), NEW o \in S
  PROVE  /\ Len(s) \in Nat /\ DOMAIN s = 1 .. Len(s)
         /\ <<o>> \o s \in Seq(S)
         /\ Len(<<o>> \o s) = Len(s) + 1
         /\ DOMAIN (<<o>> \o s) = 1 .. Len(s) + 1
         /\ (<<o>> \o s)[1] = o
         /\ \A i \in 2 .. Len(s) + 1 : (<<o>> \o s)[i] = s[i - 1]
<1>1. <<o>> \in Seq(S) /\ Len(<<o>>) = 1 /\ <<o>>[1] = o
  OBVIOUS
<1>2. Len(s) \in Nat /\ DOMAIN s = 1 .. Len(s)
  BY LenProperties
<1>3. /\ <<o>> \o s \in Seq(S) /\ Len(<<o>> \o s) = 1 + Len(s)
      /\ \A i \in 1 .. 1 + Len(s) : (<<o>> \o s)[i] = IF i <= 1 THEN <<o>>[i] ELSE s[i - 1]
  BY <1>1, ConcatProperties
<1>4. DOMAIN (<<o>> \o s) = 1 .. Len(s) + 1
  BY <1>2, <1>3, LenProperties
<1> QED
  BY <1>1, <1>2, <1>3, <1>4

\* An element goes.
LEMMA RemoveAtFacts ==
  ASSUME NEW S, NEW s \in Seq(S), NEW i \in DOMAIN s
  PROVE  /\ Len(s) \in Nat \ {0} /\ DOMAIN s = 1 .. Len(s)
         /\ RemoveAt(s, i) \in Seq(S)
         /\ Len(RemoveAt(s, i)) = Len(s) - 1
         /\ DOMAIN RemoveAt(s, i) = 1 .. Len(s) - 1
         /\ \A j \in 1 .. Len(s) - 1 : RemoveAt(s, i)[j] = s[IF j < i THEN j ELSE j + 1]
<1>1. Len(s) \in Nat \ {0} /\ DOMAIN s = 1 .. Len(s) /\ i \in 1 .. Len(s)
  BY LenProperties
<1>2. \A j \in 1 .. Len(s) : s[j] \in S
  BY ElementOfSeq
<1> DEFINE a == SubSeq(s, 1, i - 1)
           b == SubSeq(s, i + 1, Len(s))
<1>3. a \in Seq(S) /\ Len(a) = i - 1 /\ \A j \in 1 .. i - 1 : a[j] = s[j]
  BY <1>1, <1>2, SubSeqProperties
<1>4. b \in Seq(S) /\ Len(b) = Len(s) - i /\ \A j \in 1 .. Len(s) - i : b[j] = s[j + i]
  BY <1>1, <1>2, SubSeqProperties
<1> HIDE DEF a, b
<1>5. /\ a \o b \in Seq(S) /\ Len(a \o b) = Len(a) + Len(b)
      /\ \A j \in 1 .. Len(a) + Len(b) :
           (a \o b)[j] = IF j <= Len(a) THEN a[j] ELSE b[j - Len(a)]
  BY <1>3, <1>4, ConcatProperties
<1>6. Len(a) + Len(b) = Len(s) - 1
  BY <1>1, <1>3, <1>4
<1>7. \A j \in 1 .. Len(s) - 1 : (a \o b)[j] = s[IF j < i THEN j ELSE j + 1]
  <2> TAKE j \in 1 .. Len(s) - 1
  <2>1. CASE j < i
    BY <1>1, <1>3, <1>6, <1>5, <2>1
  <2>2. CASE ~(j < i)
    <3>1. j - (i - 1) \in 1 .. Len(s) - i /\ (j - (i - 1)) + i = j + 1
      BY <1>1, <2>2
    <3>2. (a \o b)[j] = b[j - (i - 1)]
      BY <1>1, <1>3, <1>6, <1>5, <2>2
    <3> QED
      BY <1>4, <2>2, <3>1, <3>2
  <2> QED
    BY <2>1, <2>2
<1>8. RemoveAt(s, i) = a \o b
  BY DEF RemoveAt, a, b
<1>9. DOMAIN RemoveAt(s, i) = 1 .. Len(s) - 1
  BY <1>6, <1>8, <1>5, LenProperties
<1> QED
  BY <1>1, <1>6, <1>7, <1>8, <1>9, <1>5

\* The head becomes the last.
LEMMA RotateFacts ==
  ASSUME NEW S, NEW s \in Seq(S), s # << >>
  PROVE  LET t == Append(Tail(s), Head(s))
         IN  /\ Len(s) \in Nat \ {0} /\ DOMAIN s = 1 .. Len(s) /\ Head(s) = s[1]
             /\ Head(s) \in S
             /\ t \in Seq(S) /\ Len(t) = Len(s) /\ DOMAIN t = 1 .. Len(s)
             /\ \A j \in 1 .. Len(s) - 1 : t[j] = s[j + 1]
             /\ t[Len(s)] = s[1]
<1>1. Len(s) \in Nat \ {0} /\ DOMAIN s = 1 .. Len(s)
  BY EmptySeq, LenProperties
<1>2. Head(s) \in S /\ Tail(s) \in Seq(S) /\ Len(Tail(s)) = Len(s) - 1
      /\ \A i \in 1 .. Len(s) - 1 : Tail(s)[i] = s[i + 1]
  BY HeadTailProperties
<1>3. Head(s) = s[1]
  OBVIOUS
<1> DEFINE t == Append(Tail(s), Head(s))
<1>4. /\ t \in Seq(S) /\ Len(t) = Len(s) - 1 + 1 /\ t[Len(s) - 1 + 1] = Head(s)
      /\ \A j \in 1 .. Len(s) - 1 : t[j] = Tail(s)[j]
  BY <1>2, AppendProperties
<1>5. DOMAIN t = 1 .. Len(s)
  BY <1>1, <1>4, LenProperties
<1> QED
  BY <1>1, <1>2, <1>3, <1>4, <1>5

-----------------------------------------------------------------------------


\* Those that were processed are at the end of the list: no more of them than
\* num_last_processed says.
VisitedAtEnd ==
  \A i \in DOMAIN objList : objList[i] \in visited => i > Len(objList) - processed

IInv == TypeOK /\ Len(objList) <= loads /\ VisitedAtEnd

\* TypeOK in three parts: the lists, where process_objects() is, the flags.
ListsOK ==
  /\ objList \in Seq(Objects) /\ IsInjective(objList)
  /\ newlyDestructed \cup destructed \subseteq Objects
  /\ newlyDestructed \cap destructed = {}
  /\ \A i \in DOMAIN objList : objList[i] \notin newlyDestructed \cup destructed
  /\ refs \in [Objects -> 0 .. MaxRefs]
  /\ due \cup visited \subseteq Objects
  /\ \A o \in due : Contains(objList, o)

PlaceOK ==
  /\ pc \in {"backend", "loop", "visit", "unused", "reset", "cleanup", "swap"}
  /\ obj \in Objects \cup {None} /\ (obj = None <=> pc = "backend" \/ processed = 0)
  /\ processed \in 0 .. MaxLoads /\ loads \in 1 .. MaxLoads
  /\ clock \in {"enough", "running", "over"}

FlagsOK == didReset \in BOOLEAN /\ didSwap \in BOOLEAN /\ lastRefGone \in BOOLEAN

LEMMA TypeOKParts ==
  /\ TypeOK <=> ListsOK /\ PlaceOK /\ FlagsOK
  /\ TypeOK' <=> ListsOK' /\ PlaceOK' /\ FlagsOK'
BY Zenon DEF TypeOK, ListsOK, PlaceOK, FlagsOK

-----------------------------------------------------------------------------
(* The steps.                                                              *)

LEMMA ListFacts ==
  ASSUME IInv
  PROVE  /\ objList \in Seq(Objects) /\ Len(objList) \in Nat
         /\ DOMAIN objList = 1 .. Len(objList)
         /\ loads \in 1 .. MaxLoads /\ processed \in 0 .. MaxLoads /\ MaxLoads \in Nat
         /\ Master \in Objects /\ None \notin Objects
         /\ \A o \in Objects : Contains(objList, o) <=>
                                 \E i \in 1 .. Len(objList) : objList[i] = o
BY LenProperties, ProcessObjectsAssumption DEF IInv, TypeOK, Contains

\* An object that is in none of the lists of destructed ones any more and was
\* not in the object list comes to its head.
LEMMA PrependKeeps ==
  ASSUME IInv, NEW o \in Objects, ~Contains(objList, o), loads < MaxLoads,
         objList' = <<o>> \o objList, loads' = loads + 1, visited' = visited \ {o},
         newlyDestructed' \subseteq newlyDestructed \ {o},
         destructed' \subseteq destructed \ {o},
         refs' \in [Objects -> 0 .. MaxRefs],
         UNCHANGED <<due, pc, obj, processed, didReset, didSwap, clock>>,
         lastRefGone' \in BOOLEAN
  PROVE  IInv'
<1>1. /\ objList' \in Seq(Objects) /\ Len(objList') = Len(objList) + 1
      /\ DOMAIN objList' = 1 .. Len(objList) + 1 /\ objList'[1] = o
      /\ \A i \in 2 .. Len(objList) + 1 : objList'[i] = objList[i - 1]
  BY ListFacts, PrependFacts
<1>2. \A i \in 1 .. Len(objList) : objList[i] # o
  BY ListFacts
<1>3. IsInjective(objList')
  <2>1. \A j, k \in 1 .. Len(objList) : objList[j] = objList[k] => j = k
    BY ListFacts DEF IInv, TypeOK, IsInjective
  <2>2. ASSUME NEW j \in 1 .. Len(objList) + 1, NEW k \in 1 .. Len(objList) + 1,
               objList'[j] = objList'[k]
        PROVE  j = k
    <3>1. CASE j = 1
      BY SMTT(30), <1>1, <1>2, <2>2, <3>1, ListFacts
    <3>2. CASE k = 1
      BY <1>1, <1>2, <2>2, <3>2, ListFacts
    <3>3. CASE j # 1 /\ k # 1
      <4>1. j - 1 \in 1 .. Len(objList) /\ k - 1 \in 1 .. Len(objList)
        BY <3>3, ListFacts
      <4>2. objList[j - 1] = objList[k - 1]
        BY <1>1, <2>2, <3>3, ListFacts
      <4> QED
        BY <2>1, <4>1, <4>2
    <3> QED
      BY <3>1, <3>2, <3>3
  <2> QED
    BY <1>1, <2>2 DEF IsInjective
<1>4. \A i \in DOMAIN objList' : objList'[i] \notin newlyDestructed' \cup destructed'
  BY <1>1, ListFacts DEF IInv, TypeOK
<1>5. \A p \in due' : Contains(objList', p)
  <2> SUFFICES ASSUME NEW p \in due
               PROVE  Contains(objList', p)
    OBVIOUS
  <2>1. PICK i \in 1 .. Len(objList) : objList[i] = p
    BY DEF IInv, TypeOK, Contains
  <2>2. i + 1 \in 1 .. Len(objList') /\ objList'[i + 1] = p
    BY <1>1, <2>1, ListFacts
  <2> QED
    BY <2>2 DEF Contains
<1>6. TypeOK'
  <2>1. ListsOK'
    BY <1>1, <1>3, <1>4, <1>5, ListFacts, TypeOKParts DEF IInv, ListsOK
  <2>2. PlaceOK'
    BY ListFacts, TypeOKParts DEF IInv, PlaceOK
  <2>3. FlagsOK'
    BY Zenon, TypeOKParts DEF IInv, FlagsOK
  <2> QED
    BY <2>1, <2>2, <2>3, TypeOKParts
<1>7. VisitedAtEnd'
  BY <1>1, ListFacts DEF IInv, VisitedAtEnd
<1> QED
  BY <1>1, <1>6, <1>7, ListFacts DEF IInv

LEMMA LoadKeeps ==
  ASSUME IInv, NEW o \in Objects, Load(o)
  PROVE  IInv'
<1>1. refs' \in [Objects -> 0 .. MaxRefs]
  BY ProcessObjectsAssumption DEF IInv, TypeOK, Load
<1>2. o \notin newlyDestructed /\ o \notin destructed /\ ~Contains(objList, o)
  BY DEF Load, Exists
<1> QED
  BY <1>1, <1>2, PrependKeeps DEF Load, IInv, TypeOK

LEMMA ReactivateMasterKeeps ==
  ASSUME IInv, ReactivateMaster
  PROVE  IInv'
<1>1. ~Contains(objList, Master)
  BY ZenonT(200), ListFacts DEF ReactivateMaster, IInv, TypeOK
<1>2. refs' \in [Objects -> 0 .. MaxRefs] /\ lastRefGone' \in BOOLEAN
  BY DEF ReactivateMaster, IInv, TypeOK
<1> QED
  BY <1>1, <1>2, ListFacts, PrependKeeps DEF ReactivateMaster

\* References come and go.
LEMMA RefsKeep ==
  ASSUME IInv, NEW o \in Objects, RefObject(o) \/ FreeObject(o)
  PROVE  IInv'
<1>1. UNCHANGED <<lists, due, loads, pc, obj, counters, clock>>
  BY DEF RefObject, FreeObject
<1>2. refs \in [Objects -> 0 .. MaxRefs] /\ MaxRefs \in Nat
  BY ProcessObjectsAssumption DEF IInv, TypeOK
<1>3. refs' \in [Objects -> 0 .. MaxRefs]
  <2>1. CASE RefObject(o)
    BY <1>2, <2>1 DEF RefObject
  <2>2. CASE FreeObject(o)
    BY <1>2, <2>2 DEF FreeObject
  <2> QED
    BY <2>1, <2>2
<1>4. lastRefGone' \in BOOLEAN
  BY Zenon DEF RefObject, FreeObject, IInv, TypeOK
<1> QED
  BY <1>1, <1>3, <1>4 DEF IInv, TypeOK, VisitedAtEnd, lists, counters

LEMMA DestructKeeps ==
  ASSUME IInv, NEW o \in Objects, Destruct(o)
  PROVE  IInv'
<1>1. PICK i \in DOMAIN objList : objList[i] = o /\ objList' = RemoveAt(objList, i)
  BY DEF Destruct
<1>2. /\ Len(objList) \in Nat \ {0} /\ i \in 1 .. Len(objList)
      /\ objList' \in Seq(Objects) /\ Len(objList') = Len(objList) - 1
      /\ DOMAIN objList' = 1 .. Len(objList) - 1
      /\ \A j \in 1 .. Len(objList) - 1 :
           objList'[j] = objList[IF j < i THEN j ELSE j + 1]
  BY <1>1, ListFacts, RemoveAtFacts
<1>3. \A j, k \in 1 .. Len(objList) : objList[j] = objList[k] => j = k
  BY ListFacts DEF IInv, TypeOK, IsInjective
<1>4. IsInjective(objList')
  BY <1>2, <1>3 DEF IsInjective
<1>5. /\ newlyDestructed' = newlyDestructed \cup {o} /\ destructed' = destructed
      /\ o \notin destructed
      /\ \A j \in DOMAIN objList' : objList'[j] \notin newlyDestructed' \cup destructed'
  <2>1. \A j \in 1 .. Len(objList) : objList[j] \notin newlyDestructed \cup destructed
    BY ListFacts DEF IInv, TypeOK
  <2>2. \A j \in 1 .. Len(objList) - 1 :
          \E k \in 1 .. Len(objList) : k # i /\ objList'[j] = objList[k]
    <3> TAKE j \in 1 .. Len(objList) - 1
    <3>1. (IF j < i THEN j ELSE j + 1) \in 1 .. Len(objList) \ {i}
      BY <1>2
    <3> QED
      BY <1>2, <3>1
  <2>3. newlyDestructed' = newlyDestructed \cup {o} /\ destructed' = destructed
    BY DEF Destruct
  <2> QED
    BY <1>1, <1>2, <1>3, <2>1, <2>2, <2>3
<1>6. \A p \in due' : Contains(objList', p)
  <2> SUFFICES ASSUME NEW p \in due \ {o}
               PROVE  Contains(objList', p)
    BY DEF Destruct
  <2>1. PICK j \in 1 .. Len(objList) : objList[j] = p
    BY DEF IInv, TypeOK, Contains
  <2>2. j # i
    BY <1>1, <2>1
  <2>3. CASE j < i
    <3>1. j \in 1 .. Len(objList') /\ objList'[j] = p
      BY <1>2, <2>1, <2>3
    <3> QED
      BY <3>1 DEF Contains
  <2>4. CASE j > i
    <3>1. j - 1 \in 1 .. Len(objList') /\ objList'[j - 1] = p
      BY <1>2, <2>1, <2>4
    <3> QED
      BY <3>1 DEF Contains
  <2> QED
    BY <1>2, <2>1, <2>2, <2>3, <2>4
<1>7. UNCHANGED <<refs, lastRefGone, loads, pc, obj, counters, clock>>
  BY DEF Destruct
<1>8. TypeOK'
  BY <1>2, <1>4, <1>5, <1>6, <1>7 DEF Destruct, IInv, TypeOK, counters
<1>9. VisitedAtEnd'
  <2>1. visited' = visited /\ processed' = processed /\ processed \in Nat
    BY <1>7 DEF counters, IInv, TypeOK
  <2> SUFFICES ASSUME NEW j \in 1 .. Len(objList) - 1, objList'[j] \in visited
               PROVE  j > Len(objList) - 1 - processed
    BY <1>2, <2>1 DEF VisitedAtEnd
  <2>2. CASE j < i
    <3>1. j \in DOMAIN objList /\ objList[j] \in visited
      <4>1. objList'[j] = objList[j]
        BY <1>2, <2>2
      <4> QED
        BY <1>2, <2>2, <4>1, ListFacts
    <3>2. j > Len(objList) - processed
      BY <3>1 DEF IInv, VisitedAtEnd
    <3> QED
      BY <2>1, <3>2, ListFacts
  <2>3. CASE j >= i
    <3>1. j + 1 \in DOMAIN objList /\ objList[j + 1] \in visited
      <4>1. objList'[j] = objList[j + 1]
        BY <1>2, <2>3
      <4>2. j + 1 \in 1 .. Len(objList)
        BY <1>2
      <4> QED
        BY <4>1, <4>2, ListFacts
    <3>2. j + 1 > Len(objList) - processed
      BY <3>1 DEF IInv, VisitedAtEnd
    <3> QED
      BY <2>1, <3>2, ListFacts
  <2> QED
    BY <1>2, <2>2, <2>3
<1> QED
  BY <1>2, <1>7, <1>8, <1>9, ListFacts DEF IInv

\* Destructed objects are freed or go to the second list.
LEMMA FreedKeep ==
  ASSUME IInv, CleanupStuff \/ GarbageCollection \/ CallCleanUp
  PROVE  IInv'
<1>1. /\ newlyDestructed' = {} /\ destructed' \subseteq newlyDestructed \cup destructed
      /\ UNCHANGED <<objList, refs, due, loads, obj, processed, visited, didReset, clock>>
      /\ lastRefGone' \in BOOLEAN /\ didSwap' \in BOOLEAN
      /\ pc' = pc \/ (pc = "unused" /\ pc' = "cleanup")
  BY DEF CleanupStuff, GarbageCollection, CallCleanUp, Kept, RemoveDestructed, counters,
         IInv, TypeOK
<1> QED
  BY <1>1 DEF IInv, TypeOK, VisitedAtEnd

LEMMA TimePassesKeeps ==
  ASSUME IInv, NEW o \in Objects, TimePasses(o)
  PROVE  IInv'
BY DEF TimePasses, IInv, TypeOK, VisitedAtEnd, lists, counters

LEMMA StartKeeps ==
  ASSUME IInv, NEW c \in {"enough", "running", "over"}, Start(c)
  PROVE  IInv'
<1>1. /\ destructed' \subseteq destructed /\ lastRefGone' = FALSE
      /\ processed' = 0 /\ visited' = {} /\ didReset' = FALSE /\ didSwap' = FALSE
      /\ UNCHANGED <<objList, newlyDestructed, refs, due, loads, obj>>
      /\ pc = "backend" /\ pc' = "loop" /\ clock' = c
  BY DEF Start, Kept, RemoveDestructed
<1>2. TypeOK'
  <2>1. ListsOK'
    BY <1>1, TypeOKParts DEF IInv, ListsOK
  <2>2. PlaceOK'
    BY <1>1, ListFacts, TypeOKParts DEF IInv, PlaceOK
  <2>3. FlagsOK'
    BY <1>1, Zenon DEF FlagsOK
  <2> QED
    BY <2>1, <2>2, <2>3, TypeOKParts
<1> QED
  BY <1>1, <1>2 DEF IInv, VisitedAtEnd

\* The object to visit was not visited before, and the visited ones are at the
\* end of the list again.
LEMMA VisitKeeps ==
  ASSUME IInv, Visit
  PROVE  IInv' /\ Head(objList) \notin visited
<1>1. objList # << >> /\ processed < Len(objList)
  BY DEF Visit, GoesOn
<1>2. /\ Len(objList) \in Nat \ {0} /\ Head(objList) = objList[1] /\ Head(objList) \in Objects
      /\ objList' \in Seq(Objects) /\ Len(objList') = Len(objList)
      /\ DOMAIN objList' = 1 .. Len(objList)
      /\ \A j \in 1 .. Len(objList) - 1 : objList'[j] = objList[j + 1]
      /\ objList'[Len(objList)] = objList[1]
  BY <1>1, ListFacts, RotateFacts DEF Visit
<1>3. Head(objList) \notin visited
  BY <1>1, <1>2, ListFacts DEF IInv, VisitedAtEnd
<1>4. \A j, k \in 1 .. Len(objList) : objList[j] = objList[k] => j = k
  BY ListFacts DEF IInv, TypeOK, IsInjective
<1>5. \A j \in 1 .. Len(objList) :
        \E k \in 1 .. Len(objList) : objList'[j] = objList[k]
  BY <1>2
<1>6. \A j \in 1 .. Len(objList) :
        objList'[IF j = 1 THEN Len(objList) ELSE j - 1] = objList[j]
  BY <1>2
<1>7. IsInjective(objList')
  BY <1>2, <1>4 DEF IsInjective
<1>8. \A p \in due : Contains(objList', p)
  <2> SUFFICES ASSUME NEW p \in due
               PROVE  Contains(objList', p)
    OBVIOUS
  <2>1. PICK j \in 1 .. Len(objList) : objList[j] = p
    BY DEF IInv, TypeOK, Contains
  <2>2. (IF j = 1 THEN Len(objList) ELSE j - 1) \in 1 .. Len(objList')
    BY <1>2, <2>1
  <2> QED
    BY <1>6, <2>1, <2>2 DEF Contains
<1>9. UNCHANGED <<newlyDestructed, destructed, refs, lastRefGone, due, loads, didReset,
                  didSwap, clock>>
      /\ pc' = "visit" /\ obj' = Head(objList) /\ processed' = processed + 1
      /\ visited' = visited \cup {Head(objList)}
  BY DEF Visit
<1>10. \A j \in DOMAIN objList' : objList'[j] \notin newlyDestructed' \cup destructed'
  BY <1>2, <1>5, <1>9, ListFacts DEF IInv, TypeOK
<1>11. TypeOK'
  BY SMTT(120), <1>1, <1>2, <1>7, <1>8, <1>9, <1>10, ListFacts DEF IInv, TypeOK
<1>12. VisitedAtEnd'
  <2>1. ASSUME NEW j \in 1 .. Len(objList), objList'[j] \in visited'
        PROVE  j > Len(objList) - (processed + 1)
    <3>1. CASE j = Len(objList)
      BY <3>1, ListFacts
    <3>2. CASE j # Len(objList)
      <4>0. Len(objList) \in Nat
        BY <1>2
      <4>1. j \in 1 .. Len(objList) - 1 /\ j + 1 \in 1 .. Len(objList) /\ j + 1 # 1
        BY <3>2, <4>0
      <4>2. objList'[j] = objList[j + 1]
        BY <1>2, <4>1
      <4>3. 1 \in 1 .. Len(objList)
        BY <1>2
      <4>4. objList[j + 1] # objList[1]
        BY <1>4, <4>1, <4>3
      <4>5. objList[j + 1] \in visited
        BY <1>2, <1>9, <2>1, <4>2, <4>4
      <4>6. j + 1 > Len(objList) - processed
        BY <4>1, <4>5, ListFacts DEF IInv, VisitedAtEnd
      <4> QED
        BY <4>6, ListFacts
    <3> QED
      BY <3>1, <3>2
  <2> QED
    BY <1>2, <1>9, <2>1 DEF VisitedAtEnd
<1> QED
  BY <1>2, <1>3, <1>9, <1>11, <1>12 DEF IInv

\* The steps that leave the lists alone.
LEMMA VisitStepsKeep ==
  ASSUME IInv,
         \/ Alarm \/ ResetVirtually \/ CallReset \/ ResetFailsToLoad \/ NoReset
         \/ NoCleanUp \/ CallReturns \/ CallFails \/ SwapOut \/ NoSwap
  PROVE  IInv' /\ processed' = processed
<1>1. /\ UNCHANGED <<lists, refs, lastRefGone, loads, obj, processed, visited>>
      /\ due' \in {due, due \ {obj}}
      /\ didReset' \in {didReset, TRUE} /\ didSwap' \in {didSwap, TRUE}
      /\ clock' \in {clock, "over"}
      /\ \/ pc' = pc
         \/ /\ pc # "backend"
            /\ pc' \in {"loop", "visit", "unused", "reset", "cleanup", "swap"}
  BY DEF Alarm, ResetVirtually, CallReset, ResetFailsToLoad, NoReset, NoCleanUp,
         CallReturns, CallFails, SwapOut, NoSwap, counters
<1> QED
  BY ZenonT(300), <1>1 DEF IInv, TypeOK, VisitedAtEnd, lists

LEMMA EndKeeps ==
  ASSUME IInv, End
  PROVE  IInv'
<1>1. TypeOK'
  <2>1. ListsOK'
    BY TypeOKParts DEF End, IInv, ListsOK, lists
  <2>2. PlaceOK'
    BY ListFacts, TypeOKParts DEF End, IInv, PlaceOK
  <2>3. FlagsOK'
    BY Zenon, TypeOKParts DEF End, IInv, FlagsOK
  <2> QED
    BY <2>1, <2>2, <2>3, TypeOKParts
<1> QED
  BY <1>1 DEF End, IInv, VisitedAtEnd, lists

-----------------------------------------------------------------------------
(* Theorems.                                                               *)

\* The invariant, and with it that a visited object was not visited before.
LEMMA NextKeeps ==
  ASSUME IInv, [Next]_vars
  PROVE  IInv' /\ (processed' = processed + 1 => Head(objList) \notin visited)
<1>1. processed \in Nat
  BY ListFacts
<1>2. CASE \E o \in Objects : Load(o) \/ RefObject(o) \/ FreeObject(o) \/ Destruct(o)
  <2>1. processed' = processed
    BY <1>2 DEF Load, RefObject, FreeObject, Destruct, counters
  <2> QED
    BY <1>1, <1>2, <2>1, LoadKeeps, RefsKeep, DestructKeeps
<1>3. CASE ReactivateMaster
  BY <1>1, <1>3, ReactivateMasterKeeps DEF ReactivateMaster
<1>4. CASE CleanupStuff \/ GarbageCollection \/ CallCleanUp
  <2>1. processed' = processed
    BY <1>4 DEF CleanupStuff, GarbageCollection, CallCleanUp, counters
  <2> QED
    BY <1>1, <1>4, <2>1, FreedKeep
<1>5. CASE \E o \in Objects : TimePasses(o)
  BY <1>1, <1>5, TimePassesKeeps DEF TimePasses, counters
<1>6. CASE \E c \in {"enough", "running", "over"} : Start(c)
  <2>1. processed' # processed + 1
    BY <1>1, <1>6 DEF Start
  <2> QED
    BY <1>6, <2>1, StartKeeps
<1>7. CASE Visit
  BY <1>7, VisitKeeps
<1>8. CASE \/ Alarm \/ ResetVirtually \/ CallReset \/ ResetFailsToLoad \/ NoReset
           \/ NoCleanUp \/ CallReturns \/ CallFails \/ SwapOut \/ NoSwap
  BY <1>1, <1>8, VisitStepsKeep
<1>9. CASE End
  <2>1. processed' # processed + 1
    BY <1>1, <1>9 DEF End
  <2> QED
    BY <1>9, <2>1, EndKeeps
<1>10. CASE UNCHANGED vars
  BY <1>1, <1>10 DEF vars, lists, counters, IInv, TypeOK, VisitedAtEnd
<1> QED
  BY <1>2, <1>3, <1>4, <1>5, <1>6, <1>7, <1>8, <1>9, <1>10 DEF Next, Step

LEMMA InitHolds == Init => IInv
<1> SUFFICES ASSUME Init
             PROVE  IInv
  OBVIOUS
<1>1. Master \in Objects /\ MaxRefs \in Nat /\ MaxLoads \in Nat \ {0}
  BY ProcessObjectsAssumption
<1>2. objList = <<Master>> /\ objList \in Seq(Objects) /\ Len(objList) = 1
      /\ DOMAIN objList = 1 .. 1
  BY <1>1 DEF Init
<1>3. IsInjective(objList)
  BY <1>2 DEF IsInjective
<1>4. TypeOK
  <2>1. ListsOK
    BY <1>1, <1>2, <1>3 DEF Init, ListsOK
  <2>2. PlaceOK
    BY <1>1 DEF Init, PlaceOK
  <2>3. FlagsOK
    BY Zenon DEF Init, FlagsOK
  <2> QED
    BY <2>1, <2>2, <2>3, TypeOKParts
<1> QED
  BY <1>2, <1>4 DEF Init, IInv, VisitedAtEnd

\* The invariant holds in every reachable state.
THEOREM Invariance == Spec => []IInv
BY InitHolds, NextKeeps, PTL DEF Spec

\* No object is in two lists or twice in one, whatever is loaded, destructed,
\* taken back and freed.
THEOREM TypeCorrect == Spec => []TypeOK
<1>1. IInv => TypeOK
  BY DEF IInv
<1> QED
  BY <1>1, Invariance, PTL

\* No call of process_objects() handles an object twice.
THEOREM NobodyIsProcessedTwice == Spec => NobodyTwice
<1>1. IInv /\ [Next]_vars => [processed' = processed + 1 => Head(objList) \notin visited]_vars
  BY NextKeeps
<1> QED
  BY <1>1, Invariance, PTL DEF Spec, NobodyTwice
=============================================================================
