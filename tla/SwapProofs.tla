----------------------------- MODULE SwapProofs -----------------------------
(***************************************************************************)
(* Proofs about Swap: the list of blocks of the swap file stays in order,  *)
(* each used block is held by one program or one set of variables, and the *)
(* swapper cannot be seen, for any objects, values and sizes and a file    *)
(* that may grow to any size.  They are for ReadFails = FALSE: with TRUE   *)
(* the flag O_SWAPPED may be wrong, and the numbers in place of pointers   *)
(* are used as pointers.  First what swap_alloc() and swap_free() do to    *)
(* the list of blocks, for blocks of any size.                             *)
(***************************************************************************)
EXTENDS Swap, TLAPS, WellFoundedInduction, FiniteSetTheorems

\* The blocks lie one behind the other and leave no gap.
Tiled(s) ==
  /\ s.size \in Nat
  /\ \A b \in DOMAIN s.blk : b \in Nat /\ s.blk[b] \in Int \ {0} /\ EndOf(s, b) <= s.size
  /\ \A b, c \in DOMAIN s.blk : b < c => EndOf(s, b) <= c
  /\ \A i \in 0 .. s.size - 1 : \E b \in DOMAIN s.blk : b <= i /\ i < EndOf(s, b)

\* No free block follows a free one, except that one may follow a block of X.
NoTwoFree(s, X) ==
  \A b \in DOMAIN s.blk \ X :
    s.blk[b] > 0 /\ EndOf(s, b) \in DOMAIN s.blk => s.blk[EndOf(s, b)] < 0

\* The rover, the element before it and its offset agree.
RoverOK(s) ==
  /\ s.rover \in DOMAIN s.blk \cup {Nil}
  /\ s.previous \in DOMAIN s.blk \cup {Head}
  /\ NextOf(s, s.previous) = s.rover
  /\ s.offset = IF s.rover = Nil THEN s.size ELSE s.rover

ListOK(s) == Tiled(s) /\ NoTwoFree(s, {}) /\ RoverOK(s)

Used(s) == {b \in DOMAIN s.blk : s.blk[b] < 0}

-----------------------------------------------------------------------------
(* The list.                                                               *)

\* A set of natural numbers has a least element.
LEMMA LeastElement ==
  ASSUME NEW S \in SUBSET Nat, S # {}
  PROVE  Min(S) \in S /\ \A n \in S : Min(S) <= n
<1> DEFINE R == OpToRel(<, Nat)
<1>1. R = {ss \in Nat \X Nat : ss[1] < ss[2]}
  BY DEF OpToRel
<1>2. IsWellFoundedOn(R, Nat)
  BY NatLessThanWellFounded
<1> HIDE DEF R
<1>3. PICK x \in S : \A y \in S : <<y, x>> \notin R
  BY <1>2, WFMin
<1>4. \A y \in S : x <= y
  <2> TAKE y \in S
  <2>1. x \in Nat /\ y \in Nat
    OBVIOUS
  <2>2. ~(y < x)
    BY <1>1, <1>3, <2>1
  <2> QED
    BY <2>1, <2>2
<1> QED
  BY <1>3, <1>4 DEF Min

\* The places of blocks are no special values, and they have an extent.
LEMMA BlockFacts ==
  ASSUME NEW s, Tiled(s), NEW b \in DOMAIN s.blk
  PROVE  /\ b \in Nat /\ b # Head /\ b # Nil /\ s.blk[b] \in Int /\ s.blk[b] # 0
         /\ EndOf(s, b) = b + (IF s.blk[b] < 0 THEN -s.blk[b] ELSE s.blk[b])
         /\ EndOf(s, b) \in Nat /\ b < EndOf(s, b) /\ EndOf(s, b) <= s.size
         /\ s.size \in Nat
BY DEF Tiled, EndOf, Abs, Head, Nil

\* Behind a block comes another one or the end of the file.
LEMMA NextIsBlock ==
  ASSUME NEW s, Tiled(s), NEW b \in DOMAIN s.blk
  PROVE  /\ EndOf(s, b) \in DOMAIN s.blk \/ EndOf(s, b) = s.size
         /\ s.size \notin DOMAIN s.blk
         /\ NextOf(s, b) = IF EndOf(s, b) = s.size THEN Nil ELSE EndOf(s, b)
<1> DEFINE e == EndOf(s, b)
<1>1. e \in Nat /\ b < e /\ e <= s.size /\ s.size \in Nat /\ b \in Nat
  BY BlockFacts
<1>2. s.size \notin DOMAIN s.blk
  <2> SUFFICES ASSUME s.size \in DOMAIN s.blk
               PROVE  FALSE
    OBVIOUS
  <2>1. s.size < EndOf(s, s.size) /\ EndOf(s, s.size) <= s.size /\ EndOf(s, s.size) \in Nat
    BY BlockFacts
  <2> QED
    BY <1>1, <2>1
<1>3. ASSUME e # s.size
      PROVE  e \in DOMAIN s.blk
  <2>1. e \in 0 .. s.size - 1
    BY <1>1, <1>3
  <2>2. PICK c \in DOMAIN s.blk : c <= e /\ e < EndOf(s, c)
    BY <2>1 DEF Tiled
  <2>3. c \in Nat /\ EndOf(s, c) \in Nat
    BY BlockFacts
  <2>4. b < c => e <= c
    BY DEF Tiled
  <2>5. c < b => EndOf(s, c) <= b
    BY DEF Tiled
  <2>6. c = e
    BY <1>1, <2>2, <2>3, <2>4, <2>5
  <2> QED
    BY <2>6
<1> QED
  BY <1>1, <1>2, <1>3 DEF NextOf

LEMMA FirstIsZero ==
  ASSUME NEW s, Tiled(s)
  PROVE  /\ s.size # 0 => 0 \in DOMAIN s.blk
         /\ s.size = 0 => DOMAIN s.blk = {}
         /\ NextOf(s, Head) = IF s.size = 0 THEN Nil ELSE 0
<1>1. s.size # 0 => 0 \in DOMAIN s.blk
  <2> SUFFICES ASSUME s.size # 0
               PROVE  0 \in DOMAIN s.blk
    OBVIOUS
  <2>1. 0 \in 0 .. s.size - 1
    BY DEF Tiled
  <2>2. PICK b \in DOMAIN s.blk : b <= 0
    BY <2>1 DEF Tiled
  <2>3. b = 0
    BY <2>2, BlockFacts
  <2> QED
    BY <2>3
<1>2. ASSUME s.size = 0, NEW b \in DOMAIN s.blk
      PROVE  FALSE
  BY <1>2, BlockFacts
<1> QED
  BY <1>1, <1>2 DEF NextOf, EndOf

\* Every element but swap_list has one before it.
LEMMA BeforeFacts ==
  ASSUME NEW s, Tiled(s), NEW b \in DOMAIN s.blk \cup {Nil}
  PROVE  BeforeOf(s, b) \in DOMAIN s.blk \cup {Head} /\ NextOf(s, BeforeOf(s, b)) = b
<1>1. \E p \in DOMAIN s.blk \cup {Head} : NextOf(s, p) = b
  <2>1. CASE b = 0 \/ (b = Nil /\ s.size = 0)
    <3>1. NextOf(s, Head) = b
      <4>1. CASE b = 0
        <5>1. b \in DOMAIN s.blk
          BY <4>1 DEF Nil
        <5> QED
          BY <4>1, <5>1, FirstIsZero
      <4>2. CASE b = Nil /\ s.size = 0
        BY <4>2, FirstIsZero
      <4> QED
        BY <2>1, <4>1, <4>2
    <3> QED
      BY <3>1
  <2>2. CASE b \in DOMAIN s.blk /\ b # 0
    <3>1. b \in Nat /\ b - 1 \in 0 .. s.size - 1
      BY <2>2, BlockFacts
    <3>2. PICK c \in DOMAIN s.blk : c <= b - 1 /\ b - 1 < EndOf(s, c)
      BY <3>1 DEF Tiled
    <3>3. c \in Nat /\ EndOf(s, c) \in Nat
      BY BlockFacts
    <3>4. EndOf(s, c) <= b
      BY <2>2, <3>1, <3>2, <3>3 DEF Tiled
    <3>5. EndOf(s, c) = b
      BY <3>1, <3>2, <3>3, <3>4
    <3>6. NextOf(s, c) = b
      BY <2>2, <3>5 DEF NextOf
    <3> QED
      BY <3>6
  <2>3. CASE b = Nil /\ s.size # 0
    <3>1. s.size \in Nat /\ s.size - 1 \in 0 .. s.size - 1
      BY <2>3 DEF Tiled
    <3>2. PICK c \in DOMAIN s.blk : c <= s.size - 1 /\ s.size - 1 < EndOf(s, c)
      BY <3>1 DEF Tiled
    <3>3. EndOf(s, c) = s.size
      BY <3>1, <3>2, BlockFacts
    <3>4. NextOf(s, c) = b
      BY <2>3, <3>3, NextIsBlock
    <3> QED
      BY <3>4
  <2> QED
    BY <2>1, <2>2, <2>3
<1> QED
  BY <1>1 DEF BeforeOf

\* And only one.
LEMMA OneBefore ==
  ASSUME NEW s, Tiled(s), NEW b \in DOMAIN s.blk, NEW p \in DOMAIN s.blk \cup {Head},
         NEW q \in DOMAIN s.blk \cup {Head}, NextOf(s, p) = b, NextOf(s, q) = b
  PROVE  p = q
<1>1. b \in Nat /\ b # Nil
  BY BlockFacts
<1>2. EndOf(s, p) = b /\ EndOf(s, q) = b
  BY <1>1 DEF NextOf
<1>3. CASE p # Head /\ q # Head
  <2>1. /\ p \in Nat /\ q \in Nat /\ p < EndOf(s, p) /\ q < EndOf(s, q)
        /\ p < q => EndOf(s, p) <= q
        /\ q < p => EndOf(s, q) <= p
    BY <1>3, BlockFacts DEF Tiled
  <2> QED
    BY <1>1, <1>2, <2>1
<1>4. CASE p = Head /\ q # Head
  BY <1>1, <1>2, <1>4, BlockFacts DEF EndOf
<1>5. CASE p # Head /\ q = Head
  BY <1>1, <1>2, <1>5, BlockFacts DEF EndOf
<1> QED
  BY <1>3, <1>4, <1>5

\* What counts of a list: its blocks and its end.
LEMMA SameList ==
  ASSUME NEW s, NEW t, t.blk = s.blk, t.size = s.size
  PROVE  /\ \A b : EndOf(t, b) = EndOf(s, b) /\ NextOf(t, b) = NextOf(s, b)
         /\ \A b : BeforeOf(t, b) = BeforeOf(s, b)
         /\ Tiled(t) <=> Tiled(s)
         /\ \A X : NoTwoFree(t, X) <=> NoTwoFree(s, X)
         /\ Used(t) = Used(s)
<1>1. \A b : EndOf(t, b) = EndOf(s, b) /\ NextOf(t, b) = NextOf(s, b)
  BY DEF EndOf, NextOf
<1> QED
  BY <1>1 DEF BeforeOf, Tiled, NoTwoFree, Used

-----------------------------------------------------------------------------
(* swap_alloc().                                                           *)

\* The static variables are all there, and the two modes are on or off.
Complete(s) ==
  DOMAIN s = {"blk", "rover", "previous", "offset", "size", "free",
              "numFree", "recycle", "compact"}
  /\ s = [f \in DOMAIN s |-> s[f]]
  /\ s.recycle \in BOOLEAN /\ s.compact \in BOOLEAN

\* What NewSpace() does to the list.
LEMMA NewSpaceIs ==
  ASSUME NEW s, Complete(s), Tiled(s), NEW len \in Nat \ {0}
  PROVE  LET t == NewSpace(s, len)
         IN  /\ Complete(t)
             /\ DOMAIN t.blk = DOMAIN s.blk \cup {s.size}
             /\ s.size \notin DOMAIN s.blk
             /\ t.blk[s.size] = -len
             /\ \A b \in DOMAIN s.blk : t.blk[b] = s.blk[b] /\ EndOf(t, b) = EndOf(s, b)
             /\ EndOf(t, s.size) = s.size + len /\ EndOf(t, Head) = 0
             /\ t.rover = IF s.rover = Nil THEN s.size ELSE s.rover
             /\ t.size = s.size + len
             /\ t.previous = s.previous /\ t.offset = s.offset
<1> DEFINE t == NewSpace(s, len)
           nb == [b \in DOMAIN s.blk \cup {s.size} |-> IF b = s.size THEN -len ELSE s.blk[b]]
<1>1. /\ Complete(t)
      /\ t.blk = nb
      /\ t.rover = IF s.rover = Nil THEN s.size ELSE s.rover
      /\ t.size = s.size + len
      /\ t.previous = s.previous /\ t.offset = s.offset
  BY DEF NewSpace, Complete
<1>2. s.size \notin DOMAIN s.blk /\ s.size \in Nat
  <2>1. s.size \in Nat
    BY DEF Tiled
  <2>2. \A b \in DOMAIN s.blk : b # s.size
    BY BlockFacts
  <2> QED
    BY <2>1, <2>2
<1>3. \A b \in DOMAIN s.blk : t.blk[b] = s.blk[b]
  BY <1>1, <1>2
<1>4. t.blk[s.size] = -len
  BY <1>1
<1>5. \A b \in DOMAIN s.blk : EndOf(t, b) = EndOf(s, b)
  BY <1>3 DEF EndOf
<1>6. EndOf(t, s.size) = s.size + len
  BY <1>2, <1>4 DEF EndOf, Abs, Head
<1>7. DOMAIN t.blk = DOMAIN s.blk \cup {s.size}
  BY <1>1
<1>8. EndOf(t, Head) = 0
  BY DEF EndOf
<1> HIDE DEF t, nb
<1> QED
  BY <1>1, <1>2, <1>3, <1>4, <1>5, <1>6, <1>7, <1>8 DEF t

\* A block at the end of the file keeps the list in order.
LEMMA NewSpaceKeeps ==
  ASSUME NEW s, Complete(s), ListOK(s), NEW len \in Nat \ {0}
  PROVE  LET t == NewSpace(s, len)
         IN  /\ Complete(t) /\ ListOK(t)
             /\ s.size \in DOMAIN t.blk /\ t.blk[s.size] = -len
             /\ s.size \notin Used(s) /\ Used(t) = Used(s) \cup {s.size}
             /\ \A b \in Used(s) : t.blk[b] = s.blk[b]
<1> DEFINE t == NewSpace(s, len)
<1>0. Tiled(s) /\ NoTwoFree(s, {}) /\ RoverOK(s)
  BY DEF ListOK
<1>1. /\ Complete(t)
      /\ DOMAIN t.blk = DOMAIN s.blk \cup {s.size}
      /\ s.size \notin DOMAIN s.blk
      /\ t.blk[s.size] = -len
      /\ \A b \in DOMAIN s.blk : t.blk[b] = s.blk[b] /\ EndOf(t, b) = EndOf(s, b)
      /\ EndOf(t, s.size) = s.size + len /\ EndOf(t, Head) = 0
      /\ t.rover = IF s.rover = Nil THEN s.size ELSE s.rover
      /\ t.size = s.size + len
      /\ t.previous = s.previous /\ t.offset = s.offset
  BY <1>0, NewSpaceIs
<1> HIDE DEF t
<1>2. s.size \in Nat
  BY <1>0 DEF Tiled
<1>3. \A b \in DOMAIN s.blk : /\ b \in Nat /\ s.blk[b] \in Int \ {0} /\ EndOf(s, b) \in Nat
                              /\ EndOf(s, b) <= s.size /\ b < s.size
  BY <1>0, <1>2, BlockFacts
<1>4. Tiled(t)
  <2>1. \A b \in DOMAIN t.blk : b \in Nat /\ t.blk[b] \in Int \ {0} /\ EndOf(t, b) <= t.size
    BY <1>1, <1>2, <1>3
  <2>2. \A b, c \in DOMAIN t.blk : b < c => EndOf(t, b) <= c
    <3> TAKE b, c \in DOMAIN t.blk
    <3>1. CASE b \in DOMAIN s.blk /\ c \in DOMAIN s.blk
      BY <1>0, <1>1, <3>1 DEF Tiled
    <3>2. CASE b \in DOMAIN s.blk /\ c = s.size
      BY <1>1, <1>3, <3>2
    <3>3. CASE b = s.size
      BY <1>1, <1>2, <1>3, <3>3
    <3> QED
      BY <1>1, <3>1, <3>2, <3>3
  <2>3. \A i \in 0 .. t.size - 1 : \E b \in DOMAIN t.blk : b <= i /\ i < EndOf(t, b)
    <3> TAKE i \in 0 .. t.size - 1
    <3>1. CASE i < s.size
      <4>1. i \in 0 .. s.size - 1
        BY <1>2, <3>1
      <4>2. PICK b \in DOMAIN s.blk : b <= i /\ i < EndOf(s, b)
        BY <1>0, <4>1 DEF Tiled
      <4>3. b \in DOMAIN t.blk /\ EndOf(t, b) = EndOf(s, b)
        BY <1>1
      <4> QED
        BY <4>2, <4>3
    <3>2. CASE i >= s.size
      <4>1. s.size <= i /\ i < EndOf(t, s.size)
        BY <1>1, <1>2, <3>2
      <4> QED
        BY <1>1, <4>1
    <3> QED
      BY <1>2, <3>1, <3>2
  <2>4. t.size \in Nat
    BY <1>1, <1>2
  <2> QED
    BY <2>1, <2>2, <2>3, <2>4 DEF Tiled
<1>5. NoTwoFree(t, {})
  <2> SUFFICES ASSUME NEW b \in DOMAIN t.blk, t.blk[b] > 0, EndOf(t, b) \in DOMAIN t.blk
               PROVE  t.blk[EndOf(t, b)] < 0
    BY DEF NoTwoFree
  <2>1. b \in DOMAIN s.blk
    BY <1>1
  <2>2. EndOf(t, b) = EndOf(s, b) /\ s.blk[b] > 0
    BY <1>1, <2>1
  <2>3. CASE EndOf(s, b) \in DOMAIN s.blk
    BY <1>0, <1>1, <2>1, <2>2, <2>3 DEF NoTwoFree
  <2>4. CASE EndOf(s, b) = s.size
    BY <1>1, <2>2, <2>4
  <2> QED
    BY <1>1, <2>2, <2>3, <2>4
<1>6. RoverOK(t)
  <2>1. t.rover \in DOMAIN t.blk \cup {Nil} /\ t.previous \in DOMAIN t.blk \cup {Head}
    BY <1>0, <1>1 DEF RoverOK
  <2>2. EndOf(t, s.previous) = EndOf(s, s.previous)
    <3>1. CASE s.previous = Head
      BY <1>1, <3>1 DEF EndOf
    <3>2. CASE s.previous \in DOMAIN s.blk
      BY <1>1, <3>2
    <3> QED
      BY <1>0, <3>1, <3>2 DEF RoverOK
  <2>3. NextOf(t, t.previous) = t.rover
    <3>1. CASE s.rover = Nil
      <4>1. NextOf(s, s.previous) = Nil
        BY <1>0, <3>1 DEF RoverOK
      <4>2. EndOf(s, s.previous) = s.size
        <5>1. CASE s.previous = Head
          BY <1>0, <4>1, <5>1, FirstIsZero DEF EndOf, Nil
        <5>2. CASE s.previous \in DOMAIN s.blk
          <6>1. EndOf(s, s.previous) \in DOMAIN s.blk \/ EndOf(s, s.previous) = s.size
            BY <1>0, <5>2, NextIsBlock
          <6>2. EndOf(s, s.previous) # Nil
            BY <1>0, <5>2, BlockFacts DEF Nil
          <6> QED
            BY <4>1, <6>1, <6>2 DEF NextOf
        <5> QED
          BY <1>0, <5>1, <5>2 DEF RoverOK
      <4> QED
        BY <1>1, <2>2, <3>1, <4>2 DEF NextOf
    <3>2. CASE s.rover # Nil
      <4>1. EndOf(s, s.previous) = s.rover /\ s.rover \in DOMAIN s.blk
        BY <1>0, <3>2 DEF RoverOK, NextOf
      <4> QED
        BY <1>1, <2>2, <3>2, <4>1 DEF NextOf
    <3> QED
      BY <3>1, <3>2
  <2>4. t.offset = IF t.rover = Nil THEN t.size ELSE t.rover
    <3>1. s.size # Nil
      BY <1>2 DEF Nil
    <3> QED
      BY <1>0, <1>1, <3>1 DEF RoverOK
  <2> QED
    BY <2>1, <2>3, <2>4 DEF RoverOK
<1>7. s.size \notin Used(s) /\ Used(t) = Used(s) \cup {s.size}
  BY <1>1 DEF Used
<1>8. \A b \in Used(s) : t.blk[b] = s.blk[b]
  BY <1>1 DEF Used
<1> QED
  BY <1>1, <1>4, <1>5, <1>6, <1>7, <1>8 DEF ListOK, t

\* Once around the list the rover is where it was.
LEMMA OnceAroundKeeps ==
  ASSUME NEW s, Complete(s), ListOK(s)
  PROVE  LET t == OnceAround(s)
         IN  Complete(t) /\ ListOK(t) /\ t.blk = s.blk /\ t.size = s.size
<1> DEFINE t == OnceAround(s)
<1>1. /\ Complete(t) /\ t.blk = s.blk /\ t.size = s.size /\ t.rover = s.rover
      /\ t.previous = BeforeOf(s, s.rover)
      /\ t.offset = IF s.rover = Nil THEN s.size ELSE s.rover
  BY DEF OnceAround, Complete
<1> HIDE DEF t
<1>2. Tiled(s) /\ NoTwoFree(s, {}) /\ RoverOK(s)
  BY DEF ListOK
<1>3. s.rover \in DOMAIN s.blk \cup {Nil}
  BY <1>2 DEF RoverOK
<1>4. BeforeOf(s, s.rover) \in DOMAIN s.blk \cup {Head} /\ NextOf(s, BeforeOf(s, s.rover)) = s.rover
  BY <1>2, <1>3, BeforeFacts
<1>5. RoverOK(t)
  <2>1. NextOf(t, t.previous) = t.rover
    BY <1>1, <1>4, SameList
  <2> QED
    BY <1>1, <1>3, <1>4, <2>1 DEF RoverOK
<1>6. Tiled(t) /\ NoTwoFree(t, {})
  BY <1>1, <1>2, SameList
<1> QED
  BY <1>1, <1>5, <1>6 DEF ListOK, t

\* The rover goes to any block, and its offset with it.
LEMMA RoverToKeeps ==
  ASSUME NEW s, Complete(s), ListOK(s), NEW b \in DOMAIN s.blk
  PROVE  LET t == RoverTo(s, b)
         IN  /\ Complete(t) /\ ListOK(t) /\ t.blk = s.blk /\ t.size = s.size
             /\ t.rover = b /\ t.offset = b
<1> DEFINE t == RoverTo(s, b)
<1>1. /\ Complete(t) /\ t.blk = s.blk /\ t.size = s.size /\ t.rover = b
      /\ t.previous = BeforeOf(s, b)
      /\ t.offset = IF s.rover # Nil /\ b >= s.rover THEN s.offset + (b - s.rover) ELSE b
  BY DEF RoverTo, Complete
<1> HIDE DEF t
<1>2. Tiled(s) /\ NoTwoFree(s, {}) /\ RoverOK(s)
  BY DEF ListOK
<1>3. b \in Nat /\ b # Nil
  BY <1>2, BlockFacts
<1>4. s.rover # Nil => s.offset = s.rover /\ s.rover \in Nat
  <2>1. s.rover # Nil => s.rover \in DOMAIN s.blk
    BY <1>2 DEF RoverOK
  <2> QED
    BY <1>2, <2>1, BlockFacts DEF RoverOK
<1>5. t.offset = b
  BY <1>1, <1>3, <1>4
<1>6. BeforeOf(s, b) \in DOMAIN s.blk \cup {Head} /\ NextOf(s, BeforeOf(s, b)) = b
  BY <1>2, BeforeFacts
<1>7. RoverOK(t)
  <2>1. NextOf(t, t.previous) = t.rover
    BY <1>1, <1>6, SameList
  <2> QED
    BY <1>1, <1>3, <1>5, <1>6, <2>1 DEF RoverOK
<1>8. Tiled(t) /\ NoTwoFree(t, {})
  BY <1>1, <1>2, SameList
<1> QED
  BY <1>1, <1>5, <1>7, <1>8 DEF ListOK, t

\* What TakeBlock() does to the list.
LEMMA TakeBlockIs ==
  ASSUME NEW s, Complete(s), Tiled(s), NEW len \in Nat \ {0},
         s.rover \in DOMAIN s.blk, s.blk[s.rover] >= len
  PROVE  LET t == TakeBlock(s, len)
             b == s.rover
         IN  /\ Complete(t)
             /\ t.rover = b /\ t.size = s.size /\ t.previous = s.previous
             /\ t.offset = s.offset
             /\ t.blk[b] = -len /\ EndOf(t, b) = b + len /\ EndOf(t, Head) = 0
             /\ \A c \in DOMAIN s.blk \ {b} :
                  t.blk[c] = s.blk[c] /\ EndOf(t, c) = EndOf(s, c)
             /\ \/ EndOf(s, b) = b + len /\ DOMAIN t.blk = DOMAIN s.blk
                \/ /\ b + len < EndOf(s, b)
                   /\ b + len \notin DOMAIN s.blk
                   /\ DOMAIN t.blk = DOMAIN s.blk \cup {b + len}
                   /\ t.blk[b + len] \in Nat \ {0}
                   /\ EndOf(t, b + len) = EndOf(s, b)
<1> DEFINE t == TakeBlock(s, len)
           b == s.rover
           rest == s.blk[b] - len
           D == DOMAIN s.blk \cup (IF rest > 0 THEN {b + len} ELSE {})
           nb == [c \in D |-> CASE c = b -> -len
                                [] c = b + len /\ rest > 0 -> rest
                                [] OTHER -> s.blk[c]]
<1>1. /\ Complete(t) /\ t.blk = nb
      /\ t.rover = b /\ t.size = s.size /\ t.previous = s.previous /\ t.offset = s.offset
  BY DEF TakeBlock, Complete
<1> HIDE DEF t
<1>2. /\ b \in Nat /\ b # Head /\ s.blk[b] \in Int /\ rest \in Nat
      /\ EndOf(s, b) = b + len + rest
  BY BlockFacts
<1>3. b + len \notin DOMAIN s.blk \/ rest = 0
  <2> SUFFICES ASSUME b + len \in DOMAIN s.blk, rest # 0
               PROVE  FALSE
    OBVIOUS
  <2>1. b < b + len
    BY <1>2
  <2>2. EndOf(s, b) <= b + len
    BY <2>1 DEF Tiled
  <2> QED
    BY <1>2, <2>2
<1>4. b \in D /\ nb[b] = -len
  BY <1>2
<1>5. \A c \in DOMAIN s.blk \ {b} : c \in D /\ nb[c] = s.blk[c]
  BY <1>2, <1>3
<1>6. rest > 0 => b + len \in D /\ nb[b + len] = rest
  BY <1>2
<1>7. DOMAIN nb = D
  OBVIOUS
<1>8. D = IF rest > 0 THEN DOMAIN s.blk \cup {b + len} ELSE DOMAIN s.blk
  OBVIOUS
<1> HIDE DEF D, nb
<1>9. t.blk[b] = -len /\ EndOf(t, b) = b + len /\ EndOf(t, Head) = 0
  BY <1>1, <1>2, <1>4 DEF EndOf, Abs
<1>10. \A c \in DOMAIN s.blk \ {b} : t.blk[c] = s.blk[c] /\ EndOf(t, c) = EndOf(s, c)
  BY <1>1, <1>5 DEF EndOf
<1>11. CASE rest = 0
  BY <1>1, <1>2, <1>7, <1>8, <1>9, <1>10, <1>11 DEF t
<1>12. CASE rest > 0
  <2>1. t.blk[b + len] = rest /\ b + len # Head
    BY <1>1, <1>2, <1>6, <1>12 DEF Head
  <2>2. EndOf(t, b + len) = EndOf(s, b)
    BY <1>2, <2>1 DEF EndOf, Abs
  <2> QED
    BY <1>1, <1>2, <1>3, <1>7, <1>8, <1>9, <1>10, <1>12, <2>1, <2>2 DEF t
<1> QED
  BY <1>2, <1>11, <1>12

\* A free block that is used and split keeps the list in order.
LEMMA TakeBlockKeeps ==
  ASSUME NEW s, Complete(s), ListOK(s), NEW len \in Nat \ {0},
         s.rover \in DOMAIN s.blk, s.blk[s.rover] >= len
  PROVE  LET t == TakeBlock(s, len)
             b == s.rover
         IN  /\ Complete(t) /\ ListOK(t)
             /\ b \in DOMAIN t.blk /\ t.blk[b] = -len
             /\ b \notin Used(s) /\ Used(t) = Used(s) \cup {b}
             /\ \A c \in Used(s) : t.blk[c] = s.blk[c]
<1> DEFINE t == TakeBlock(s, len)
           b == s.rover
<1>0. Tiled(s) /\ NoTwoFree(s, {}) /\ RoverOK(s)
  BY DEF ListOK
<1>1. /\ Complete(t)
      /\ t.rover = b /\ t.size = s.size /\ t.previous = s.previous /\ t.offset = s.offset
      /\ t.blk[b] = -len /\ EndOf(t, b) = b + len /\ EndOf(t, Head) = 0
      /\ \A c \in DOMAIN s.blk \ {b} : t.blk[c] = s.blk[c] /\ EndOf(t, c) = EndOf(s, c)
  BY <1>0, TakeBlockIs
<1>2. \/ EndOf(s, b) = b + len /\ DOMAIN t.blk = DOMAIN s.blk
      \/ /\ b + len < EndOf(s, b)
         /\ b + len \notin DOMAIN s.blk
         /\ DOMAIN t.blk = DOMAIN s.blk \cup {b + len}
         /\ t.blk[b + len] \in Nat \ {0}
         /\ EndOf(t, b + len) = EndOf(s, b)
  BY <1>0, TakeBlockIs
<1> HIDE DEF t
<1>3. s.size \in Nat
  BY <1>0 DEF Tiled
<1>4. \A c \in DOMAIN s.blk : /\ c \in Nat /\ s.blk[c] \in Int \ {0} /\ EndOf(s, c) \in Nat
                              /\ EndOf(s, c) <= s.size /\ c < EndOf(s, c)
  BY <1>0, BlockFacts
<1>5. \A c, d \in DOMAIN s.blk : c < d => EndOf(s, c) <= d
  BY <1>0 DEF Tiled
<1>6. b \in DOMAIN s.blk /\ b \in Nat
  BY <1>4
<1>7. Tiled(t)
  <2>1. \A c \in DOMAIN t.blk : c \in Nat /\ t.blk[c] \in Int \ {0} /\ EndOf(t, c) <= t.size
    <3> TAKE c \in DOMAIN t.blk
    <3>1. CASE c = b
      <4>1. b + len <= EndOf(s, b)
        BY <1>2, <1>4, <1>6
      <4> QED
        BY <1>1, <1>3, <1>4, <1>6, <3>1, <4>1
    <3>2. CASE c \in DOMAIN s.blk \ {b}
      BY <1>1, <1>4, <3>2
    <3>3. CASE c = b + len /\ c \notin DOMAIN s.blk
      BY <1>1, <1>2, <1>4, <1>6, <3>3
    <3> QED
      BY <1>2, <3>1, <3>2, <3>3
  <2>2. \A c, d \in DOMAIN t.blk : c < d => EndOf(t, c) <= d
    <3> SUFFICES ASSUME NEW c \in DOMAIN t.blk, NEW d \in DOMAIN t.blk, c < d
                 PROVE  EndOf(t, c) <= d
      OBVIOUS
    <3>1. CASE EndOf(s, b) = b + len /\ DOMAIN t.blk = DOMAIN s.blk
      <4>1. EndOf(t, c) = EndOf(s, c)
        BY <1>1, <3>1
      <4> QED
        BY <1>5, <3>1, <4>1
    <3>2. CASE /\ b + len < EndOf(s, b)
               /\ b + len \notin DOMAIN s.blk
               /\ DOMAIN t.blk = DOMAIN s.blk \cup {b + len}
               /\ EndOf(t, b + len) = EndOf(s, b)
      <4>1. CASE c \in DOMAIN s.blk /\ d \in DOMAIN s.blk
        <5>1. EndOf(t, c) <= EndOf(s, c) /\ EndOf(t, c) \in Int
          BY <1>1, <1>4, <1>6, <3>2, <4>1
        <5>2. EndOf(s, c) <= d
          BY <1>5, <4>1
        <5> QED
          BY <1>4, <4>1, <5>1, <5>2
      <4>2. CASE c \in DOMAIN s.blk \ {b} /\ d = b + len
        <5>1. c < b \/ b < c
          BY <1>4, <1>6, <4>2
        <5>2. c < b
          <6>1. b < c => EndOf(s, b) <= c
            BY <1>5, <1>6, <4>2
          <6> QED
            BY <1>4, <1>6, <3>2, <4>2, <5>1, <6>1
        <5>3. EndOf(s, c) <= b
          BY <1>5, <1>6, <4>2, <5>2
        <5> QED
          BY <1>1, <1>4, <1>6, <4>2, <5>3
      <4>3. CASE c = b /\ d = b + len
        BY <1>1, <1>6, <4>3
      <4>4. CASE c = b + len /\ d \in DOMAIN s.blk
        <5>1. EndOf(s, b) <= d
          BY <1>4, <1>5, <1>6, <4>4
        <5> QED
          BY <3>2, <4>4, <5>1
      <4> QED
        BY <1>4, <1>6, <3>2, <4>1, <4>2, <4>3, <4>4
    <3> QED
      BY <1>2, <3>1, <3>2
  <2>3. \A i \in 0 .. t.size - 1 : \E c \in DOMAIN t.blk : c <= i /\ i < EndOf(t, c)
    <3> TAKE i \in 0 .. t.size - 1
    <3>1. PICK c \in DOMAIN s.blk : c <= i /\ i < EndOf(s, c)
      BY <1>0, <1>1 DEF Tiled
    <3>2. CASE c # b
      BY <1>1, <1>2, <3>1, <3>2
    <3>3. CASE c = b /\ i < b + len
      BY <1>1, <1>2, <3>1, <3>3
    <3>4. CASE c = b /\ i >= b + len
      <4>1. EndOf(t, b + len) = EndOf(s, b) /\ b + len \in DOMAIN t.blk
        BY <1>2, <1>4, <1>6, <3>1, <3>4
      <4> QED
        BY <1>6, <3>1, <3>4, <4>1
    <3> QED
      BY <1>3, <1>1, <1>6, <3>2, <3>3, <3>4
  <2> QED
    BY <1>1, <1>3, <2>1, <2>2, <2>3 DEF Tiled
<1>8. NoTwoFree(t, {})
  <2> SUFFICES ASSUME NEW c \in DOMAIN t.blk, t.blk[c] > 0, EndOf(t, c) \in DOMAIN t.blk
               PROVE  t.blk[EndOf(t, c)] < 0
    BY DEF NoTwoFree
  <2>1. c # b
    BY <1>1
  <2>2. CASE c \in DOMAIN s.blk
    <3>1. EndOf(t, c) = EndOf(s, c) /\ s.blk[c] > 0
      BY <1>1, <2>1, <2>2
    <3>2. EndOf(s, c) # b + len \/ b + len \in DOMAIN s.blk
      <4> SUFFICES ASSUME EndOf(s, c) = b + len, b + len \notin DOMAIN s.blk
                   PROVE  FALSE
        OBVIOUS
      <4>1. b + len < EndOf(s, b)
        BY <1>2, <3>1
      <4>2. c < b => EndOf(s, c) <= b
        BY <1>5, <1>6, <2>2
      <4>3. b < c => EndOf(s, b) <= c
        BY <1>5, <1>6, <2>2
      <4> QED
        BY <1>4, <1>6, <2>1, <2>2, <4>1, <4>2, <4>3
    <3>3. EndOf(s, c) \in DOMAIN s.blk
      BY <1>2, <3>1, <3>2
    <3>4. CASE EndOf(s, c) = b
      BY <1>1, <3>1, <3>4
    <3>5. CASE EndOf(s, c) # b
      <4>1. s.blk[EndOf(s, c)] < 0
        BY <1>0, <2>2, <3>1, <3>3 DEF NoTwoFree
      <4> QED
        BY <1>1, <3>1, <3>3, <3>5, <4>1
    <3> QED
      BY <3>4, <3>5
  <2>3. CASE c = b + len /\ c \notin DOMAIN s.blk
    <3>1. EndOf(t, c) = EndOf(s, b) /\ EndOf(s, b) # b + len
      BY <1>2, <1>4, <1>6, <2>3
    <3>2. EndOf(s, b) \in DOMAIN s.blk /\ EndOf(s, b) # b
      BY <1>2, <1>4, <1>6, <3>1
    <3>3. s.blk[b] > 0
      BY <1>4, <1>6
    <3>4. s.blk[EndOf(s, b)] < 0
      BY <1>0, <1>6, <3>2, <3>3 DEF NoTwoFree
    <3> QED
      BY <1>1, <3>1, <3>2, <3>4
  <2> QED
    BY <1>2, <2>2, <2>3
<1>9. RoverOK(t)
  <2>1. b # Nil
    BY <1>0, <1>6, BlockFacts
  <2>2. EndOf(s, s.previous) = b
    BY <1>0, <2>1 DEF RoverOK, NextOf
  <2>3. s.previous \in (DOMAIN s.blk \ {b}) \cup {Head}
    BY <1>0, <1>4, <1>6, <2>2 DEF RoverOK
  <2>4. EndOf(t, s.previous) = b
    <3>1. CASE s.previous = Head
      BY <1>1, <2>2, <3>1 DEF EndOf
    <3>2. CASE s.previous \in DOMAIN s.blk \ {b}
      BY <1>1, <2>2, <3>2
    <3> QED
      BY <2>3, <3>1, <3>2
  <2>5. b \in DOMAIN t.blk /\ s.previous \in DOMAIN t.blk \cup {Head}
    BY <1>2, <1>6, <2>3
  <2> QED
    BY <1>0, <1>1, <2>1, <2>4, <2>5 DEF RoverOK, NextOf
<1>10. b \in DOMAIN t.blk /\ b \notin Used(s)
  BY <1>2, <1>4, <1>6 DEF Used
<1>11. Used(t) = Used(s) \cup {b}
  BY <1>1, <1>2, <1>6, <1>10 DEF Used
<1>12. \A c \in Used(s) : t.blk[c] = s.blk[c]
  BY <1>1, <1>10 DEF Used
<1> QED
  BY <1>1, <1>7, <1>8, <1>9, <1>10, <1>11, <1>12 DEF ListOK, t

\* The search finds a block that is large enough, if there is one.
LEMMA FirstFitFacts ==
  ASSUME NEW s, Tiled(s), NEW len \in Nat \ {0}, FitsIn(s, len) # {}
  PROVE  FirstFit(s, len) \in DOMAIN s.blk /\ s.blk[FirstFit(s, len)] >= len
<1> DEFINE ahead == {b \in FitsIn(s, len) : s.rover # Nil /\ b >= s.rover}
<1>1. FitsIn(s, len) \in SUBSET Nat /\ ahead \in SUBSET Nat
  BY BlockFacts DEF FitsIn
<1>2. Min(FitsIn(s, len)) \in FitsIn(s, len)
  BY <1>1, LeastElement
<1>3. ahead # {} => Min(ahead) \in FitsIn(s, len)
  BY <1>1, LeastElement
<1>4. FirstFit(s, len) = IF ahead # {} THEN Min(ahead) ELSE Min(FitsIn(s, len))
  BY DEF FirstFit
<1> HIDE DEF ahead
<1>5. FirstFit(s, len) \in FitsIn(s, len)
  BY <1>2, <1>3, <1>4
<1> QED
  BY <1>5 DEF FitsIn

\* The mode in which free blocks are used again is on or off.
LEMMA RecyclesFacts ==
  ASSUME NEW s, Complete(s)
  PROVE  LET r == IF s.compact THEN s ELSE [s EXCEPT !.recycle = Recycles(s)]
         IN  /\ Complete(r) /\ r.blk = s.blk /\ r.size = s.size /\ r.rover = s.rover
             /\ r.previous = s.previous /\ r.offset = s.offset
             /\ r.free = s.free /\ r.numFree = s.numFree
<1>1. Recycles(s) \in BOOLEAN
  BY DEF Recycles, Complete
<1> QED
  BY <1>1 DEF Complete

\* swap_alloc() returns a block of the size asked for, which was nobody's,
\* leaves the other blocks in use alone and the list in order.
LEMMA AllocFacts ==
  ASSUME NEW s, Complete(s), ListOK(s), NEW len \in Nat \ {0}
  PROVE  LET t == Alloc(s, len)
             at == AllocAt(s, len)
         IN  /\ Complete(t) /\ ListOK(t)
             /\ at \in DOMAIN t.blk /\ t.blk[at] = -len
             /\ at \notin Used(s) /\ Used(t) = Used(s) \cup {at}
             /\ \A c \in Used(s) : t.blk[c] = s.blk[c]
             /\ at \in Nat /\ at <= s.size
             /\ t.size = IF at = s.size THEN at + len ELSE s.size
<1> DEFINE r == IF s.compact THEN s ELSE [s EXCEPT !.recycle = Recycles(s)]
<1>1. /\ Complete(r) /\ r.blk = s.blk /\ r.size = s.size /\ r.rover = s.rover
      /\ r.previous = s.previous /\ r.offset = s.offset
  BY RecyclesFacts
<1>2. Alloc(s, len) = IF ~Recycles(s) THEN NewSpace(r, len)
                      ELSE IF FitsIn(r, len) = {} THEN NewSpace(OnceAround(r), len)
                      ELSE TakeBlock(RoverTo(r, FirstFit(r, len)), len)
  BY DEF Alloc
<1> HIDE DEF r
<1>3. ListOK(r) /\ Used(r) = Used(s)
  <2>1. RoverOK(r)
    BY <1>1, SameList DEF ListOK, RoverOK
  <2> QED
    BY <1>1, <2>1, SameList DEF ListOK
<1>4. FitsIn(r, len) = FitsIn(s, len) /\ FirstFit(r, len) = FirstFit(s, len)
  BY <1>1 DEF FitsIn, FirstFit
<1>5. CASE ~Recycles(s)
  <2>1. AllocAt(s, len) = r.size /\ Alloc(s, len) = NewSpace(r, len)
    BY <1>1, <1>2, <1>5 DEF AllocAt
  <2>2. NewSpace(r, len).size = r.size + len /\ r.size \in Nat
    BY <1>1, <1>3, NewSpaceIs DEF ListOK, Tiled
  <2> QED
    BY <1>1, <1>3, <2>1, <2>2, NewSpaceKeeps DEF Used
<1>6. CASE Recycles(s) /\ FitsIn(s, len) = {}
  <2> DEFINE o == OnceAround(r)
  <2>1. Complete(o) /\ ListOK(o) /\ o.blk = s.blk /\ o.size = s.size
    BY <1>1, <1>3, OnceAroundKeeps
  <2>2. AllocAt(s, len) = o.size /\ Alloc(s, len) = NewSpace(o, len)
    BY <1>2, <1>4, <1>6, <2>1 DEF AllocAt
  <2>3. Used(o) = Used(s)
    BY <2>1 DEF Used
  <2> HIDE DEF o
  <2>4. NewSpace(o, len).size = o.size + len /\ o.size \in Nat
    BY <2>1, NewSpaceIs DEF ListOK, Tiled
  <2> QED
    BY <2>1, <2>2, <2>3, <2>4, NewSpaceKeeps
<1>7. CASE Recycles(s) /\ FitsIn(s, len) # {}
  <2> DEFINE b == FirstFit(r, len)
             o == RoverTo(r, b)
  <2>1. b \in DOMAIN r.blk /\ r.blk[b] >= len
    BY <1>3, <1>4, <1>7, FirstFitFacts DEF ListOK
  <2>2. Complete(o) /\ ListOK(o) /\ o.blk = r.blk /\ o.rover = b /\ o.offset = b
        /\ o.size = r.size
    BY <1>1, <1>3, <2>1, RoverToKeeps
  <2>3. AllocAt(s, len) = b
    <3>1. AllocAt(s, len) = RoverTo(s, b).offset
      BY <1>4, <1>7 DEF AllocAt
    <3>2. RoverTo(s, b).offset = b
      BY <1>1, <2>1, RoverToKeeps
    <3> QED
      BY <3>1, <3>2
  <2>4. Alloc(s, len) = TakeBlock(o, len)
    BY <1>2, <1>4, <1>7
  <2>5. Used(o) = Used(s)
    BY <1>3, <2>2 DEF Used
  <2> HIDE DEF b, o
  <2>6. LET t == TakeBlock(o, len)
        IN  /\ Complete(t) /\ ListOK(t)
            /\ b \in DOMAIN t.blk /\ t.blk[b] = -len
            /\ b \notin Used(o) /\ Used(t) = Used(o) \cup {b}
            /\ \A c \in Used(o) : t.blk[c] = o.blk[c]
    BY <2>1, <2>2, TakeBlockKeeps
  <2>7. TakeBlock(o, len).size = o.size
    BY <2>1, <2>2, TakeBlockIs DEF ListOK
  <2>8. b \in Nat /\ b <= r.size /\ b # r.size
    BY <1>3, <2>1, BlockFacts DEF ListOK
  <2> QED
    BY <1>1, <2>2, <2>3, <2>4, <2>5, <2>6, <2>7, <2>8
<1> QED
  BY <1>5, <1>6, <1>7

-----------------------------------------------------------------------------
(* swap_free().                                                            *)

\* The search ends on the block, and current_offset with it.
LEMMA FindKeeps ==
  ASSUME NEW s, Complete(s), ListOK(s), NEW at \in DOMAIN s.blk
  PROVE  LET f == Find(s, at)
         IN  /\ Complete(f) /\ ListOK(f) /\ f.blk = s.blk /\ f.size = s.size
             /\ f.rover = at /\ f.offset = at
<1> DEFINE g == IF at < s.offset THEN FromStart(s) ELSE s
           f == Find(s, at)
<1>0. Tiled(s) /\ NoTwoFree(s, {}) /\ RoverOK(s)
  BY DEF ListOK
<1>1. Complete(g) /\ g.blk = s.blk /\ g.size = s.size
  BY DEF Complete, FromStart
<1>2. g.offset = g.rover
  <2>1. at \in Nat /\ at < s.size /\ s.size \in Nat /\ 0 \in DOMAIN s.blk
    <3>1. at \in Nat /\ at < s.size /\ s.size \in Nat
      BY <1>0, BlockFacts
    <3> QED
      BY <1>0, <3>1, FirstIsZero
  <2>2. CASE at < s.offset
    <3>1. g.offset = 0 /\ g.rover = NextOf(s, Head)
      BY <2>2 DEF FromStart, Complete
    <3> QED
      BY <1>0, <2>1, <3>1, FirstIsZero
  <2>3. CASE ~(at < s.offset)
    <3>1. s.rover # Nil
      BY <1>0, <2>1, <2>3 DEF RoverOK
    <3> QED
      BY <1>0, <2>3, <3>1 DEF RoverOK
  <2> QED
    BY <2>2, <2>3
<1>3. g.rover \in Int
  <2>1. NextOf(s, Head) \in Int
    BY <1>0, FirstIsZero DEF Nil
  <2>2. s.rover \in Int
    BY <1>0, BlockFacts DEF RoverOK, Nil
  <2> QED
    BY <2>1, <2>2 DEF FromStart, Complete
<1>4. f = [g EXCEPT !.rover = at, !.previous = BeforeOf(g, at), !.offset = @ + (at - g.rover)]
  BY DEF Find
<1> HIDE DEF g
<1>5. /\ Complete(f) /\ f.blk = s.blk /\ f.size = s.size /\ f.rover = at
      /\ f.previous = BeforeOf(g, at) /\ f.offset = g.offset + (at - g.rover)
  BY ZenonT(200), <1>1, <1>4 DEF Complete
<1> HIDE DEF f
<1>6. at \in Nat /\ at # Nil
  BY <1>0, BlockFacts
<1>7. f.offset = at
  BY <1>2, <1>3, <1>5, <1>6
<1>8. BeforeOf(g, at) = BeforeOf(s, at)
  BY <1>1, SameList
<1>9. BeforeOf(s, at) \in DOMAIN s.blk \cup {Head} /\ NextOf(s, BeforeOf(s, at)) = at
  BY <1>0, BeforeFacts
<1>10. RoverOK(f)
  <2>1. NextOf(f, f.previous) = f.rover
    BY <1>5, <1>8, <1>9, SameList
  <2> QED
    BY <1>5, <1>6, <1>7, <1>8, <1>9, <2>1 DEF RoverOK
<1>11. Tiled(f) /\ NoTwoFree(f, {})
  BY <1>0, <1>5, SameList
<1> QED
  BY <1>5, <1>7, <1>10, <1>11 DEF ListOK, f

\* What Join() does to the list if there is something to join.
LEMMA JoinIs ==
  ASSUME NEW s, Complete(s), Tiled(s), RoverOK(s), s.previous \in DOMAIN s.blk,
         s.blk[s.previous] > 0, s.rover # Nil, s.blk[s.rover] > 0
  PROVE  LET t == Join(s, s.previous)
             p == s.previous
             n == s.rover
         IN  /\ Complete(t)
             /\ n \in DOMAIN s.blk /\ n # p /\ n = EndOf(s, p) /\ p < n
             /\ DOMAIN t.blk = DOMAIN s.blk \ {n}
             /\ t.blk[p] = s.blk[p] + s.blk[n] /\ EndOf(t, p) = EndOf(s, n)
             /\ \A c \in DOMAIN s.blk \ {p, n} :
                  t.blk[c] = s.blk[c] /\ EndOf(t, c) = EndOf(s, c)
             /\ t.rover = NextOf(s, n) /\ t.offset = EndOf(s, n)
             /\ t.previous = p /\ t.size = s.size
<1> DEFINE t == Join(s, s.previous)
           p == s.previous
           n == s.rover
           nb == [c \in DOMAIN s.blk \ {n} |-> IF c = p THEN s.blk[p] + s.blk[n] ELSE s.blk[c]]
<1>1. NextOf(s, p) = n
  BY DEF RoverOK
<1>2. n \in DOMAIN s.blk /\ n = EndOf(s, p) /\ s.offset = n
  BY <1>1 DEF RoverOK, NextOf
<1>3. /\ p \in Nat /\ p # Head /\ n \in Nat /\ n # Head /\ p < n
      /\ s.blk[p] \in Nat /\ s.blk[n] \in Nat
      /\ n = p + s.blk[p] /\ EndOf(s, n) = n + s.blk[n]
  BY <1>2, BlockFacts
<1>4. /\ Complete(t) /\ t.blk = nb /\ t.rover = NextOf(s, n)
      /\ t.offset = s.offset + s.blk[n] /\ t.previous = p /\ t.size = s.size
  BY <1>1 DEF Join, Complete
<1> HIDE DEF t
<1>5. t.blk[p] = s.blk[p] + s.blk[n]
  BY <1>3, <1>4
<1>6. \A c \in DOMAIN s.blk \ {p, n} : t.blk[c] = s.blk[c]
  BY <1>4
<1>7. DOMAIN t.blk = DOMAIN s.blk \ {n}
  BY <1>4
<1> HIDE DEF nb
<1>8. EndOf(t, p) = EndOf(s, n)
  BY <1>3, <1>5 DEF EndOf, Abs
<1>9. \A c \in DOMAIN s.blk \ {p, n} : EndOf(t, c) = EndOf(s, c)
  BY <1>6 DEF EndOf
<1>10. t.offset = EndOf(s, n)
  <2>1. t.offset = s.offset + s.blk[n] /\ s.offset = n /\ EndOf(s, n) = n + s.blk[n]
    BY <1>2, <1>3, <1>4
  <2> QED
    BY <2>1
<1>11. n # p
  <2>1. p < n /\ p \in Nat
    BY <1>3
  <2> QED
    BY <2>1
<1> QED
  BY <1>2, <1>3, <1>4, <1>5, <1>6, <1>7, <1>8, <1>9, <1>10, <1>11 DEF t

\* Joining the block at swap_previous with the one at the rover: what may
\* still be a free block behind a free one.
LEMMA JoinKeeps ==
  ASSUME NEW s, Complete(s), Tiled(s), RoverOK(s), s.previous \in DOMAIN s.blk,
         s.blk[s.previous] > 0, NEW X, NoTwoFree(s, X)
  PROVE  LET t == Join(s, s.previous)
         IN  /\ Complete(t) /\ Tiled(t) /\ RoverOK(t)
             /\ t.previous = s.previous /\ t.previous \in DOMAIN t.blk
             /\ t.blk[t.previous] > 0
             /\ Used(t) = Used(s) /\ \A c \in Used(s) : t.blk[c] = s.blk[c]
             /\ NoTwoFree(t, IF s.rover \in X THEN (X \ {s.rover}) \cup {s.previous}
                             ELSE X \ {s.previous})
<1> DEFINE t == Join(s, s.previous)
           p == s.previous
           n == s.rover
           Y == IF n \in X THEN (X \ {n}) \cup {p} ELSE X \ {p}
<1>1. NextOf(s, p) = n
  BY DEF RoverOK
<1>2. CASE n = Nil \/ ~(s.blk[n] > 0)
  <2>1. t = s
    BY <1>1, <1>2 DEF Join
  <2>2. NoTwoFree(s, Y)
    <3> SUFFICES ASSUME NEW b \in DOMAIN s.blk \ Y, s.blk[b] > 0, EndOf(s, b) \in DOMAIN s.blk
                 PROVE  s.blk[EndOf(s, b)] < 0
      BY DEF NoTwoFree
    <3>1. CASE b = p
      <4>1. n = EndOf(s, p) /\ n # Nil
        BY <1>1, <3>1, BlockFacts DEF NextOf
      <4>2. s.blk[n] \in Int \ {0}
        BY <3>1, <4>1 DEF Tiled
      <4> QED
        BY <1>2, <3>1, <4>1, <4>2
    <3>2. CASE b # p
      <4>1. b # n
        <5> SUFFICES ASSUME b = n
                     PROVE  FALSE
          OBVIOUS
        <5> QED
          BY <1>2, BlockFacts
      <4>2. b \notin X
        BY <3>2, <4>1
      <4> QED
        BY <4>2 DEF NoTwoFree
    <3> QED
      BY <3>1, <3>2
  <2> QED
    BY <2>1, <2>2
<1>3. CASE n # Nil /\ s.blk[n] > 0
  <2>1. /\ Complete(t)
        /\ n \in DOMAIN s.blk /\ n # p /\ n = EndOf(s, p) /\ p < n
        /\ DOMAIN t.blk = DOMAIN s.blk \ {n}
        /\ t.blk[p] = s.blk[p] + s.blk[n] /\ EndOf(t, p) = EndOf(s, n)
        /\ \A c \in DOMAIN s.blk \ {p, n} :
             t.blk[c] = s.blk[c] /\ EndOf(t, c) = EndOf(s, c)
        /\ t.rover = NextOf(s, n) /\ t.offset = EndOf(s, n)
        /\ t.previous = p /\ t.size = s.size
    BY <1>3, JoinIs
  <2> HIDE DEF t
  <2>2. \A c \in DOMAIN s.blk : /\ c \in Nat /\ s.blk[c] \in Int \ {0} /\ EndOf(s, c) \in Nat
                                /\ EndOf(s, c) <= s.size /\ c < EndOf(s, c)
    BY BlockFacts
  <2>3. \A c, d \in DOMAIN s.blk : c < d => EndOf(s, c) <= d
    BY DEF Tiled
  <2>4. Tiled(t)
    <3>1. \A c \in DOMAIN t.blk : c \in Nat /\ t.blk[c] \in Int \ {0} /\ EndOf(t, c) <= t.size
      <4> TAKE c \in DOMAIN t.blk
      <4>1. CASE c = p
        BY <1>3, <2>1, <2>2, <4>1
      <4>2. CASE c # p
        BY <2>1, <2>2, <4>2
      <4> QED
        BY <4>1, <4>2
    <3>2. \A c, d \in DOMAIN t.blk : c < d => EndOf(t, c) <= d
      <4> SUFFICES ASSUME NEW c \in DOMAIN t.blk, NEW d \in DOMAIN t.blk, c < d
                   PROVE  EndOf(t, c) <= d
        OBVIOUS
      <4>1. c \in DOMAIN s.blk /\ d \in DOMAIN s.blk /\ c # n /\ d # n
        BY <2>1
      <4>2. EndOf(s, c) <= d
        BY <2>3, <4>1
      <4>3. CASE c = p
        <5>1. n < d
          BY <2>1, <2>2, <4>1, <4>2, <4>3
        <5>2. EndOf(s, n) <= d
          BY <2>1, <2>3, <4>1, <5>1
        <5> QED
          BY <2>1, <4>3, <5>2
      <4>4. CASE c # p
        BY <2>1, <4>1, <4>2, <4>4
      <4> QED
        BY <4>3, <4>4
    <3>3. \A i \in 0 .. t.size - 1 : \E c \in DOMAIN t.blk : c <= i /\ i < EndOf(t, c)
      <4> TAKE i \in 0 .. t.size - 1
      <4>1. PICK c \in DOMAIN s.blk : c <= i /\ i < EndOf(s, c)
        BY <2>1 DEF Tiled
      <4>2. i \in Int
        OBVIOUS
      <4>3. p \in DOMAIN t.blk
        BY <2>1
      <4>4. CASE c = n
        BY <2>1, <2>2, <4>1, <4>2, <4>3, <4>4
      <4>5. CASE c = p
        BY <2>1, <2>2, <4>1, <4>2, <4>3, <4>5
      <4>6. CASE c # n /\ c # p
        BY <2>1, <4>1, <4>6
      <4> QED
        BY <4>4, <4>5, <4>6
    <3>4. t.size \in Nat
      BY <2>1 DEF Tiled
    <3> QED
      BY <3>1, <3>2, <3>3, <3>4 DEF Tiled
  <2>5. NoTwoFree(t, Y)
    <3> SUFFICES ASSUME NEW b \in DOMAIN t.blk \ Y, t.blk[b] > 0, EndOf(t, b) \in DOMAIN t.blk
                 PROVE  t.blk[EndOf(t, b)] < 0
      BY DEF NoTwoFree
    <3>1. b \in DOMAIN s.blk /\ b # n
      BY <2>1
    <3>2. CASE b = p
      <4>1. n \notin X
        BY <3>2
      <4>2. EndOf(s, n) \in DOMAIN s.blk
        BY <2>1, <3>2
      <4>3. s.blk[EndOf(s, n)] < 0
        BY <1>3, <2>1, <4>1, <4>2 DEF NoTwoFree
      <4>4. EndOf(s, n) # p /\ EndOf(s, n) # n
        BY <2>1, <2>2
      <4> QED
        BY <2>1, <3>2, <4>2, <4>3, <4>4
    <3>3. CASE b # p
      <4>1. b \notin X
        BY <3>1, <3>3
      <4>2. EndOf(t, b) = EndOf(s, b) /\ s.blk[b] > 0 /\ EndOf(s, b) # n
        BY <2>1, <3>1, <3>3
      <4>3. s.blk[EndOf(s, b)] < 0
        BY <2>1, <3>1, <4>1, <4>2 DEF NoTwoFree
      <4>4. EndOf(s, b) # p
        BY <4>3, <2>1, BlockFacts
      <4> QED
        BY <2>1, <4>2, <4>3, <4>4
    <3> QED
      BY <3>2, <3>3
  <2>6. RoverOK(t)
    <3>1. NextOf(s, n) = IF EndOf(s, n) = s.size THEN Nil ELSE EndOf(s, n)
      BY <2>1, NextIsBlock
    <3>2. EndOf(s, n) \in DOMAIN s.blk \/ EndOf(s, n) = s.size
      BY <2>1, NextIsBlock
    <3>3. s.size \notin DOMAIN s.blk
      BY <2>1, NextIsBlock
    <3>4. EndOf(s, n) # n /\ EndOf(s, n) # Nil
      BY <2>1, <2>2 DEF Nil
    <3>5. EndOf(s, n) \in DOMAIN t.blk <=> EndOf(s, n) # s.size
      BY <2>1, <3>2, <3>3, <3>4
    <3>6. NextOf(t, t.previous) = t.rover
      BY <2>1, <3>1, <3>5 DEF NextOf
    <3>7. t.rover \in DOMAIN t.blk \cup {Nil} /\ t.previous \in DOMAIN t.blk \cup {Head}
      BY <2>1, <3>1, <3>5
    <3>8. t.offset = IF t.rover = Nil THEN t.size ELSE t.rover
      BY <2>1, <3>1, <3>4
    <3> QED
      BY <3>6, <3>7, <3>8 DEF RoverOK
  <2>7. t.previous \in DOMAIN t.blk /\ t.blk[t.previous] > 0
    BY <1>3, <2>1, <2>2
  <2>8. Used(t) = Used(s)
    BY <1>3, <2>1, <2>2, <2>7 DEF Used
  <2>9. \A c \in Used(s) : t.blk[c] = s.blk[c]
    BY <1>3, <2>1, <2>2 DEF Used
  <2> QED
    BY <2>1, <2>4, <2>5, <2>6, <2>7, <2>8, <2>9 DEF t
<1> QED
  BY <1>2, <1>3

\* The block at the rover, now a free one.
Freed(f) ==
  [f EXCEPT !.blk[f.rover] = -@, !.free = @ - f.blk[f.rover], !.numFree = @ + 1]

\* And, if there is nothing free before it, behind the rover.
PassedBy(t) ==
  IF SizeOf(t, t.previous) <= 0
  THEN [t EXCEPT !.previous = t.rover, !.offset = @ + t.blk[t.rover],
                 !.rover = NextOf(t, t.rover)]
  ELSE t

\* A freed block may follow a free one, and a free one may follow it.
LEMMA FreedFacts ==
  ASSUME NEW f, Complete(f), ListOK(f), f.rover \in Used(f)
  PROVE  LET t == Freed(f)
             b == f.rover
         IN  /\ Complete(t) /\ Tiled(t) /\ RoverOK(t)
             /\ t.rover = b /\ t.previous = f.previous /\ b \in DOMAIN t.blk /\ t.blk[b] > 0
             /\ Used(t) = Used(f) \ {b} /\ \A c \in Used(t) : t.blk[c] = f.blk[c]
             /\ NoTwoFree(t, {b, t.previous})
             /\ SizeOf(t, t.previous) <= 0 => NoTwoFree(t, {b})
<1> DEFINE t == Freed(f)
           b == f.rover
<1>0. Tiled(f) /\ NoTwoFree(f, {}) /\ RoverOK(f)
  BY DEF ListOK
<1>1. b \in DOMAIN f.blk /\ f.blk[b] < 0 /\ f.blk[b] \in Int /\ b \in Nat /\ b # Nil
  BY <1>0, BlockFacts DEF Used
<1>2. /\ Complete(t) /\ t.blk = [f.blk EXCEPT ![b] = -@] /\ t.rover = b /\ t.previous = f.previous
      /\ t.offset = f.offset /\ t.size = f.size
  BY DEF Freed, Complete
<1> HIDE DEF t
<1>3. /\ DOMAIN t.blk = DOMAIN f.blk /\ t.blk[b] = -f.blk[b] /\ t.blk[b] > 0
      /\ \A c \in DOMAIN f.blk \ {b} : t.blk[c] = f.blk[c]
  BY <1>1, <1>2
<1>4. \A c \in DOMAIN f.blk \cup {Head} : EndOf(t, c) = EndOf(f, c) /\ NextOf(t, c) = NextOf(f, c)
  <2>1. EndOf(t, b) = EndOf(f, b)
    BY <1>1, <1>3 DEF EndOf, Abs
  <2>2. \A c \in DOMAIN f.blk \cup {Head} : EndOf(t, c) = EndOf(f, c)
    BY <1>3, <2>1 DEF EndOf
  <2> QED
    BY <1>3, <2>2 DEF NextOf
<1>5. Tiled(t)
  <2>1. \A c \in DOMAIN t.blk : t.blk[c] \in Int \ {0}
    BY <1>0, <1>1, <1>3 DEF Tiled
  <2> QED
    BY <1>0, <1>2, <1>3, <1>4, <2>1 DEF Tiled
<1>6. RoverOK(t)
  BY <1>0, <1>2, <1>3, <1>4 DEF RoverOK
<1>7. Used(t) = Used(f) \ {b} /\ \A c \in Used(t) : t.blk[c] = f.blk[c]
  BY <1>1, <1>3 DEF Used
<1>8. f.previous \in DOMAIN f.blk \cup {Head} /\ EndOf(f, f.previous) = b
  BY <1>0, <1>1 DEF RoverOK, NextOf
<1>9. NoTwoFree(t, {b, f.previous})
  <2> SUFFICES ASSUME NEW c \in DOMAIN t.blk \ {b, f.previous}, t.blk[c] > 0,
                      EndOf(t, c) \in DOMAIN t.blk
               PROVE  t.blk[EndOf(t, c)] < 0
    BY DEF NoTwoFree
  <2>1. c \in DOMAIN f.blk /\ f.blk[c] > 0 /\ EndOf(t, c) = EndOf(f, c)
    BY <1>3, <1>4
  <2>2. f.blk[EndOf(f, c)] < 0
    BY <1>0, <1>3, <2>1 DEF NoTwoFree
  <2>3. EndOf(f, c) # b
    <3> SUFFICES ASSUME EndOf(f, c) = b
                 PROVE  FALSE
      OBVIOUS
    <3>1. NextOf(f, c) = b /\ NextOf(f, f.previous) = b
      BY <1>1, <1>8 DEF NextOf
    <3> QED
      BY <1>0, <1>1, <1>8, <2>1, <3>1, OneBefore
  <2> QED
    BY <1>3, <2>1, <2>2, <2>3
<1>10. SizeOf(t, f.previous) <= 0 => NoTwoFree(t, {b})
  <2> SUFFICES ASSUME SizeOf(t, f.previous) <= 0, NEW c \in DOMAIN t.blk \ {b}, t.blk[c] > 0,
                      EndOf(t, c) \in DOMAIN t.blk
               PROVE  t.blk[EndOf(t, c)] < 0
    BY DEF NoTwoFree
  <2>1. c # f.previous
    <3> SUFFICES ASSUME c = f.previous
                 PROVE  FALSE
      OBVIOUS
    <3>1. c # Head /\ t.blk[c] \in Int
      BY <1>5, BlockFacts
    <3> QED
      BY <3>1 DEF SizeOf
  <2> QED
    BY <1>9, <2>1 DEF NoTwoFree
<1> QED
  BY <1>1, <1>2, <1>3, <1>5, <1>6, <1>7, <1>9, <1>10 DEF t

LEMMA PassedByFacts ==
  ASSUME NEW t, Complete(t), Tiled(t), RoverOK(t), t.rover \in DOMAIN t.blk,
         t.blk[t.rover] > 0, NoTwoFree(t, {t.rover, t.previous}),
         SizeOf(t, t.previous) <= 0 => NoTwoFree(t, {t.rover})
  PROVE  LET u == PassedBy(t)
         IN  /\ Complete(u) /\ Tiled(u) /\ RoverOK(u) /\ u.blk = t.blk
             /\ u.previous \in DOMAIN u.blk /\ u.blk[u.previous] > 0
             /\ NoTwoFree(u, {u.rover, u.previous})
<1> DEFINE u == PassedBy(t)
           b == t.rover
<1>1. CASE SizeOf(t, t.previous) <= 0
  <2>1. /\ Complete(u) /\ u.blk = t.blk /\ u.size = t.size
        /\ u.previous = b /\ u.offset = t.offset + t.blk[b] /\ u.rover = NextOf(t, b)
    BY <1>1 DEF PassedBy, Complete
  <2> HIDE DEF u
  <2>2. /\ b \in Nat /\ b # Nil /\ EndOf(t, b) = b + t.blk[b] /\ EndOf(t, b) \in Nat
    BY BlockFacts
  <2>3. t.offset = b
    BY <2>2 DEF RoverOK
  <2>4. u.offset = EndOf(t, b)
    BY <2>1, <2>2, <2>3
  <2>5. /\ NextOf(t, b) = IF EndOf(t, b) = t.size THEN Nil ELSE EndOf(t, b)
        /\ EndOf(t, b) \in DOMAIN t.blk \/ EndOf(t, b) = t.size
    BY NextIsBlock
  <2>6. RoverOK(u)
    <3>1. NextOf(u, u.previous) = u.rover
      BY <2>1, SameList
    <3>2. EndOf(t, b) # Nil
      BY <2>2 DEF Nil
    <3> QED
      BY <2>1, <2>4, <2>5, <3>1, <3>2 DEF RoverOK
  <2>7. Tiled(u) /\ NoTwoFree(u, {b})
    BY <1>1, <2>1, SameList
  <2>8. NoTwoFree(u, {u.rover, u.previous})
    BY <2>1, <2>7 DEF NoTwoFree
  <2> QED
    BY <2>1, <2>6, <2>7, <2>8 DEF u
<1>2. CASE ~(SizeOf(t, t.previous) <= 0)
  <2>1. u = t
    BY <1>2 DEF PassedBy
  <2>2. t.previous # Head
    BY <1>2 DEF SizeOf
  <2>3. t.previous \in DOMAIN t.blk
    BY <2>2 DEF RoverOK
  <2>4. t.blk[t.previous] > 0
    BY <1>2, <2>2, <2>3, BlockFacts DEF SizeOf
  <2> QED
    BY <2>1, <2>3, <2>4
<1> QED
  BY <1>1, <1>2

\* swap_free() gives back the one block, leaves the others in use alone and
\* the list in order; the search for the block always ends on it.
LEMMA FreeFacts ==
  ASSUME NEW s, Complete(s), ListOK(s), NEW at \in Used(s)
  PROVE  LET t == Free(s, at)
         IN  /\ MayFree(s, at)
             /\ Complete(t) /\ ListOK(t)
             /\ Used(t) = Used(s) \ {at}
             /\ \A c \in Used(t) : t.blk[c] = s.blk[c]
<1> DEFINE f == Find(s, at)
           t == Freed(f)
           u == PassedBy(t)
           v == Join(u, u.previous)
           w == Join(v, v.previous)
<1>1. at \in DOMAIN s.blk
  BY DEF Used
<1>2. /\ Complete(f) /\ ListOK(f) /\ f.blk = s.blk /\ f.rover = at /\ f.offset = at
      /\ Used(f) = Used(s)
  BY <1>1, FindKeeps DEF Used
<1>3. MayFree(s, at)
  BY <1>1, <1>2 DEF MayFree, Used
<1>4. Free(s, at) = Join(v, u.previous)
  BY DEF Free, Freed, PassedBy
<1> HIDE DEF f
<1>5. /\ Complete(t) /\ Tiled(t) /\ RoverOK(t)
      /\ t.rover = at /\ t.rover \in DOMAIN t.blk /\ t.blk[t.rover] > 0
      /\ Used(t) = Used(s) \ {at} /\ \A c \in Used(t) : t.blk[c] = s.blk[c]
      /\ NoTwoFree(t, {t.rover, t.previous})
      /\ (SizeOf(t, t.previous) <= 0 => NoTwoFree(t, {t.rover}))
  BY ZenonT(200), <1>2, FreedFacts
<1> HIDE DEF t
<1>6. /\ Complete(u) /\ Tiled(u) /\ RoverOK(u) /\ u.blk = t.blk
      /\ u.previous \in DOMAIN u.blk /\ u.blk[u.previous] > 0
      /\ NoTwoFree(u, {u.rover, u.previous})
      /\ Used(u) = Used(t)
  BY <1>5, PassedByFacts DEF Used
<1> HIDE DEF u
<1>7. /\ Complete(v) /\ Tiled(v) /\ RoverOK(v)
      /\ v.previous = u.previous /\ v.previous \in DOMAIN v.blk /\ v.blk[v.previous] > 0
      /\ Used(v) = Used(u) /\ \A c \in Used(u) : v.blk[c] = u.blk[c]
      /\ NoTwoFree(v, {v.previous})
  <2> DEFINE X == {u.rover, u.previous}
  <2>1. (X \ {u.rover}) \cup {u.previous} = {u.previous} /\ u.rover \in X
    OBVIOUS
  <2> HIDE DEF X
  <2>2. NoTwoFree(u, X)
    BY <1>6 DEF X
  <2>3. /\ Complete(v) /\ Tiled(v) /\ RoverOK(v)
        /\ v.previous = u.previous /\ v.previous \in DOMAIN v.blk /\ v.blk[v.previous] > 0
        /\ Used(v) = Used(u) /\ \A c \in Used(u) : v.blk[c] = u.blk[c]
        /\ NoTwoFree(v, IF u.rover \in X THEN (X \ {u.rover}) \cup {u.previous}
                        ELSE X \ {u.previous})
    BY <1>6, <2>2, JoinKeeps
  <2> QED
    BY <2>1, <2>3
<1> HIDE DEF v
<1>8. /\ Complete(w) /\ Tiled(w) /\ RoverOK(w)
      /\ Used(w) = Used(v) /\ \A c \in Used(v) : w.blk[c] = v.blk[c]
      /\ NoTwoFree(w, {})
  <2> DEFINE X == {v.previous}
  <2>1. v.rover # v.previous
    <3>1. v.previous # Nil /\ v.previous < EndOf(v, v.previous) /\ v.previous \in Nat
      BY <1>7, BlockFacts
    <3>2. v.rover = Nil \/ v.rover = EndOf(v, v.previous)
      BY <1>7 DEF RoverOK, NextOf
    <3> QED
      BY <3>1, <3>2
  <2>2. X \ {v.previous} = {} /\ v.rover \notin X
    BY <2>1
  <2> HIDE DEF X
  <2>3. NoTwoFree(v, X)
    BY <1>7 DEF X
  <2>4. /\ Complete(w) /\ Tiled(w) /\ RoverOK(w)
        /\ Used(w) = Used(v) /\ \A c \in Used(v) : w.blk[c] = v.blk[c]
        /\ NoTwoFree(w, IF v.rover \in X THEN (X \ {v.rover}) \cup {v.previous}
                        ELSE X \ {v.previous})
    BY <1>7, <2>3, JoinKeeps
  <2> QED
    BY <2>2, <2>4
<1>9. w = Free(s, at)
  BY <1>4, <1>7
<1> HIDE DEF w
<1>10. Used(w) = Used(s) \ {at}
  BY <1>5, <1>6, <1>7, <1>8
<1>11. \A c \in Used(w) : w.blk[c] = s.blk[c]
  BY <1>5, <1>6, <1>7, <1>8
<1> QED
  BY <1>3, <1>8, <1>9, <1>10, <1>11 DEF ListOK

-----------------------------------------------------------------------------
(* What swap_alloc() and swap_free() count.                                *)

\* The counters agree with the list.
Counted(s) ==
  /\ s.free = Cardinality(FreeWords(s))
  /\ s.numFree = Cardinality(FreeBlocks(s))

\* There are finitely many free blocks and words, no more than the file has.
LEMMA FreeIsFinite ==
  ASSUME NEW s, Tiled(s)
  PROVE  /\ IsFiniteSet(FreeWords(s)) /\ IsFiniteSet(FreeBlocks(s))
         /\ Cardinality(FreeWords(s)) \in 0 .. s.size
         /\ Cardinality(FreeBlocks(s)) \in Nat
<1> DEFINE I == 0 .. s.size - 1
<1>1. s.size \in Nat
  BY DEF Tiled
<1>2. IsFiniteSet(I) /\ Cardinality(I) = s.size
  <2>1. 0 \in Int /\ s.size - 1 \in Int
    BY <1>1
  <2>2. IsFiniteSet(I) /\ Cardinality(I) = IF 0 > s.size - 1 THEN 0 ELSE (s.size - 1) - 0 + 1
    BY <2>1, FS_Interval
  <2> QED
    BY <1>1, <2>2
<1>3. FreeBlocks(s) \subseteq I
  BY <1>1, BlockFacts DEF FreeBlocks
<1>4. FreeWords(s) \subseteq I
  BY DEF FreeWords
<1> HIDE DEF I
<1>5. IsFiniteSet(FreeBlocks(s)) /\ IsFiniteSet(FreeWords(s)) /\ Cardinality(FreeWords(s)) <= s.size
  BY <1>2, <1>3, <1>4, FS_Subset
<1>6. Cardinality(FreeBlocks(s)) \in Nat /\ Cardinality(FreeWords(s)) \in Nat
  BY <1>5, FS_CardinalityType
<1> QED
  BY <1>1, <1>5, <1>6

\* A walk of the rover counts nothing.
LEMMA SameCounts ==
  ASSUME NEW s, NEW t, Counted(s), t.blk = s.blk, t.size = s.size, t.free = s.free,
         t.numFree = s.numFree
  PROVE  Counted(t)
<1>1. FreeBlocks(t) = FreeBlocks(s)
  BY DEF FreeBlocks
<1>2. FreeWords(t) = FreeWords(s)
  BY <1>1 DEF FreeWords, EndOf
<1> QED
  BY <1>1, <1>2 DEF Counted

\* Two sets of words that do not meet; an interval of words.
LEMMA DisjointCount ==
  ASSUME NEW S, NEW T, IsFiniteSet(S), IsFiniteSet(T), S \cap T = {}
  PROVE  /\ IsFiniteSet(S \cup T) /\ Cardinality(S \cup T) = Cardinality(S) + Cardinality(T)
         /\ Cardinality(S) \in Nat /\ Cardinality(T) \in Nat
<1>1. Cardinality(S) \in Nat /\ Cardinality(T) \in Nat
  BY FS_CardinalityType
<1>2. Cardinality(S \cap T) = 0
  BY FS_EmptySet
<1>3. /\ IsFiniteSet(S \cup T)
      /\ Cardinality(S \cup T) = Cardinality(S) + Cardinality(T) - Cardinality(S \cap T)
  BY FS_Union
<1> QED
  BY <1>1, <1>2, <1>3

LEMMA BlockCount ==
  ASSUME NEW b \in Nat, NEW n \in Nat
  PROVE  IsFiniteSet(b .. b + n - 1) /\ Cardinality(b .. b + n - 1) = n
<1>1. b + n - 1 \in Int /\ b \in Int
  OBVIOUS
<1>2. /\ IsFiniteSet(b .. b + n - 1)
      /\ Cardinality(b .. b + n - 1) = IF b > b + n - 1 THEN 0 ELSE (b + n - 1) - b + 1
  BY <1>1, FS_Interval
<1> QED
  BY <1>2

\* A block more at the end of the file is no free one.
LEMMA NewSpaceCounts ==
  ASSUME NEW s, Complete(s), ListOK(s), Counted(s), NEW len \in Nat \ {0}
  PROVE  Counted(NewSpace(s, len))
<1> DEFINE t == NewSpace(s, len)
<1>0. Tiled(s) /\ s.size \in Nat
  BY DEF ListOK, Tiled
<1>1. t.free = s.free /\ t.numFree = s.numFree
  BY DEF NewSpace, Complete
<1>2. /\ DOMAIN t.blk = DOMAIN s.blk \cup {s.size} /\ t.blk[s.size] = -len
      /\ \A b \in DOMAIN s.blk : t.blk[b] = s.blk[b] /\ EndOf(t, b) = EndOf(s, b)
      /\ t.size = s.size + len
  BY <1>0, NewSpaceIs
<1> HIDE DEF t
<1>3. FreeBlocks(t) = FreeBlocks(s)
  BY <1>2 DEF FreeBlocks
<1>4. \A b \in FreeBlocks(s) : EndOf(t, b) = EndOf(s, b) /\ b \in Nat
                                /\ EndOf(s, b) \in Nat /\ EndOf(s, b) <= s.size
  BY <1>0, <1>2, BlockFacts DEF FreeBlocks
<1>5. FreeWords(t) = FreeWords(s)
  BY <1>0, <1>2, <1>3, <1>4 DEF FreeWords
<1> QED
  BY <1>1, <1>3, <1>5 DEF Counted, t

\* The words of the block at the rover that are used are no longer free.
LEMMA TakeBlockCounts ==
  ASSUME NEW s, Complete(s), ListOK(s), Counted(s), NEW len \in Nat \ {0},
         s.rover \in DOMAIN s.blk, s.blk[s.rover] >= len
  PROVE  Counted(TakeBlock(s, len))
<1> DEFINE t == TakeBlock(s, len)
           b == s.rover
           rest == s.blk[b] - len
           W == b .. b + len - 1
<1>0. Tiled(s) /\ s.size \in Nat
  BY DEF ListOK, Tiled
<1>1. t.free = s.free - len /\ t.numFree = IF rest = 0 THEN s.numFree - 1 ELSE s.numFree
  BY DEF TakeBlock, Complete
<1>2. /\ t.size = s.size /\ t.blk[b] = -len
      /\ \A c \in DOMAIN s.blk \ {b} : t.blk[c] = s.blk[c] /\ EndOf(t, c) = EndOf(s, c)
      /\ \/ EndOf(s, b) = b + len /\ DOMAIN t.blk = DOMAIN s.blk
         \/ /\ b + len < EndOf(s, b)
            /\ b + len \notin DOMAIN s.blk
            /\ DOMAIN t.blk = DOMAIN s.blk \cup {b + len}
            /\ t.blk[b + len] \in Nat \ {0}
            /\ EndOf(t, b + len) = EndOf(s, b)
  BY <1>0, TakeBlockIs
<1> HIDE DEF t
<1>3. /\ b \in Nat /\ s.blk[b] \in Nat /\ EndOf(s, b) = b + s.blk[b]
      /\ EndOf(s, b) <= s.size /\ EndOf(s, b) \in Nat
  BY <1>0, BlockFacts
<1>4. b \in FreeBlocks(s)
  BY <1>3 DEF FreeBlocks
<1>5. FreeBlocks(t) = IF rest = 0 THEN FreeBlocks(s) \ {b}
                      ELSE (FreeBlocks(s) \ {b}) \cup {b + len}
  BY <1>2, <1>3 DEF FreeBlocks
<1>6. IsFiniteSet(FreeWords(s)) /\ IsFiniteSet(FreeBlocks(s)) /\ Cardinality(FreeBlocks(s)) \in Nat
  BY <1>0, FreeIsFinite
<1>7. t.numFree = Cardinality(FreeBlocks(t))
  <2>1. /\ IsFiniteSet(FreeBlocks(s) \ {b})
        /\ Cardinality(FreeBlocks(s) \ {b}) = Cardinality(FreeBlocks(s)) - 1
    BY <1>4, <1>6, FS_RemoveElement
  <2>2. CASE rest = 0
    BY <1>1, <1>5, <2>1, <2>2 DEF Counted
  <2>3. CASE rest # 0
    <3>1. b + len \notin FreeBlocks(s) \ {b}
      BY <1>2, <1>3, <2>3 DEF FreeBlocks
    <3>2. Cardinality((FreeBlocks(s) \ {b}) \cup {b + len}) = Cardinality(FreeBlocks(s) \ {b}) + 1
      BY <2>1, <3>1, FS_AddElement
    <3> QED
      BY <1>1, <1>5, <1>6, <2>1, <2>3, <3>2 DEF Counted
  <2> QED
    BY <2>2, <2>3
<1>8. \A c \in FreeBlocks(s) \ {b} :
        /\ c \in Nat /\ EndOf(s, c) \in Nat /\ EndOf(t, c) = EndOf(s, c)
        /\ EndOf(s, c) <= b \/ EndOf(s, b) <= c
  <2> SUFFICES ASSUME NEW c \in FreeBlocks(s) \ {b}
               PROVE  /\ c \in Nat /\ EndOf(s, c) \in Nat /\ EndOf(t, c) = EndOf(s, c)
                      /\ EndOf(s, c) <= b \/ EndOf(s, b) <= c
    OBVIOUS
  <2>1. c \in DOMAIN s.blk /\ c # b
    BY DEF FreeBlocks
  <2>2. c \in Nat /\ EndOf(s, c) \in Nat
    BY <1>0, <2>1, BlockFacts
  <2>3. (c < b => EndOf(s, c) <= b) /\ (b < c => EndOf(s, b) <= c)
    BY <1>0, <2>1 DEF Tiled
  <2> QED
    BY <1>2, <1>3, <2>1, <2>2, <2>3
<1>9. FreeWords(s) = FreeWords(t) \cup W /\ FreeWords(t) \cap W = {}
  <2>1. ASSUME NEW i \in FreeWords(t)
        PROVE  i \in FreeWords(s) /\ i \notin W
    <3>1. PICK c \in FreeBlocks(t) : c <= i /\ i < EndOf(t, c)
      BY DEF FreeWords
    <3>2. i \in 0 .. s.size - 1
      BY <1>2 DEF FreeWords
    <3>3. CASE c \in FreeBlocks(s) \ {b}
      <4>1. c <= i /\ i < EndOf(s, c)
        BY <1>8, <3>1, <3>3
      <4>2. i \in FreeWords(s)
        BY <3>2, <3>3, <4>1 DEF FreeWords
      <4>3. i < b \/ EndOf(s, b) <= i
        BY <1>3, <1>8, <3>2, <3>3, <4>1
      <4> QED
        BY <1>3, <3>2, <4>2, <4>3
    <3>4. CASE c = b + len /\ rest # 0
      <4>1. EndOf(t, c) = EndOf(s, b)
        BY <1>2, <1>3, <3>4
      <4>2. b <= i /\ i < EndOf(s, b) /\ i \notin W
        BY <1>3, <3>1, <3>2, <3>4, <4>1
      <4> QED
        BY <1>4, <3>2, <4>2 DEF FreeWords
    <3> QED
      BY <1>5, <3>3, <3>4
  <2>2. ASSUME NEW i \in FreeWords(s)
        PROVE  i \in FreeWords(t) \/ i \in W
    <3>1. PICK c \in FreeBlocks(s) : c <= i /\ i < EndOf(s, c)
      BY DEF FreeWords
    <3>2. i \in 0 .. t.size - 1
      BY <1>2 DEF FreeWords
    <3>3. CASE c # b
      <4>1. c \in FreeBlocks(t) /\ EndOf(t, c) = EndOf(s, c)
        BY <1>5, <1>8, <3>3
      <4> QED
        BY <3>1, <3>2, <4>1 DEF FreeWords
    <3>4. CASE c = b /\ i >= b + len
      <4>1. rest # 0
        BY <1>3, <3>1, <3>2, <3>4
      <4>2. b + len \in FreeBlocks(t) /\ EndOf(t, b + len) = EndOf(s, b)
        BY <1>2, <1>3, <1>5, <4>1
      <4> QED
        BY <3>1, <3>2, <3>4, <4>2 DEF FreeWords
    <3>5. CASE c = b /\ ~(i >= b + len)
      BY <1>3, <3>1, <3>2, <3>5
    <3> QED
      BY <3>3, <3>4, <3>5
  <2>3. ASSUME NEW i \in W
        PROVE  i \in FreeWords(s)
    <3>1. i \in 0 .. s.size - 1 /\ b <= i /\ i < EndOf(s, b)
      BY <1>0, <1>3
    <3> QED
      BY <1>4, <3>1 DEF FreeWords
  <2> QED
    BY <2>1, <2>2, <2>3
<1>10. t.free = Cardinality(FreeWords(t))
  <2>1. IsFiniteSet(W) /\ Cardinality(W) = len
    BY <1>3, BlockCount
  <2>2. IsFiniteSet(FreeWords(t))
    BY <1>6, <1>9, FS_Subset
  <2> HIDE DEF W
  <2>3. /\ Cardinality(FreeWords(s)) = Cardinality(FreeWords(t)) + Cardinality(W)
        /\ Cardinality(FreeWords(t)) \in Nat
    BY <1>9, <2>1, <2>2, DisjointCount
  <2> QED
    BY <1>1, <2>1, <2>3 DEF Counted
<1> QED
  BY <1>7, <1>10 DEF Counted, t

\* A freed block is free, with all its words.
LEMMA FreedCounts ==
  ASSUME NEW f, Complete(f), ListOK(f), Counted(f), f.rover \in Used(f)
  PROVE  Counted(Freed(f))
<1> DEFINE t == Freed(f)
           b == f.rover
           n == -f.blk[b]
           W == b .. b + n - 1
<1>0. Tiled(f) /\ f.size \in Nat
  BY DEF ListOK, Tiled
<1>1. b \in DOMAIN f.blk /\ f.blk[b] < 0 /\ f.blk[b] \in Int
  BY <1>0, BlockFacts DEF Used
<1>2. /\ t.blk = [f.blk EXCEPT ![b] = -@] /\ t.size = f.size
      /\ t.free = f.free - f.blk[b] /\ t.numFree = f.numFree + 1
  BY DEF Freed, Complete
<1> HIDE DEF t
<1>3. /\ b \in Nat /\ n \in Nat \ {0} /\ EndOf(f, b) = b + n
      /\ EndOf(f, b) <= f.size /\ EndOf(f, b) \in Nat
  BY <1>0, <1>1, BlockFacts
<1>4. /\ DOMAIN t.blk = DOMAIN f.blk /\ t.blk[b] = n
      /\ \A c \in DOMAIN f.blk \ {b} : t.blk[c] = f.blk[c]
  BY <1>1, <1>2
<1>5. FreeBlocks(t) = FreeBlocks(f) \cup {b} /\ b \notin FreeBlocks(f)
  BY <1>1, <1>3, <1>4 DEF FreeBlocks
<1>6. \A c \in DOMAIN f.blk : EndOf(t, c) = EndOf(f, c)
  <2>1. EndOf(t, b) = EndOf(f, b)
    BY <1>1, <1>3, <1>4 DEF EndOf, Abs
  <2> QED
    BY <1>4, <2>1 DEF EndOf
<1>7. \A c \in FreeBlocks(f) :
        c \in DOMAIN f.blk /\ c \in Nat /\ EndOf(f, c) \in Nat /\ (EndOf(f, c) <= b \/ b + n <= c)
  <2> SUFFICES ASSUME NEW c \in FreeBlocks(f)
               PROVE  /\ c \in DOMAIN f.blk /\ c \in Nat /\ EndOf(f, c) \in Nat
                      /\ EndOf(f, c) <= b \/ b + n <= c
    OBVIOUS
  <2>1. c \in DOMAIN f.blk /\ c # b
    BY <1>5 DEF FreeBlocks
  <2>2. c \in Nat /\ EndOf(f, c) \in Nat
    BY <1>0, <2>1, BlockFacts
  <2>3. (c < b => EndOf(f, c) <= b) /\ (b < c => EndOf(f, b) <= c)
    BY <1>0, <1>1, <2>1 DEF Tiled
  <2> QED
    BY <1>3, <2>1, <2>2, <2>3
<1>8. FreeWords(t) = FreeWords(f) \cup W /\ FreeWords(f) \cap W = {}
  <2>1. ASSUME NEW i \in FreeWords(f)
        PROVE  i \in FreeWords(t) /\ i \notin W
    <3>1. PICK c \in FreeBlocks(f) : c <= i /\ i < EndOf(f, c)
      BY DEF FreeWords
    <3>2. i \in 0 .. t.size - 1
      BY <1>2 DEF FreeWords
    <3>3. i \in FreeWords(t)
      BY <1>5, <1>6, <1>7, <3>1, <3>2 DEF FreeWords
    <3>4. i < b \/ b + n <= i
      BY <1>3, <1>7, <3>1, <3>2
    <3> QED
      BY <1>3, <3>2, <3>3, <3>4
  <2>2. ASSUME NEW i \in W
        PROVE  i \in FreeWords(t)
    <3>1. i \in 0 .. t.size - 1 /\ b <= i /\ i < EndOf(t, b)
      BY <1>0, <1>1, <1>2, <1>3, <1>6
    <3> QED
      BY <1>5, <3>1 DEF FreeWords
  <2>3. ASSUME NEW i \in FreeWords(t)
        PROVE  i \in FreeWords(f) \/ i \in W
    <3>1. PICK c \in FreeBlocks(t) : c <= i /\ i < EndOf(t, c)
      BY DEF FreeWords
    <3>2. i \in 0 .. f.size - 1
      BY <1>2 DEF FreeWords
    <3>3. CASE c = b
      BY <1>1, <1>3, <1>6, <3>1, <3>2, <3>3
    <3>4. CASE c # b
      BY <1>5, <1>6, <1>7, <3>1, <3>2, <3>4 DEF FreeWords
    <3> QED
      BY <3>3, <3>4
  <2> QED
    BY <2>1, <2>2, <2>3
<1>9. IsFiniteSet(W) /\ Cardinality(W) = n
  BY <1>3, BlockCount
<1>10. IsFiniteSet(FreeWords(f)) /\ IsFiniteSet(FreeBlocks(f))
  BY <1>0, FreeIsFinite
<1> HIDE DEF W
<1>11. /\ Cardinality(FreeWords(t)) = Cardinality(FreeWords(f)) + Cardinality(W)
       /\ Cardinality(FreeWords(f)) \in Nat
  BY <1>8, <1>9, <1>10, DisjointCount
<1>12. Cardinality(FreeBlocks(t)) = Cardinality(FreeBlocks(f)) + 1
  BY <1>5, <1>10, FS_AddElement
<1> QED
  BY <1>1, <1>2, <1>9, <1>11, <1>12 DEF Counted, t

\* Two free blocks in one have the same words.
LEMMA JoinCounts ==
  ASSUME NEW s, Complete(s), Tiled(s), RoverOK(s), Counted(s), s.previous \in DOMAIN s.blk,
         s.blk[s.previous] > 0
  PROVE  Counted(Join(s, s.previous))
<1> DEFINE t == Join(s, s.previous)
           p == s.previous
           n == s.rover
<1>0. NextOf(s, p) = n /\ s.size \in Nat
  BY DEF RoverOK, Tiled
<1>1. CASE ~(n # Nil /\ s.blk[n] > 0)
  BY <1>0, <1>1 DEF Join
<1>2. CASE n # Nil /\ s.blk[n] > 0
  <2>1. t.free = s.free /\ t.numFree = s.numFree - 1
    BY <1>0, <1>2 DEF Join, Complete
  <2>2. /\ n \in DOMAIN s.blk /\ n # p /\ n = EndOf(s, p) /\ p < n
        /\ DOMAIN t.blk = DOMAIN s.blk \ {n}
        /\ t.blk[p] = s.blk[p] + s.blk[n] /\ EndOf(t, p) = EndOf(s, n)
        /\ \A c \in DOMAIN s.blk \ {p, n} :
             t.blk[c] = s.blk[c] /\ EndOf(t, c) = EndOf(s, c)
        /\ t.size = s.size
    BY <1>2, JoinIs
  <2> HIDE DEF t
  <2>3. /\ p \in Nat /\ n \in Nat /\ EndOf(s, n) \in Nat /\ n < EndOf(s, n)
        /\ s.blk[p] \in Int /\ s.blk[n] \in Int
    BY <2>2, BlockFacts
  <2>4. /\ FreeBlocks(t) = FreeBlocks(s) \ {n} /\ n \in FreeBlocks(s) /\ p \in FreeBlocks(s)
        /\ p \in FreeBlocks(t)
    BY <1>2, <2>2, <2>3 DEF FreeBlocks
  <2>5. FreeWords(t) = FreeWords(s)
    <3>1. ASSUME NEW i \in FreeWords(t)
          PROVE  i \in FreeWords(s)
      <4>1. PICK c \in FreeBlocks(t) : c <= i /\ i < EndOf(t, c)
        BY DEF FreeWords
      <4>2. i \in 0 .. s.size - 1
        BY <2>2 DEF FreeWords
      <4>3. CASE c # p
        <5>1. c \in FreeBlocks(s) /\ EndOf(t, c) = EndOf(s, c)
          BY <2>2, <2>4, <4>3 DEF FreeBlocks
        <5> QED
          BY <4>1, <4>2, <5>1 DEF FreeWords
      <4>4. CASE c = p /\ i < n
        BY <2>2, <2>4, <4>1, <4>2, <4>4 DEF FreeWords
      <4>5. CASE c = p /\ ~(i < n)
        <5>1. n <= i /\ i < EndOf(s, n)
          BY <2>2, <2>3, <4>1, <4>2, <4>5
        <5> QED
          BY <2>4, <4>2, <5>1 DEF FreeWords
      <4> QED
        BY <4>3, <4>4, <4>5
    <3>2. ASSUME NEW i \in FreeWords(s)
          PROVE  i \in FreeWords(t)
      <4>1. PICK c \in FreeBlocks(s) : c <= i /\ i < EndOf(s, c)
        BY DEF FreeWords
      <4>2. i \in 0 .. t.size - 1
        BY <2>2 DEF FreeWords
      <4>3. CASE c # p /\ c # n
        <5>1. c \in FreeBlocks(t) /\ EndOf(t, c) = EndOf(s, c)
          BY <2>2, <2>4, <4>3 DEF FreeBlocks
        <5> QED
          BY <4>1, <4>2, <5>1 DEF FreeWords
      <4>4. CASE c = p \/ c = n
        <5>1. p <= i /\ i < EndOf(t, p)
          BY <2>2, <2>3, <4>1, <4>2, <4>4
        <5> QED
          BY <2>4, <4>2, <5>1 DEF FreeWords
      <4> QED
        BY <4>3, <4>4
    <3> QED
      BY <3>1, <3>2
  <2>6. IsFiniteSet(FreeBlocks(s))
    BY FreeIsFinite
  <2>7. Cardinality(FreeBlocks(t)) = Cardinality(FreeBlocks(s)) - 1
    BY <2>4, <2>6, FS_RemoveElement
  <2> QED
    BY <2>1, <2>5, <2>7 DEF Counted, t
<1> QED
  BY <1>1, <1>2

\* Whatever space swap_alloc() finds, the counters agree with the list.
LEMMA AllocCounts ==
  ASSUME NEW s, Complete(s), ListOK(s), Counted(s), NEW len \in Nat \ {0}
  PROVE  Counted(Alloc(s, len))
<1> DEFINE r == IF s.compact THEN s ELSE [s EXCEPT !.recycle = Recycles(s)]
<1>1. /\ Complete(r) /\ r.blk = s.blk /\ r.size = s.size /\ r.rover = s.rover
      /\ r.previous = s.previous /\ r.offset = s.offset
      /\ r.free = s.free /\ r.numFree = s.numFree
  BY RecyclesFacts
<1>2. Alloc(s, len) = IF ~Recycles(s) THEN NewSpace(r, len)
                      ELSE IF FitsIn(r, len) = {} THEN NewSpace(OnceAround(r), len)
                      ELSE TakeBlock(RoverTo(r, FirstFit(r, len)), len)
  BY DEF Alloc
<1> HIDE DEF r
<1>3. ListOK(r) /\ Counted(r)
  <2>1. RoverOK(r)
    BY <1>1, SameList DEF ListOK, RoverOK
  <2> QED
    BY <1>1, <2>1, SameList, SameCounts DEF ListOK
<1>4. CASE ~Recycles(s)
  BY <1>1, <1>2, <1>3, <1>4, NewSpaceCounts
<1>5. CASE Recycles(s) /\ FitsIn(r, len) = {}
  <2> DEFINE o == OnceAround(r)
  <2>1. Complete(o) /\ ListOK(o) /\ o.blk = r.blk /\ o.size = r.size
    BY <1>1, <1>3, OnceAroundKeeps
  <2>2. o.free = r.free /\ o.numFree = r.numFree
    BY <1>1 DEF OnceAround, Complete
  <2> HIDE DEF o
  <2>3. Counted(o)
    BY <1>3, <2>1, <2>2, SameCounts
  <2>4. Counted(NewSpace(o, len))
    BY <2>1, <2>3, NewSpaceCounts
  <2> QED
    BY <1>2, <1>5, <2>4 DEF o
<1>6. CASE Recycles(s) /\ FitsIn(r, len) # {}
  <2> DEFINE b == FirstFit(r, len)
             o == RoverTo(r, b)
  <2>1. b \in DOMAIN r.blk /\ r.blk[b] >= len
    BY <1>3, <1>6, FirstFitFacts DEF ListOK
  <2>2. Complete(o) /\ ListOK(o) /\ o.blk = r.blk /\ o.size = r.size /\ o.rover = b
    BY <1>1, <1>3, <2>1, RoverToKeeps
  <2>3. o.free = r.free /\ o.numFree = r.numFree
    BY <1>1 DEF RoverTo, Complete
  <2>4. Alloc(s, len) = TakeBlock(o, len)
    BY <1>2, <1>6
  <2> HIDE DEF b, o
  <2>5. Counted(o)
    BY <1>3, <2>2, <2>3, SameCounts
  <2>6. Counted(TakeBlock(o, len))
    BY <2>1, <2>2, <2>5, TakeBlockCounts
  <2> QED
    BY <2>4, <2>6
<1> QED
  BY <1>4, <1>5, <1>6

\* swap_free() keeps the counters right, whatever it joins, and the file has
\* the size it had.
LEMMA FreeCounts ==
  ASSUME NEW s, Complete(s), ListOK(s), Counted(s), NEW at \in Used(s)
  PROVE  Counted(Free(s, at)) /\ Free(s, at).size = s.size
<1> DEFINE f == Find(s, at)
           t == Freed(f)
           u == PassedBy(t)
           v == Join(u, u.previous)
           w == Join(v, v.previous)
<1>1. at \in DOMAIN s.blk
  BY DEF Used
<1>2. /\ Complete(f) /\ ListOK(f) /\ f.blk = s.blk /\ f.size = s.size /\ f.rover = at
      /\ Used(f) = Used(s)
  BY <1>1, FindKeeps DEF Used
<1>3. f.free = s.free /\ f.numFree = s.numFree
  BY DEF Find, FromStart, Complete
<1>4. Free(s, at) = Join(v, u.previous)
  BY DEF Free, Freed, PassedBy
<1> HIDE DEF f
<1>5. Counted(f)
  BY <1>2, <1>3, SameCounts
<1>6. /\ Complete(t) /\ Tiled(t) /\ RoverOK(t)
      /\ t.rover \in DOMAIN t.blk /\ t.blk[t.rover] > 0
      /\ NoTwoFree(t, {t.rover, t.previous})
      /\ (SizeOf(t, t.previous) <= 0 => NoTwoFree(t, {t.rover}))
  BY ZenonT(200), <1>2, FreedFacts
<1>7. Counted(t) /\ t.size = f.size
  BY <1>2, <1>5, FreedCounts DEF Freed, Complete
<1> HIDE DEF t
<1>8. /\ Complete(u) /\ Tiled(u) /\ RoverOK(u) /\ u.blk = t.blk
      /\ u.previous \in DOMAIN u.blk /\ u.blk[u.previous] > 0
      /\ NoTwoFree(u, {u.rover, u.previous})
  BY <1>6, PassedByFacts
<1>9. u.size = t.size /\ u.free = t.free /\ u.numFree = t.numFree
  BY <1>6 DEF PassedBy, Complete
<1> HIDE DEF u
<1>10. Counted(u)
  BY <1>7, <1>8, <1>9, SameCounts
<1>11. /\ Complete(v) /\ Tiled(v) /\ RoverOK(v)
       /\ v.previous = u.previous /\ v.previous \in DOMAIN v.blk /\ v.blk[v.previous] > 0
  <2> DEFINE X == {u.rover, u.previous}
  <2>1. NoTwoFree(u, X)
    BY <1>8
  <2> HIDE DEF X
  <2> QED
    BY <1>8, <2>1, JoinKeeps
<1>12. Counted(v) /\ v.size = u.size
  BY <1>8, <1>10, JoinCounts DEF Join, Complete
<1> HIDE DEF v
<1>13. Counted(w) /\ w.size = v.size
  BY <1>11, <1>12, JoinCounts DEF Join, Complete
<1> QED
  BY <1>2, <1>4, <1>7, <1>9, <1>11, <1>12, <1>13

-----------------------------------------------------------------------------
\* The order of the list, as the runs check it.
LEMMA OrderedListIsTight ==
  ASSUME ListOK(sw)
  PROVE  ListIsTight
<1> DEFINE B == DOMAIN sw.blk
<1>0. Tiled(sw) /\ NoTwoFree(sw, {}) /\ RoverOK(sw)
  BY DEF ListOK
<1>1. \A b \in B : /\ b \in Nat /\ b < EndOf(sw, b) /\ EndOf(sw, b) <= sw.size
                   /\ EndOf(sw, b) \in Nat /\ sw.size \in Nat /\ sw.blk[b] \in Int \ {0}
  BY <1>0, BlockFacts
<1>2. ASSUME B # {}
      PROVE  LastOf(sw) \in B /\ EndOf(sw, LastOf(sw)) = sw.size
  <2>1. sw.size - 1 \in 0 .. sw.size - 1
    BY <1>1, <1>2
  <2>2. PICK e \in B : sw.size - 1 < EndOf(sw, e)
    BY <1>0, <2>1 DEF Tiled
  <2>3. EndOf(sw, e) = sw.size
    BY <1>1, <2>2
  <2>4. \A c \in B : e >= c
    <3> TAKE c \in B
    <3>1. e < c => EndOf(sw, e) <= c
      BY <1>0 DEF Tiled
    <3> QED
      BY <1>1, <2>3, <3>1
  <2>5. Max(B) \in B /\ \A c \in B : Max(B) >= c
    BY <2>4 DEF Max
  <2>6. Max(B) = e
    BY <1>1, <2>4, <2>5
  <2> QED
    BY <1>2, <2>3, <2>6 DEF LastOf
<1>3. ASSUME B # {}
      PROVE  0 \in B
  BY <1>0, <1>1, <1>3, FirstIsZero
<1>4. \A b \in B : b = LastOf(sw) \/ NextOf(sw, b) # Nil
  <2> SUFFICES ASSUME NEW b \in B, NextOf(sw, b) = Nil
               PROVE  b = LastOf(sw)
    OBVIOUS
  <2>1. EndOf(sw, b) = sw.size
    BY <1>0, <1>1, NextIsBlock DEF Nil
  <2>2. LastOf(sw) \in B /\ EndOf(sw, LastOf(sw)) = sw.size
    BY <1>2
  <2>3. /\ b < LastOf(sw) => EndOf(sw, b) <= LastOf(sw)
        /\ LastOf(sw) < b => EndOf(sw, LastOf(sw)) <= b
    BY <1>0, <2>2 DEF Tiled
  <2>4. b \in Nat /\ LastOf(sw) \in Nat /\ b < sw.size /\ LastOf(sw) < sw.size /\ sw.size \in Nat
    BY <1>1, <2>1, <2>2
  <2> QED
    BY <2>1, <2>2, <2>3, <2>4
<1>5. \A b \in B : LET n == NextOf(sw, b) IN
        /\ \A c \in B : ~(b < c /\ c < EndOf(sw, b))
        /\ n # Nil => ~(sw.blk[b] > 0 /\ sw.blk[n] > 0)
  <2> TAKE b \in B
  <2>1. \A c \in B : ~(b < c /\ c < EndOf(sw, b))
    BY <1>0, <1>1 DEF Tiled
  <2>2. NextOf(sw, b) # Nil => ~(sw.blk[b] > 0 /\ sw.blk[NextOf(sw, b)] > 0)
    <3> SUFFICES ASSUME NextOf(sw, b) # Nil, sw.blk[b] > 0
                 PROVE  ~(sw.blk[NextOf(sw, b)] > 0)
      OBVIOUS
    <3>1. NextOf(sw, b) = EndOf(sw, b) /\ EndOf(sw, b) \in B
      BY DEF NextOf
    <3>2. sw.blk[EndOf(sw, b)] < 0
      BY <1>0, <3>1 DEF NoTwoFree
    <3> QED
      BY <1>1, <3>1, <3>2
  <2> QED
    BY <2>1, <2>2
<1> QED
  BY <1>0, <1>2, <1>3, <1>4, <1>5 DEF ListIsTight, RoverOK

-----------------------------------------------------------------------------
(* What is in the file, and the objects.                                   *)

\* The file has content up to its size, all of it written by the swapper.
Filled(s, f) == DOMAIN f = 0 .. s.size - 1 /\ \A i \in DOMAIN f : f[i] \in Words

\* A record z of the swapper and one object has all its parts.
Whole(z) ==
  /\ DOMAIN z = {"sw", "file", "lost", "ob"} /\ z = [f \in DOMAIN z |-> z[f]]
  /\ DOMAIN z.ob = DOMAIN NoObject /\ z.ob = [f \in DOMAIN NoObject |-> z.ob[f]]
  /\ Complete(z.sw) /\ ListOK(z.sw) /\ Counted(z.sw) /\ Filled(z.sw, z.file)

\* The block at c holds the data w.
Stored(z, c, w) ==
  /\ c \in Used(z.sw) /\ EndOf(z.sw, c) = c + LenOf(w)
  /\ \A i \in c .. EndOf(z.sw, c) - 1 : i \in DOMAIN z.file /\ z.file[i] = w

\* ob has the fields of an object.
Full(ob) == DOMAIN ob = DOMAIN NoObject /\ ob = [f \in DOMAIN NoObject |-> ob[f]]

LEMMA FullFacts ==
  ASSUME NEW z, Whole(z)
  PROVE  /\ Full(z.ob) /\ z.ob = [f \in DOMAIN z.ob |-> z.ob[f]]
         /\ DOMAIN z.ob = {"state", "swapped", "progIn", "swapNum", "lines", "blueprint",
                           "varsIn", "varNum", "value"}
BY DEF Whole, Full, NoObject

\* Another object in the place of the one of z.
LEMMA NewObject ==
  ASSUME NEW z, Whole(z), NEW new, Full(new), NEW y, y = [z EXCEPT !.ob = new]
  PROVE  /\ y.sw = z.sw /\ y.file = z.file /\ y.lost = z.lost /\ y.ob = new
         /\ Whole(y)
<1>1. /\ y.sw = z.sw /\ y.file = z.file /\ y.lost = z.lost /\ y.ob = new
      /\ DOMAIN y = {"sw", "file", "lost", "ob"} /\ y = [f \in DOMAIN y |-> y[f]]
  BY DEF Whole
<1> QED
  BY <1>1 DEF Whole, Full

\* What is stored in the blocks of C stays.
Keeps(y, z, C) ==
  \A c \in C : \A w : Stored(y, c, w) => Stored(z, c, w)

-----------------------------------------------------------------------------
(* The file.                                                               *)

\* What is stored can be read.
LEMMA ReadFacts ==
  ASSUME NEW z, NEW c, NEW w, Stored(z, c, w), w # Junk, Whole(z), LenOf(w) \in Nat \ {0}
  PROVE  Read(z.file, c) = w
<1>1. c \in Nat
  BY BlockFacts DEF Stored, Whole, ListOK, Used
<1>2. EndOf(z.sw, c) - 1 = c + LenOf(w) - 1
  BY <1>1 DEF Stored
<1>3. \A i \in c .. c + LenOf(w) - 1 : i \in DOMAIN z.file /\ z.file[i] = w
  BY <1>2 DEF Stored
<1>4. c \in c .. c + LenOf(w) - 1
  BY <1>1
<1>5. c \in DOMAIN z.file /\ z.file[c] = w
  BY <1>3, <1>4
<1> QED
  BY <1>3, <1>5 DEF Read

\* Blocks do not overlap.
LEMMA BlocksApart ==
  ASSUME NEW s, Tiled(s), NEW b \in DOMAIN s.blk, NEW c \in DOMAIN s.blk, b # c
  PROVE  \A i \in b .. EndOf(s, b) - 1 : i \notin c .. EndOf(s, c) - 1
<1>1. /\ b \in Nat /\ EndOf(s, b) \in Nat /\ c \in Nat /\ EndOf(s, c) \in Nat
      /\ b < c => EndOf(s, b) <= c
      /\ c < b => EndOf(s, c) <= b
  BY BlockFacts DEF Tiled
<1> QED
  BY <1>1

\* Writing to one block leaves what is stored in the others.
LEMMA WriteKeeps ==
  ASSUME NEW y, NEW z, NEW at, NEW len \in Nat, NEW w, NEW t, Tiled(t), at \in DOMAIN t.blk,
         EndOf(t, at) = at + len, z.file = Write(y.file, at, len, w),
         NEW C, C \subseteq Used(z.sw), C \subseteq DOMAIN t.blk, at \notin C,
         \A c \in C : EndOf(z.sw, c) = EndOf(y.sw, c) /\ EndOf(t, c) = EndOf(y.sw, c)
  PROVE  Keeps(y, z, C)
<1> SUFFICES ASSUME NEW c \in C, NEW v, Stored(y, c, v)
             PROVE  Stored(z, c, v)
  BY DEF Keeps
<1>1. c \in Used(z.sw) /\ EndOf(z.sw, c) = c + LenOf(v) /\ EndOf(y.sw, c) = EndOf(z.sw, c)
      /\ EndOf(t, c) = EndOf(z.sw, c)
  BY DEF Stored
<1>2. ASSUME NEW i \in c .. EndOf(z.sw, c) - 1
      PROVE  i \in DOMAIN z.file /\ z.file[i] = v
  <2>1. i \notin at .. at + len - 1
    <3>1. c \in DOMAIN t.blk /\ c # at
      OBVIOUS
    <3>2. \A j \in c .. EndOf(t, c) - 1 : j \notin at .. EndOf(t, at) - 1
      BY <3>1, BlocksApart
    <3>3. EndOf(t, at) - 1 = at + len - 1
      BY BlockFacts
    <3> QED
      BY <1>1, <3>2, <3>3
  <2>2. i \in DOMAIN y.file /\ y.file[i] = v
    BY <1>1 DEF Stored
  <2> QED
    BY <2>1, <2>2 DEF Write
<1> QED
  BY <1>1, <1>2 DEF Stored

\* Writing to a block leaves no gap.
LEMMA WriteFills ==
  ASSUME NEW s, NEW t, NEW f, Filled(s, f), s.size \in Nat, t.size \in Nat,
         NEW at \in Nat, NEW len \in Nat, at <= s.size, at + len <= t.size,
         t.size = IF at = s.size THEN at + len ELSE s.size, NEW w \in Words
  PROVE  Filled(t, Write(f, at, len, w))
<1> DEFINE g == Write(f, at, len, w)
<1>1. DOMAIN g = 0 .. t.size - 1
  BY DEF Filled, Write
<1>2. \A i \in DOMAIN g : g[i] \in Words
  BY DEF Filled, Write
<1> QED
  BY <1>1, <1>2 DEF Filled

\* store_swap_block(): a new block holds the data, or junk if the write failed.
LEMMA StoreFacts ==
  ASSUME NEW z, Whole(z), NEW w \in Words, NEW ok \in BOOLEAN, LenOf(w) \in Nat \ {0}
  PROVE  LET y == Store(z, LenOf(w), w, ok)
             at == AllocAt(z.sw, LenOf(w))
         IN  /\ Whole(y) /\ y.ob = z.ob
             /\ at \notin Used(z.sw) /\ Used(y.sw) = Used(z.sw) \cup {at}
             /\ at # NoSwap
             /\ y.lost = IF ok THEN z.lost ELSE z.lost \cup {at}
             /\ ok => Stored(y, at, w)
             /\ Keeps(z, y, Used(z.sw))
<1> DEFINE len == LenOf(w)
           y == Store(z, len, w, ok)
           at == AllocAt(z.sw, len)
<1>0. Complete(z.sw) /\ ListOK(z.sw) /\ Tiled(z.sw)
  BY DEF Whole, ListOK
<1>1. /\ y.sw = Alloc(z.sw, len) /\ y.file = Write(z.file, at, len, IF ok THEN w ELSE Junk)
      /\ y.lost = (IF ok THEN z.lost ELSE z.lost \cup {at}) /\ y.ob = z.ob
      /\ DOMAIN y = {"sw", "file", "lost", "ob"} /\ y = [f \in DOMAIN y |-> y[f]]
  BY DEF Store, Whole
<1> HIDE DEF y
<1>2. /\ Complete(y.sw) /\ ListOK(y.sw)
      /\ at \in DOMAIN y.sw.blk /\ y.sw.blk[at] = -len
      /\ at \notin Used(z.sw) /\ Used(y.sw) = Used(z.sw) \cup {at}
      /\ \A c \in Used(z.sw) : y.sw.blk[c] = z.sw.blk[c]
  BY <1>0, <1>1, AllocFacts
<1>8. /\ Counted(y.sw) /\ at \in Nat /\ at <= z.sw.size
      /\ y.sw.size = IF at = z.sw.size THEN at + len ELSE z.sw.size
  BY <1>0, <1>1, AllocFacts, AllocCounts DEF Whole
<1> HIDE DEF at
<1>3. Whole(y)
  <2>1. z.sw.size \in Nat /\ y.sw.size \in Nat /\ at + len <= y.sw.size
    <3>1. EndOf(y.sw, at) = at + len /\ EndOf(y.sw, at) <= y.sw.size /\ y.sw.size \in Nat
      BY <1>2, BlockFacts DEF ListOK
    <3> QED
      BY <1>0, <3>1 DEF Tiled
  <2>2. Junk \in Words /\ Filled(z.sw, z.file)
    BY DEF Words, Whole
  <2> HIDE DEF len
  <2>3. len \in Nat
    BY DEF len
  <2>4. Filled(y.sw, Write(z.file, at, len, IF ok THEN w ELSE Junk))
    BY <1>8, <2>1, <2>2, <2>3, WriteFills
  <2> QED
    BY <1>1, <1>2, <1>8, <2>4 DEF Whole
<1>4. Tiled(y.sw) /\ at \in Nat /\ at # NoSwap
  BY <1>2, BlockFacts DEF ListOK, NoSwap
<1>5. EndOf(y.sw, at) = at + len
  BY <1>2, <1>4, BlockFacts
<1>6. Keeps(z, y, Used(z.sw))
  <2>1. Used(z.sw) \subseteq DOMAIN y.sw.blk
    BY <1>2 DEF Used
  <2>2. \A c \in Used(z.sw) : EndOf(y.sw, c) = EndOf(z.sw, c)
    BY <1>2 DEF EndOf
  <2>3. PICK word : y.file = Write(z.file, at, len, word)
    BY <1>1
  <2>4. len \in Nat
    OBVIOUS
  <2>5. at \in DOMAIN y.sw.blk /\ at \notin Used(z.sw) /\ Used(z.sw) \subseteq Used(y.sw)
    BY <1>2
  <2>6. Tiled(y.sw)
    BY <1>4
  <2> HIDE DEF len
  <2> QED
    BY ONLY <1>5, <2>1, <2>2, <2>3, <2>4, <2>5, <2>6, WriteKeeps
<1>7. ok => Stored(y, at, w)
  <2> SUFFICES ASSUME ok
               PROVE  Stored(y, at, w)
    OBVIOUS
  <2>1. \A i \in at .. EndOf(y.sw, at) - 1 : i \in DOMAIN y.file /\ y.file[i] = w
    <3>1. EndOf(y.sw, at) - 1 = at + len - 1
      BY <1>4, <1>5
    <3> QED
      BY <1>1, <3>1 DEF Write
  <2>2. at \in Used(y.sw)
    BY <1>2
  <2> QED
    BY <1>5, <2>1, <2>2 DEF Stored
<1> QED
  BY <1>1, <1>2, <1>3, <1>4, <1>6, <1>7 DEF y, at

\* swap_free() of a block in use.
LEMMA FreeInFacts ==
  ASSUME NEW z, Whole(z), NEW at \in Used(z.sw)
  PROVE  LET y == FreeIn(z, at)
         IN  /\ Whole(y) /\ y.ob = z.ob /\ y.lost = z.lost
             /\ Used(y.sw) = Used(z.sw) \ {at}
             /\ Keeps(z, y, Used(z.sw) \ {at})
<1> DEFINE y == FreeIn(z, at)
           len == Abs(z.sw.blk[at])
<1>0. Complete(z.sw) /\ ListOK(z.sw) /\ Tiled(z.sw)
  BY DEF Whole, ListOK
<1>1. /\ y.sw = Free(z.sw, at) /\ y.file = Write(z.file, at, len, Junk)
      /\ y.lost = z.lost /\ y.ob = z.ob
      /\ DOMAIN y = {"sw", "file", "lost", "ob"} /\ y = [f \in DOMAIN y |-> y[f]]
  BY DEF FreeIn, Whole
<1> HIDE DEF y
<1>2. /\ Complete(y.sw) /\ ListOK(y.sw)
      /\ Used(y.sw) = Used(z.sw) \ {at}
      /\ \A c \in Used(y.sw) : y.sw.blk[c] = z.sw.blk[c]
  BY <1>0, <1>1, FreeFacts
<1>4. at \in DOMAIN z.sw.blk /\ at # Head
  BY <1>0, BlockFacts DEF Used
<1>5. EndOf(z.sw, at) = at + len
  BY <1>4 DEF EndOf
<1>3. Whole(y)
  <2>1. Counted(y.sw) /\ y.sw.size = z.sw.size
    BY <1>0, <1>1, FreeCounts DEF Whole
  <2>2. /\ at \in Nat /\ len \in Nat /\ at < EndOf(z.sw, at) /\ EndOf(z.sw, at) <= z.sw.size
        /\ z.sw.size \in Nat
    BY <1>0, <1>4, BlockFacts DEF Abs
  <2>3. Junk \in Words /\ Filled(z.sw, z.file)
    BY DEF Words, Whole
  <2> HIDE DEF len
  <2>4. at < z.sw.size /\ at + len <= z.sw.size
    BY <1>5, <2>2
  <2>5. Filled(y.sw, Write(z.file, at, len, Junk))
    BY <2>1, <2>2, <2>3, <2>4, WriteFills
  <2> QED
    BY <1>1, <1>2, <2>1, <2>5 DEF Whole
<1>6. Keeps(z, y, Used(y.sw))
  <2>1. Used(y.sw) \subseteq DOMAIN z.sw.blk /\ at \notin Used(y.sw)
    BY <1>2 DEF Used
  <2>2. \A c \in Used(y.sw) : EndOf(y.sw, c) = EndOf(z.sw, c)
    BY <1>2 DEF EndOf
  <2>3. len \in Nat
    BY <1>0, <1>4, BlockFacts DEF Abs
  <2> HIDE DEF len
  <2> QED
    BY <1>0, <1>1, <1>4, <1>5, <2>1, <2>2, <2>3, WriteKeeps
<1> QED
  BY <1>1, <1>2, <1>3, <1>6 DEF y

-----------------------------------------------------------------------------
(* One object.  d is what the object holds, wherever it is; O are the      *)
(* blocks of the other objects.                                            *)

\* The blocks an object holds.
Own(ob) == {ob.swapNum, ob.varNum} \ {NoSwap}

\* The object o of z represents the data d.
Represents(z, o, d) ==
  /\ d.blueprint \in BOOLEAN
  /\ z.ob.blueprint = IF z.ob.progIn THEN d.blueprint ELSE None
  /\ ~z.ob.progIn => z.ob.swapNum # NoSwap
  /\ z.ob.swapNum # NoSwap => Stored(z, z.ob.swapNum, ProgWord(o, d.blueprint))
  /\ z.ob.varsIn <=> z.ob.varNum = NoSwap
  /\ z.ob.value = IF z.ob.varsIn THEN d.value ELSE None
  /\ ~z.ob.varsIn => d.value \in Values /\ Stored(z, z.ob.varNum, VarWord(o, d.value))
  /\ z.ob.state = "alive" /\ z.ob.progIn => z.ob.lines \/ z.ob.swapNum # NoSwap

\* Each used block is held once or lost.
Shared(z, O) ==
  /\ Used(z.sw) = O \cup z.lost \cup Own(z.ob)
  /\ O \cap z.lost = {} /\ O \cap Own(z.ob) = {} /\ Own(z.ob) \cap z.lost = {}
  /\ z.ob.swapNum = z.ob.varNum => z.ob.swapNum = NoSwap

Sound(z, o, d, O) == Whole(z) /\ Represents(z, o, d) /\ Shared(z, O)

LEMMA WordFacts ==
  ASSUME NEW o, NEW b, NEW v \in Values
  PROVE  /\ LenOf(ProgWord(o, b)) = ProgLen /\ ProgLen \in Nat \ {0}
         /\ LenOf(VarWord(o, v)) = VarLen[v] /\ VarLen[v] \in Nat \ {0}
         /\ ProgWord(o, b) # Junk /\ VarWord(o, v) # Junk
BY SwapAssumption DEF LenOf, ProgWord, VarWord, Junk

LEMMA ProgWordFacts ==
  ASSUME NEW o, NEW b
  PROVE  /\ LenOf(ProgWord(o, b)) = ProgLen /\ ProgLen \in Nat \ {0}
         /\ ProgWord(o, b) # Junk
BY SwapAssumption DEF LenOf, ProgWord, Junk

\* What an object represents depends on the file and on what is in memory.
LEMMA OtherData ==
  ASSUME NEW z, NEW y, NEW o, NEW d, NEW e, NEW O, Sound(z, o, d, O), Whole(y),
         y.sw = z.sw, y.file = z.file, y.lost = z.lost,
         y.ob.progIn = z.ob.progIn, y.ob.swapNum = z.ob.swapNum,
         y.ob.varsIn = z.ob.varsIn, y.ob.varNum = z.ob.varNum, e.blueprint \in BOOLEAN,
         \/ e.blueprint = d.blueprint /\ y.ob.blueprint = z.ob.blueprint
         \/ y.ob.progIn /\ y.ob.swapNum = NoSwap /\ y.ob.blueprint = e.blueprint,
         \/ e.value = d.value /\ y.ob.value = z.ob.value
         \/ y.ob.varsIn /\ y.ob.value = e.value,
         y.ob.state = "alive" /\ y.ob.progIn => y.ob.lines \/ y.ob.swapNum # NoSwap
  PROVE  Sound(y, o, e, O) /\ Keeps(z, y, O)
<1>1. \A c, w : Stored(y, c, w) <=> Stored(z, c, w)
  BY DEF Stored
<1>2. Represents(z, o, d)
  BY DEF Sound
<1>3. Represents(y, o, e)
  <2>1. y.ob.progIn => y.ob.blueprint = e.blueprint
    BY <1>2 DEF Represents
  <2>2. y.ob.swapNum # NoSwap => Stored(y, y.ob.swapNum, ProgWord(o, e.blueprint))
    BY <1>1, <1>2 DEF Represents
  <2>3. y.ob.varsIn => y.ob.value = e.value
    BY <1>2 DEF Represents
  <2>4. ~y.ob.varsIn => e.value \in Values /\ Stored(y, y.ob.varNum, VarWord(o, e.value))
    BY <1>1, <1>2 DEF Represents
  <2> QED
    BY <1>2, <2>1, <2>2, <2>3, <2>4 DEF Represents
<1>4. Shared(y, O)
  BY DEF Sound, Shared, Own
<1> QED
  BY <1>1, <1>3, <1>4 DEF Sound, Keeps

\* swap_program().
LEMMA SwapProgramFacts ==
  ASSUME NEW z, NEW o \in Objects, NEW d, NEW O, Sound(z, o, d, O), z.ob.progIn, NEW ok \in BOOLEAN
  PROVE  LET y == SwapProgramOf(z, o, ok)
         IN  /\ Sound(y, o, d, O) /\ Keeps(z, y, O)
             /\ y.ob.state = z.ob.state /\ y.ob.varsIn = z.ob.varsIn
             /\ y.ob.varNum = z.ob.varNum
             /\ y.ob = z.ob \/ (~y.ob.progIn /\ y.ob.swapped = TRUE)
<1> DEFINE y == SwapProgramOf(z, o, ok)
           p == z.ob
           out == [p EXCEPT !.progIn = FALSE, !.swapped = TRUE, !.lines = FALSE,
                            !.blueprint = None]
           at == AllocAt(z.sw, ProgLen)
           word == ProgWord(o, d.blueprint)
           w == Store(z, ProgLen, word, ok)
<1>0. Whole(z) /\ Represents(z, o, d) /\ Shared(z, O)
  BY DEF Sound
<1>1. p.blueprint = d.blueprint
  BY <1>0 DEF Represents
<1>2. CASE p.swapNum # NoSwap
  <2>1. y = [z EXCEPT !.ob = out]
    BY <1>2 DEF SwapProgramOf
  <2>2. /\ y.sw = z.sw /\ y.file = z.file /\ y.lost = z.lost /\ y.ob = out /\ Whole(y)
        /\ out.progIn = FALSE /\ out.swapNum = p.swapNum /\ out.varsIn = p.varsIn
        /\ out.varNum = p.varNum /\ out.value = p.value /\ out.state = p.state
        /\ out.swapped = TRUE /\ out.blueprint = None
    BY <1>0, <2>1 DEF Whole, NoObject
  <2> HIDE DEF y, out
  <2>3. \A c, v : Stored(y, c, v) <=> Stored(z, c, v)
    BY <2>2 DEF Stored
  <2>4. Represents(y, o, d)
    BY <1>0, <1>2, <2>2, <2>3 DEF Represents
  <2>5. Shared(y, O)
    BY <1>0, <2>2 DEF Shared, Own
  <2>6. Keeps(z, y, O)
    BY <2>3 DEF Keeps
  <2> QED
    BY <2>2, <2>4, <2>5, <2>6 DEF Sound, y
<1>3. CASE p.swapNum = NoSwap
  <2>1. y = IF ok THEN [w EXCEPT !.ob = [out EXCEPT !.swapNum = at]] ELSE w
    BY <1>1, <1>3 DEF SwapProgramOf
  <2>2. /\ Whole(w) /\ w.ob = z.ob
        /\ at \notin Used(z.sw) /\ Used(w.sw) = Used(z.sw) \cup {at}
        /\ at # NoSwap
        /\ w.lost = (IF ok THEN z.lost ELSE z.lost \cup {at})
        /\ (ok => Stored(w, at, word))
        /\ Keeps(z, w, Used(z.sw))
    <3>1. LenOf(word) = ProgLen /\ ProgLen \in Nat \ {0} /\ word \in Words
      BY <1>0, ProgWordFacts DEF Represents, Words
    <3> HIDE DEF word
    <3>2. LenOf(word) \in Nat \ {0}
      BY <3>1
    <3>3. LET s == Store(z, LenOf(word), word, ok)
              c == AllocAt(z.sw, LenOf(word))
          IN  /\ Whole(s) /\ s.ob = z.ob
              /\ c \notin Used(z.sw) /\ Used(s.sw) = Used(z.sw) \cup {c}
              /\ c # NoSwap
              /\ s.lost = IF ok THEN z.lost ELSE z.lost \cup {c}
              /\ ok => Stored(s, c, word)
              /\ Keeps(z, s, Used(z.sw))
      BY <1>0, <3>1, <3>2, StoreFacts
    <3> QED
      BY <3>1, <3>3
  <2>3. Own(p) \subseteq Used(z.sw) /\ O \subseteq Used(z.sw) /\ z.lost \subseteq Used(z.sw)
    BY <1>0 DEF Shared
  <2> HIDE DEF w, at, word
  <2>4. CASE ~ok
    <3>1. y = w /\ w.lost = z.lost \cup {at}
      BY <2>1, <2>2, <2>4
    <3>2. ~p.varsIn => Stored(w, p.varNum, VarWord(o, d.value))
      BY <1>0, <2>2 DEF Keeps, Represents, Stored
    <3>3. Represents(w, o, d)
      BY <1>0, <1>3, <2>2, <3>2 DEF Represents
    <3>4. Shared(w, O)
      BY <1>0, <2>2, <2>3, <3>1 DEF Shared
    <3>5. Keeps(z, w, O)
      BY <2>2, <2>3 DEF Keeps
    <3> QED
      BY <2>2, <3>1, <3>3, <3>4, <3>5 DEF Sound
  <2>5. CASE ok
    <3> DEFINE new == [out EXCEPT !.swapNum = at]
    <3>1. y = [w EXCEPT !.ob = new]
      BY <2>1, <2>5
    <3>2. /\ y.sw = w.sw /\ y.file = w.file /\ y.lost = w.lost /\ y.ob = new /\ Whole(y)
          /\ new.progIn = FALSE /\ new.swapNum = at /\ new.varsIn = p.varsIn
          /\ new.varNum = p.varNum /\ new.value = p.value /\ new.state = p.state
          /\ new.swapped = TRUE /\ new.blueprint = None
      <4>1. p = w.ob /\ Full(p)
        BY <2>2, FullFacts
      <4>2. /\ Full(new)
            /\ new.progIn = FALSE /\ new.swapNum = at /\ new.varsIn = p.varsIn
            /\ new.varNum = p.varNum /\ new.value = p.value /\ new.state = p.state
            /\ new.swapped = TRUE /\ new.blueprint = None
        <5> HIDE DEF p
        <5> QED
          BY <4>1 DEF Full, NoObject
      <4> HIDE DEF new, y
      <4> QED
        BY <2>2, <3>1, <4>2, NewObject
    <3> HIDE DEF y, out, new
    <3>3. \A c, v : Stored(y, c, v) <=> Stored(w, c, v)
      BY <3>2 DEF Stored
    <3>4. ~p.varsIn => Stored(y, p.varNum, VarWord(o, d.value))
      BY <1>0, <2>2, <3>3 DEF Keeps, Represents, Stored
    <3>5. Represents(y, o, d)
      BY <1>0, <2>2, <2>5, <3>2, <3>3, <3>4 DEF Represents, word
    <3>6. Own(y.ob) = Own(p) \cup {at} /\ at # p.varNum
      BY <1>3, <2>2, <2>3, <3>2 DEF Own
    <3>7. Shared(y, O)
      BY <1>0, <2>2, <2>3, <2>5, <3>2, <3>6 DEF Shared
    <3>8. Keeps(z, y, O)
      BY <2>2, <2>3, <3>3 DEF Keeps
    <3> QED
      BY <3>2, <3>5, <3>7, <3>8 DEF Sound, y
  <2> QED
    BY <2>4, <2>5
<1> QED
  BY <1>2, <1>3

\* swap_variables().
LEMMA SwapVariablesFacts ==
  ASSUME NEW z, NEW o \in Objects, NEW d, NEW O, Sound(z, o, d, O), z.ob.varsIn, d.value \in Values,
         NEW ok \in BOOLEAN
  PROVE  LET y == SwapVariablesOf(z, o, ok)
         IN  /\ Sound(y, o, d, O) /\ Keeps(z, y, O)
             /\ y.ob.state = z.ob.state /\ y.ob.progIn = z.ob.progIn
             /\ y.ob = z.ob \/ (~y.ob.varsIn /\ y.ob.swapped = TRUE)
<1> DEFINE y == SwapVariablesOf(z, o, ok)
           p == z.ob
           len == VarLen[d.value]
           at == AllocAt(z.sw, len)
           word == VarWord(o, d.value)
           w == Store(z, len, word, ok)
<1>0. Whole(z) /\ Represents(z, o, d) /\ Shared(z, O)
  BY DEF Sound
<1>1. p.value = d.value /\ p.varNum = NoSwap
  BY <1>0 DEF Represents
<1>2. y = IF ok THEN [w EXCEPT !.ob = [@ EXCEPT !.varsIn = FALSE, !.swapped = TRUE,
                                                !.value = None, !.varNum = at]]
          ELSE w
  BY <1>1 DEF SwapVariablesOf
<1>3. /\ Whole(w) /\ w.ob = z.ob
      /\ at \notin Used(z.sw) /\ Used(w.sw) = Used(z.sw) \cup {at}
      /\ at # NoSwap
      /\ w.lost = (IF ok THEN z.lost ELSE z.lost \cup {at})
      /\ (ok => Stored(w, at, word))
      /\ Keeps(z, w, Used(z.sw))
  <2>1. LenOf(word) = len /\ len \in Nat \ {0} /\ word \in Words
    BY WordFacts DEF Words
  <2> HIDE DEF word, len
  <2>2. LenOf(word) \in Nat \ {0}
    BY <2>1
  <2>3. LET s == Store(z, LenOf(word), word, ok)
            c == AllocAt(z.sw, LenOf(word))
        IN  /\ Whole(s) /\ s.ob = z.ob
            /\ c \notin Used(z.sw) /\ Used(s.sw) = Used(z.sw) \cup {c}
            /\ c # NoSwap
            /\ s.lost = IF ok THEN z.lost ELSE z.lost \cup {c}
            /\ ok => Stored(s, c, word)
            /\ Keeps(z, s, Used(z.sw))
    BY <1>0, <2>1, <2>2, StoreFacts
  <2> QED
    BY <2>1, <2>3
<1>4. Own(p) \subseteq Used(z.sw) /\ O \subseteq Used(z.sw) /\ z.lost \subseteq Used(z.sw)
  BY <1>0 DEF Shared
<1>5. p.swapNum # NoSwap => Stored(w, p.swapNum, ProgWord(o, d.blueprint))
  BY <1>0, <1>3 DEF Keeps, Represents, Stored
<1> HIDE DEF w, at, word, len
<1>6. CASE ~ok
  <2>1. y = w /\ w.lost = z.lost \cup {at}
    BY <1>2, <1>3, <1>6
  <2>2. Represents(w, o, d)
    BY <1>0, <1>3, <1>5 DEF Represents
  <2>3. Shared(w, O)
    BY <1>0, <1>3, <1>4, <2>1 DEF Shared
  <2>4. Keeps(z, w, O)
    BY <1>3, <1>4 DEF Keeps
  <2> QED
    BY <1>3, <2>1, <2>2, <2>3, <2>4 DEF Sound
<1>7. CASE ok
  <2>1. /\ y.sw = w.sw /\ y.file = w.file /\ y.lost = w.lost /\ Whole(y)
        /\ y.ob.varsIn = FALSE /\ y.ob.varNum = at /\ y.ob.swapped = TRUE
        /\ y.ob.value = None /\ y.ob.progIn = p.progIn /\ y.ob.swapNum = p.swapNum
        /\ y.ob.blueprint = p.blueprint /\ y.ob.lines = p.lines /\ y.ob.state = p.state
    <3> DEFINE new == [p EXCEPT !.varsIn = FALSE, !.swapped = TRUE, !.value = None,
                                !.varNum = at]
    <3>1. y = [w EXCEPT !.ob = new]
      BY <1>2, <1>3, <1>7
    <3> HIDE DEF y
    <3> QED
      BY ZenonT(200), <1>0, <1>3, <3>1 DEF Whole, NoObject
  <2> HIDE DEF y
  <2>2. \A c, v : Stored(y, c, v) <=> Stored(w, c, v)
    BY <2>1 DEF Stored
  <2>3. Represents(y, o, d)
    BY <1>0, <1>3, <1>5, <1>7, <2>1, <2>2 DEF Represents, word
  <2>4. Own(y.ob) = Own(p) \cup {at} /\ at # p.swapNum
    BY <1>1, <1>3, <1>4, <2>1 DEF Own
  <2>5. Shared(y, O)
    BY <1>0, <1>3, <1>4, <1>7, <2>1, <2>4 DEF Shared
  <2>6. Keeps(z, y, O)
    BY <1>3, <1>4, <2>2 DEF Keeps
  <2> QED
    BY <2>1, <2>3, <2>5, <2>6 DEF Sound, y
<1> QED
  BY <1>6, <1>7

\* load_ob_from_swap(): the program.
LEMMA LoadProgramFacts ==
  ASSUME NEW z, NEW o, NEW d, NEW O, Sound(z, o, d, O)
  PROVE  LET y == LoadProgram(z)
         IN  /\ Sound(y, o, d, O) /\ Keeps(z, y, O) /\ y.ob.progIn
             /\ y.ob.state = z.ob.state /\ y.ob.varsIn = z.ob.varsIn
             /\ y.ob.varNum = z.ob.varNum /\ y.ob.swapped = z.ob.swapped
             /\ y.file = z.file /\ (z.ob.progIn => y = z)
<1> DEFINE y == LoadProgram(z)
           p == z.ob
<1>0. Whole(z) /\ Represents(z, o, d) /\ Shared(z, O)
  BY DEF Sound
<1>1. CASE p.progIn
  BY <1>1 DEF LoadProgram, Keeps
<1>2. CASE ~p.progIn
  <2>1. p.swapNum # NoSwap /\ Stored(z, p.swapNum, ProgWord(o, d.blueprint))
    BY <1>0, <1>2 DEF Represents
  <2>2. Read(z.file, p.swapNum) = ProgWord(o, d.blueprint)
    BY <1>0, <2>1, ProgWordFacts, ReadFacts
  <2>3. Read(z.file, p.swapNum).blueprint = d.blueprint
    BY <2>2 DEF ProgWord
  <2>4. y = [z EXCEPT !.ob = [@ EXCEPT !.progIn = TRUE, !.blueprint = d.blueprint]]
    BY <1>2, <2>3 DEF LoadProgram
  <2>5. /\ y.sw = z.sw /\ y.file = z.file /\ y.lost = z.lost /\ Whole(y)
        /\ y.ob.varsIn = p.varsIn /\ y.ob.varNum = p.varNum /\ y.ob.swapped = p.swapped
        /\ y.ob.value = p.value /\ y.ob.progIn = TRUE /\ y.ob.swapNum = p.swapNum
        /\ y.ob.blueprint = d.blueprint /\ y.ob.lines = p.lines /\ y.ob.state = p.state
    <3> DEFINE new == [p EXCEPT !.progIn = TRUE, !.blueprint = d.blueprint]
    <3>1. Full(p)
      BY <1>0, FullFacts
    <3>2. /\ Full(new)
          /\ new.varsIn = p.varsIn /\ new.varNum = p.varNum /\ new.swapped = p.swapped
          /\ new.value = p.value /\ new.progIn = TRUE /\ new.swapNum = p.swapNum
          /\ new.blueprint = d.blueprint /\ new.lines = p.lines /\ new.state = p.state
      <4> HIDE DEF p
      <4> QED
        BY <3>1 DEF Full, NoObject
    <3>3. y = [z EXCEPT !.ob = new]
      BY <2>4
    <3> HIDE DEF new, y
    <3> QED
      BY <1>0, <3>2, <3>3, NewObject
  <2> HIDE DEF y
  <2>6. \A c, v : Stored(y, c, v) <=> Stored(z, c, v)
    BY <2>5 DEF Stored
  <2>7. Represents(y, o, d)
    BY <1>0, <2>1, <2>5, <2>6 DEF Represents
  <2>8. Shared(y, O)
    BY <1>0, <2>5 DEF Shared, Own
  <2> QED
    BY <1>2, <2>5, <2>6, <2>7, <2>8 DEF Sound, Keeps, y
<1> QED
  BY <1>1, <1>2

\* load_ob_from_swap(): the variables, whose block is given back.
LEMMA LoadVariablesFacts ==
  ASSUME NEW z, NEW o, NEW d, NEW O, Sound(z, o, d, O)
  PROVE  LET y == LoadVariables(z)
         IN  /\ Sound(y, o, d, O) /\ Keeps(z, y, O) /\ y.ob.varsIn
             /\ y.ob.state = z.ob.state /\ y.ob.progIn = z.ob.progIn
<1> DEFINE y == LoadVariables(z)
           p == z.ob
           at == p.varNum
           w == FreeIn(z, at)
<1>0. Whole(z) /\ Represents(z, o, d) /\ Shared(z, O)
  BY DEF Sound
<1>1. CASE p.varsIn
  BY <1>1 DEF LoadVariables, Keeps
<1>2. CASE ~p.varsIn
  <2>1. at # NoSwap /\ d.value \in Values /\ Stored(z, at, VarWord(o, d.value))
    BY <1>0, <1>2 DEF Represents
  <2>2. Read(z.file, at) = VarWord(o, d.value)
    BY <1>0, <2>1, WordFacts, ReadFacts
  <2>3. Read(z.file, at).value = d.value
    BY <2>2 DEF VarWord
  <2>4. /\ Whole(w) /\ w.ob = z.ob /\ w.lost = z.lost
        /\ Used(w.sw) = Used(z.sw) \ {at}
        /\ Keeps(z, w, Used(z.sw) \ {at})
    BY <1>0, <2>1, FreeInFacts DEF Stored
  <2>5. y = [w EXCEPT !.ob = [@ EXCEPT !.varsIn = TRUE, !.varNum = NoSwap,
                                       !.value = d.value]]
    BY <1>2, <2>3 DEF LoadVariables
  <2> HIDE DEF w
  <2>6. /\ y.sw = w.sw /\ y.file = w.file /\ y.lost = w.lost /\ Whole(y)
        /\ y.ob.varsIn = TRUE /\ y.ob.varNum = NoSwap /\ y.ob.value = d.value
        /\ y.ob.progIn = p.progIn /\ y.ob.swapNum = p.swapNum
        /\ y.ob.blueprint = p.blueprint /\ y.ob.lines = p.lines /\ y.ob.state = p.state
    <3> DEFINE new == [p EXCEPT !.varsIn = TRUE, !.varNum = NoSwap, !.value = d.value]
    <3>1. y = [w EXCEPT !.ob = new]
      BY <2>4, <2>5
    <3> HIDE DEF y
    <3> QED
      BY ZenonT(200), <1>0, <2>4, <3>1 DEF Whole, NoObject
  <2> HIDE DEF y
  <2>7. \A c, v : Stored(y, c, v) <=> Stored(w, c, v)
    BY <2>6 DEF Stored
  <2>8. p.swapNum # NoSwap => p.swapNum \in Used(z.sw) \ {at}
    BY <1>0, <2>1 DEF Shared, Own
  <2>9. p.swapNum # NoSwap => Stored(y, p.swapNum, ProgWord(o, d.blueprint))
    BY <1>0, <2>4, <2>7, <2>8 DEF Keeps, Represents
  <2>10. Represents(y, o, d)
    BY <1>0, <2>6, <2>9 DEF Represents
  <2>11. Own(y.ob) = Own(p) \ {at} /\ at \in Own(p) /\ at \notin O /\ at \notin z.lost
    BY <1>0, <2>1, <2>6, <2>8 DEF Own, Shared
  <2>12. Shared(y, O)
    BY <1>0, <2>4, <2>6, <2>11 DEF Shared
  <2>13. Keeps(z, y, O)
    <3>1. O \subseteq Used(z.sw) \ {at}
      BY <1>0, <2>11 DEF Shared
    <3> QED
      BY <2>4, <2>7, <3>1 DEF Keeps
  <2> QED
    BY <2>6, <2>10, <2>12, <2>13 DEF Sound, y
<1> QED
  BY <1>1, <1>2

\* remove_prog_swap(), of a program in memory.
LEMMA RemoveProgSwapFacts ==
  ASSUME NEW z, NEW o, NEW d, NEW O, Sound(z, o, d, O), z.ob.progIn,
         NEW loadLines \in BOOLEAN, loadLines \/ z.ob.state # "alive"
  PROVE  LET y == RemoveProgSwap(z, loadLines)
         IN  /\ Sound(y, o, d, O) /\ Keeps(z, y, O)
             /\ y.ob.state = z.ob.state /\ y.ob.varsIn = z.ob.varsIn
             /\ y.ob.varNum = z.ob.varNum /\ y.ob.swapped = z.ob.swapped
             /\ y.ob.progIn /\ y.ob.swapNum = NoSwap
             /\ y.ob.value = z.ob.value /\ y.ob.blueprint = z.ob.blueprint
             /\ y.ob.state = "alive" => y.ob.lines
<1> DEFINE y == RemoveProgSwap(z, loadLines)
           p == z.ob
           at == p.swapNum
           w == FreeIn(z, at)
<1>0. Whole(z) /\ Represents(z, o, d) /\ Shared(z, O)
  BY DEF Sound
<1>1. CASE at = NoSwap
  <2>1. y = z
    BY <1>1 DEF RemoveProgSwap
  <2> QED
    BY <1>0, <1>1, <2>1 DEF Keeps, Represents
<1>2. CASE at # NoSwap
  <2>1. Stored(z, at, ProgWord(o, d.blueprint))
    BY <1>0, <1>2 DEF Represents
  <2>2. /\ Whole(w) /\ w.ob = z.ob /\ w.lost = z.lost
        /\ Used(w.sw) = Used(z.sw) \ {at}
        /\ Keeps(z, w, Used(z.sw) \ {at})
    BY <1>0, <2>1, FreeInFacts DEF Stored
  <2> DEFINE new == [p EXCEPT !.swapNum = NoSwap, !.lines = @ \/ loadLines]
  <2>3. y = [w EXCEPT !.ob = new]
    BY <1>2 DEF RemoveProgSwap
  <2> HIDE DEF w
  <2>4. /\ y.sw = w.sw /\ y.file = w.file /\ y.lost = w.lost /\ Whole(y)
        /\ y.ob.varsIn = p.varsIn /\ y.ob.varNum = p.varNum /\ y.ob.value = p.value
        /\ y.ob.progIn = p.progIn /\ y.ob.swapNum = NoSwap
        /\ y.ob.blueprint = p.blueprint /\ y.ob.lines = (p.lines \/ loadLines)
        /\ y.ob.state = p.state /\ y.ob.swapped = p.swapped
    <3>1. Full(p)
      BY <1>0, FullFacts
    <3>2. /\ Full(new)
          /\ new.varsIn = p.varsIn /\ new.varNum = p.varNum /\ new.value = p.value
          /\ new.progIn = p.progIn /\ new.swapNum = NoSwap
          /\ new.blueprint = p.blueprint /\ new.lines = (p.lines \/ loadLines)
          /\ new.state = p.state /\ new.swapped = p.swapped
      <4> HIDE DEF p
      <4> QED
        BY <3>1 DEF Full, NoObject
    <3> HIDE DEF new, y, p
    <3>3. y.sw = w.sw /\ y.file = w.file /\ y.lost = w.lost /\ y.ob = new /\ Whole(y)
      BY <2>2, <2>3, <3>2, NewObject
    <3> QED
      BY <3>2, <3>3
  <2> HIDE DEF y
  <2>5. \A c, v : Stored(y, c, v) <=> Stored(w, c, v)
    BY <2>4 DEF Stored
  <2>6. p.varNum # NoSwap => p.varNum \in Used(z.sw) \ {at}
    BY <1>0, <1>2 DEF Shared, Own
  <2>7. ~p.varsIn => Stored(y, p.varNum, VarWord(o, d.value))
    BY <1>0, <2>2, <2>5, <2>6 DEF Keeps, Represents
  <2>8. Represents(y, o, d)
    BY <1>0, <2>4, <2>7 DEF Represents
  <2>9. Own(y.ob) = Own(p) \ {at} /\ at \in Own(p) /\ at \notin O /\ at \notin z.lost
    BY <1>0, <1>2, <2>4, <2>6 DEF Own, Shared
  <2>10. Shared(y, O)
    <3>1. y.ob.swapNum = y.ob.varNum => y.ob.swapNum = NoSwap
      BY <2>4
    <3> QED
      BY <1>0, <2>2, <2>4, <2>9, <3>1 DEF Shared
  <2>11. Keeps(z, y, O)
    <3>1. O \subseteq Used(z.sw) \ {at}
      BY <1>0, <2>9 DEF Shared
    <3> QED
      BY <2>2, <2>5, <3>1 DEF Keeps
  <2> QED
    BY <2>4, <2>8, <2>10, <2>11 DEF Sound, y
<1> QED
  BY <1>1, <1>2

\* The blueprint of a program in memory is gone, and with it the image.
LEMMA DropBlueprintFacts ==
  ASSUME NEW z, NEW o, NEW d, NEW O, Sound(z, o, d, O), z.ob.progIn
  PROVE  LET y == DropBlueprintOf(z)
         IN  /\ Sound(y, o, [blueprint |-> FALSE, value |-> d.value], O) /\ Keeps(z, y, O)
             /\ y.ob.state = z.ob.state /\ y.ob.varsIn = z.ob.varsIn
             /\ y.ob.varNum = z.ob.varNum /\ y.ob.swapped = z.ob.swapped
             /\ y.ob.progIn
<1> DEFINE y == DropBlueprintOf(z)
           r == RemoveProgSwap(z, TRUE)
           e == [blueprint |-> FALSE, value |-> d.value]
<1>1. /\ Sound(r, o, d, O) /\ Keeps(z, r, O)
      /\ r.ob.state = z.ob.state /\ r.ob.varsIn = z.ob.varsIn
      /\ r.ob.varNum = z.ob.varNum /\ r.ob.swapped = z.ob.swapped
      /\ r.ob.progIn /\ r.ob.swapNum = NoSwap
      /\ r.ob.value = z.ob.value
      /\ (r.ob.state = "alive" => r.ob.lines)
  BY RemoveProgSwapFacts
<1>2. /\ y.sw = r.sw /\ y.file = r.file /\ y.lost = r.lost
      /\ y.ob = [r.ob EXCEPT !.blueprint = FALSE]
      /\ DOMAIN y = {"sw", "file", "lost", "ob"} /\ y = [f \in DOMAIN y |-> y[f]]
  <2> DEFINE p == z.ob
             x == [z EXCEPT !.ob.blueprint = FALSE]
             out == [p EXCEPT !.blueprint = FALSE]
             on == [p EXCEPT !.swapNum = NoSwap, !.lines = @ \/ TRUE]
             off == [out EXCEPT !.swapNum = NoSwap, !.lines = @ \/ TRUE]
  <2>1. /\ Whole(z) /\ Full(p)
        /\ DOMAIN z = {"sw", "file", "lost", "ob"} /\ z = [f \in DOMAIN z |-> z[f]]
    BY FullFacts DEF Sound, Whole
  <2>2. out.swapNum = p.swapNum /\ Full(out) /\ off = [on EXCEPT !.blueprint = FALSE]
    <3> HIDE DEF p
    <3> QED
      BY <2>1 DEF Full, NoObject
  <2>3. x = [z EXCEPT !.ob = out] /\ y = RemoveProgSwap(x, TRUE)
    BY <2>1 DEF DropBlueprintOf
  <2> HIDE DEF x, y, out
  <2>4. Whole(x) /\ x.sw = z.sw /\ x.file = z.file /\ x.lost = z.lost /\ x.ob = out
    BY <2>1, <2>2, <2>3, NewObject
  <2>5. CASE p.swapNum = NoSwap
    <3>1. y = x /\ r = z
      BY <2>2, <2>3, <2>4, <2>5 DEF RemoveProgSwap
    <3> QED
      BY <2>4, <3>1 DEF Whole, out
  <2>6. CASE p.swapNum # NoSwap
    <3>1. y = [FreeIn(x, p.swapNum) EXCEPT !.ob = off] /\ r = [FreeIn(z, p.swapNum) EXCEPT !.ob = on]
      BY <2>2, <2>3, <2>4, <2>6 DEF RemoveProgSwap
    <3> DEFINE s == Free(z.sw, p.swapNum)
               f == Write(z.file, p.swapNum, Abs(z.sw.blk[p.swapNum]), Junk)
               a == [x EXCEPT !.sw = s, !.file = f]
               b == [z EXCEPT !.sw = s, !.file = f]
    <3>2. FreeIn(x, p.swapNum) = a /\ FreeIn(z, p.swapNum) = b
      BY <2>4 DEF FreeIn
    <3> HIDE DEF s, f
    <3>3. /\ a.sw = s /\ a.file = f /\ a.lost = z.lost /\ b.sw = s /\ b.file = f
          /\ b.lost = z.lost
          /\ DOMAIN a = {"sw", "file", "lost", "ob"} /\ a = [g \in DOMAIN a |-> a[g]]
          /\ DOMAIN b = {"sw", "file", "lost", "ob"} /\ b = [g \in DOMAIN b |-> b[g]]
      BY <2>1, <2>4 DEF Whole
    <3>4. y = [a EXCEPT !.ob = off] /\ r = [b EXCEPT !.ob = on]
      BY <3>1, <3>2
    <3> HIDE DEF a, b, on, off, r
    <3>5. /\ y.sw = a.sw /\ y.file = a.file /\ y.lost = a.lost /\ y.ob = off
          /\ DOMAIN y = {"sw", "file", "lost", "ob"} /\ y = [g \in DOMAIN y |-> y[g]]
      BY <3>3, <3>4
    <3>6. r.sw = b.sw /\ r.file = b.file /\ r.lost = b.lost /\ r.ob = on
      BY <3>3, <3>4
    <3> QED
      BY <2>2, <3>3, <3>5, <3>6
  <2> QED
    BY <2>5, <2>6
<1> HIDE DEF y, r
<1>3. /\ Whole(y) /\ y.ob.progIn = r.ob.progIn /\ y.ob.swapNum = r.ob.swapNum
      /\ y.ob.varsIn = r.ob.varsIn /\ y.ob.varNum = r.ob.varNum
      /\ y.ob.blueprint = FALSE /\ y.ob.value = r.ob.value /\ y.ob.lines = r.ob.lines
      /\ y.ob.state = r.ob.state /\ y.ob.swapped = r.ob.swapped
  BY <1>1, <1>2 DEF Sound, Whole, NoObject
<1>4. Sound(y, o, e, O) /\ Keeps(r, y, O)
  <2>1. e.blueprint = FALSE /\ e.value = d.value
    OBVIOUS
  <2>2. y.ob.progIn /\ y.ob.swapNum = NoSwap /\ y.ob.blueprint = e.blueprint
    BY <1>1, <1>3, <2>1
  <2>3. y.ob.state = "alive" /\ y.ob.progIn => y.ob.lines \/ y.ob.swapNum # NoSwap
    BY <1>1, <1>3
  <2> HIDE DEF e
  <2> QED
    BY <1>1, <1>2, <1>3, <2>1, <2>2, <2>3, OtherData
<1> QED
  BY <1>1, <1>3, <1>4 DEF Keeps, y

\* The variables in the swap file get a value of the same size.
LEMMA RewriteFacts ==
  ASSUME NEW z, NEW o \in Objects, NEW d, NEW O, Sound(z, o, d, O), ~z.ob.varsIn,
         NEW v \in Values, VarLen[v] = VarLen[d.value]
  PROVE  LET y == [z EXCEPT !.file = Write(@, z.ob.varNum, VarLen[v], VarWord(o, v))]
         IN  /\ Sound(y, o, [blueprint |-> d.blueprint, value |-> v], O)
             /\ Keeps(z, y, O) /\ y.ob = z.ob
<1> DEFINE at == z.ob.varNum
           len == VarLen[v]
           word == VarWord(o, v)
           y == [z EXCEPT !.file = Write(@, at, len, word)]
           e == [blueprint |-> d.blueprint, value |-> v]
           C == Used(z.sw) \ {at}
<1>0. Whole(z) /\ Represents(z, o, d) /\ Shared(z, O)
  BY DEF Sound
<1>1. /\ y.sw = z.sw /\ y.lost = z.lost /\ y.ob = z.ob
      /\ y.file = Write(z.file, at, len, word)
      /\ DOMAIN y = {"sw", "file", "lost", "ob"} /\ y = [f \in DOMAIN y |-> y[f]]
  BY <1>0 DEF Whole
<1> HIDE DEF y
<1>2. /\ at # NoSwap /\ d.value \in Values /\ at \in Used(z.sw)
      /\ EndOf(z.sw, at) = at + LenOf(VarWord(o, d.value))
  BY <1>0 DEF Represents, Stored
<1>3. len \in Nat \ {0} /\ LenOf(word) = len /\ EndOf(z.sw, at) = at + len
  BY <1>2, WordFacts
<1>4. at \in DOMAIN z.sw.blk /\ at \in Nat /\ Tiled(z.sw)
  BY <1>0, <1>2, BlockFacts DEF Used, Whole, ListOK
<1>12. Whole(y)
  <2>1. z.sw.size \in Nat /\ at < z.sw.size /\ at + len <= z.sw.size /\ len \in Nat
    <3>1. /\ at < EndOf(z.sw, at) /\ EndOf(z.sw, at) <= z.sw.size /\ z.sw.size \in Nat
          /\ EndOf(z.sw, at) \in Nat
      BY <1>4, BlockFacts
    <3> QED
      BY <1>3, <1>4, <3>1
  <2>2. word \in Words
    BY DEF Words
  <2>3. Filled(z.sw, z.file)
    BY <1>0 DEF Whole
  <2> HIDE DEF len, word, at
  <2>4. Filled(z.sw, Write(z.file, at, len, word))
    BY <1>4, <2>1, <2>2, <2>3, WriteFills
  <2> QED
    BY <1>0, <1>1, <2>4 DEF Whole
<1>5. Keeps(z, y, C)
  <2>1. C \subseteq Used(y.sw) /\ C \subseteq DOMAIN z.sw.blk /\ at \notin C
    BY <1>1 DEF Used
  <2>2. len \in Nat /\ \A c \in C : EndOf(y.sw, c) = EndOf(z.sw, c)
    BY <1>1, <1>3
  <2> HIDE DEF C, len, word
  <2> QED
    BY <1>1, <1>3, <1>4, <2>1, <2>2, WriteKeeps
<1>6. Stored(y, at, word)
  <2>1. EndOf(z.sw, at) - 1 = at + len - 1
    BY <1>3, <1>4
  <2>2. \A i \in at .. at + len - 1 : i \in DOMAIN y.file /\ y.file[i] = word
    BY <1>1 DEF Write
  <2> HIDE DEF word, len
  <2> QED
    BY <1>1, <1>2, <1>3, <2>1, <2>2 DEF Stored
<1>7. z.ob.swapNum # NoSwap => z.ob.swapNum \in C
  BY <1>0, <1>2 DEF Shared, Own
<1>8. z.ob.swapNum # NoSwap => Stored(y, z.ob.swapNum, ProgWord(o, d.blueprint))
  BY <1>0, <1>5, <1>7 DEF Keeps, Represents
<1>9. Represents(y, o, e)
  BY <1>0, <1>1, <1>6, <1>8 DEF Represents
<1>10. Shared(y, O)
  BY <1>0, <1>1 DEF Shared
<1>11. Keeps(z, y, O)
  <2>1. O \subseteq C
    BY <1>0, <1>2 DEF Shared, Own
  <2> QED
    BY <1>5, <2>1 DEF Keeps
<1> QED
  BY <1>1, <1>9, <1>10, <1>11, <1>12 DEF Sound, y

-----------------------------------------------------------------------------
(* Several of these in a row.                                              *)

\* An object in one of its states.
Fits(ob, d) ==
  /\ ob.state \in {"none", "alive", "destructed"}
  /\ ob.state = "alive" => /\ d.blueprint \in BOOLEAN /\ d.value \in Values
                           /\ ob.swapped <=> ~(ob.progIn /\ ob.varsIn)
  /\ ob.state # "alive" => ob.progIn /\ ob.varsIn
  /\ ob.state = "none" => ob = NoObject

LEMMA KeepsOn ==
  ASSUME NEW x, NEW y, NEW z, NEW O, Keeps(x, y, O), Keeps(y, z, O)
  PROVE  Keeps(x, z, O)
BY DEF Keeps

\* A field of the object that does not say what it represents.
LEMMA FlagFields ==
  ASSUME NEW z, Whole(z), NEW b, NEW y, y = [z EXCEPT !.ob.swapped = b]
  PROVE  /\ y.ob.state = z.ob.state /\ y.ob.varsIn = z.ob.varsIn
         /\ y.ob.varNum = z.ob.varNum /\ y.ob.progIn = z.ob.progIn
         /\ y.ob.swapped = b /\ y.file = z.file
BY DEF Whole, NoObject

LEMMA FlagFacts ==
  ASSUME NEW z, NEW o, NEW d, NEW O, Sound(z, o, d, O), NEW b,
         NEW y, y = [z EXCEPT !.ob.swapped = b]
  PROVE  Sound(y, o, d, O) /\ Keeps(z, y, O)
<1>1. Whole(z) /\ Represents(z, o, d)
  BY DEF Sound
<1>2. /\ y.sw = z.sw /\ y.file = z.file /\ y.lost = z.lost
      /\ y.ob = [z.ob EXCEPT !.swapped = b]
      /\ DOMAIN y = {"sw", "file", "lost", "ob"} /\ y = [f \in DOMAIN y |-> y[f]]
  BY <1>1 DEF Whole
<1>3. /\ Whole(y) /\ y.ob.progIn = z.ob.progIn /\ y.ob.swapNum = z.ob.swapNum
      /\ y.ob.varsIn = z.ob.varsIn /\ y.ob.varNum = z.ob.varNum
      /\ y.ob.blueprint = z.ob.blueprint /\ y.ob.value = z.ob.value
      /\ y.ob.lines = z.ob.lines /\ y.ob.state = z.ob.state /\ y.ob.swapped = b
  BY <1>1, <1>2 DEF Whole, NoObject
<1>4. y.ob.state = "alive" /\ y.ob.progIn => y.ob.lines \/ y.ob.swapNum # NoSwap
  BY <1>1, <1>3 DEF Represents
<1>5. Sound(y, o, d, O) /\ Keeps(z, y, O)
  BY <1>1, <1>2, <1>3, <1>4, OtherData DEF Represents
<1> QED
  BY <1>2, <1>3, <1>5

\* LPC code assigns to the variables in memory.
LEMMA AssignFacts ==
  ASSUME NEW z, NEW o, NEW d, NEW O, Sound(z, o, d, O), z.ob.varsIn, NEW v
  PROVE  LET y == [z EXCEPT !.ob.value = v]
         IN  /\ Sound(y, o, [blueprint |-> d.blueprint, value |-> v], O) /\ Keeps(z, y, O)
             /\ y.ob.state = z.ob.state /\ y.ob.varsIn = z.ob.varsIn
             /\ y.ob.progIn = z.ob.progIn /\ y.ob.swapped = z.ob.swapped
<1> DEFINE y == [z EXCEPT !.ob.value = v]
           e == [blueprint |-> d.blueprint, value |-> v]
<1>1. Whole(z) /\ Represents(z, o, d)
  BY DEF Sound
<1>2. /\ y.sw = z.sw /\ y.file = z.file /\ y.lost = z.lost
      /\ y.ob = [z.ob EXCEPT !.value = v]
      /\ DOMAIN y = {"sw", "file", "lost", "ob"} /\ y = [f \in DOMAIN y |-> y[f]]
  BY <1>1 DEF Whole
<1> HIDE DEF y
<1>3. /\ Whole(y) /\ y.ob.progIn = z.ob.progIn /\ y.ob.swapNum = z.ob.swapNum
      /\ y.ob.varsIn = z.ob.varsIn /\ y.ob.varNum = z.ob.varNum
      /\ y.ob.blueprint = z.ob.blueprint /\ y.ob.value = v
      /\ y.ob.lines = z.ob.lines /\ y.ob.state = z.ob.state
      /\ y.ob.swapped = z.ob.swapped
  BY <1>1, <1>2 DEF Whole, NoObject
<1>4. y.ob.state = "alive" /\ y.ob.progIn => y.ob.lines \/ y.ob.swapNum # NoSwap
  BY <1>1, <1>3 DEF Represents
<1>5. e.blueprint = d.blueprint /\ e.value = v
  OBVIOUS
<1> HIDE DEF e
<1>6. Sound(y, o, e, O) /\ Keeps(z, y, O)
  <2>1. e.blueprint = d.blueprint /\ y.ob.blueprint = z.ob.blueprint
    BY <1>3, <1>5
  <2>2. y.ob.varsIn /\ y.ob.value = e.value
    BY <1>3, <1>5
  <2>3. e.blueprint \in BOOLEAN
    BY <1>1, <1>5 DEF Represents
  <2> QED
    BY <1>2, <1>3, <1>4, <2>1, <2>2, <2>3, OtherData
<1> QED
  BY <1>3, <1>6 DEF y, e

\* An object whose flag is right is in memory after it was loaded.
Loaded(z) == IF z.ob.swapped THEN Load(z, "ok") ELSE z

LEMMA LoadedFacts ==
  ASSUME NEW z, NEW o, NEW d, NEW O, Sound(z, o, d, O), Fits(z.ob, d), z.ob.state = "alive"
  PROVE  LET y == Loaded(z)
         IN  /\ Sound(y, o, d, O) /\ Keeps(z, y, O)
             /\ y.ob.state = "alive" /\ y.ob.progIn /\ y.ob.varsIn /\ ~y.ob.swapped
<1> DEFINE q == LoadProgram(z)
           w == LoadVariables(q)
           y == [w EXCEPT !.ob.swapped = FALSE]
<1>1. CASE ~z.ob.swapped
  BY <1>1 DEF Loaded, Fits, Keeps
<1>2. CASE z.ob.swapped
  <2>1. Loaded(z) = y
    BY <1>2 DEF Loaded, Load
  <2>2. Sound(q, o, d, O) /\ Keeps(z, q, O) /\ q.ob.progIn /\ q.ob.state = z.ob.state
    BY LoadProgramFacts
  <2> HIDE DEF q
  <2>3. /\ Sound(w, o, d, O) /\ Keeps(q, w, O) /\ w.ob.varsIn
        /\ w.ob.state = q.ob.state /\ w.ob.progIn = q.ob.progIn
    BY <2>2, LoadVariablesFacts
  <2> HIDE DEF w
  <2>4. /\ Sound(y, o, d, O) /\ Keeps(w, y, O)
        /\ y.ob.state = w.ob.state /\ y.ob.varsIn = w.ob.varsIn
        /\ y.ob.swapped = FALSE /\ y.ob.progIn = w.ob.progIn
    <3>1. y = [w EXCEPT !.ob.swapped = FALSE]
      OBVIOUS
    <3> HIDE DEF y
    <3>2. Sound(w, o, d, O)
      BY <2>3
    <3>3. Sound(y, o, d, O) /\ Keeps(w, y, O)
      BY ONLY <3>1, <3>2, FlagFacts
    <3>4. Whole(w)
      BY <3>2 DEF Sound
    <3>5. /\ y.ob.state = w.ob.state /\ y.ob.varsIn = w.ob.varsIn
          /\ y.ob.progIn = w.ob.progIn /\ y.ob.swapped = FALSE
      BY <3>1, <3>4 DEF Whole, NoObject
    <3> QED
      BY <3>3, <3>5
  <2> HIDE DEF y
  <2>5. Keeps(z, y, O)
    BY <2>2, <2>3, <2>4, KeepsOn
  <2> QED
    BY <2>1, <2>2, <2>3, <2>4, <2>5
<1> QED
  BY <1>1, <1>2

\* swap(), of an object in memory: some of it, or nothing if the writes fail.
LEMMA SwapAgainFacts ==
  ASSUME NEW z, NEW o \in Objects, NEW d, NEW O, Sound(z, o, d, O), d.value \in Values,
         d.blueprint \in BOOLEAN,
         z.ob.state = "alive", z.ob.progIn, z.ob.varsIn, ~z.ob.swapped,
         NEW prog, NEW var, NEW okProg \in BOOLEAN, NEW okVar \in BOOLEAN
  PROVE  LET y == SwapAgain(z, o, prog, var, okProg, okVar)
         IN  Sound(y, o, d, O) /\ Keeps(z, y, O) /\ y.ob.state = "alive" /\ Fits(y.ob, d)
<1> DEFINE w == IF var THEN SwapVariablesOf(z, o, okVar) ELSE z
           y == IF prog THEN SwapProgramOf(w, o, okProg) ELSE w
<1>1. /\ Sound(w, o, d, O) /\ Keeps(z, w, O) /\ w.ob.state = "alive" /\ w.ob.progIn
      /\ w.ob = z.ob \/ (~w.ob.varsIn /\ w.ob.swapped = TRUE)
  <2>1. CASE var
    <3> DEFINE x == SwapVariablesOf(z, o, okVar)
    <3>1. /\ Sound(x, o, d, O) /\ Keeps(z, x, O)
          /\ x.ob.state = z.ob.state /\ x.ob.progIn = z.ob.progIn
          /\ x.ob = z.ob \/ (~x.ob.varsIn /\ x.ob.swapped = TRUE)
      BY SwapVariablesFacts
    <3>2. w = x
      BY <2>1
    <3> HIDE DEF x, w
    <3> QED
      BY <3>1, <3>2
  <2>2. CASE ~var
    BY <2>2 DEF Keeps
  <2> QED
    BY <2>1, <2>2
<1> HIDE DEF w
<1>2. /\ Sound(y, o, d, O) /\ Keeps(w, y, O) /\ y.ob.state = "alive"
      /\ y.ob.varsIn = w.ob.varsIn
      /\ y.ob = w.ob \/ (~y.ob.progIn /\ y.ob.swapped = TRUE)
  <2>1. CASE prog
    <3> DEFINE x == SwapProgramOf(w, o, okProg)
    <3>1. /\ Sound(x, o, d, O) /\ Keeps(w, x, O)
          /\ x.ob.state = w.ob.state /\ x.ob.varsIn = w.ob.varsIn
          /\ x.ob = w.ob \/ (~x.ob.progIn /\ x.ob.swapped = TRUE)
      BY ZenonT(60), <1>1, SwapProgramFacts
    <3>2. y = x
      BY <2>1
    <3> HIDE DEF x, y
    <3> QED
      BY <1>1, <3>1, <3>2
  <2>2. CASE ~prog
    BY <1>1, <2>2 DEF Keeps
  <2> QED
    BY <2>1, <2>2
<1>3. y = SwapAgain(z, o, prog, var, okProg, okVar)
  BY DEF SwapAgain, w
<1> HIDE DEF y
<1>4. Fits(y.ob, d)
  BY <1>1, <1>2 DEF Fits
<1>5. Keeps(z, y, O)
  BY <1>1, <1>2, KeepsOn
<1> QED
  BY <1>2, <1>3, <1>4, <1>5

-----------------------------------------------------------------------------
(* The inductive invariant.                                                *)

\* The blocks of the other objects.
Others(o) == UNION {Own(obj[p]) : p \in Objects \ {o}}

IInv ==
  /\ Complete(sw) /\ ListOK(sw) /\ Counted(sw) /\ Filled(sw, file)
  /\ obj = [o \in Objects |-> obj[o]]
  /\ Used(sw) = lost \cup UNION {Own(obj[o]) : o \in Objects}
  /\ \A o \in Objects : \E d : Sound(State(o), o, d, Others(o)) /\ Fits(obj[o], d)

\* From one state of an object, which holds d, to another.
Moves(s, d, t, e) ==
  \/ s = "none" /\ t = "alive"
  \/ s = "alive" /\ t = "alive" /\ (e.blueprint => d.blueprint)
  \/ s = "alive" /\ t = "destructed"
  \/ s = "destructed" /\ t # "alive"

\* What every action does: the swapper and the object o are as in z, where o
\* holds e and the data of the others are where they were.
Step(o, d, z, e) ==
  /\ sw' = z.sw /\ file' = z.file /\ lost' = z.lost
  /\ obj' = [obj EXCEPT ![o] = z.ob]
  /\ Sound(z, o, e, Others(o)) /\ Keeps(State(o), z, Others(o)) /\ Fits(z.ob, e)
  /\ Moves(obj[o].state, d, z.ob.state, e)

LEMMA StateFacts ==
  ASSUME NEW o
  PROVE  /\ State(o).sw = sw /\ State(o).file = file /\ State(o).lost = lost
         /\ State(o).ob = obj[o]
BY DEF State

LEMMA CreateStep ==
  ASSUME NEW o \in Objects, NEW d, Sound(State(o), o, d, Others(o)), Fits(obj[o], d), Create(o)
  PROVE  \E z, e : Step(o, d, z, e)
<1>1. obj[o] = NoObject /\ obj[o].state = "none"
  BY DEF Create, Fits
<1>2. PICK b \in BOOLEAN, v \in Values :
        obj' = [obj EXCEPT ![o] = [NoObject EXCEPT !.state = "alive",
                                                   !.blueprint = b, !.value = v]]
  BY DEF Create
<1> DEFINE e == [blueprint |-> b, value |-> v]
           ob == [NoObject EXCEPT !.state = "alive", !.blueprint = b, !.value = v]
           z == [State(o) EXCEPT !.ob = ob]
<1>3. /\ DOMAIN ob = DOMAIN NoObject /\ ob = [f \in DOMAIN NoObject |-> ob[f]]
      /\ ob.state = "alive" /\ ob.progIn = TRUE /\ ob.swapNum = NoSwap /\ ob.varsIn = TRUE
      /\ ob.varNum = NoSwap /\ ob.blueprint = b /\ ob.value = v /\ ob.lines = TRUE
      /\ ob.swapped = FALSE
  BY DEF NoObject
<1>4. e.blueprint = b /\ e.value = v
  OBVIOUS
<1>5. Whole(State(o))
  BY DEF Sound
<1>6. z.sw = sw /\ z.file = file /\ z.lost = lost /\ z.ob = ob
  BY DEF State
<1>7. Whole(z)
  <2>1. DOMAIN z = {"sw", "file", "lost", "ob"} /\ z = [f \in DOMAIN z |-> z[f]]
    BY DEF State
  <2> HIDE DEF z, ob
  <2> QED
    BY <1>3, <1>5, <1>6, <2>1, StateFacts DEF Whole
<1>8. /\ obj[o].progIn = TRUE /\ obj[o].swapNum = NoSwap /\ obj[o].varsIn = TRUE
      /\ obj[o].varNum = NoSwap
  BY <1>1 DEF NoObject
<1>9. sw' = z.sw /\ file' = z.file /\ lost' = z.lost /\ obj' = [obj EXCEPT ![o] = z.ob]
  BY <1>2, <1>6 DEF Create
<1> HIDE DEF z, ob, e
<1>10. Sound(z, o, e, Others(o)) /\ Keeps(State(o), z, Others(o))
  <2> DEFINE y == State(o)
             O == Others(o)
  <2>1. /\ Sound(y, o, d, O) /\ Whole(z) /\ z.sw = y.sw /\ z.file = y.file /\ z.lost = y.lost
        /\ z.ob.progIn = y.ob.progIn /\ z.ob.swapNum = y.ob.swapNum
        /\ z.ob.varsIn = y.ob.varsIn /\ z.ob.varNum = y.ob.varNum
    BY ZenonT(60), <1>3, <1>6, <1>7, <1>8, StateFacts
  <2>2. z.ob.progIn /\ z.ob.swapNum = NoSwap /\ z.ob.blueprint = e.blueprint
    BY <1>3, <1>4, <1>6
  <2>3. z.ob.varsIn /\ z.ob.value = e.value
    BY <1>3, <1>4, <1>6
  <2>4. z.ob.lines
    BY <1>3, <1>6
  <2>6. e.blueprint \in BOOLEAN
    BY <1>4
  <2> HIDE DEF y, O
  <2>5. Sound(z, o, e, O) /\ Keeps(y, z, O)
    BY <2>1, <2>2, <2>3, <2>4, <2>6, OtherData
  <2> QED
    BY <2>5 DEF y, O
<1>11. Fits(z.ob, e)
  BY <1>3, <1>4, <1>6 DEF Fits
<1>12. Moves(obj[o].state, d, z.ob.state, e)
  BY <1>1, <1>3, <1>6 DEF Moves
<1> QED
  BY <1>9, <1>10, <1>11, <1>12 DEF Step

\* An action that ends with Become().
LEMMA BecomeStep ==
  ASSUME NEW o \in Objects, NEW d, NEW z, NEW e, Become(o, z), Sound(z, o, e, Others(o)),
         Keeps(State(o), z, Others(o)), Fits(z.ob, e), Moves(obj[o].state, d, z.ob.state, e)
  PROVE  \E y, c : Step(o, d, y, c)
BY DEF Become, Step

LEMMA SwapProgramStep ==
  ASSUME NEW o \in Objects, NEW d, Sound(State(o), o, d, Others(o)), Fits(obj[o], d),
         SwapProgram(o)
  PROVE  \E z, e : Step(o, d, z, e)
<1>1. PICK ok \in BOOLEAN : Become(o, SwapProgramOf(State(o), o, ok))
  BY DEF SwapProgram
<1> DEFINE z == SwapProgramOf(State(o), o, ok)
<1>2. State(o).ob.progIn /\ obj[o].progIn /\ obj[o].state = "alive"
  BY StateFacts DEF SwapProgram, Alive
<1>3. /\ Sound(z, o, d, Others(o)) /\ Keeps(State(o), z, Others(o))
      /\ z.ob.state = obj[o].state /\ z.ob.varsIn = obj[o].varsIn
      /\ z.ob = obj[o] \/ (~z.ob.progIn /\ z.ob.swapped = TRUE)
  <2> DEFINE y == State(o)
             O == Others(o)
  <2>1. Sound(y, o, d, O) /\ y.ob = obj[o]
    BY StateFacts
  <2>2. z = SwapProgramOf(y, o, ok)
    OBVIOUS
  <2> HIDE DEF y, O, z
  <2>3. Sound(z, o, d, O) /\ Keeps(y, z, O)
    BY <1>2, <2>1, <2>2, SwapProgramFacts
  <2>4. /\ z.ob.state = y.ob.state /\ z.ob.varsIn = y.ob.varsIn
        /\ z.ob = y.ob \/ (~z.ob.progIn /\ z.ob.swapped = TRUE)
    BY ZenonT(200), <1>2, <2>1, <2>2, SwapProgramFacts
  <2> QED
    BY <2>1, <2>3, <2>4 DEF y, O
<1> HIDE DEF z
<1>4. Fits(z.ob, d)
  BY <1>2, <1>3 DEF Fits
<1>5. Moves(obj[o].state, d, z.ob.state, d)
  BY <1>2, <1>3 DEF Moves
<1> QED
  BY <1>1, <1>3, <1>4, <1>5, BecomeStep DEF z

LEMMA SwapVariablesStep ==
  ASSUME NEW o \in Objects, NEW d, Sound(State(o), o, d, Others(o)), Fits(obj[o], d),
         SwapVariables(o)
  PROVE  \E z, e : Step(o, d, z, e)
<1>1. PICK ok \in BOOLEAN : Become(o, SwapVariablesOf(State(o), o, ok))
  BY DEF SwapVariables
<1> DEFINE z == SwapVariablesOf(State(o), o, ok)
<1>2. State(o).ob.varsIn /\ obj[o].varsIn /\ obj[o].state = "alive" /\ d.value \in Values
  BY StateFacts DEF SwapVariables, Alive, Fits
<1>3. /\ Sound(z, o, d, Others(o)) /\ Keeps(State(o), z, Others(o))
      /\ z.ob.state = obj[o].state /\ z.ob.progIn = obj[o].progIn
      /\ z.ob = obj[o] \/ (~z.ob.varsIn /\ z.ob.swapped = TRUE)
  <2> DEFINE y == State(o)
             O == Others(o)
  <2>1. Sound(y, o, d, O) /\ y.ob = obj[o]
    BY StateFacts
  <2>2. z = SwapVariablesOf(y, o, ok)
    OBVIOUS
  <2> HIDE DEF y, O, z
  <2>3. Sound(z, o, d, O) /\ Keeps(y, z, O)
    BY <1>2, <2>1, <2>2, SwapVariablesFacts
  <2>4. /\ z.ob.state = y.ob.state /\ z.ob.progIn = y.ob.progIn
        /\ z.ob = y.ob \/ (~z.ob.varsIn /\ z.ob.swapped = TRUE)
    BY ZenonT(200), <1>2, <2>1, <2>2, SwapVariablesFacts
  <2> QED
    BY <2>1, <2>3, <2>4 DEF y, O
<1> HIDE DEF z
<1>4. Fits(z.ob, d)
  BY <1>2, <1>3 DEF Fits
<1>5. Moves(obj[o].state, d, z.ob.state, d)
  BY <1>2, <1>3 DEF Moves
<1> QED
  BY <1>1, <1>3, <1>4, <1>5, BecomeStep DEF z

\* From y, where o holds d, to z.
Good(y, z, o, d, O) ==
  \E e : Sound(z, o, e, O) /\ Keeps(y, z, O) /\ Fits(z.ob, e)
         /\ Moves(y.ob.state, d, z.ob.state, e)

LEMMA GoodStep ==
  ASSUME NEW o \in Objects, NEW d, NEW z, Become(o, z), Good(State(o), z, o, d, Others(o))
  PROVE  \E y, e : Step(o, d, y, e)
<1>1. PICK e : /\ Sound(z, o, e, Others(o)) /\ Keeps(State(o), z, Others(o)) /\ Fits(z.ob, e)
               /\ Moves(State(o).ob.state, d, z.ob.state, e)
  BY DEF Good
<1> QED
  BY <1>1, StateFacts, BecomeStep

LEMMA GoodAssign ==
  ASSUME NEW y, NEW w, NEW o, NEW d, NEW O, Sound(w, o, d, O), Keeps(y, w, O),
         y.ob.state = "alive", w.ob.state = "alive", w.ob.progIn, w.ob.varsIn, ~w.ob.swapped,
         d.blueprint \in BOOLEAN, NEW v \in Values, NEW z, z = [w EXCEPT !.ob.value = v]
  PROVE  Good(y, z, o, d, O)
<1> DEFINE e == [blueprint |-> d.blueprint, value |-> v]
<1>1. /\ Sound(z, o, e, O) /\ Keeps(w, z, O)
      /\ z.ob.state = w.ob.state /\ z.ob.varsIn = w.ob.varsIn
      /\ z.ob.progIn = w.ob.progIn /\ z.ob.swapped = w.ob.swapped
  BY ZenonT(200), AssignFacts
<1>2. e.blueprint = d.blueprint /\ e.value = v
  OBVIOUS
<1> HIDE DEF e
<1>3. Keeps(y, z, O)
  BY <1>1, KeepsOn
<1>4. Fits(z.ob, e)
  BY <1>1, <1>2 DEF Fits
<1>5. Moves(y.ob.state, d, z.ob.state, e)
  BY <1>1, <1>2 DEF Moves
<1> QED
  BY <1>1, <1>3, <1>4, <1>5 DEF Good

LEMMA CallStep ==
  ASSUME NEW o \in Objects, NEW d, Sound(State(o), o, d, Others(o)), Fits(obj[o], d),
         ~ReadFails, Call(o)
  PROVE  \E z, e : Step(o, d, z, e)
<1> DEFINE y == State(o)
           O == Others(o)
<1>1. /\ Sound(y, o, d, O) /\ y.ob = obj[o] /\ Fits(y.ob, d) /\ y.ob.state = "alive"
      /\ d.blueprint \in BOOLEAN
  BY StateFacts DEF Call, Alive, Fits
<1>2. PICK result \in IF obj[o].swapped THEN LoadResults(obj[o]) ELSE {"ok"} :
        LET z == IF obj[o].swapped THEN Load(y, result) ELSE y
        IN  IF result = "ok"
            THEN \E v \in Values : Become(o, [z EXCEPT !.ob.value = v])
            ELSE Become(o, z)
  BY DEF Call
<1>3. \/ result = "ok"
      \/ result = "noProgram" /\ y.ob.swapped
      \/ result = "noVariables" /\ y.ob.swapped /\ ~y.ob.varsIn
  <2>1. result \in LoadResults(obj[o]) => \/ result = "ok" \/ result = "noProgram"
                                          \/ result = "noVariables" /\ ~obj[o].varsIn
    BY DEF LoadResults
  <2>2. ~obj[o].swapped => result = "ok"
    BY <1>2
  <2>3. obj[o].swapped => result \in LoadResults(obj[o])
    BY <1>2
  <2> QED
    BY <1>1, <2>1, <2>2, <2>3
<1>4. CASE result = "ok"
  <2> DEFINE w == Loaded(y)
  <2>1. PICK v \in Values : Become(o, [w EXCEPT !.ob.value = v])
    BY <1>1, <1>2, <1>4 DEF Loaded
  <2> DEFINE z == [w EXCEPT !.ob.value = v]
  <2> HIDE DEF y, O
  <2>2. /\ Sound(w, o, d, O) /\ Keeps(y, w, O)
        /\ w.ob.state = "alive" /\ w.ob.progIn /\ w.ob.varsIn /\ ~w.ob.swapped
    BY <1>1, LoadedFacts
  <2> HIDE DEF w
  <2>3. Good(y, z, o, d, O)
    BY <1>1, <2>2, GoodAssign
  <2>4. Good(State(o), z, o, d, Others(o)) /\ Become(o, z)
    BY <2>1, <2>3 DEF y, O
  <2> HIDE DEF z
  <2> QED
    BY <2>4, GoodStep
<1>5. CASE result = "noProgram" /\ y.ob.swapped
  <2>1. Become(o, y)
    BY <1>1, <1>2, <1>5 DEF Load
  <2> HIDE DEF y, O
  <2>2. Keeps(y, y, O) /\ Moves(y.ob.state, d, y.ob.state, d)
    BY <1>1 DEF Keeps, Moves
  <2>3. Good(y, y, o, d, O)
    BY <1>1, <2>2 DEF Good
  <2>4. Good(State(o), y, o, d, Others(o)) /\ Become(o, y)
    BY <2>1, <2>3 DEF y, O
  <2> QED
    BY <2>4, GoodStep
<1>6. CASE result = "noVariables" /\ y.ob.swapped /\ ~y.ob.varsIn
  <2> DEFINE z == LoadProgram(y)
  <2>1. Become(o, z)
    BY <1>1, <1>2, <1>6 DEF Load
  <2> HIDE DEF y, O
  <2>2. /\ Sound(z, o, d, O) /\ Keeps(y, z, O) /\ z.ob.state = y.ob.state
        /\ z.ob.varsIn = y.ob.varsIn /\ z.ob.swapped = y.ob.swapped
    BY <1>1, LoadProgramFacts
  <2> HIDE DEF z
  <2>3. Fits(z.ob, d) /\ Moves(y.ob.state, d, z.ob.state, d)
    BY <1>1, <1>6, <2>2 DEF Fits, Moves
  <2>4. Good(y, z, o, d, O)
    BY <2>2, <2>3 DEF Good
  <2>5. Good(State(o), z, o, d, Others(o)) /\ Become(o, z)
    BY <2>1, <2>4 DEF y, O
  <2> QED
    BY <2>5, GoodStep
<1> QED
  BY <1>3, <1>4, <1>5, <1>6

LEMMA LoadLinesStep ==
  ASSUME NEW o \in Objects, NEW d, Sound(State(o), o, d, Others(o)), Fits(obj[o], d),
         LoadLines(o)
  PROVE  \E z, e : Step(o, d, z, e)
<1> DEFINE y == State(o)
           O == Others(o)
           ob == [y.ob EXCEPT !.lines = TRUE]
           z == [y EXCEPT !.ob = ob]
<1>1. Sound(y, o, d, O) /\ y.ob = obj[o] /\ Fits(y.ob, d) /\ y.sw = sw /\ y.file = file
      /\ y.lost = lost
  BY StateFacts
<1>2. obj[o].state # "none" /\ obj' = [obj EXCEPT ![o] = ob] /\ UNCHANGED <<sw, file, lost>>
  BY <1>1 DEF LoadLines
<1> HIDE DEF y, O
<1>3. Whole(y)
  BY <1>1 DEF Sound
<1>4. /\ ob.progIn = y.ob.progIn /\ ob.swapNum = y.ob.swapNum
      /\ ob.varsIn = y.ob.varsIn /\ ob.varNum = y.ob.varNum
      /\ ob.blueprint = y.ob.blueprint /\ ob.value = y.ob.value
      /\ ob.lines = TRUE /\ ob.state = y.ob.state /\ ob.swapped = y.ob.swapped
      /\ DOMAIN ob = DOMAIN NoObject /\ ob = [f \in DOMAIN NoObject |-> ob[f]]
  BY <1>3 DEF Whole, NoObject
<1> HIDE DEF ob
<1>5. z.sw = y.sw /\ z.file = y.file /\ z.lost = y.lost /\ z.ob = ob /\ Whole(z)
  BY <1>3, <1>4 DEF Whole
<1> HIDE DEF z
<1>6. Sound(z, o, d, O) /\ Keeps(y, z, O)
  <2>1. d.blueprint \in BOOLEAN
    BY <1>1 DEF Sound, Represents
  <2> QED
    BY <1>1, <1>4, <1>5, <2>1, OtherData
<1>7. Fits(z.ob, d)
  BY <1>1, <1>2, <1>4, <1>5 DEF Fits
<1>8. Moves(obj[o].state, d, z.ob.state, d)
  <2>1. obj[o].state \in {"alive", "destructed"}
    BY <1>1, <1>2 DEF Fits
  <2> QED
    BY <1>1, <1>4, <1>5, <2>1 DEF Moves
<1>9. Sound(z, o, d, Others(o)) /\ Keeps(State(o), z, Others(o))
  BY <1>6 DEF y, O
<1>10. sw' = z.sw /\ file' = z.file /\ lost' = z.lost /\ obj' = [obj EXCEPT ![o] = z.ob]
  BY <1>1, <1>2, <1>5
<1> QED
  BY <1>7, <1>8, <1>9, <1>10 DEF Step

LEMMA DropBlueprintStep ==
  ASSUME NEW o \in Objects, NEW d, Sound(State(o), o, d, Others(o)), Fits(obj[o], d),
         DropBlueprint(o)
  PROVE  \E z, e : Step(o, d, z, e)
<1> DEFINE y == State(o)
           O == Others(o)
           z == DropBlueprintOf(y)
           e == [blueprint |-> FALSE, value |-> d.value]
<1>1. /\ Sound(y, o, d, O) /\ y.ob = obj[o] /\ Fits(y.ob, d) /\ y.ob.state = "alive"
      /\ y.ob.progIn /\ Become(o, z)
  BY StateFacts DEF DropBlueprint, Alive
<1> HIDE DEF y, O
<1>2. /\ Sound(z, o, e, O) /\ Keeps(y, z, O)
      /\ z.ob.state = y.ob.state /\ z.ob.varsIn = y.ob.varsIn
      /\ z.ob.swapped = y.ob.swapped /\ z.ob.progIn
  BY <1>1, DropBlueprintFacts
<1>3. e.blueprint = FALSE /\ e.value = d.value
  OBVIOUS
<1> HIDE DEF z, e
<1>4. Fits(z.ob, e) /\ Moves(y.ob.state, d, z.ob.state, e)
  BY <1>1, <1>2, <1>3 DEF Fits, Moves
<1>5. Good(State(o), z, o, d, Others(o))
  BY <1>2, <1>4 DEF Good, y, O
<1> QED
  BY <1>1, <1>5, GoodStep

LEMMA CleanUpStep ==
  ASSUME NEW o \in Objects, NEW d, Sound(State(o), o, d, Others(o)), Fits(obj[o], d),
         CleanUp(o)
  PROVE  \E z, e : Step(o, d, z, e)
<1> DEFINE q == State(o)
           O == Others(o)
           z == Loaded(q)
<1>1. Sound(q, o, d, O) /\ q.ob = obj[o] /\ Fits(q.ob, d) /\ q.ob.state = "alive"
  BY StateFacts DEF CleanUp, Alive
<1>2. PICK drop \in BOOLEAN, okProg \in BOOLEAN, okVar \in BOOLEAN, v \in Values :
        LET y == IF drop THEN DropBlueprintOf(z) ELSE z
            x == [y EXCEPT !.ob.value = v]
        IN  Become(o, SwapAgain(x, o, ~q.ob.progIn, ~q.ob.varsIn, okProg, okVar))
  BY <1>1 DEF CleanUp, Loaded
<1> DEFINE y == IF drop THEN DropBlueprintOf(z) ELSE z
           x == [y EXCEPT !.ob.value = v]
           w == SwapAgain(x, o, ~q.ob.progIn, ~q.ob.varsIn, okProg, okVar)
<1>3. Become(o, w)
  BY <1>2
<1> HIDE DEF q, O
<1>4. /\ Sound(z, o, d, O) /\ Keeps(q, z, O)
      /\ z.ob.state = "alive" /\ z.ob.progIn /\ z.ob.varsIn /\ ~z.ob.swapped
  BY <1>1, LoadedFacts
<1> HIDE DEF z
<1>5. PICK c : /\ Sound(y, o, c, O) /\ Keeps(z, y, O)
               /\ c.blueprint \in BOOLEAN /\ (c.blueprint => d.blueprint)
               /\ y.ob.state = "alive" /\ y.ob.progIn /\ y.ob.varsIn /\ ~y.ob.swapped
  <2>1. CASE drop
    <3> DEFINE c == [blueprint |-> FALSE, value |-> d.value]
               b == DropBlueprintOf(z)
    <3>1. /\ Sound(b, o, c, O) /\ Keeps(z, b, O)
          /\ b.ob.state = z.ob.state /\ b.ob.varsIn = z.ob.varsIn
          /\ b.ob.swapped = z.ob.swapped /\ b.ob.progIn
      BY <1>4, DropBlueprintFacts
    <3>2. c.blueprint = FALSE /\ y = b
      BY <2>1
    <3> HIDE DEF b, c, y
    <3> QED
      BY <1>4, <3>1, <3>2
  <2>2. CASE ~drop
    <3>1. y = z /\ Keeps(z, z, O)
      BY <2>2 DEF Keeps
    <3>2. d.blueprint \in BOOLEAN
      BY <1>1 DEF Fits
    <3> HIDE DEF y
    <3> QED
      BY <1>4, <3>1, <3>2
  <2> QED
    BY <2>1, <2>2
<1> HIDE DEF y
<1> DEFINE e == [blueprint |-> c.blueprint, value |-> v]
<1>6. /\ Sound(x, o, e, O) /\ Keeps(y, x, O)
      /\ x.ob.state = y.ob.state /\ x.ob.varsIn = y.ob.varsIn
      /\ x.ob.progIn = y.ob.progIn /\ x.ob.swapped = y.ob.swapped
  BY <1>5, AssignFacts
<1>7. e.blueprint = c.blueprint /\ e.value = v
  OBVIOUS
<1> HIDE DEF e, x
<1>8. Sound(w, o, e, O) /\ Keeps(x, w, O) /\ w.ob.state = "alive" /\ Fits(w.ob, e)
  <2>1. /\ x.ob.state = "alive" /\ x.ob.progIn /\ x.ob.varsIn /\ ~x.ob.swapped
        /\ e.value \in Values /\ e.blueprint \in BOOLEAN
    BY <1>5, <1>6, <1>7
  <2>2. PICK prog, var : w = SwapAgain(x, o, prog, var, okProg, okVar)
    OBVIOUS
  <2> HIDE DEF w
  <2> QED
    BY <1>6, <2>1, <2>2, SwapAgainFacts
<1> HIDE DEF w
<1>9. Keeps(q, y, O)
  BY <1>4, <1>5, KeepsOn
<1>10. Keeps(q, x, O)
  BY <1>6, <1>9, KeepsOn
<1>11. Keeps(q, w, O)
  BY <1>8, <1>10, KeepsOn
<1>12. Moves(q.ob.state, d, w.ob.state, e)
  BY <1>1, <1>5, <1>7, <1>8 DEF Moves
<1>13. Good(State(o), w, o, d, Others(o))
  BY <1>8, <1>11, <1>12 DEF Good, q, O
<1> QED
  BY <1>3, <1>13, GoodStep

LEMMA DestructStep ==
  ASSUME NEW o \in Objects, NEW d, Sound(State(o), o, d, Others(o)), Fits(obj[o], d),
         Destruct(o)
  PROVE  \E z, e : Step(o, d, z, e)
<1> DEFINE q == State(o)
           O == Others(o)
           z == Loaded(q)
           y == IF z.ob.blueprint = TRUE THEN DropBlueprintOf(z) ELSE z
           w == [y EXCEPT !.ob = [@ EXCEPT !.state = "destructed", !.value = None]]
<1>1. /\ Sound(q, o, d, O) /\ q.ob = obj[o] /\ Fits(q.ob, d) /\ q.ob.state = "alive"
      /\ Become(o, w)
  BY StateFacts DEF Destruct, Alive, Loaded
<1> HIDE DEF q, O
<1>2. /\ Sound(z, o, d, O) /\ Keeps(q, z, O)
      /\ z.ob.state = "alive" /\ z.ob.progIn /\ z.ob.varsIn /\ ~z.ob.swapped
  BY <1>1, LoadedFacts
<1> HIDE DEF z
<1>3. PICK c : /\ Sound(y, o, c, O) /\ Keeps(z, y, O)
               /\ y.ob.state = "alive" /\ y.ob.progIn /\ y.ob.varsIn
  <2>1. CASE z.ob.blueprint = TRUE
    <3> DEFINE c == [blueprint |-> FALSE, value |-> d.value]
               b == DropBlueprintOf(z)
    <3>1. /\ Sound(b, o, c, O) /\ Keeps(z, b, O)
          /\ b.ob.state = z.ob.state /\ b.ob.varsIn = z.ob.varsIn /\ b.ob.progIn
      BY <1>2, DropBlueprintFacts
    <3>2. y = b
      BY <2>1
    <3> HIDE DEF b, c, y
    <3> QED
      BY <1>2, <3>1, <3>2
  <2>2. CASE z.ob.blueprint # TRUE
    <3>1. y = z /\ Keeps(z, z, O)
      BY <2>2 DEF Keeps
    <3> HIDE DEF y
    <3> QED
      BY <1>2, <3>1
  <2> QED
    BY <2>1, <2>2
<1> HIDE DEF y
<1> DEFINE e == [blueprint |-> c.blueprint, value |-> None]
           new == [y.ob EXCEPT !.state = "destructed", !.value = None]
<1>4. Whole(y)
  BY <1>3 DEF Sound
<1>5. /\ new.progIn = y.ob.progIn /\ new.swapNum = y.ob.swapNum
      /\ new.varsIn = y.ob.varsIn /\ new.varNum = y.ob.varNum
      /\ new.blueprint = y.ob.blueprint /\ new.value = None /\ new.state = "destructed"
      /\ DOMAIN new = DOMAIN NoObject /\ new = [f \in DOMAIN NoObject |-> new[f]]
  BY <1>4 DEF Whole, NoObject
<1>6. w = [y EXCEPT !.ob = new]
  OBVIOUS
<1>7. e.blueprint = c.blueprint /\ e.value = None
  OBVIOUS
<1> HIDE DEF w, new, e
<1>8. w.sw = y.sw /\ w.file = y.file /\ w.lost = y.lost /\ w.ob = new /\ Whole(w)
  BY <1>4, <1>5, <1>6 DEF Whole
<1>9. Sound(w, o, e, O) /\ Keeps(y, w, O)
  <2>1. e.blueprint = c.blueprint /\ w.ob.blueprint = y.ob.blueprint
    BY <1>5, <1>7, <1>8
  <2>2. w.ob.varsIn /\ w.ob.value = e.value
    BY <1>3, <1>5, <1>7, <1>8
  <2>3. w.ob.state # "alive"
    BY <1>5, <1>8
  <2>4. e.blueprint \in BOOLEAN
    BY <1>3, <1>7 DEF Sound, Represents
  <2> QED
    BY <1>3, <1>5, <1>8, <2>1, <2>2, <2>3, <2>4, OtherData
<1>10. Fits(w.ob, e) /\ Moves(q.ob.state, d, w.ob.state, e)
  BY <1>1, <1>3, <1>5, <1>8 DEF Fits, Moves
<1>11. Keeps(q, y, O)
  BY <1>2, <1>3, KeepsOn
<1>12. Keeps(q, w, O)
  BY <1>9, <1>11, KeepsOn
<1>13. Good(State(o), w, o, d, Others(o))
  BY <1>9, <1>10, <1>12 DEF Good, q, O
<1> QED
  BY <1>1, <1>13, GoodStep

LEMMA FreeObjectStep ==
  ASSUME NEW o \in Objects, NEW d, Sound(State(o), o, d, Others(o)), Fits(obj[o], d),
         FreeObject(o)
  PROVE  \E z, e : Step(o, d, z, e)
<1> DEFINE q == State(o)
           O == Others(o)
           r == RemoveProgSwap(q, FALSE)
           z == [r EXCEPT !.ob = NoObject]
           e == [blueprint |-> FALSE, value |-> None]
<1>1. /\ Sound(q, o, d, O) /\ q.ob = obj[o] /\ Fits(q.ob, d) /\ q.ob.state = "destructed"
      /\ Become(o, z)
  BY StateFacts DEF FreeObject
<1> HIDE DEF q, O
<1>2. q.ob.progIn /\ q.ob.varsIn /\ q.ob.state # "alive"
  BY <1>1 DEF Fits
<1>3. Sound(r, o, d, O) /\ Keeps(q, r, O)
  BY <1>1, <1>2, RemoveProgSwapFacts
<1>4. /\ r.ob.varsIn = q.ob.varsIn /\ r.ob.varNum = q.ob.varNum
      /\ r.ob.progIn /\ r.ob.swapNum = NoSwap
  BY <1>1, <1>2, RemoveProgSwapFacts
<1> HIDE DEF r
<1>5. r.ob.varsIn /\ r.ob.varNum = NoSwap /\ Whole(r)
  BY <1>2, <1>3, <1>4 DEF Sound, Represents
<1>6. /\ NoObject.progIn = TRUE /\ NoObject.swapNum = NoSwap /\ NoObject.varsIn = TRUE
      /\ NoObject.varNum = NoSwap /\ NoObject.blueprint = FALSE /\ NoObject.value = None
      /\ NoObject.state = "none" /\ NoObject = [f \in DOMAIN NoObject |-> NoObject[f]]
  BY DEF NoObject
<1>7. z.sw = r.sw /\ z.file = r.file /\ z.lost = r.lost /\ z.ob = NoObject /\ Whole(z)
  BY <1>5, <1>6 DEF Whole
<1>8. e.blueprint = FALSE /\ e.value = None
  OBVIOUS
<1> HIDE DEF z, e
<1>9. Sound(z, o, e, O) /\ Keeps(r, z, O)
  <2>1. z.ob.progIn /\ z.ob.swapNum = NoSwap /\ z.ob.blueprint = e.blueprint
    BY <1>6, <1>7, <1>8
  <2>2. z.ob.varsIn /\ z.ob.value = e.value
    BY <1>6, <1>7, <1>8
  <2>3. /\ z.ob.progIn = r.ob.progIn /\ z.ob.swapNum = r.ob.swapNum
        /\ z.ob.varsIn = r.ob.varsIn /\ z.ob.varNum = r.ob.varNum
    BY <1>4, <1>5, <1>6, <1>7
  <2>4. z.ob.state # "alive"
    BY <1>6, <1>7
  <2> QED
    BY <1>3, <1>7, <1>8, <2>1, <2>2, <2>3, <2>4, OtherData
<1>10. Fits(z.ob, e) /\ Moves(q.ob.state, d, z.ob.state, e)
  BY <1>1, <1>6, <1>7 DEF Fits, Moves
<1>11. Keeps(q, z, O)
  BY <1>3, <1>9, KeepsOn
<1>12. Good(State(o), z, o, d, Others(o))
  BY <1>9, <1>10, <1>11 DEF Good, q, O
<1> QED
  BY <1>1, <1>12, GoodStep

LEMMA CollectGarbageStep ==
  ASSUME NEW o \in Objects, NEW d, Sound(State(o), o, d, Others(o)), Fits(obj[o], d),
         CollectGarbage(o)
  PROVE  \E z, e : Step(o, d, z, e)
<1> DEFINE q == State(o)
           O == Others(o)
           z == LoadProgram(q)
           w == Read(file, obj[o].varNum)
<1>1. /\ Sound(q, o, d, O) /\ q.ob = obj[o] /\ Fits(q.ob, d) /\ q.ob.state = "alive"
      /\ d.blueprint \in BOOLEAN /\ d.value \in Values /\ q.file = file
  BY StateFacts DEF CollectGarbage, Alive, Fits
<1>2. PICK drop \in BOOLEAN, ok \in BOOLEAN :
        \/ obj[o].varsIn /\ Become(o, ProgramPutBack(z, o, drop, ok))
        \/ /\ ~obj[o].varsIn
           /\ \E v \in Values :
                /\ VarLen[v] = LenOf(w)
                /\ Become(o, [ProgramPutBack(z, o, drop, ok) EXCEPT
                               !.file = Write(@, obj[o].varNum,
                                              VarLen[v], VarWord(o, v))])
  BY ZenonT(60) DEF CollectGarbage
<1> DEFINE y == IF drop THEN DropBlueprintOf(z) ELSE z
           t == IF obj[o].progIn THEN y ELSE SwapProgramOf(y, o, ok)
           flag == ~obj[o].varsIn \/ ~t.ob.progIn
           x == [t EXCEPT !.ob.swapped = flag]
<1>3. \/ obj[o].varsIn /\ Become(o, x)
      \/ ~obj[o].varsIn /\ \E v \in Values :
           /\ VarLen[v] = LenOf(w)
           /\ Become(o, [x EXCEPT !.file = Write(@, obj[o].varNum, VarLen[v], VarWord(o, v))])
  BY <1>2 DEF ProgramPutBack
<1>4. Whole(q) /\ Represents(q, o, d)
  BY <1>1 DEF Sound
<1> HIDE DEF q, O
<1>5. ~obj[o].varsIn => LenOf(w) = VarLen[d.value]
  <2> SUFFICES ASSUME ~obj[o].varsIn
               PROVE  LenOf(w) = VarLen[d.value]
    OBVIOUS
  <2>1. Stored(q, obj[o].varNum, VarWord(o, d.value))
    BY <1>1, <1>4 DEF Represents
  <2>2. w = VarWord(o, d.value)
    BY <1>1, <1>4, <2>1, WordFacts, ReadFacts
  <2> QED
    BY <1>1, <2>2, WordFacts
<1> HIDE DEF w
<1>6. /\ Sound(z, o, d, O) /\ Keeps(q, z, O) /\ z.ob.progIn
      /\ z.ob.state = q.ob.state /\ z.ob.varsIn = obj[o].varsIn
      /\ z.ob.varNum = obj[o].varNum
  BY <1>1, LoadProgramFacts
<1> HIDE DEF z
<1>7. PICK c : /\ Sound(y, o, c, O) /\ Keeps(z, y, O)
               /\ c.blueprint \in BOOLEAN /\ (c.blueprint => d.blueprint) /\ c.value = d.value
               /\ y.ob.state = z.ob.state /\ y.ob.varsIn = z.ob.varsIn
               /\ y.ob.varNum = z.ob.varNum /\ y.ob.progIn
  <2>1. CASE drop
    <3> DEFINE c == [blueprint |-> FALSE, value |-> d.value]
               b == DropBlueprintOf(z)
    <3>1. /\ Sound(b, o, c, O) /\ Keeps(z, b, O)
          /\ b.ob.state = z.ob.state /\ b.ob.varsIn = z.ob.varsIn
          /\ b.ob.varNum = z.ob.varNum /\ b.ob.progIn
      BY <1>6, DropBlueprintFacts
    <3>2. c.blueprint = FALSE /\ c.value = d.value /\ y = b
      BY <2>1
    <3> HIDE DEF b, c, y
    <3> QED
      BY <3>1, <3>2
  <2>2. CASE ~drop
    <3>1. y = z /\ Keeps(z, z, O)
      BY <2>2 DEF Keeps
    <3> HIDE DEF y
    <3> QED
      BY <1>1, <1>6, <3>1
  <2> QED
    BY <2>1, <2>2
<1> HIDE DEF y
<1>8. /\ Sound(t, o, c, O) /\ Keeps(y, t, O)
      /\ t.ob.state = y.ob.state /\ t.ob.varsIn = y.ob.varsIn /\ t.ob.varNum = y.ob.varNum
  <2>1. CASE obj[o].progIn
    <3>1. t = y /\ Keeps(y, y, O)
      BY <2>1 DEF Keeps
    <3> QED
      BY <1>7, <3>1
  <2>2. CASE ~obj[o].progIn
    <3> DEFINE b == SwapProgramOf(y, o, ok)
    <3>1. /\ Sound(b, o, c, O) /\ Keeps(y, b, O)
          /\ b.ob.state = y.ob.state /\ b.ob.varsIn = y.ob.varsIn /\ b.ob.varNum = y.ob.varNum
      BY ZenonT(300), <1>7, SwapProgramFacts
    <3>2. t = b
      BY <2>2
    <3> HIDE DEF b, t
    <3> QED
      BY <3>1, <3>2
  <2> QED
    BY <2>1, <2>2
<1> HIDE DEF t
<1>9. flag <=> ~(t.ob.progIn /\ t.ob.varsIn)
  BY <1>6, <1>7, <1>8
<1>10. PICK b : x = [t EXCEPT !.ob.swapped = b] /\ (b <=> ~(t.ob.progIn /\ t.ob.varsIn))
  BY <1>9
<1> HIDE DEF x, flag
<1>11. Sound(x, o, c, O) /\ Keeps(t, x, O)
  BY <1>8, <1>10, FlagFacts
<1>12. /\ x.ob.state = t.ob.state /\ x.ob.varsIn = t.ob.varsIn
       /\ x.ob.varNum = t.ob.varNum /\ x.ob.progIn = t.ob.progIn
       /\ x.ob.swapped = b
  <2>1. Whole(t)
    BY <1>8 DEF Sound
  <2>2. x = [t EXCEPT !.ob.swapped = b]
    BY <1>10
  <2> QED
    BY <2>1, <2>2 DEF Whole, NoObject
<1>13. Keeps(q, x, O)
  <2>1. Keeps(q, y, O)
    BY <1>6, <1>7, KeepsOn
  <2>2. Keeps(q, t, O)
    BY <1>8, <2>1, KeepsOn
  <2> QED
    BY <1>11, <2>2, KeepsOn
<1>14. /\ x.ob.state = "alive" /\ (x.ob.swapped <=> ~(x.ob.progIn /\ x.ob.varsIn))
       /\ x.ob.varsIn = obj[o].varsIn /\ x.ob.varNum = obj[o].varNum
  BY <1>1, <1>6, <1>7, <1>8, <1>10, <1>12
<1>15. CASE obj[o].varsIn /\ Become(o, x)
  <2>1. Fits(x.ob, c) /\ Moves(q.ob.state, d, x.ob.state, c)
    BY <1>1, <1>7, <1>14 DEF Fits, Moves
  <2>2. Good(State(o), x, o, d, Others(o))
    BY <1>11, <1>13, <2>1 DEF Good, q, O
  <2> QED
    BY <1>15, <2>2, GoodStep
<1>16. CASE ~obj[o].varsIn /\ \E v \in Values :
              /\ VarLen[v] = LenOf(w)
              /\ Become(o, [x EXCEPT !.file = Write(@, obj[o].varNum, VarLen[v], VarWord(o, v))])
  <2>1. PICK v \in Values :
          /\ VarLen[v] = LenOf(w)
          /\ Become(o, [x EXCEPT !.file = Write(@, obj[o].varNum, VarLen[v], VarWord(o, v))])
    BY <1>16
  <2> DEFINE e == [blueprint |-> c.blueprint, value |-> v]
             u == [x EXCEPT !.file = Write(@, x.ob.varNum, VarLen[v], VarWord(o, v))]
  <2>2. Become(o, u)
    BY <1>14, <2>1
  <2>3. ~x.ob.varsIn /\ VarLen[v] = VarLen[c.value]
    BY <1>5, <1>7, <1>14, <1>16, <2>1
  <2>4. Sound(u, o, e, O) /\ Keeps(x, u, O) /\ u.ob = x.ob
    BY <1>11, <2>3, RewriteFacts
  <2>5. e.blueprint = c.blueprint /\ e.value = v
    OBVIOUS
  <2> HIDE DEF e, u
  <2>6. Fits(u.ob, e) /\ Moves(q.ob.state, d, u.ob.state, e)
    BY <1>1, <1>7, <1>14, <2>4, <2>5 DEF Fits, Moves
  <2>7. Keeps(q, u, O)
    BY <1>13, <2>4, KeepsOn
  <2>8. Good(State(o), u, o, d, Others(o))
    BY <2>4, <2>6, <2>7 DEF Good, q, O
  <2> QED
    BY <2>2, <2>8, GoodStep
<1> QED
  BY <1>3, <1>15, <1>16

-----------------------------------------------------------------------------
(* The invariant is inductive.                                             *)

\* What the object of y represents survives a step of the one of q, to z.  R
\* are the blocks of all objects but these two.
LEMMA OtherObject ==
  ASSUME NEW p, NEW d, NEW R, NEW q, NEW z, NEW y, NEW x,
         Sound(y, p, d, R \cup Own(q.ob)), y.sw = q.sw, y.file = q.file,
         Whole(z), Shared(z, R \cup Own(y.ob)), Keeps(q, z, R \cup Own(y.ob)),
         Whole(x), x.sw = z.sw, x.file = z.file, x.lost = z.lost, x.ob = y.ob
  PROVE  Sound(x, p, d, R \cup Own(z.ob))
<1>1. Represents(y, p, d) /\ Shared(y, R \cup Own(q.ob))
  BY DEF Sound
<1>2. \A c \in Own(y.ob) : \A w : Stored(y, c, w) => Stored(x, c, w)
  BY DEF Keeps, Stored
<1>3. Represents(x, p, d)
  <2>1. y.ob.swapNum # NoSwap => Stored(x, y.ob.swapNum, ProgWord(p, d.blueprint))
    BY <1>1, <1>2 DEF Represents, Own
  <2>2. ~y.ob.varsIn => Stored(x, y.ob.varNum, VarWord(p, d.value))
    BY <1>1, <1>2 DEF Represents, Own
  <2> QED
    BY <1>1, <2>1, <2>2 DEF Represents
<1>4. Shared(x, R \cup Own(z.ob))
  BY <1>1 DEF Shared
<1> QED
  BY <1>3, <1>4 DEF Sound

\* A step of o leaves what the other objects represent.
LEMMA OthersStay ==
  ASSUME IInv, NEW o \in Objects, NEW d, NEW z, NEW e, Step(o, d, z, e),
         NEW p \in Objects \ {o}, NEW c, Sound(State(p), p, c, Others(p))
  PROVE  Sound(State(p)', p, c, Others(p)') /\ obj'[p] = obj[p]
<1> DEFINE R == UNION {Own(obj[r]) : r \in Objects \ {o, p}}
           y == State(p)
           q == State(o)
           x == State(p)'
<1>1. /\ obj' = [obj EXCEPT ![o] = z.ob] /\ sw' = z.sw /\ file' = z.file /\ lost' = z.lost
      /\ Sound(z, o, e, Others(o)) /\ Keeps(q, z, Others(o))
  BY DEF Step
<1>2. Whole(z) /\ Shared(z, Others(o))
  BY <1>1 DEF Sound
<1>3. obj = [r \in Objects |-> obj[r]]
  BY DEF IInv
<1>4. obj'[o] = z.ob /\ \A r \in Objects \ {o} : obj'[r] = obj[r]
  BY <1>1, <1>3
<1>5. Others(p) = R \cup Own(q.ob) /\ Others(o) = R \cup Own(y.ob)
  BY StateFacts DEF Others
<1>6. Others(p)' = R \cup Own(z.ob)
  BY <1>4 DEF Others
<1>7. y.sw = q.sw /\ y.file = q.file /\ y.ob = obj[p]
  BY StateFacts
<1>8. /\ x.sw = z.sw /\ x.file = z.file /\ x.lost = z.lost /\ x.ob = y.ob
      /\ DOMAIN x = {"sw", "file", "lost", "ob"} /\ x = [f \in DOMAIN x |-> x[f]]
  BY <1>1, <1>4, <1>7 DEF State
<1>9. Sound(y, p, c, Others(p))
  OBVIOUS
<1> HIDE DEF R, x, y, q
<1>10. Whole(x)
  BY <1>2, <1>8, <1>9 DEF Whole, Sound
<1>11. Sound(x, p, c, R \cup Own(z.ob))
  <2>1. Sound(y, p, c, R \cup Own(q.ob))
    BY <1>5, <1>9
  <2>2. Shared(z, R \cup Own(y.ob)) /\ Keeps(q, z, R \cup Own(y.ob))
    BY <1>1, <1>2, <1>5
  <2> QED
    BY ONLY <1>2, <1>7, <1>8, <1>10, <2>1, <2>2, OtherObject
<1> QED
  BY <1>4, <1>6, <1>11 DEF x

LEMMA StepKeeps ==
  ASSUME IInv, NEW o \in Objects, NEW d, NEW z, NEW e, Step(o, d, z, e)
  PROVE  IInv'
<1>1. /\ obj' = [obj EXCEPT ![o] = z.ob] /\ sw' = z.sw /\ file' = z.file /\ lost' = z.lost
      /\ Sound(z, o, e, Others(o)) /\ Keeps(State(o), z, Others(o)) /\ Fits(z.ob, e)
  BY DEF Step
<1>2. Whole(z) /\ Shared(z, Others(o))
  BY <1>1 DEF Sound
<1>3. /\ obj = [p \in Objects |-> obj[p]]
      /\ \A p \in Objects : \E c : Sound(State(p), p, c, Others(p)) /\ Fits(obj[p], c)
  BY DEF IInv
<1>4. /\ obj'[o] = z.ob /\ obj' = [p \in Objects |-> obj'[p]]
      /\ \A p \in Objects \ {o} : obj'[p] = obj[p]
  BY <1>1, <1>3
<1>5. Complete(sw') /\ ListOK(sw') /\ Counted(sw') /\ Filled(sw', file')
  BY <1>1, <1>2 DEF Whole
<1>6. \A c : c \in Others(o) <=> \E p \in Objects \ {o} : c \in Own(obj'[p])
  BY <1>4 DEF Others
<1>7. Used(sw') = lost' \cup UNION {Own(obj'[p]) : p \in Objects}
  <2>1. Used(sw') = Others(o) \cup lost' \cup Own(z.ob)
    BY <1>1, <1>2 DEF Shared
  <2>2. \A c : c \in UNION {Own(obj'[p]) : p \in Objects} <=>
                 c \in Others(o) \/ c \in Own(z.ob)
    BY <1>4, <1>6
  <2> QED
    BY <2>1, <2>2
<1>8. ASSUME NEW p \in Objects
      PROVE  \E c : Sound(State(p)', p, c, Others(p)') /\ Fits(obj'[p], c)
  <2>1. /\ State(p)'.sw = sw' /\ State(p)'.file = file' /\ State(p)'.lost = lost'
        /\ State(p)'.ob = obj'[p]
        /\ DOMAIN State(p)' = {"sw", "file", "lost", "ob"}
        /\ State(p)' = [f \in DOMAIN State(p)' |-> State(p)'[f]]
    BY DEF State
  <2>2. CASE p = o
    <3>1. State(p)' = z
      BY <1>1, <1>2, <1>4, <2>1, <2>2 DEF Whole
    <3>2. Others(p)' = Others(o)
      BY <1>4, <2>2 DEF Others
    <3> QED
      BY <1>1, <1>4, <2>2, <3>1, <3>2
  <2>3. CASE p # o
    <3>1. PICK c : Sound(State(p), p, c, Others(p)) /\ Fits(obj[p], c)
      BY <1>3
    <3>2. Sound(State(p)', p, c, Others(p)') /\ obj'[p] = obj[p]
      BY <2>3, <3>1, OthersStay
    <3> QED
      BY <3>1, <3>2
  <2> QED
    BY <2>2, <2>3
<1> QED
  BY <1>4, <1>5, <1>7, <1>8 DEF IInv

LEMMA InitHolds == Init => IInv
<1> SUFFICES ASSUME Init
             PROVE  IInv
  OBVIOUS
<1>1. PICK c \in BOOLEAN :
        sw = [blk |-> <<>>, rover |-> Nil, previous |-> Head, offset |-> 0,
              size |-> 0, free |-> 0, numFree |-> 0, recycle |-> FALSE, compact |-> c]
  BY DEF Init
<1>2. file = <<>> /\ lost = {} /\ obj = [o \in Objects |-> NoObject]
  BY DEF Init
<1>3. Complete(sw) /\ DOMAIN sw.blk = {} /\ sw.size = 0
  BY <1>1 DEF Complete
<1>10. Counted(sw) /\ Filled(sw, file)
  <2>1. FreeBlocks(sw) = {} /\ FreeWords(sw) = {}
    BY <1>3 DEF FreeBlocks, FreeWords
  <2>2. Cardinality({}) = 0
    BY FS_EmptySet
  <2>3. sw.free = 0 /\ sw.numFree = 0
    BY <1>1
  <2>4. DOMAIN file = 0 .. sw.size - 1
    BY <1>2, <1>3
  <2> QED
    BY <2>1, <2>2, <2>3, <2>4, <1>3 DEF Counted, Filled
<1>4. ListOK(sw)
  <2>1. Tiled(sw) /\ NoTwoFree(sw, {})
    BY <1>3 DEF Tiled, NoTwoFree
  <2>2. RoverOK(sw)
    BY <1>1, <1>3 DEF RoverOK, NextOf, EndOf, Head, Nil
  <2> QED
    BY <2>1, <2>2 DEF ListOK
<1>5. /\ NoObject.progIn = TRUE /\ NoObject.swapNum = NoSwap /\ NoObject.varsIn = TRUE
      /\ NoObject.varNum = NoSwap /\ NoObject.blueprint = FALSE /\ NoObject.value = None
      /\ NoObject.state = "none" /\ NoObject = [f \in DOMAIN NoObject |-> NoObject[f]]
  BY DEF NoObject
<1>6. \A o \in Objects : obj[o] = NoObject
  BY <1>2
<1>7. Own(NoObject) = {}
  BY <1>5 DEF Own
<1>8. Used(sw) = {}
  BY <1>3 DEF Used
<1>9. ASSUME NEW o \in Objects
      PROVE  \E d : Sound(State(o), o, d, Others(o)) /\ Fits(obj[o], d)
  <2> DEFINE q == State(o)
             d == [blueprint |-> FALSE, value |-> None]
  <2>1. d.blueprint = FALSE /\ d.value = None
    OBVIOUS
  <2>2. /\ q.sw = sw /\ q.file = file /\ q.lost = lost /\ q.ob = NoObject
        /\ DOMAIN q = {"sw", "file", "lost", "ob"} /\ q = [f \in DOMAIN q |-> q[f]]
    BY <1>6 DEF State
  <2>3. Others(o) = {}
    BY <1>6, <1>7 DEF Others
  <2> HIDE DEF q, d
  <2>4. Whole(q)
    BY <1>3, <1>4, <1>5, <1>10, <2>2 DEF Whole
  <2>5. Represents(q, o, d)
    BY <1>5, <2>1, <2>2 DEF Represents
  <2>6. Shared(q, Others(o))
    BY <1>2, <1>5, <1>7, <1>8, <2>2, <2>3 DEF Shared
  <2>7. Fits(obj[o], d)
    BY <1>5, <1>6 DEF Fits
  <2> QED
    BY <2>4, <2>5, <2>6, <2>7 DEF Sound, q
<1> QED
  BY <1>2, <1>3, <1>4, <1>6, <1>7, <1>8, <1>9, <1>10 DEF IInv

\* Every action is a step of one object.
LEMMA NextIsStep ==
  ASSUME IInv, Next, ~ReadFails
  PROVE  \E o \in Objects : \E d :
           /\ Sound(State(o), o, d, Others(o)) /\ Fits(obj[o], d)
           /\ \E z, e : Step(o, d, z, e)
<1>1. PICK o \in Objects :
        \/ Create(o) \/ SwapProgram(o) \/ SwapVariables(o) \/ Call(o)
        \/ LoadLines(o) \/ DropBlueprint(o) \/ CleanUp(o) \/ CollectGarbage(o)
        \/ Destruct(o) \/ FreeObject(o)
  BY DEF Next
<1>2. PICK d : Sound(State(o), o, d, Others(o)) /\ Fits(obj[o], d)
  BY DEF IInv
<1>3. \E z, e : Step(o, d, z, e)
  <2>1. CASE Create(o)
    BY <1>2, <2>1, CreateStep
  <2>2. CASE SwapProgram(o)
    BY <1>2, <2>2, SwapProgramStep
  <2>3. CASE SwapVariables(o)
    BY <1>2, <2>3, SwapVariablesStep
  <2>4. CASE Call(o)
    BY <1>2, <2>4, CallStep
  <2>5. CASE LoadLines(o)
    BY <1>2, <2>5, LoadLinesStep
  <2>6. CASE DropBlueprint(o)
    BY <1>2, <2>6, DropBlueprintStep
  <2>7. CASE CleanUp(o)
    BY <1>2, <2>7, CleanUpStep
  <2>8. CASE CollectGarbage(o)
    BY <1>2, <2>8, CollectGarbageStep
  <2>9. CASE Destruct(o)
    BY <1>2, <2>9, DestructStep
  <2>10. CASE FreeObject(o)
    BY <1>2, <2>10, FreeObjectStep
  <2> QED
    BY <1>1, <2>1, <2>2, <2>3, <2>4, <2>5, <2>6, <2>7, <2>8, <2>9, <2>10
<1> QED
  BY <1>2, <1>3

\* The invariant that the list of blocks, the file and the objects keep.
THEOREM Invariance ==
  ASSUME ~ReadFails
  PROVE  Spec => []IInv
<1>1. Init => IInv
  BY InitHolds
<1>2. IInv /\ [Next]_vars => IInv'
  <2>1. ASSUME IInv, Next
        PROVE  IInv'
    BY <2>1, NextIsStep, StepKeeps
  <2>2. ASSUME IInv, UNCHANGED vars
        PROVE  IInv'
    <3>1. sw' = sw /\ file' = file /\ lost' = lost /\ obj' = obj
      BY <2>2 DEF vars
    <3> QED
      BY <2>2, <3>1 DEF IInv, State, Others
  <2> QED
    BY <2>1, <2>2
<1> QED
  BY <1>1, <1>2, PTL DEF Spec

-----------------------------------------------------------------------------
(* What follows from the invariant.                                        *)

\* The blocks lie one behind the other up to the end of the file, no two free
\* ones touch, and swap_previous and current_offset agree with swap_rover.
THEOREM ListStaysTight ==
  ASSUME ~ReadFails
  PROVE  Spec => []ListIsTight
<1>1. IInv => ListIsTight
  BY OrderedListIsTight DEF IInv
<1> QED
  BY <1>1, Invariance, PTL

\* What is counted as free is what the list of blocks says: the choice between
\* a larger file and the blocks that were given back rests on the true numbers.
THEOREM FreeSpaceStaysExact ==
  ASSUME ~ReadFails
  PROVE  Spec => []FreeSpaceExact
<1>1. IInv => FreeSpaceExact
  BY DEF IInv, Counted, FreeSpaceExact
<1> QED
  BY <1>1, Invariance, PTL

\* The bound on the file.
Bounded == sw.size <= MaxFile

LEMMA NextIsBounded == Bounded /\ [Next]_vars => Bounded'
<1> SUFFICES ASSUME Bounded, [Next]_vars
             PROVE  Bounded'
  OBVIOUS
<1>1. CASE UNCHANGED vars
  BY <1>1 DEF Bounded, vars
<1>2. ASSUME NEW o \in Objects, NEW z, Become(o, z)
      PROVE  Bounded'
  BY <1>2 DEF Become, Bounded
<1>3. ASSUME NEW o \in Objects, UNCHANGED sw
      PROVE  Bounded'
  BY <1>3 DEF Bounded
<1>4. CASE Next
  <2>1. PICK o \in Objects :
          \/ Create(o) \/ SwapProgram(o) \/ SwapVariables(o) \/ Call(o)
          \/ LoadLines(o) \/ DropBlueprint(o) \/ CleanUp(o) \/ CollectGarbage(o)
          \/ Destruct(o) \/ FreeObject(o)
    BY <1>4 DEF Next
  <2>2. CASE Create(o)
    BY <1>3, <2>2 DEF Create
  <2>3. CASE SwapProgram(o)
    BY <1>2, <2>3 DEF SwapProgram
  <2>4. CASE SwapVariables(o)
    BY <1>2, <2>4 DEF SwapVariables
  <2>5. CASE Call(o)
    BY <1>2, <2>5 DEF Call
  <2>6. CASE LoadLines(o)
    BY <1>3, <2>6 DEF LoadLines
  <2>7. CASE DropBlueprint(o)
    BY <1>2, <2>7 DEF DropBlueprint
  <2>8. CASE CleanUp(o)
    BY <1>2, <2>8 DEF CleanUp
  <2>9. CASE CollectGarbage(o)
    BY <1>2, <2>9 DEF CollectGarbage
  <2>10. CASE Destruct(o)
    BY <1>2, <2>10 DEF Destruct
  <2>11. CASE FreeObject(o)
    BY <1>2, <2>11 DEF FreeObject
  <2> QED
    BY <2>1, <2>2, <2>3, <2>4, <2>5, <2>6, <2>7, <2>8, <2>9, <2>10, <2>11
<1> QED
  BY <1>1, <1>4

\* The types that the invariant and the bound imply.
LEMMA TypesFollow ==
  ASSUME IInv, Bounded
  PROVE  TypeOK
<1>1. Tiled(sw) /\ RoverOK(sw) /\ Complete(sw) /\ Counted(sw) /\ Filled(sw, file)
  BY DEF IInv, ListOK
<1>2. sw.size \in Offsets /\ sw.size \in Nat /\ MaxFile \in Nat
  BY <1>1, SwapAssumption DEF Tiled, Bounded, Offsets
<1>3. ASSUME NEW b \in DOMAIN sw.blk
      PROVE  b \in Offsets /\ sw.blk[b] \in (-MaxFile .. MaxFile) \ {0}
  <2>1. /\ b \in Nat /\ sw.blk[b] \in Int /\ sw.blk[b] # 0 /\ EndOf(sw, b) <= sw.size
        /\ EndOf(sw, b) = b + (IF sw.blk[b] < 0 THEN -sw.blk[b] ELSE sw.blk[b])
        /\ b < EndOf(sw, b) /\ EndOf(sw, b) \in Nat
    BY <1>1, BlockFacts
  <2> QED
    BY <1>2, <2>1 DEF Bounded, Offsets
<1>4. sw.rover \in Offsets \cup {Nil} /\ sw.previous \in Offsets \cup {Head}
  BY <1>1, <1>3 DEF RoverOK
<1>5. sw.offset \in Offsets
  BY <1>1, <1>2, <1>3 DEF RoverOK
<1>6. sw.free \in Offsets /\ sw.numFree \in Nat
  <2>1. Cardinality(FreeWords(sw)) \in 0 .. sw.size /\ Cardinality(FreeBlocks(sw)) \in Nat
    BY <1>1, FreeIsFinite
  <2>2. sw.free = Cardinality(FreeWords(sw)) /\ sw.numFree = Cardinality(FreeBlocks(sw))
    BY <1>1 DEF Counted
  <2> QED
    BY <1>2, <2>1, <2>2 DEF Offsets, Bounded
<1>7. {sw.recycle, sw.compact} \subseteq BOOLEAN
  BY <1>1 DEF Complete
<1>8. DOMAIN file = 0 .. sw.size - 1 /\ \A i \in DOMAIN file : file[i] \in Words
  BY <1>1 DEF Filled
<1>9. lost \subseteq DOMAIN sw.blk
  BY DEF IInv, Used
<1>10. ASSUME NEW o \in Objects
       PROVE  /\ obj[o].state \in {"none", "alive", "destructed"}
              /\ obj[o].blueprint \in IF obj[o].progIn THEN BOOLEAN ELSE {None}
              /\ obj[o].state = "alive" =>
                   obj[o].value \in IF obj[o].varsIn THEN Values ELSE {None}
              /\ obj[o].varsIn <=> obj[o].varNum = NoSwap
  <2>1. PICK d : Sound(State(o), o, d, Others(o)) /\ Fits(obj[o], d)
    BY DEF IInv
  <2>2. Represents(State(o), o, d) /\ State(o).ob = obj[o]
    BY <2>1, StateFacts DEF Sound
  <2> QED
    BY <2>1, <2>2 DEF Represents, Fits
<1>11. FlagIsHonest
  BY DEF IInv, Fits, FlagIsHonest
<1> QED
  BY <1>2, <1>3, <1>4, <1>5, <1>6, <1>7, <1>8, <1>9, <1>10, <1>11 DEF TypeOK

\* Every variable keeps its type, the file has content exactly up to its size,
\* and an object is in memory as far as it exists.
THEOREM TypeCorrect ==
  ASSUME ~ReadFails
  PROVE  Spec => []TypeOK
<1>1. Init => Bounded
  BY SwapAssumption DEF Init, Bounded
<1>2. Bounded /\ [Next]_vars => Bounded'
  BY NextIsBounded
<1>3. IInv /\ Bounded => TypeOK
  BY TypesFollow
<1> QED
  BY <1>1, <1>2, <1>3, Invariance, PTL DEF Spec

\* O_SWAPPED is set exactly on the objects of which a part is in the file.
THEOREM FlagStaysHonest ==
  ASSUME ~ReadFails
  PROVE  Spec => []FlagIsHonest
<1>1. IInv => FlagIsHonest
  BY DEF IInv, Fits, FlagIsHonest
<1> QED
  BY <1>1, Invariance, PTL

\* A program in memory has its line numbers there or an image in the file.
THEOREM LinesStayAvailable ==
  ASSUME ~ReadFails
  PROVE  Spec => []LinesAvailable
<1>1. IInv => LinesAvailable
  <2> SUFFICES ASSUME IInv, NEW o \in Objects, obj[o].state = "alive", obj[o].progIn
               PROVE  obj[o].lines \/ obj[o].swapNum # NoSwap
    BY DEF LinesAvailable
  <2>1. PICK d : Sound(State(o), o, d, Others(o))
    BY DEF IInv
  <2> QED
    BY <2>1, StateFacts DEF Sound, Represents
<1> QED
  BY <1>1, Invariance, PTL

LEMMA HeldFacts ==
  ASSUME IInv, NEW o \in Objects
  PROVE  /\ Own(obj[o]) \cap lost = {} /\ Own(obj[o]) \subseteq Used(sw)
         /\ obj[o].swapNum = obj[o].varNum => obj[o].swapNum = NoSwap
         /\ \A p \in Objects \ {o} : Own(obj[o]) \cap Own(obj[p]) = {}
<1>1. PICK d : Sound(State(o), o, d, Others(o))
  BY DEF IInv
<1>2. Shared(State(o), Others(o))
  BY <1>1 DEF Sound
<1> QED
  BY <1>2, StateFacts DEF Shared, Others

\* Each used block is held by one program or one set of variables, or lost by
\* a write that failed; swap_free() accepts each of them.
THEOREM UsedStaysHeld ==
  ASSUME ~ReadFails
  PROVE  Spec => []UsedAreHeld
<1>1. IInv => UsedAreHeld
  <2> SUFFICES ASSUME IInv
               PROVE  UsedAreHeld
    OBVIOUS
  <2> DEFINE U == {b \in DOMAIN sw.blk : sw.blk[b] < 0}
             H == {obj[o].swapNum : o \in Objects} \cup {obj[o].varNum : o \in Objects}
  <2>1. U = Used(sw) /\ Complete(sw) /\ ListOK(sw)
    BY DEF Used, IInv
  <2>2. U \subseteq Nat /\ NoSwap \notin Nat
    <3>1. DOMAIN sw.blk \subseteq Nat
      BY <2>1 DEF ListOK, Tiled
    <3> QED
      BY <3>1 DEF NoSwap
  <2>3. U = lost \cup UNION {Own(obj[o]) : o \in Objects}
    BY <2>1 DEF IInv
  <2>4. \A b : b \in UNION {Own(obj[o]) : o \in Objects} <=> b \in H /\ b # NoSwap
    BY DEF Own
  <2>5. \A b \in lost : b # NoSwap /\ b \notin UNION {Own(obj[o]) : o \in Objects}
    <3>1. \A o \in Objects : Own(obj[o]) \cap lost = {}
      BY HeldFacts
    <3> QED
      BY <2>2, <2>3, <3>1
  <2>6. U \cup {NoSwap} = H \cup lost \cup {NoSwap}
    BY <2>2, <2>3, <2>4
  <2>7. H \cap lost = {}
    BY <2>4, <2>5
  <2>8. ASSUME NEW b \in U \ lost
        PROVE  /\ Cardinality(ProgramsAt(b)) + Cardinality(VariablesAt(b)) = 1
               /\ MayFree(sw, b)
    <3>1. MayFree(sw, b)
      BY <2>1, <2>8, FreeFacts
    <3>2. PICK o \in Objects : b \in Own(obj[o])
      BY <2>3, <2>8
    <3>3. /\ b # NoSwap /\ (b = obj[o].swapNum \/ b = obj[o].varNum)
          /\ ~(b = obj[o].swapNum /\ b = obj[o].varNum)
      BY <3>2, HeldFacts DEF Own
    <3>4. \A p \in Objects \ {o} : b # obj[p].swapNum /\ b # obj[p].varNum
      <4>1. \A p \in Objects \ {o} : b \notin Own(obj[p])
        BY <3>2, HeldFacts
      <4> QED
        BY <3>3, <4>1 DEF Own
    <3>5. Cardinality({}) = 0 /\ Cardinality({o}) = 1
      BY FS_EmptySet, FS_Singleton
    <3>6. CASE b = obj[o].swapNum
      <4>1. ProgramsAt(b) = {o} /\ VariablesAt(b) = {}
        BY <3>3, <3>4, <3>6 DEF ProgramsAt, VariablesAt
      <4> QED
        BY <3>1, <3>5, <4>1
    <3>7. CASE b = obj[o].varNum
      <4>1. ProgramsAt(b) = {} /\ VariablesAt(b) = {o}
        BY <3>3, <3>4, <3>7 DEF ProgramsAt, VariablesAt
      <4> QED
        BY <3>1, <3>5, <4>1
    <3> QED
      BY <3>3, <3>6, <3>7
  <2> QED
    BY <2>6, <2>7, <2>8 DEF UsedAreHeld
<1> QED
  BY <1>1, Invariance, PTL

-----------------------------------------------------------------------------
(* The refinement: Swap implements ObjectStore.                            *)

\* What can be read of the object of z, which represents d.
LEMMA DataFacts ==
  ASSUME NEW z, NEW o, NEW d, NEW O, Sound(z, o, d, O)
  PROVE  /\ z.ob.progIn => z.ob.blueprint = d.blueprint
         /\ ~z.ob.progIn => Read(z.file, z.ob.swapNum) = ProgWord(o, d.blueprint)
         /\ z.ob.varsIn => z.ob.value = d.value
         /\ ~z.ob.varsIn => Read(z.file, z.ob.varNum) = VarWord(o, d.value)
<1>1. Whole(z) /\ Represents(z, o, d)
  BY DEF Sound
<1>2. ~z.ob.progIn => Read(z.file, z.ob.swapNum) = ProgWord(o, d.blueprint)
  BY <1>1, ProgWordFacts, ReadFacts DEF Represents
<1>3. ~z.ob.varsIn => Read(z.file, z.ob.varNum) = VarWord(o, d.value)
  <2> SUFFICES ASSUME ~z.ob.varsIn
               PROVE  Read(z.file, z.ob.varNum) = VarWord(o, d.value)
    OBVIOUS
  <2>1. d.value \in Values /\ Stored(z, z.ob.varNum, VarWord(o, d.value))
    BY <1>1 DEF Represents
  <2> QED
    BY <1>1, <2>1, WordFacts, ReadFacts
<1> QED
  BY <1>1, <1>2, <1>3 DEF Represents

LEMMA TagFacts ==
  ASSUME NEW o, NEW b, NEW v
  PROVE  /\ ProgWord(o, b).what = "program" /\ ProgWord(o, b).of = o
         /\ ProgWord(o, b).blueprint = b
         /\ VarWord(o, v).what = "variables" /\ VarWord(o, v).of = o
         /\ VarWord(o, v).value = v
BY DEF ProgWord, VarWord

\* What is seen of an object is what it represents, wherever that is.
LEMMA SeenFacts ==
  ASSUME NEW o \in Objects, NEW d, NEW O, Sound(State(o), o, d, O)
  PROVE  Seen[o] = IF obj[o].state = "alive"
                   THEN [blueprint |-> d.blueprint, value |-> d.value] ELSE None
<1>1. /\ obj[o].progIn => obj[o].blueprint = d.blueprint
      /\ ~obj[o].progIn => Read(file, obj[o].swapNum) = ProgWord(o, d.blueprint)
      /\ obj[o].varsIn => obj[o].value = d.value
      /\ ~obj[o].varsIn => Read(file, obj[o].varNum) = VarWord(o, d.value)
  BY DataFacts, StateFacts
<1>2. BlueprintOf(o) = d.blueprint /\ ValueOf(o) = d.value
  BY <1>1, TagFacts DEF BlueprintOf, ValueOf
<1> QED
  BY <1>2 DEF Seen

LEMMA SeenFactsNext ==
  ASSUME NEW o \in Objects, NEW d, NEW O, Sound(State(o)', o, d, O)
  PROVE  Seen'[o] = IF obj'[o].state = "alive"
                    THEN [blueprint |-> d.blueprint, value |-> d.value] ELSE None
<1>1. State(o)'.file = file' /\ State(o)'.ob = obj'[o]
  BY DEF State
<1>2. /\ obj'[o].progIn => obj'[o].blueprint = d.blueprint
      /\ ~obj'[o].progIn => Read(file', obj'[o].swapNum) = ProgWord(o, d.blueprint)
      /\ obj'[o].varsIn => obj'[o].value = d.value
      /\ ~obj'[o].varsIn => Read(file', obj'[o].varNum) = VarWord(o, d.value)
  BY <1>1, DataFacts
<1>3. BlueprintOf(o)' = d.blueprint /\ ValueOf(o)' = d.value
  BY <1>2, TagFacts DEF BlueprintOf, ValueOf
<1> QED
  BY <1>3 DEF Seen

LEMMA StepIsSeen ==
  ASSUME IInv, NEW o \in Objects, NEW d, NEW z, NEW e, Step(o, d, z, e),
         Sound(State(o), o, d, Others(o)), Fits(obj[o], d)
  PROVE  [Memory!Next]_Seen
<1> DEFINE D(c) == [blueprint |-> c.blueprint, value |-> c.value]
<1>1. /\ obj' = [obj EXCEPT ![o] = z.ob] /\ obj = [p \in Objects |-> obj[p]]
      /\ sw' = z.sw /\ file' = z.file /\ lost' = z.lost
      /\ Sound(z, o, e, Others(o)) /\ Fits(z.ob, e) /\ Moves(obj[o].state, d, z.ob.state, e)
  BY DEF Step, IInv
<1>2. obj'[o] = z.ob /\ \A p \in Objects \ {o} : obj'[p] = obj[p]
  BY <1>1
<1>3. Seen[o] = IF obj[o].state = "alive" THEN D(d) ELSE None
  BY SeenFacts
<1>4. Seen'[o] = IF z.ob.state = "alive" THEN D(e) ELSE None
  <2>1. State(o)' = z
    BY <1>1, <1>2 DEF State, Sound, Whole
  <2>2. Others(o)' = Others(o)
    BY <1>2 DEF Others
  <2>3. Sound(State(o)', o, e, Others(o)') /\ Fits(obj'[o], e)
    BY <1>1, <1>2, <2>1, <2>2
  <2> QED
    BY <1>2, <2>3, SeenFactsNext
<1>5. \A p \in Objects \ {o} : Seen'[p] = Seen[p]
  <2> SUFFICES ASSUME NEW p \in Objects \ {o}
               PROVE  Seen'[p] = Seen[p]
    OBVIOUS
  <2>1. PICK c : Sound(State(p), p, c, Others(p)) /\ Fits(obj[p], c)
    BY DEF IInv
  <2>2. Sound(State(p)', p, c, Others(p)') /\ obj'[p] = obj[p]
    BY <2>1, OthersStay
  <2>3. Seen[p] = IF obj[p].state = "alive" THEN D(c) ELSE None
    BY <2>1, SeenFacts
  <2>4. Seen'[p] = IF obj'[p].state = "alive" THEN D(c) ELSE None
    BY <2>1, <2>2, SeenFactsNext
  <2> QED
    BY <2>2, <2>3, <2>4
<1>6. Seen = [p \in Objects |-> Seen[p]] /\ Seen' = [p \in Objects |-> Seen'[p]]
  BY DEF Seen
<1>7. Seen' = [Seen EXCEPT ![o] = Seen'[o]]
  BY <1>5, <1>6
<1>8. z.ob.state = "alive" => D(e) \in [blueprint : BOOLEAN, value : Values]
  BY <1>1 DEF Fits
<1>9. obj[o].state = "alive" => D(d) \in [blueprint : BOOLEAN, value : Values]
  BY DEF Fits
<1>10. D(d).blueprint = d.blueprint /\ D(e).blueprint = e.blueprint
  OBVIOUS
<1> HIDE DEF D
<1>11. CASE obj[o].state = "none" /\ z.ob.state = "alive"
  <2>1. Memory!Create(o)
    BY <1>3, <1>4, <1>7, <1>8, <1>11 DEF Memory!Create, Memory!Data
  <2> QED
    BY <2>1 DEF Memory!Next
<1>12. CASE obj[o].state = "alive" /\ z.ob.state = "alive" /\ (e.blueprint => d.blueprint)
  <2>1. Memory!Change(o)
    BY <1>3, <1>4, <1>7, <1>8, <1>9, <1>10, <1>12, SwapAssumption
       DEF Memory!Change, Memory!Data
  <2> QED
    BY <2>1 DEF Memory!Next
<1>13. CASE obj[o].state = "alive" /\ z.ob.state = "destructed"
  <2>1. Memory!Destruct(o)
    BY <1>3, <1>4, <1>7, <1>9, <1>13, SwapAssumption DEF Memory!Destruct
  <2> QED
    BY <2>1 DEF Memory!Next
<1>14. CASE obj[o].state = "destructed" /\ z.ob.state # "alive"
  <2>1. Seen'[o] = Seen[o]
    BY <1>3, <1>4, <1>14
  <2> QED
    BY <1>6, <1>7, <2>1
<1> QED
  BY <1>1, <1>11, <1>12, <1>13, <1>14 DEF Moves

\* Swapping cannot be seen: the objects behave as in ObjectStore.
THEOREM SwapIsTransparent ==
  ASSUME ~ReadFails
  PROVE  Spec => Transparent
<1>1. Init => Memory!Init
  BY DEF Init, Memory!Init, Seen, NoObject
<1>2. IInv /\ [Next]_vars => [Memory!Next]_Seen
  <2>1. ASSUME IInv, Next
        PROVE  [Memory!Next]_Seen
    BY <2>1, NextIsStep, StepIsSeen
  <2>2. ASSUME UNCHANGED vars
        PROVE  [Memory!Next]_Seen
    BY <2>2 DEF vars, Seen, BlueprintOf, ValueOf
  <2> QED
    BY <2>1, <2>2
<1> QED
  BY <1>1, <1>2, Invariance, PTL DEF Spec, Transparent, Memory!Spec
=============================================================================
