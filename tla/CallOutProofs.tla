---------------------------- MODULE CallOutProofs ----------------------------
(***************************************************************************)
(* Proofs about CallOut, for any number of users, objects and calls, any   *)
(* delays, any limit of cost and of calls, and a clock that goes as it     *)
(* likes:                                                                  *)
(*   - the deltas of the list add up to the time each call asked for,      *)
(*     whatever is inserted, unlinked, put off or collected; nothing that  *)
(*     is due is left behind, and calls for one time stay in order;        *)
(*   - the call_outs and ERQ callbacks of one user never cost more than    *)
(*     one evaluation in a second, or since an ERQ callback of his failed  *)
(*     in it (this part does not depend on what is in the list).           *)
(***************************************************************************)
EXTENDS CallOut, TLAPS, SequenceTheorems, WellFoundedInduction

-----------------------------------------------------------------------------
(* Induction on a position in the list, that is on the set of positions at *)
(* which what is to be shown holds.                                        *)

\* A set of natural numbers has a least one.
LEMMA NatMin ==
  ASSUME NEW T, T \subseteq Nat, T # {}
  PROVE  \E n \in T : \A m \in T : n <= m
<1> DEFINE R == {ss \in Nat \X Nat : ss[1] < ss[2]}
<1>1. IsWellFoundedOn(R, Nat)
  BY NatLessThanWellFounded DEF OpToRel
<1>2. PICK x \in T : \A y \in T : <<y, x>> \notin R
  BY <1>1, WFMin
<1>3. ASSUME NEW y \in T
      PROVE  x <= y
  <2>1. <<y, x>> \in Nat \X Nat /\ <<y, x>>[1] = y /\ <<y, x>>[2] = x
    OBVIOUS
  <2>2. ~(y < x)
    BY <1>2, <2>1
  <2> QED
    BY <2>2
<1> QED
  BY <1>3

\* Induction, with a set for what is to be shown.
LEMMA SetInduction ==
  ASSUME NEW T, 0 \in T, \A n \in Nat : n \in T => n + 1 \in T
  PROVE  \A n \in Nat : n \in T
<1> DEFINE U == {n \in Nat : n \notin T}
<1>1. SUFFICES ASSUME U # {} PROVE FALSE
  OBVIOUS
<1>2. PICK n \in U : \A m \in U : n <= m
  <2> HIDE DEF U
  <2>1. U \subseteq Nat
    BY DEF U
  <2> QED
    BY <1>1, <2>1, NatMin
<1>3. n # 0
  BY <1>2
<1>4. n - 1 \in Nat /\ n - 1 \notin U
  BY <1>2, <1>3
<1> QED
  BY <1>2, <1>4

\* Induction up to a bound.
LEMMA InductionUpTo ==
  ASSUME NEW N \in Nat, NEW T, 0 \in T, \A n \in 0 .. N : n < N /\ n \in T => n + 1 \in T
  PROVE  \A n \in 0 .. N : n \in T
<1> DEFINE U == {n \in Nat : n <= N => n \in T}
<1>1. 0 \in U
  OBVIOUS
<1>2. \A n \in Nat : n \in U => n + 1 \in U
  OBVIOUS
<1> HIDE DEF U
<1>3. \A n \in Nat : n \in U
  BY <1>1, <1>2, SetInduction
<1> QED
  BY <1>3 DEF U

\* The minimum of a set of positions.
LEMMA MinFacts ==
  ASSUME NEW I, I \subseteq Nat, I # {}
  PROVE  Min(I) \in I /\ \A j \in I : Min(I) <= j
BY NatMin DEF Min

\* Every sequence of differences has its running totals.
LEMMA TotalsExist ==
  ASSUME NEW N \in Nat, NEW a \in Int, NEW d \in [1 .. N -> Int]
  PROVE  \E f \in [0 .. N -> Int] : f[0] = a /\ \A i \in 1 .. N : f[i] = f[i - 1] + d[i]
<1> DEFINE Totals(n, f) == f[0] = a /\ \A i \in 1 .. n : f[i] = f[i - 1] + d[i]
           T == {n \in 0 .. N : \E f \in [0 .. n -> Int] : Totals(n, f)}
<1>1. 0 \in T
  <2>1. [i \in 0 .. 0 |-> a] \in [0 .. 0 -> Int] /\ Totals(0, [i \in 0 .. 0 |-> a])
    OBVIOUS
  <2>2. \E f \in [0 .. 0 -> Int] : Totals(0, f)
    BY <2>1
  <2> QED
    BY <2>2
<1>2. ASSUME NEW n \in 0 .. N, n < N, n \in T
      PROVE  n + 1 \in T
  <2>1. PICK f \in [0 .. n -> Int] : Totals(n, f)
    BY <1>2
  <2> DEFINE g == [i \in 0 .. n + 1 |-> IF i = n + 1 THEN f[n] + d[n + 1] ELSE f[i]]
  <2>2. g \in [0 .. n + 1 -> Int]
    BY <1>2
  <2>3. g[0] = a
    BY <2>1
  <2>4. ASSUME NEW i \in 1 .. n + 1
        PROVE  g[i] = g[i - 1] + d[i]
    <3>1. CASE i = n + 1
      BY <3>1
    <3>2. CASE i # n + 1
      <4>1. i \in 1 .. n /\ i - 1 \in 0 .. n + 1 /\ i - 1 # n + 1 /\ i \in 0 .. n + 1
        BY <3>2
      <4>2. g[i] = f[i] /\ g[i - 1] = f[i - 1]
        BY <3>2, <4>1
      <4> QED
        BY <2>1, <4>1, <4>2
    <3> QED
      BY <3>1, <3>2
  <2>5. Totals(n + 1, g)
    BY <2>3, <2>4
  <2>6. n + 1 \in 0 .. N
    BY <1>2
  <2> HIDE DEF g
  <2>7. \E h \in [0 .. n + 1 -> Int] : Totals(n + 1, h)
    BY <2>2, <2>5
  <2> QED
    BY <2>6, <2>7
<1> HIDE DEF T
<1>3. \A n \in 0 .. N : n < N /\ n \in T => n + 1 \in T
  BY <1>2
<1>4. \A n \in 0 .. N : n \in T
  BY <1>1, <1>3, InductionUpTo
<1>5. N \in T
  BY <1>4
<1> QED
  BY <1>5 DEF T

-----------------------------------------------------------------------------
(* The running totals of the list.                                         *)

\* The calls of a list, and their deltas.
LEMMA ListFacts ==
  ASSUME NEW list \in Seq(Calls)
  PROVE  /\ Len(list) \in Nat /\ DOMAIN list = 1 .. Len(list)
         /\ \A i \in 1 .. Len(list) :
              /\ list[i] \in Calls /\ list[i].delta \in Int /\ list[i].due \in Int
              /\ list[i].ob \in Objects /\ list[i].cg \in Objects \cup {NoObject}
              /\ list[i].onTime \in BOOLEAN
<1>1. Len(list) \in Nat /\ DOMAIN list = 1 .. Len(list)
  BY LenProperties
<1>2. \A i \in 1 .. Len(list) : list[i] \in Calls
  BY ElementOfSeq
<1> QED
  BY <1>1, <1>2 DEF Calls

\* Waits adds the deltas up.
LEMMA WaitsFacts ==
  ASSUME NEW list \in Seq(Calls)
  PROVE  /\ Waits(list) \in [0 .. Len(list) -> Int]
         /\ Waits(list)[0] = 0
         /\ \A i \in 1 .. Len(list) : Waits(list)[i] = Waits(list)[i - 1] + list[i].delta
<1> DEFINE N == Len(list)
           F(f) == [i \in 0 .. N |-> IF i = 0 THEN 0 ELSE f[i - 1] + list[i].delta]
           d == [i \in 1 .. N |-> list[i].delta]
<1>1. N \in Nat /\ d \in [1 .. N -> Int]
  BY ListFacts
<1> HIDE DEF N
<1>2. PICK f \in [0 .. N -> Int] : f[0] = 0 /\ \A i \in 1 .. N : f[i] = f[i - 1] + d[i]
  <2> HIDE DEF d
  <2>1. ASSUME NEW a \in Int
        PROVE  \E f \in [0 .. N -> Int] : f[0] = a /\ \A i \in 1 .. N : f[i] = f[i - 1] + d[i]
    BY <1>1, TotalsExist
  <2> QED
    BY <2>1
<1>3. f = F(f)
  <2>1. \A i \in 0 .. N : f[i] = F(f)[i]
    BY <1>2
  <2> QED
    BY <2>1
<1>4. Waits(list) = CHOOSE w : w = F(w)
  BY DEF Waits, N
<1> HIDE DEF F
<1>5. Waits(list) = F(Waits(list))
  BY <1>3, <1>4
<1>6. Waits(list)[0] = 0 /\ \A i \in 1 .. N : Waits(list)[i] = Waits(list)[i - 1] + list[i].delta
  BY <1>1, <1>5 DEF F
<1> DEFINE T == {n \in 0 .. N : Waits(list)[n] \in Int}
<1>7. 0 \in T
  BY <1>1, <1>6
<1>8. \A n \in 0 .. N : n < N /\ n \in T => n + 1 \in T
  <2> TAKE n \in 0 .. N
  <2> HAVE n < N /\ n \in T
  <2>1. n + 1 \in 1 .. N /\ (n + 1) - 1 = n
    BY <1>1
  <2>2. list[n + 1].delta \in Int
    BY <2>1, ListFacts DEF N
  <2> QED
    BY <1>6, <2>1, <2>2
<1> HIDE DEF T
<1>9. \A n \in 0 .. N : n \in T
  BY <1>1, <1>7, <1>8, InductionUpTo
<1>10. \A n \in 0 .. N : Waits(list)[n] \in Int
  BY <1>9 DEF T
<1>11. Waits(list) = [i \in 0 .. N |-> Waits(list)[i]]
  BY <1>5 DEF F
<1> QED
  BY <1>6, <1>10, <1>11 DEF N

\* Nothing else adds them up.
LEMMA WaitsUnique ==
  ASSUME NEW list \in Seq(Calls), NEW c, c[0] = 0,
         \A i \in 1 .. Len(list) : c[i] = c[i - 1] + list[i].delta
  PROVE  \A i \in 0 .. Len(list) : Waits(list)[i] = c[i]
<1> DEFINE T == {n \in 0 .. Len(list) : Waits(list)[n] = c[n]}
<1>1. Len(list) \in Nat
  BY LenProperties
<1>2. 0 \in T
  BY <1>1, WaitsFacts
<1>3. \A n \in 0 .. Len(list) : n < Len(list) /\ n \in T => n + 1 \in T
  <2> TAKE n \in 0 .. Len(list)
  <2> HAVE n < Len(list) /\ n \in T
  <2>1. n + 1 \in 1 .. Len(list) /\ (n + 1) - 1 = n
    BY <1>1
  <2> QED
    BY <2>1, WaitsFacts
<1> HIDE DEF T
<1>4. \A n \in 0 .. Len(list) : n \in T
  BY <1>1, <1>2, <1>3, InductionUpTo
<1> QED
  BY <1>4 DEF T

\* All calls but the first wait for their predecessor.
Ascending(list) == \A i \in 2 .. Len(list) : list[i].delta >= 0

\* A later call never waits shorter.
LEMMA WaitsAscend ==
  ASSUME NEW list \in Seq(Calls), Ascending(list), NEW i \in 1 .. Len(list)
  PROVE  \A j \in i .. Len(list) : Waits(list)[i] <= Waits(list)[j]
<1> DEFINE N == Len(list) - i
           T == {n \in 0 .. N : Waits(list)[i] <= Waits(list)[i + n]}
<1>1. Len(list) \in Nat /\ N \in Nat /\ i \in Nat \ {0} /\ i + N = Len(list)
  BY LenProperties
<1> HIDE DEF N
<1>2. 0 \in T
  BY <1>1, WaitsFacts
<1>3. \A n \in 0 .. N : n < N /\ n \in T => n + 1 \in T
  <2> TAKE n \in 0 .. N
  <2> HAVE n < N /\ n \in T
  <2>1. /\ i + n + 1 \in 2 .. Len(list) /\ (i + n + 1) - 1 = i + n
        /\ i + n + 1 \in 1 .. Len(list) /\ i + (n + 1) = i + n + 1
        /\ i + n \in 0 .. Len(list) /\ i \in 0 .. Len(list)
    BY <1>1
  <2>2. list[i + n + 1].delta >= 0 /\ list[i + n + 1].delta \in Int
    BY <2>1, ListFacts DEF Ascending
  <2>3. Waits(list)[i] \in Int /\ Waits(list)[i + n] \in Int
    BY <2>1, WaitsFacts
  <2>4. Waits(list)[i + n + 1] = Waits(list)[i + n] + list[i + n + 1].delta
    BY <2>1, WaitsFacts
  <2>5. Waits(list)[i] <= Waits(list)[i + n]
    OBVIOUS
  <2> QED
    BY <1>1, <2>1, <2>2, <2>3, <2>4, <2>5
<1> HIDE DEF T
<1>4. \A n \in 0 .. N : n \in T
  BY <1>1, <1>2, <1>3, InductionUpTo
<1>5. ASSUME NEW j \in i .. Len(list)
      PROVE  Waits(list)[i] <= Waits(list)[j]
  <2>1. j - i \in 0 .. N /\ i + (j - i) = j
    BY <1>1
  <2> QED
    BY <1>4, <2>1 DEF T
<1> QED
  BY <1>5

\* What insert_call() has left of the delay, besides an overdue head.
Overdue(list) == IF list # <<>> /\ list[1].delta < 0 THEN list[1].delta ELSE 0

LEMMA RestFacts ==
  ASSUME NEW list \in Seq(Calls), Ascending(list), NEW delay \in Int
  PROVE  /\ Rest(list, delay)[0] = delay
         /\ \A i \in 1 .. Len(list) :
              /\ Rest(list, delay)[i] = Rest(list, delay)[i - 1] - Max2(list[i].delta, 0)
              /\ Rest(list, delay)[i] = delay - Waits(list)[i] + Overdue(list)
<1> DEFINE N == Len(list)
           F(f) == [i \in 0 .. N |-> IF i = 0 THEN delay ELSE f[i - 1] - Max2(list[i].delta, 0)]
           d == [i \in 1 .. N |-> - Max2(list[i].delta, 0)]
<1>1. N \in Nat /\ d \in [1 .. N -> Int]
  BY ListFacts DEF Max2
<1> HIDE DEF N
<1>2. PICK f \in [0 .. N -> Int] : f[0] = delay /\ \A i \in 1 .. N : f[i] = f[i - 1] + d[i]
  BY <1>1, TotalsExist
<1>3. f = F(f)
  <2>1. \A i \in 1 .. N : Max2(list[i].delta, 0) \in Int /\ f[i - 1] \in Int
    BY <1>1, ListFacts DEF Max2, N
  <2>2. \A i \in 0 .. N : f[i] = F(f)[i]
    BY <1>2, <2>1
  <2> QED
    BY <2>2
<1>4. Rest(list, delay) = CHOOSE r : r = F(r)
  BY DEF Rest, N
<1> HIDE DEF F
<1> DEFINE r == Rest(list, delay)
<1>5. r = F(r)
  BY <1>3, <1>4
<1>6. r[0] = delay /\ \A i \in 1 .. N : r[i] = r[i - 1] - Max2(list[i].delta, 0)
  BY <1>1, <1>5 DEF F
<1> HIDE DEF r
<1> DEFINE T == {n \in 0 .. N : r[n] = delay - Waits(list)[n] + (IF n = 0 THEN 0 ELSE Overdue(list))}
<1>7. 0 \in T
  BY <1>1, <1>6, WaitsFacts
<1>8. \A n \in 0 .. N : n < N /\ n \in T => n + 1 \in T
  <2> TAKE n \in 0 .. N
  <2> HAVE n < N /\ n \in T
  <2>1. n + 1 \in 1 .. N /\ (n + 1) - 1 = n
    BY <1>1
  <2>2. /\ list[n + 1].delta \in Int /\ Waits(list)[n] \in Int
        /\ Waits(list)[n + 1] = Waits(list)[n] + list[n + 1].delta
    BY <2>1, ListFacts, WaitsFacts DEF N
  <2>3. r[n + 1] = r[n] - Max2(list[n + 1].delta, 0)
    BY <1>6, <2>1
  <2>4. CASE n = 0
    <3>1. list # <<>> /\ r[0] = delay /\ Waits(list)[0] = 0
      BY <1>1, <1>6, WaitsFacts, <2>1 DEF N
    <3>2. r[1] = delay - Waits(list)[1] + Overdue(list)
      BY <2>2, <2>3, <2>4, <3>1 DEF Overdue, Max2
    <3> QED
      BY <2>1, <2>4, <3>2
  <2>5. CASE n # 0
    <3>1. list[n + 1].delta >= 0
      BY <2>1, <2>5 DEF Ascending, N
    <3>2. Overdue(list) \in Int
      BY <2>1, ListFacts DEF Overdue, N
    <3>3. r[n + 1] = delay - Waits(list)[n + 1] + Overdue(list)
      BY <2>2, <2>3, <2>5, <3>1, <3>2 DEF Max2
    <3> QED
      BY <2>1, <2>5, <3>3
  <2> QED
    BY <2>4, <2>5
<1> HIDE DEF T
<1>9. \A n \in 0 .. N : n \in T
  BY <1>1, <1>7, <1>8, InductionUpTo
<1>10. \A i \in 1 .. N : r[i] = delay - Waits(list)[i] + Overdue(list)
  BY <1>1, <1>9 DEF T
<1> QED
  BY <1>6, <1>10 DEF N, r

-----------------------------------------------------------------------------
(* Removing and inserting.                                                 *)

\* Call c with another delta.
Waiting(c, d) == [c EXCEPT !.delta = d]

LEMMA WaitingFacts ==
  ASSUME NEW c \in Calls, NEW d \in Int
  PROVE  /\ Waiting(c, d) \in Calls /\ Waiting(c, d).delta = d
         /\ Waiting(c, d).due = c.due /\ Waiting(c, d).onTime = c.onTime
         /\ Waiting(c, d).ob = c.ob /\ Waiting(c, d).cg = c.cg
         /\ WithoutDelta(Waiting(c, d)) = WithoutDelta(c)
BY DEF Waiting, Calls, WithoutDelta

LEMMA WaitingLonger ==
  ASSUME NEW c \in Calls, NEW d \in Int
  PROVE  Waiting(c, c.delta + d) \in Calls /\ Waiting(c, c.delta + d).delta = c.delta + d
<1> DEFINE e == c.delta + d
<1>1. e \in Int
  BY DEF Calls
<1> HIDE DEF e
<1>2. Waiting(c, e) \in Calls /\ Waiting(c, e).delta = e
  BY <1>1, WaitingFacts
<1> QED
  BY <1>2 DEF e

LEMMA AddToHeadFacts ==
  ASSUME NEW list \in Seq(Calls), NEW d \in Int
  PROVE  LET new == AddToHead(list, d)
         IN  /\ new \in Seq(Calls) /\ Len(new) = Len(list)
             /\ \A i \in 1 .. Len(list) :
                  new[i] = IF i = 1 THEN Waiting(list[1], list[1].delta + d) ELSE list[i]
             /\ \A i \in 1 .. Len(list) : Waits(new)[i] = Waits(list)[i] + d
             /\ Ascending(list) => Ascending(new)
<1> DEFINE new == AddToHead(list, d)
           N == Len(list)
<1>1. N \in Nat /\ DOMAIN list = 1 .. N
  BY ListFacts
<1>2. CASE list = <<>>
  <2>1. new = list /\ N = 0
    BY <1>2 DEF AddToHead
  <2> HIDE DEF new, N
  <2>2. new \in Seq(Calls) /\ Len(new) = N /\ 1 .. N = {}
    BY <2>1 DEF N
  <2> QED
    BY <2>1, <2>2 DEF new, N
<1>3. CASE list # <<>>
  <2>1. 1 \in 1 .. N
    BY <1>1, <1>3, EmptySeq
  <2>2. new = [list EXCEPT ![1] = Waiting(list[1], list[1].delta + d)]
    BY <1>3 DEF AddToHead, Waiting
  <2>3. Waiting(list[1], list[1].delta + d) \in Calls
    BY <2>1, ListFacts, WaitingLonger
  <2>4. new \in Seq(Calls) /\ Len(new) = N
    BY <2>1, <2>2, <2>3, ExceptSeq
  <2>5. \A i \in 1 .. N :
          new[i] = IF i = 1 THEN Waiting(list[1], list[1].delta + d) ELSE list[i]
    BY <1>1, <2>2
  <2> DEFINE c == [i \in 0 .. N |-> IF i = 0 THEN 0 ELSE Waits(list)[i] + d]
  <2> HIDE DEF new
  <2>6. ASSUME NEW i \in 1 .. N
        PROVE  c[i] = c[i - 1] + new[i].delta
    <3>1. /\ list[i].delta \in Int /\ Waits(list)[i] \in Int /\ Waits(list)[i - 1] \in Int
          /\ Waits(list)[i] = Waits(list)[i - 1] + list[i].delta
          /\ i \in 0 .. N /\ i - 1 \in 0 .. N
      BY <1>1, ListFacts, WaitsFacts
    <3>2. CASE i = 1
      <4>1. new[1].delta = list[1].delta + d
        <5>1. new[1] = Waiting(list[1], list[1].delta + d) /\ list[1] \in Calls
          BY <2>1, <2>5, ListFacts
        <5> QED
          BY <5>1, WaitingLonger
      <4>2. Waits(list)[0] = 0 /\ c[0] = 0 /\ c[1] = Waits(list)[1] + d
        BY <2>1, <1>1, WaitsFacts
      <4> QED
        BY <3>1, <3>2, <4>1, <4>2
    <3>3. CASE i # 1
      <4>1. c[i] = Waits(list)[i] + d /\ c[i - 1] = Waits(list)[i - 1] + d
        BY <3>1, <3>3
      <4> QED
        BY <2>5, <3>1, <3>3, <4>1
    <3> QED
      BY <3>2, <3>3
  <2>7. c[0] = 0
    BY <1>1
  <2> HIDE DEF c
  <2>8. \A i \in 0 .. N : Waits(new)[i] = c[i]
    BY <2>4, <2>6, <2>7, WaitsUnique
  <2>9. \A i \in 1 .. N : Waits(new)[i] = Waits(list)[i] + d
    BY <2>8 DEF c
  <2>10. Ascending(list) => Ascending(new)
    BY <1>1, <2>4, <2>5 DEF Ascending
  <2> QED
    BY <2>4, <2>5, <2>9, <2>10 DEF new
<1> QED
  BY <1>2, <1>3

\* A call is unlinked: all others keep their time.
LEMMA RemoveCallFacts ==
  ASSUME NEW list \in Seq(Calls), NEW i \in 1 .. Len(list)
  PROVE  LET new == RemoveCall(list, i)
         IN  /\ new \in Seq(Calls) /\ Len(new) = Len(list) - 1
             /\ \A j \in 1 .. Len(list) - 1 :
                  /\ new[j] = Waiting(list[IF j < i THEN j ELSE j + 1], new[j].delta)
                  /\ Waits(new)[j] = Waits(list)[IF j < i THEN j ELSE j + 1]
             /\ \A j \in 1 .. i - 1 : new[j] = list[j]
             /\ Ascending(list) => Ascending(new)
<1> DEFINE N == Len(list)
           a == SubSeq(list, 1, i - 1)
           b == SubSeq(list, i + 1, N)
           h == AddToHead(b, list[i].delta)
           new == a \o h
<1>1. N \in Nat \ {0} /\ i \in 1 .. N /\ \A j \in 1 .. N : list[j] \in Calls /\ list[j].delta \in Int
  BY ListFacts
<1>2. a \in Seq(Calls) /\ Len(a) = i - 1 /\ \A j \in 1 .. i - 1 : a[j] = list[j]
  BY <1>1, SubSeqProperties
<1>3. b \in Seq(Calls) /\ Len(b) = N - i /\ \A j \in 1 .. N - i : b[j] = list[j + i]
  BY <1>1, SubSeqProperties
<1> HIDE DEF N, a, b
<1>4. /\ h \in Seq(Calls) /\ Len(h) = N - i
      /\ \A j \in 1 .. N - i :
           h[j] = IF j = 1 THEN Waiting(b[1], b[1].delta + list[i].delta) ELSE b[j]
  <2>1. ASSUME NEW d \in Int
        PROVE  /\ AddToHead(b, d) \in Seq(Calls) /\ Len(AddToHead(b, d)) = N - i
               /\ \A j \in 1 .. N - i :
                    AddToHead(b, d)[j] = IF j = 1 THEN Waiting(b[1], b[1].delta + d) ELSE b[j]
    BY <1>3, AddToHeadFacts
  <2> QED
    BY <1>1, <2>1
<1> HIDE DEF h
<1>5. /\ new \in Seq(Calls) /\ Len(new) = N - 1
      /\ \A j \in 1 .. N - 1 : new[j] = IF j <= i - 1 THEN a[j] ELSE h[j - (i - 1)]
  <2>1. /\ new \in Seq(Calls) /\ Len(new) = Len(a) + Len(h)
        /\ \A j \in 1 .. Len(a) + Len(h) : new[j] = IF j <= Len(a) THEN a[j] ELSE h[j - Len(a)]
    BY <1>2, <1>4, ConcatProperties
  <2>2. Len(a) + Len(h) = N - 1
    BY <1>1, <1>2, <1>4
  <2> QED
    BY <1>2, <2>1, <2>2
<1>6. RemoveCall(list, i) = new
  BY DEF RemoveCall, N, a, b, h
<1> HIDE DEF new
<1>7. \A j \in 1 .. i - 1 : new[j] = list[j]
  BY <1>1, <1>2, <1>5
<1>8. i < N => /\ new[i] = Waiting(list[i + 1], list[i + 1].delta + list[i].delta)
               /\ new[i].delta = list[i + 1].delta + list[i].delta
  <2> HAVE i < N
  <2>1. i \in 1 .. N - 1 /\ ~(i <= i - 1) /\ i - (i - 1) = 1 /\ 1 \in 1 .. N - i /\ 1 + i = i + 1
    BY <1>1
  <2>2. new[i] = h[1]
    BY <1>5, <2>1
  <2>3. new[i] = Waiting(list[i + 1], list[i + 1].delta + list[i].delta)
    BY <1>3, <1>4, <2>1, <2>2
  <2>4. list[i + 1] \in Calls /\ list[i].delta \in Int
    BY <1>1
  <2> QED
    BY <2>3, <2>4, WaitingLonger
<1>9. \A j \in i + 1 .. N - 1 : new[j] = list[j + 1]
  <2> TAKE j \in i + 1 .. N - 1
  <2>1. /\ j \in 1 .. N - 1 /\ ~(j <= i - 1) /\ j - (i - 1) \in 2 .. N - i
        /\ j - (i - 1) # 1 /\ j - (i - 1) \in 1 .. N - i /\ (j - (i - 1)) + i = j + 1
    BY <1>1
  <2>2. new[j] = h[j - (i - 1)]
    BY <1>5, <2>1
  <2> QED
    BY <1>3, <1>4, <2>1, <2>2
<1>10. \A j \in 1 .. N : Waiting(list[j], list[j].delta) = list[j]
  BY <1>1 DEF Waiting, Calls
<1>11. ASSUME NEW j \in 1 .. N - 1
       PROVE  new[j] = Waiting(list[IF j < i THEN j ELSE j + 1], new[j].delta)
  <2>1. j \in 1 .. N /\ j + 1 \in 1 .. N /\ (j < i => j \in 1 .. i - 1)
        /\ (j > i => j \in i + 1 .. N - 1) /\ (j = i => i < N)
    BY <1>1
  <2>2. CASE j < i
    BY <1>7, <1>10, <2>1, <2>2
  <2>3. CASE j = i
    <3>1. new[j].delta = list[i + 1].delta + list[i].delta
      BY <1>8, <2>1, <2>3
    <3> QED
      BY <1>8, <2>1, <2>3, <3>1
  <2>4. CASE j > i
    BY <1>9, <1>10, <2>1, <2>4
  <2> QED
    BY <1>1, <2>2, <2>3, <2>4
<1> DEFINE c == [j \in 0 .. N - 1 |-> Waits(list)[IF j < i THEN j ELSE j + 1]]
<1>12. ASSUME NEW j \in 1 .. N - 1
       PROVE  c[j] = c[j - 1] + new[j].delta
  <2>1. /\ \A k \in 0 .. N : Waits(list)[k] \in Int
        /\ \A k \in 1 .. N : Waits(list)[k] = Waits(list)[k - 1] + list[k].delta
    BY WaitsFacts DEF N
  <2>2. /\ j \in 0 .. N - 1 /\ j - 1 \in 0 .. N - 1 /\ j \in 1 .. N /\ j + 1 \in 1 .. N
        /\ (j + 1) - 1 = j
    BY <1>1
  <2>3. CASE j < i
    <3>1. c[j] = Waits(list)[j] /\ c[j - 1] = Waits(list)[j - 1] /\ new[j] = list[j]
      BY <1>1, <1>7, <2>2, <2>3
    <3> QED
      BY <2>1, <2>2, <3>1
  <2>4. CASE j = i
    <3>1. c[j] = Waits(list)[j + 1] /\ c[j - 1] = Waits(list)[j - 1]
      BY <1>1, <2>2, <2>4
    <3>2. new[j].delta = list[j + 1].delta + list[j].delta
      BY <1>1, <1>8, <2>2, <2>4
    <3>3. /\ Waits(list)[j + 1] = Waits(list)[j] + list[j + 1].delta
          /\ Waits(list)[j] = Waits(list)[j - 1] + list[j].delta
      BY <2>1, <2>2
    <3>4. /\ Waits(list)[j] \in Int /\ Waits(list)[j - 1] \in Int
          /\ list[j].delta \in Int /\ list[j + 1].delta \in Int
      <4>1. j \in 0 .. N /\ j - 1 \in 0 .. N
        BY <1>1, <2>2
      <4> QED
        BY <1>1, <2>1, <2>2, <4>1
    <3> HIDE DEF c
    <3> QED
      BY <3>1, <3>2, <3>3, <3>4
  <2>5. CASE j > i
    <3>1. /\ j \in i + 1 .. N - 1 /\ ~(j < i) /\ ~(j - 1 < i) /\ (j - 1) + 1 = j
      BY <1>1, <2>2, <2>5
    <3>2. new[j] = list[j + 1]
      BY <1>9, <3>1
    <3>3. c[j] = Waits(list)[j + 1] /\ c[j - 1] = Waits(list)[j]
      BY <2>2, <3>1
    <3> QED
      BY <2>1, <2>2, <3>2, <3>3
  <2> QED
    BY <1>1, <2>3, <2>4, <2>5
<1>13. c[0] = 0
  BY <1>1, WaitsFacts
<1> HIDE DEF c
<1>14. \A j \in 0 .. N - 1 : Waits(new)[j] = c[j]
  BY <1>5, <1>12, <1>13, WaitsUnique
<1>15. \A j \in 1 .. N - 1 : Waits(new)[j] = Waits(list)[IF j < i THEN j ELSE j + 1]
  BY <1>14 DEF c
<1>16. ASSUME Ascending(list), NEW j \in 2 .. Len(new)
       PROVE  new[j].delta >= 0
  <2>1. j \in 2 .. N - 1 /\ j \in 2 .. N /\ j + 1 \in 2 .. N /\ j \in 1 .. N /\ j + 1 \in 1 .. N
    BY <1>1, <1>5
  <2>2. list[j].delta >= 0 /\ list[j + 1].delta >= 0
    BY <1>16, <2>1 DEF Ascending, N
  <2>3. CASE j < i
    BY <1>1, <1>7, <2>1, <2>2, <2>3
  <2>4. CASE j = i
    <3>1. new[j].delta = list[j + 1].delta + list[j].delta
      BY <1>1, <1>8, <2>1, <2>4
    <3> QED
      BY <1>1, <2>1, <2>2, <3>1
  <2>5. CASE j > i
    BY <1>1, <1>9, <2>1, <2>2, <2>5
  <2> QED
    BY <1>1, <2>3, <2>4, <2>5
<1> QED
  BY <1>5, <1>6, <1>7, <1>11, <1>15, <1>16 DEF N, Ascending

\* The walk of insert_call() ends, with a rest that is not negative.
LEMMA InsertIndexFacts ==
  ASSUME NEW list \in Seq(Calls), Ascending(list), NEW delay \in Nat
  PROVE  LET i == InsertIndex(list, delay)
         IN  /\ i \in 1 .. Len(list) + 1
             /\ i <= Len(list) => list[i].delta > Rest(list, delay)[i - 1]
             /\ Rest(list, delay)[i - 1] \in Nat
<1> DEFINE N == Len(list)
           r == Rest(list, delay)
           Stops(i) == i = N + 1 \/ list[i].delta > r[i - 1]
           S == {i \in 1 .. N + 1 : Stops(i)}
           P(i) == Stops(i) /\ \A j \in 1 .. i - 1 : list[j].delta <= r[j - 1]
           k == InsertIndex(list, delay)
<1>1. /\ N \in Nat /\ \A i \in 1 .. N : list[i].delta \in Int
      /\ \A i \in 1 .. N : Waits(list)[i] \in Int
  BY ListFacts, WaitsFacts
<1>2. /\ r[0] = delay
      /\ \A i \in 1 .. N : r[i] = r[i - 1] - Max2(list[i].delta, 0)
      /\ \A i \in 1 .. N : r[i] = delay - Waits(list)[i] + Overdue(list)
  BY RestFacts
<1>3. k = CHOOSE i \in 1 .. N + 1 : P(i)
  BY DEF InsertIndex
<1> HIDE DEF N, r, k
<1>4. \A i \in 0 .. N : r[i] \in Int
  <2>1. Overdue(list) \in Int
    <3>1. list # <<>> => 1 \in 1 .. N
      BY <1>1, EmptySeq DEF N
    <3> QED
      BY <1>1, <3>1 DEF Overdue
  <2> QED
    BY <1>1, <1>2, <2>1
<1>5. \E i \in 1 .. N + 1 : P(i)
  <2>1. S \subseteq Nat /\ N + 1 \in S
    BY <1>1
  <2>2. PICK i \in S : \A j \in S : i <= j
    BY <2>1, NatMin
  <2>3. i \in 1 .. N + 1 /\ Stops(i)
    BY <2>2
  <2>4. ASSUME NEW j \in 1 .. i - 1
        PROVE  list[j].delta <= r[j - 1]
    <3>1. j \in 1 .. N + 1 /\ ~(i <= j) /\ j \in 1 .. N /\ j - 1 \in 0 .. N
      BY <1>1, <2>3
    <3>2. ~Stops(j)
      BY <2>2, <3>1
    <3>3. list[j].delta \in Int /\ r[j - 1] \in Int
      BY <1>1, <1>4, <3>1
    <3> QED
      BY <3>2, <3>3
  <2> QED
    BY <2>3, <2>4
<1> HIDE DEF P
<1>6. k \in 1 .. N + 1 /\ P(k)
  BY <1>3, <1>5
<1> DEFINE T == {n \in 0 .. k - 1 : r[n] >= 0}
<1>7. 0 \in T
  BY <1>2, <1>6
<1>8. \A n \in 0 .. k - 1 : n < k - 1 /\ n \in T => n + 1 \in T
  <2> TAKE n \in 0 .. k - 1
  <2> HAVE n < k - 1 /\ n \in T
  <2>1. /\ n + 1 \in 1 .. k - 1 /\ n + 1 \in 1 .. N /\ (n + 1) - 1 = n
        /\ n \in 0 .. N /\ n + 1 \in 0 .. k - 1
    BY <1>1, <1>6
  <2>2. list[n + 1].delta <= r[n] /\ list[n + 1].delta \in Int /\ r[n] \in Int
    BY <1>1, <1>4, <1>6, <2>1 DEF P
  <2>3. r[n + 1] = r[n] - Max2(list[n + 1].delta, 0) /\ r[n] >= 0
    BY <1>2, <2>1
  <2>4. r[n + 1] >= 0
    BY <2>2, <2>3 DEF Max2
  <2> QED
    BY <2>1, <2>4
<1> HIDE DEF T
<1>9. k - 1 \in Nat
  BY <1>6
<1>10. \A n \in 0 .. k - 1 : n \in T
  BY <1>7, <1>8, <1>9, InductionUpTo
<1>11. r[k - 1] >= 0 /\ r[k - 1] \in Int
  <2>1. k - 1 \in 0 .. k - 1 /\ k - 1 \in 0 .. N
    BY <1>1, <1>6
  <2> QED
    BY <1>4, <1>10, <2>1 DEF T
<1>12. k <= N => list[k].delta > r[k - 1]
  BY <1>1, <1>6 DEF P
<1> QED
  BY <1>6, <1>11, <1>12 DEF k, N, r

\* A call is inserted: the others keep their time, and it gets its own, behind
\* all that come at the same time.
LEMMA InsertCallFacts ==
  ASSUME NEW list \in Seq(Calls), Ascending(list), NEW call \in Calls, NEW delay \in Nat
  PROVE  LET new == InsertCall(list, call, delay)
         IN  /\ new \in Seq(Calls) /\ Len(new) = Len(list) + 1
             /\ Ascending(new)
             /\ \E i \in 1 .. Len(list) + 1 :
                  /\ new[i] = Waiting(call, new[i].delta)
                  /\ Waits(new)[i] <= delay
                  /\ (list = <<>> \/ list[1].delta >= 0) => Waits(new)[i] = delay
                  /\ \A j \in 1 .. Len(list) :
                       LET k == IF j < i THEN j ELSE j + 1
                       IN  new[k] = Waiting(list[j], new[k].delta) /\ Waits(new)[k] = Waits(list)[j]
                  /\ \A j \in i + 1 .. Len(list) + 1 : Waits(new)[j] > Waits(new)[i]
<1> DEFINE N == Len(list)
           i == InsertIndex(list, delay)
           rest == Rest(list, delay)[i - 1]
           a == SubSeq(list, 1, i - 1)
           m == <<Waiting(call, rest)>>
           b == SubSeq(list, i, N)
           h == AddToHead(b, -rest)
           am == a \o m
           new == am \o h
<1>1. /\ N \in Nat /\ \A j \in 1 .. N : list[j] \in Calls /\ list[j].delta \in Int
      /\ \A j \in 1 .. N : Waiting(list[j], list[j].delta) = list[j]
  BY ListFacts DEF Waiting, Calls
<1>2. i \in 1 .. N + 1 /\ (i <= N => list[i].delta > rest) /\ rest \in Nat
  BY InsertIndexFacts
<1>3. InsertCall(list, call, delay) = new
  BY DEF InsertCall, Waiting
<1>4. rest = IF i = 1 THEN delay ELSE delay - Waits(list)[i - 1] + Overdue(list)
  <2>1. i # 1 => i - 1 \in 1 .. N
    BY <1>1, <1>2
  <2> QED
    BY <2>1, RestFacts
<1> HIDE DEF N, i, rest, a, b
<1>5. a \in Seq(Calls) /\ Len(a) = i - 1 /\ \A j \in 1 .. i - 1 : a[j] = list[j]
  BY <1>1, <1>2, SubSeqProperties DEF a
<1>6. b \in Seq(Calls) /\ Len(b) = N - i + 1 /\ \A j \in 1 .. N - i + 1 : b[j] = list[i + j - 1]
  BY <1>1, <1>2, SubSeqProperties DEF b
<1>7. /\ h \in Seq(Calls) /\ Len(h) = N - i + 1
      /\ \A j \in 1 .. N - i + 1 :
           h[j] = IF j = 1 THEN Waiting(b[1], b[1].delta + (-rest)) ELSE b[j]
  <2>1. ASSUME NEW d \in Int
        PROVE  /\ AddToHead(b, d) \in Seq(Calls) /\ Len(AddToHead(b, d)) = N - i + 1
               /\ \A j \in 1 .. N - i + 1 :
                    AddToHead(b, d)[j] = IF j = 1 THEN Waiting(b[1], b[1].delta + d) ELSE b[j]
    BY <1>6, AddToHeadFacts
  <2>2. -rest \in Int
    BY <1>2
  <2> QED
    BY <2>1, <2>2
<1>8. Waiting(call, rest) \in Calls /\ Waiting(call, rest).delta = rest
  BY <1>2, WaitingFacts
<1>9. m \in Seq(Calls) /\ Len(m) = 1 /\ m[1] = Waiting(call, rest)
  BY <1>8
<1> HIDE DEF m, h
<1>10. /\ am \in Seq(Calls) /\ Len(am) = i
       /\ \A j \in 1 .. i : am[j] = IF j < i THEN list[j] ELSE Waiting(call, rest)
  <2>1. /\ am \in Seq(Calls) /\ Len(am) = Len(a) + Len(m)
        /\ \A j \in 1 .. Len(a) + Len(m) : am[j] = IF j <= Len(a) THEN a[j] ELSE m[j - Len(a)]
    BY <1>5, <1>9, ConcatProperties
  <2>2. Len(a) + Len(m) = i
    BY <1>2, <1>5, <1>9
  <2>3. ASSUME NEW j \in 1 .. i
        PROVE  am[j] = IF j < i THEN list[j] ELSE Waiting(call, rest)
    <3>1. j < i => j \in 1 .. i - 1 /\ j <= i - 1
      BY <1>2
    <3>2. ~(j < i) => ~(j <= i - 1) /\ j - (i - 1) = 1
      BY <1>2
    <3> QED
      BY <1>5, <1>9, <2>1, <2>2, <3>1, <3>2
  <2> QED
    BY <2>1, <2>2, <2>3
<1> HIDE DEF am
<1>11. /\ new \in Seq(Calls) /\ Len(new) = N + 1
       /\ \A j \in 1 .. N + 1 : new[j] = IF j <= i THEN am[j] ELSE h[j - i]
  <2>1. /\ new \in Seq(Calls) /\ Len(new) = Len(am) + Len(h)
        /\ \A j \in 1 .. Len(am) + Len(h) : new[j] = IF j <= Len(am) THEN am[j] ELSE h[j - Len(am)]
    BY <1>7, <1>10, ConcatProperties
  <2>2. Len(am) + Len(h) = N + 1
    BY <1>1, <1>2, <1>7, <1>10
  <2> QED
    BY <1>10, <2>1, <2>2
<1> HIDE DEF new
<1>12. \A j \in 1 .. i - 1 : new[j] = list[j]
  BY <1>1, <1>2, <1>10, <1>11
<1>13. new[i] = Waiting(call, rest) /\ new[i].delta = rest
  BY <1>1, <1>2, <1>8, <1>10, <1>11
<1>14. i <= N => /\ new[i + 1] = Waiting(list[i], list[i].delta + (-rest))
                 /\ new[i + 1].delta = list[i].delta - rest
  <2> HAVE i <= N
  <2>1. /\ i + 1 \in 1 .. N + 1 /\ ~(i + 1 <= i) /\ (i + 1) - i = 1 /\ 1 \in 1 .. N - i + 1
        /\ i + 1 - 1 = i /\ i \in 1 .. N
    BY <1>1, <1>2
  <2>2. new[i + 1] = Waiting(list[i], list[i].delta + (-rest))
    BY <1>6, <1>7, <1>11, <2>1
  <2>3. list[i] \in Calls /\ -rest \in Int /\ list[i].delta \in Int
    BY <1>1, <1>2, <2>1
  <2>4. Waiting(list[i], list[i].delta + (-rest)).delta = list[i].delta + (-rest)
    BY <2>3, WaitingLonger
  <2> QED
    BY <1>2, <2>2, <2>3, <2>4
<1>15. \A j \in i + 1 .. N : new[j + 1] = list[j]
  <2> TAKE j \in i + 1 .. N
  <2>1. /\ j + 1 \in 1 .. N + 1 /\ ~(j + 1 <= i) /\ (j + 1) - i \in 1 .. N - i + 1
        /\ (j + 1) - i # 1 /\ i + ((j + 1) - i) - 1 = j
    BY <1>1, <1>2
  <2>2. new[j + 1] = h[(j + 1) - i]
    BY <1>11, <2>1
  <2> QED
    BY <1>6, <1>7, <2>1, <2>2
<1>16. ASSUME NEW j \in 1 .. N
       PROVE  LET k == IF j < i THEN j ELSE j + 1 IN new[k] = Waiting(list[j], new[k].delta)
  <2>1. CASE j < i
    <3>1. j \in 1 .. i - 1
      BY <1>1, <1>2, <2>1
    <3> QED
      BY <1>1, <1>12, <2>1, <3>1
  <2>2. CASE j = i
    <3>1. new[j + 1] = Waiting(list[j], list[j].delta + (-rest))
      BY <1>1, <1>14, <2>2
    <3>2. new[j + 1].delta = list[j].delta + (-rest)
      BY <1>1, <1>2, <1>14, <2>2
    <3> QED
      BY <2>2, <3>1, <3>2
  <2>3. CASE j > i
    <3>1. j \in i + 1 .. N /\ ~(j < i)
      BY <1>1, <1>2, <2>3
    <3> QED
      BY <1>1, <1>15, <3>1
  <2> QED
    BY <1>1, <1>2, <2>1, <2>2, <2>3
<1>17. /\ \A j \in 0 .. N : Waits(list)[j] \in Int
       /\ Waits(list)[0] = 0
       /\ \A j \in 1 .. N : Waits(list)[j] = Waits(list)[j - 1] + list[j].delta
  BY WaitsFacts DEF N
<1> DEFINE c == [j \in 0 .. N + 1 |-> IF j < i THEN Waits(list)[j]
                                      ELSE IF j = i THEN Waits(list)[i - 1] + rest
                                      ELSE Waits(list)[j - 1]]
<1>18. ASSUME NEW j \in 1 .. N + 1
       PROVE  c[j] = c[j - 1] + new[j].delta
  <2>1. j \in 0 .. N + 1 /\ j - 1 \in 0 .. N + 1 /\ i - 1 \in 0 .. N
    BY <1>1, <1>2
  <2>2. CASE j < i
    <3>1. c[j] = Waits(list)[j] /\ c[j - 1] = Waits(list)[j - 1] /\ j \in 1 .. i - 1 /\ j \in 1 .. N
      BY <1>1, <1>2, <2>1, <2>2
    <3> QED
      BY <1>12, <1>17, <3>1
  <2>3. CASE j = i
    <3>1. c[j] = Waits(list)[i - 1] + rest /\ c[j - 1] = Waits(list)[i - 1]
      BY <1>1, <1>2, <2>1, <2>3
    <3> QED
      BY <1>13, <2>3, <3>1
  <2>4. CASE j = i + 1
    <3>1. c[j] = Waits(list)[i] /\ c[j - 1] = Waits(list)[i - 1] + rest /\ i <= N /\ i \in 1 .. N
          /\ i \in 0 .. N
      BY <1>1, <1>2, <2>1, <2>4
    <3>2. new[j].delta = list[i].delta - rest
      BY <1>14, <2>4, <3>1
    <3>3. Waits(list)[i] = Waits(list)[i - 1] + list[i].delta
      BY <1>17, <3>1
    <3> QED
      <4>1. /\ list[i].delta \in Int /\ rest \in Int
            /\ Waits(list)[i] \in Int /\ Waits(list)[i - 1] \in Int
        <5>1. list[i].delta \in Int /\ rest \in Int
          BY <1>1, <1>2, <3>1
        <5>2. Waits(list)[i] \in Int /\ Waits(list)[i - 1] \in Int
          BY <1>17, <2>1, <3>1
        <5> QED
          BY <5>1, <5>2
      <4> QED
        BY <3>1, <3>2, <3>3, <4>1
  <2>5. CASE j > i + 1
    <3>1. /\ c[j] = Waits(list)[j - 1] /\ c[j - 1] = Waits(list)[j - 2]
          /\ j - 1 \in i + 1 .. N /\ j - 1 \in 1 .. N /\ (j - 1) + 1 = j /\ (j - 1) - 1 = j - 2
      BY <1>1, <1>2, <2>1, <2>5
    <3>2. new[j] = list[j - 1]
      BY <1>15, <3>1
    <3>3. Waits(list)[j - 1] = Waits(list)[j - 2] + list[j - 1].delta
      BY <1>17, <3>1
    <3> QED
      BY <3>1, <3>2, <3>3
  <2> QED
    BY <1>1, <1>2, <2>2, <2>3, <2>4, <2>5
<1>19. c[0] = 0
  BY <1>1, <1>2, <1>17
<1> HIDE DEF c
<1>20. \A j \in 0 .. N + 1 : Waits(new)[j] = c[j]
  BY <1>11, <1>18, <1>19, WaitsUnique
<1>21. \A j \in 1 .. N : LET k == IF j < i THEN j ELSE j + 1 IN Waits(new)[k] = Waits(list)[j]
  BY <1>1, <1>2, <1>20 DEF c
<1>22. Ascending(new)
  <2> SUFFICES ASSUME NEW j \in 2 .. N + 1
               PROVE  new[j].delta >= 0
    BY <1>11 DEF Ascending
  <2>1. \A n \in 2 .. N : list[n].delta >= 0
    BY DEF Ascending, N
  <2>2. CASE j < i
    BY <1>1, <1>2, <1>12, <2>1, <2>2
  <2>3. CASE j = i
    BY <1>2, <1>13, <2>3
  <2>4. CASE j = i + 1
    BY <1>1, <1>2, <1>14, <2>4
  <2>5. CASE j > i + 1
    <3>1. j - 1 \in i + 1 .. N /\ j - 1 \in 2 .. N /\ (j - 1) + 1 = j
      BY <1>1, <1>2, <2>5
    <3> QED
      BY <1>15, <2>1, <3>1
  <2> QED
    BY <1>1, <1>2, <2>2, <2>3, <2>4, <2>5
<1>23. Overdue(list) \in Int /\ Overdue(list) <= 0
       /\ ((list = <<>> \/ list[1].delta >= 0) => Overdue(list) = 0)
  <2>1. list # <<>> => 1 \in 1 .. N
    BY <1>1, EmptySeq DEF N
  <2> QED
    BY <1>1, <2>1 DEF Overdue
<1>24. /\ Waits(new)[i] <= delay
       /\ (list = <<>> \/ list[1].delta >= 0) => Waits(new)[i] = delay
  <2>1. Waits(new)[i] = Waits(list)[i - 1] + rest /\ i - 1 \in 0 .. N
    BY <1>1, <1>2, <1>20 DEF c
  <2>2. CASE i = 1
    BY <1>4, <1>17, <2>1, <2>2
  <2>3. CASE i # 1
    BY <1>4, <1>17, <1>23, <2>1, <2>3
  <2> QED
    BY <2>2, <2>3
<1>25. ASSUME NEW j \in i + 1 .. N + 1
       PROVE  Waits(new)[j] > Waits(new)[i]
  <2>1. i <= N /\ i + 1 \in 1 .. N + 1 /\ (i + 1) - 1 = i /\ j \in 0 .. N + 1 /\ i \in 0 .. N + 1 /\ i \in 1 .. N
        /\ i + 1 \in 0 .. N + 1
    BY <1>1, <1>2
  <2>2. \A n \in 0 .. N + 1 : Waits(new)[n] \in Int
    BY <1>11, WaitsFacts
  <2>3. Waits(new)[i + 1] = Waits(new)[i] + new[i + 1].delta
    BY <1>11, <2>1, WaitsFacts
  <2>4. Waits(new)[i + 1] <= Waits(new)[j]
    BY <1>11, <1>22, <2>1, WaitsAscend
  <2>5. new[i + 1].delta > 0 /\ new[i + 1].delta \in Int
    BY <1>1, <1>2, <1>14, <2>1
  <2> QED
    BY <2>1, <2>2, <2>3, <2>4, <2>5
<1>26. \E n \in 1 .. N + 1 :
         /\ new[n] = Waiting(call, new[n].delta)
         /\ Waits(new)[n] <= delay
         /\ (list = <<>> \/ list[1].delta >= 0) => Waits(new)[n] = delay
         /\ \A j \in 1 .. N :
              LET k == IF j < n THEN j ELSE j + 1
              IN  new[k] = Waiting(list[j], new[k].delta) /\ Waits(new)[k] = Waits(list)[j]
         /\ \A j \in n + 1 .. N + 1 : Waits(new)[j] > Waits(new)[n]
  <2>1. new[i] = Waiting(call, new[i].delta)
    BY <1>13
  <2> QED
    BY <1>2, <1>16, <1>21, <1>24, <1>25, <2>1
<1> QED
  BY <1>3, <1>11, <1>22, <1>26 DEF N

-----------------------------------------------------------------------------
(* Timely lists.                                                           *)

\* Every call of the list is executed when it is due, or earlier if it was
\* made behind an overdue one.
Timely(list, now) ==
  \A i \in 1 .. Len(list) :
    /\ now + Waits(list)[i] <= list[i].due
    /\ list[i].onTime => now + Waits(list)[i] = list[i].due

\* A list of pending calls.
Pending(list, now) == list \in Seq(Calls) /\ Ascending(list) /\ Timely(list, now)

LEMMA RemoveCallKeeps ==
  ASSUME NEW now \in Int, NEW list, Pending(list, now), NEW i \in 1 .. Len(list)
  PROVE  Pending(RemoveCall(list, i), now) /\ Len(RemoveCall(list, i)) = Len(list) - 1
<1> DEFINE new == RemoveCall(list, i)
           N == Len(list)
<1>1. list \in Seq(Calls) /\ Ascending(list) /\ Timely(list, now)
  BY DEF Pending
<1>2. N \in Nat \ {0} /\ \A j \in 1 .. N : list[j] \in Calls
  BY <1>1, ListFacts
<1>3. /\ new \in Seq(Calls) /\ Len(new) = N - 1 /\ Ascending(new)
      /\ \A j \in 1 .. N - 1 :
           /\ new[j] = Waiting(list[IF j < i THEN j ELSE j + 1], new[j].delta)
           /\ Waits(new)[j] = Waits(list)[IF j < i THEN j ELSE j + 1]
  BY <1>1, RemoveCallFacts
<1>4. \A j \in 1 .. N - 1 : new[j] \in Calls /\ new[j].delta \in Int
  BY <1>3, ListFacts
<1> HIDE DEF new, N
<1>5. ASSUME NEW j \in 1 .. N - 1
      PROVE  /\ now + Waits(new)[j] <= new[j].due
             /\ new[j].onTime => now + Waits(new)[j] = new[j].due
  <2> DEFINE k == IF j < i THEN j ELSE j + 1
  <2>1. k \in 1 .. N
    BY <1>2
  <2>2. new[j] = Waiting(list[k], new[j].delta) /\ Waits(new)[j] = Waits(list)[k]
    BY <1>3
  <2> HIDE DEF k
  <2>3. new[j].due = list[k].due /\ new[j].onTime = list[k].onTime
    <3> DEFINE d == new[j].delta
    <3>1. d \in Int /\ list[k] \in Calls /\ new[j] = Waiting(list[k], d)
      BY <1>2, <1>4, <2>1, <2>2
    <3> HIDE DEF d
    <3>2. Waiting(list[k], d).due = list[k].due /\ Waiting(list[k], d).onTime = list[k].onTime
      BY <3>1, WaitingFacts
    <3> QED
      BY <3>1, <3>2
  <2> QED
    BY <1>1, <2>1, <2>2, <2>3 DEF Timely, N
<1> QED
  BY <1>3, <1>5 DEF Pending, Timely, new, N

\* What remove_stale_call_outs() leaves is a list of pending calls.
LEMMA RemoveStaleKeeps ==
  ASSUME NEW now \in Int, NEW list, Pending(list, now)
  PROVE  Pending(RemoveStale(list), now) /\ Len(RemoveStale(list)) \in 0 .. Len(list)
<1> DEFINE N == Len(list)
           Step(l, n) == IF list[N + 1 - n].ob \in destructed
                         THEN RemoveCall(l, N + 1 - n) ELSE l
           F(f) == [n \in 0 .. N |-> IF n = 0 THEN list ELSE Step(f[n - 1], n)]
           Upto(f, m) == f[0] = list /\ \A n \in 1 .. m : f[n] = Step(f[n - 1], n)
           E == {m \in 0 .. N : \E f : DOMAIN f = 0 .. m /\ Upto(f, m)}
           left == CHOOSE f : f = F(f)
<1>1. N \in Nat /\ list \in Seq(Calls)
  BY ListFacts DEF Pending
<1>2. RemoveStale(list) = left[N]
  BY DEF RemoveStale
<1> HIDE DEF N, Step
<1>3. 0 \in E
  <2>1. DOMAIN [n \in 0 .. 0 |-> list] = 0 .. 0 /\ Upto([n \in 0 .. 0 |-> list], 0)
    OBVIOUS
  <2>2. \E f : DOMAIN f = 0 .. 0 /\ Upto(f, 0)
    BY <2>1
  <2> QED
    BY <1>1, <2>2
<1>4. \A m \in 0 .. N : m < N /\ m \in E => m + 1 \in E
  <2> TAKE m \in 0 .. N
  <2> HAVE m < N /\ m \in E
  <2>1. PICK f : DOMAIN f = 0 .. m /\ Upto(f, m)
    OBVIOUS
  <2> DEFINE g == [n \in 0 .. m + 1 |-> IF n = m + 1 THEN Step(f[m], m + 1) ELSE f[n]]
  <2>2. g[0] = list
    BY <2>1
  <2>3. ASSUME NEW n \in 1 .. m + 1
        PROVE  g[n] = Step(g[n - 1], n)
    <3>1. /\ n \in 0 .. m + 1 /\ n - 1 \in 0 .. m + 1 /\ n - 1 # m + 1
          /\ (n # m + 1 => n \in 1 .. m) /\ (n = m + 1 => n - 1 = m)
      OBVIOUS
    <3>2. g[n - 1] = f[n - 1]
      BY <3>1
    <3>3. CASE n = m + 1
      BY <3>1, <3>2, <3>3
    <3>4. CASE n # m + 1
      BY <2>1, <3>1, <3>2, <3>4
    <3> QED
      BY <3>3, <3>4
  <2>4. DOMAIN g = 0 .. m + 1 /\ Upto(g, m + 1)
    BY <2>2, <2>3
  <2>5. m + 1 \in 0 .. N
    BY <1>1
  <2> HIDE DEF g
  <2>6. \E h : DOMAIN h = 0 .. m + 1 /\ Upto(h, m + 1)
    BY <2>4
  <2> QED
    BY <2>5, <2>6
<1> HIDE DEF E
<1>5. \A m \in 0 .. N : m \in E
  BY <1>1, <1>3, <1>4, InductionUpTo
<1>6. PICK f : DOMAIN f = 0 .. N /\ Upto(f, N)
  BY <1>1, <1>5 DEF E
<1> DEFINE f0 == [n \in 0 .. N |-> f[n]]
<1>7. f0 = F(f0)
  <2>1. \A n \in 0 .. N : f0[n] = F(f0)[n]
    <3> TAKE n \in 0 .. N
    <3>1. CASE n = 0
      BY <1>6, <3>1
    <3>2. CASE n # 0
      <4>1. n \in 1 .. N /\ n - 1 \in 0 .. N
        BY <1>1, <3>2
      <4>2. f0[n] = f[n] /\ f0[n - 1] = f[n - 1]
        BY <4>1
      <4> QED
        BY <1>6, <3>2, <4>1, <4>2
    <3> QED
      BY <3>1, <3>2
  <2> QED
    BY <2>1
<1> HIDE DEF F
<1>8. left = F(left)
  <2> HIDE DEF f0
  <2> QED
    BY <1>7
<1> HIDE DEF left
<1>9. left[0] = list /\ \A n \in 1 .. N : left[n] = Step(left[n - 1], n)
  BY <1>1, <1>8 DEF F
<1> DEFINE T == {n \in 0 .. N : Pending(left[n], now) /\ Len(left[n]) \in N - n .. N}
<1>10. 0 \in T
  BY <1>1, <1>9 DEF N
<1>11. \A n \in 0 .. N : n < N /\ n \in T => n + 1 \in T
  <2> TAKE n \in 0 .. N
  <2> HAVE n < N /\ n \in T
  <2>1. n + 1 \in 1 .. N /\ n + 1 \in 0 .. N /\ (n + 1) - 1 = n /\ N + 1 - (n + 1) = N - n /\ N - n \in 1 .. N
    BY <1>1
  <2>2. left[n + 1] = Step(left[n], n + 1)
    BY <1>9, <2>1
  <2>3. CASE left[n + 1] = left[n]
    BY <1>1, <2>1, <2>3
  <2>4. CASE left[n + 1] = RemoveCall(left[n], N - n)
    <3>1. Pending(left[n], now) /\ N - n \in 1 .. Len(left[n]) /\ Len(left[n]) \in N - n .. N
      BY <1>1, <2>1
    <3>2. Pending(left[n + 1], now) /\ Len(left[n + 1]) = Len(left[n]) - 1
      BY <2>4, <3>1, RemoveCallKeeps
    <3>3. Len(left[n + 1]) \in N - (n + 1) .. N
      BY <1>1, <3>1, <3>2
    <3> QED
      BY <2>1, <3>2, <3>3
  <2> QED
    BY <2>1, <2>2, <2>3, <2>4 DEF Step
<1> HIDE DEF T
<1>12. \A n \in 0 .. N : n \in T
  BY <1>1, <1>10, <1>11, InductionUpTo
<1>13. Pending(left[N], now) /\ Len(left[N]) \in 0 .. N
  BY <1>1, <1>12 DEF T
<1> QED
  BY <1>2, <1>13 DEF N

\* A call that is the last of its time: it is at i, among those of old.
IsLastOfItsTime(i, new) == \A j \in DOMAIN new : new[j].due = new[i].due => j <= i

LEMMA InsertCallKeeps ==
  ASSUME NEW now \in Int, NEW list, Pending(list, now), NEW delay \in Nat,
         NEW call \in Calls, call.due = now + delay,
         call.onTime => list = <<>> \/ list[1].delta >= 0
  PROVE  LET new == InsertCall(list, call, delay)
         IN  /\ Pending(new, now) /\ Len(new) = Len(list) + 1
             /\ (\A j \in DOMAIN new : new[j].onTime)
                   => \E i \in DOMAIN new : IsInsertedAt(i, list, new) /\ IsLastOfItsTime(i, new)
<1> DEFINE N == Len(list)
           new == InsertCall(list, call, delay)
<1>1. list \in Seq(Calls) /\ Ascending(list) /\ Timely(list, now)
  BY DEF Pending
<1>2. /\ N \in Nat /\ DOMAIN list = 1 .. N
      /\ \A j \in 1 .. N : list[j] \in Calls
  BY <1>1, ListFacts
<1>3. new \in Seq(Calls) /\ Len(new) = N + 1 /\ Ascending(new)
  <2>1. new \in Seq(Calls)
    BY <1>1, InsertCallFacts
  <2>2. Len(new) = Len(list) + 1
    BY <1>1, InsertCallFacts
  <2>3. Ascending(new)
    BY <1>1, InsertCallFacts
  <2> QED
    BY <2>1, <2>2, <2>3
<1>4. PICK i \in 1 .. N + 1 :
         /\ new[i] = Waiting(call, new[i].delta)
         /\ Waits(new)[i] <= delay
         /\ (list = <<>> \/ list[1].delta >= 0) => Waits(new)[i] = delay
         /\ \A j \in 1 .. N :
              LET k == IF j < i THEN j ELSE j + 1
              IN  new[k] = Waiting(list[j], new[k].delta) /\ Waits(new)[k] = Waits(list)[j]
         /\ \A j \in i + 1 .. N + 1 : Waits(new)[j] > Waits(new)[i]
  BY <1>1, InsertCallFacts
<1> HIDE DEF new, N
<1>5. /\ DOMAIN new = 1 .. N + 1
      /\ \A j \in 1 .. N + 1 : new[j] \in Calls /\ new[j].delta \in Int /\ new[j].due \in Int
      /\ \A j \in 1 .. N + 1 : Waits(new)[j] \in Int
  BY <1>2, <1>3, ListFacts, WaitsFacts
<1>6. new[i].due = call.due /\ new[i].onTime = call.onTime
  <2> DEFINE d == new[i].delta
  <2>1. d \in Int /\ new[i] = Waiting(call, d)
    BY <1>4, <1>5
  <2> HIDE DEF d
  <2>2. Waiting(call, d).due = call.due /\ Waiting(call, d).onTime = call.onTime
    BY <2>1, WaitingFacts
  <2> QED
    BY <2>1, <2>2
<1>7. ASSUME NEW j \in 1 .. N
      PROVE  LET k == IF j < i THEN j ELSE j + 1
             IN  /\ new[k].due = list[j].due /\ new[k].onTime = list[j].onTime
                 /\ Waits(new)[k] = Waits(list)[j]
                 /\ WithoutDelta(list[j]) = WithoutDelta(new[k])
  <2> DEFINE k == IF j < i THEN j ELSE j + 1
             d == new[k].delta
  <2>1. k \in 1 .. N + 1 /\ new[k] = Waiting(list[j], d) /\ Waits(new)[k] = Waits(list)[j]
    BY <1>2, <1>4
  <2>2. d \in Int /\ list[j] \in Calls
    BY <1>2, <1>5, <2>1
  <2> HIDE DEF k, d
  <2>3. /\ Waiting(list[j], d).due = list[j].due /\ Waiting(list[j], d).onTime = list[j].onTime
        /\ WithoutDelta(Waiting(list[j], d)) = WithoutDelta(list[j])
    BY <2>2, WaitingFacts
  <2>4. /\ new[k].due = list[j].due /\ new[k].onTime = list[j].onTime
        /\ WithoutDelta(list[j]) = WithoutDelta(new[k])
    BY <2>1, <2>3
  <2> QED
    BY <2>1, <2>4 DEF k
<1>8. ASSUME NEW k \in 1 .. N + 1
      PROVE  /\ now + Waits(new)[k] <= new[k].due
             /\ new[k].onTime => now + Waits(new)[k] = new[k].due
  <2>1. CASE k = i
    <3>1. Waits(new)[i] <= delay /\ Waits(new)[i] \in Int
      BY <1>4, <1>5
    <3> QED
      BY <1>4, <1>6, <2>1, <3>1
  <2>2. CASE k # i
    <3> DEFINE j == IF k < i THEN k ELSE k - 1
    <3>1. j \in 1 .. N /\ k = IF j < i THEN j ELSE j + 1
      BY <1>2, <2>2
    <3> HIDE DEF j
    <3>2. new[k].due = list[j].due /\ new[k].onTime = list[j].onTime /\ Waits(new)[k] = Waits(list)[j]
      BY <1>7, <3>1
    <3> QED
      BY <1>1, <3>1, <3>2 DEF Timely, N
  <2> QED
    BY <2>1, <2>2
<1>9. Pending(new, now)
  BY <1>3, <1>8 DEF Pending, Timely
<1>10. IsInsertedAt(i, list, new)
  BY <1>2, <1>7 DEF IsInsertedAt
<1>11. ASSUME \A j \in DOMAIN new : new[j].onTime
       PROVE  IsLastOfItsTime(i, new)
  <2> SUFFICES ASSUME NEW j \in 1 .. N + 1, new[j].due = new[i].due, ~(j <= i)
               PROVE  FALSE
    BY <1>5 DEF IsLastOfItsTime
  <2>1. j \in i + 1 .. N + 1
    BY <1>2
  <2>2. Waits(new)[j] > Waits(new)[i] /\ Waits(new)[j] \in Int /\ Waits(new)[i] \in Int
    BY <1>4, <1>5, <2>1
  <2>3. now + Waits(new)[j] = new[j].due /\ now + Waits(new)[i] = new[i].due
    BY <1>5, <1>8, <1>11
  <2> QED
    BY <2>2, <2>3
<1> QED
  BY <1>3, <1>5, <1>9, <1>10, <1>11 DEF new, N

\* The same calls in the same order, but for the command givers; dues all
\* later by d.
LEMMA ShiftKeeps ==
  ASSUME NEW now \in Int, NEW list, Pending(list, now), NEW d \in Int,
         NEW new \in Seq(Calls), Len(new) = Len(list),
         \A i \in 1 .. Len(list) : /\ new[i].delta = list[i].delta
                                   /\ new[i].due = list[i].due + d
                                   /\ new[i].onTime = list[i].onTime
  PROVE  Pending(new, now + d)
<1>1. list \in Seq(Calls) /\ Ascending(list) /\ Timely(list, now) /\ Len(list) \in Nat
  BY ListFacts DEF Pending
<1>2. /\ Waits(list)[0] = 0
      /\ \A i \in 1 .. Len(new) : Waits(list)[i] = Waits(list)[i - 1] + new[i].delta
  BY <1>1, WaitsFacts
<1>3. \A i \in 0 .. Len(new) : Waits(new)[i] = Waits(list)[i]
  BY <1>2, WaitsUnique
<1>4. \A i \in 1 .. Len(list) : Waits(list)[i] \in Int /\ list[i].due \in Int
  BY <1>1, WaitsFacts, ListFacts
<1>5. ASSUME NEW i \in 1 .. Len(new)
      PROVE  /\ now + d + Waits(new)[i] <= new[i].due
             /\ new[i].onTime => now + d + Waits(new)[i] = new[i].due
  <2>1. Waits(new)[i] = Waits(list)[i] /\ Waits(list)[i] \in Int /\ list[i].due \in Int
    BY <1>1, <1>3, <1>4
  <2>2. /\ now + Waits(list)[i] <= list[i].due
        /\ list[i].onTime => now + Waits(list)[i] = list[i].due
    BY <1>1 DEF Timely
  <2>3. new[i].due = list[i].due + d /\ new[i].onTime = list[i].onTime
    OBVIOUS
  <2> QED
    BY <2>1, <2>2, <2>3
<1>6. Ascending(new)
  BY <1>1 DEF Ascending
<1> QED
  BY <1>5, <1>6 DEF Pending, Timely

-----------------------------------------------------------------------------
(* The steps and the list.                                                 *)

\* The inductive invariant of the list: call_out() and the alarm agree on the
\* time, and every pending call is on schedule.
OnSchedule ==
  /\ TypeOK
  /\ Pending(callList, currentTime)
  /\ lastTime \in {0, currentTime}

LEMMA ConstantFacts ==
  /\ MaxEvalCost \in Nat \ {0} /\ MaxCallouts \in Nat \ {0} /\ MaxTime \in Nat
  /\ Livings \subseteq Objects /\ Owner \in [Objects -> Users]
  /\ ShadowEnd \in [Objects -> Objects]
  /\ Phases = {"commands", "heartbeats", "running", "reporting", "answer", "failed", "loop"}
  /\ LpcPhases = {"commands", "heartbeats", "running", "reporting", "answer", "failed"}
  /\ BilledPhases = {"running", "answer", "failed"}
BY CallOutAssumption DEF Phases, LpcPhases, BilledPhases

\* An LPC operation keeps the costs in their bounds.
LEMMA EvaluateTypes ==
  ASSUME TypeOK, Evaluate
  PROVE  evalCost' \in -1 .. MaxEvalCost /\ spent' \in [Users -> Nat]
<1>1. CASE phase \in BilledPhases
  <2>1. evalCost' \in -1 .. MaxEvalCost
    BY <1>1, ConstantFacts DEF TypeOK, Evaluate
  <2>2. spent' \in [Users -> Nat]
    BY <1>1 DEF TypeOK, Evaluate
  <2> QED
    BY <2>1, <2>2
<1>2. CASE phase \notin BilledPhases
  BY <1>2 DEF TypeOK, Evaluate
<1> QED
  BY <1>1, <1>2

\* Steps that change the list, and leave the time alone.
LEMMA ListStepKeeps ==
  ASSUME OnSchedule, UNCHANGED timeVars, TypeOK', Pending(callList', currentTime)
  PROVE  OnSchedule'
BY DEF OnSchedule, Pending, Timely, Ascending, timeVars

LEMMA CallOutEfunSchedules ==
  ASSUME OnSchedule, NEW ob \in Objects, NEW delay \in Delays, CallOutEfun(ob, delay)
  PROVE  /\ OnSchedule' /\ Len(callList') = Len(callList) + 1
         /\ (\A j \in DOMAIN callList' : callList'[j].onTime)
               => \E i \in DOMAIN callList' :
                    IsInsertedAt(i, callList, callList') /\ IsLastOfItsTime(i, callList')
<1> DEFINE d == Max2(delay, 0)
           call == NewCall(ob, d, commandGiver)
<1>1. d \in Nat
  BY CallOutAssumption DEF Max2
<1>2. currentTime \in Int /\ commandGiver \in Objects \cup {NoObject} /\ Pending(callList, currentTime)
  BY DEF OnSchedule, TypeOK
<1> HIDE DEF d
<1>3. /\ call \in Calls /\ call.due = currentTime + d
      /\ call.onTime => callList = <<>> \/ callList[1].delta >= 0
  <2> DEFINE b == callList = <<>> \/ callList[1].delta >= 0
  <2>1. b \in BOOLEAN
    OBVIOUS
  <2>2. call = [ob |-> ob, cg |-> commandGiver, delta |-> 0, due |-> currentTime + d, onTime |-> b]
    BY DEF NewCall
  <2> HIDE DEF b, call
  <2>3. call \in Calls /\ call.due = currentTime + d
    BY <1>1, <1>2, <2>1, <2>2 DEF Calls
  <2>4. call.onTime = b
    BY <2>2
  <2> QED
    BY <2>3, <2>4 DEF b
<1>4. callList' = InsertCall(callList, call, d)
  BY DEF CallOutEfun, d
<1> HIDE DEF call
<1>5. /\ Pending(callList', currentTime) /\ Len(callList') = Len(callList) + 1
      /\ (\A j \in DOMAIN callList' : callList'[j].onTime)
            => \E i \in DOMAIN callList' :
                 IsInsertedAt(i, callList, callList') /\ IsLastOfItsTime(i, callList')
  BY <1>1, <1>2, <1>3, <1>4, InsertCallKeeps
<1>6. numCallouts' \in 0 .. MaxCallouts /\ numCallouts' = Len(callList')
  BY <1>5, ConstantFacts DEF CallOutEfun, OnSchedule, TypeOK
<1>7. evalCost' \in -1 .. MaxEvalCost /\ spent' \in [Users -> Nat]
  BY EvaluateTypes DEF CallOutEfun, OnSchedule
<1>8. callList' \in Seq(Calls)
  BY <1>5 DEF Pending
<1>9. TypeOK'
  BY <1>6, <1>7, <1>8 DEF CallOutEfun, OnSchedule, TypeOK, timeVars
<1> QED
  BY <1>5, <1>9, ListStepKeeps DEF CallOutEfun

LEMMA RemoveCallOutEfunSchedules ==
  ASSUME OnSchedule, NEW ob \in Objects, RemoveCallOutEfun(ob)
  PROVE  OnSchedule' /\ Len(callList') = Len(callList) - 1
<1> DEFINE I == {i \in 1 .. Len(callList) : callList[i].ob = ob}
           i == SelectInSeq(callList, LAMBDA call : call.ob = ob)
<1>1. i = IF I # {} THEN Min(I) ELSE 0
  BY DEF SelectInSeq
<1>2. /\ i # 0 /\ callList' = RemoveCall(callList, i) /\ numCallouts' = numCallouts - 1
      /\ Evaluate
      /\ UNCHANGED <<timeVars, lastCallOut, callOutCost, current, asker, destructed, commandGiver, phase>>
  BY DEF RemoveCallOutEfun
<1> HIDE DEF i
<1>3. i \in I
  <2>1. I \subseteq Nat /\ I # {}
    BY <1>1, <1>2
  <2> HIDE DEF I
  <2> QED
    BY <1>1, <2>1, MinFacts
<1>4. i \in 1 .. Len(callList) /\ currentTime \in Int /\ Pending(callList, currentTime)
  BY <1>3 DEF OnSchedule, TypeOK
<1>5. Pending(callList', currentTime) /\ Len(callList') = Len(callList) - 1
  BY <1>2, <1>4, RemoveCallKeeps
<1>6. numCallouts' \in 0 .. MaxCallouts /\ numCallouts' = Len(callList')
  <2>1. /\ Len(callList) \in 1 .. MaxCallouts /\ numCallouts = Len(callList) /\ MaxCallouts \in Nat
    BY <1>4, ConstantFacts DEF OnSchedule, TypeOK
  <2> QED
    BY <1>2, <1>5, <2>1
<1>7. evalCost' \in -1 .. MaxEvalCost /\ spent' \in [Users -> Nat]
  BY <1>2, EvaluateTypes DEF OnSchedule
<1>8. callList' \in Seq(Calls)
  BY <1>5 DEF Pending
<1>9. TypeOK'
  BY <1>2, <1>6, <1>7, <1>8 DEF OnSchedule, TypeOK, timeVars
<1> QED
  BY <1>2, <1>5, <1>9, ListStepKeeps

LEMMA StatusEfunSchedules ==
  ASSUME OnSchedule, StatusEfun
  PROVE  OnSchedule' /\ Len(callList') <= Len(callList)
<1>1. currentTime \in Int /\ Pending(callList, currentTime) /\ callList' = RemoveStale(callList)
  BY DEF OnSchedule, TypeOK, StatusEfun
<1>2. Pending(callList', currentTime) /\ Len(callList') \in 0 .. Len(callList)
  BY <1>1, RemoveStaleKeeps
<1>3. callList' \in Seq(Calls) /\ Len(callList) \in Nat
  BY <1>1, <1>2, ListFacts DEF Pending
<1>4. numCallouts' \in 0 .. MaxCallouts /\ numCallouts' = Len(callList')
  BY <1>2, <1>3, ConstantFacts DEF OnSchedule, TypeOK, StatusEfun
<1>5. evalCost' \in -1 .. MaxEvalCost /\ spent' \in [Users -> Nat]
  BY EvaluateTypes DEF OnSchedule, StatusEfun
<1>6. TypeOK'
  BY <1>3, <1>4, <1>5 DEF OnSchedule, TypeOK, timeVars, StatusEfun
<1> QED
  BY <1>2, <1>3, <1>6, ListStepKeeps DEF StatusEfun

\* garbage_collection() drops stale calls and references to destructed givers.
LEMMA GarbageCollectionSchedules ==
  ASSUME OnSchedule, GarbageCollection
  PROVE  OnSchedule' /\ Len(callList') <= Len(callList)
<1> DEFINE live == RemoveStale(callList)
<1>1. currentTime \in Int /\ Pending(callList, currentTime)
  BY DEF OnSchedule, TypeOK
<1>2. /\ callList' = [i \in DOMAIN live |->
                        [live[i] EXCEPT !.cg = IF @ \in destructed THEN NoObject ELSE @]]
      /\ numCallouts' = numCallouts - (Len(callList) - Len(callList'))
      /\ UNCHANGED <<timeVars, userVars, runVars, destructed, commandGiver, phase>>
  BY DEF GarbageCollection
<1>3. Pending(live, currentTime) /\ Len(live) \in 0 .. Len(callList)
  BY <1>1, RemoveStaleKeeps
<1> HIDE DEF live
<1>4. /\ Len(live) \in Nat /\ DOMAIN live = 1 .. Len(live) /\ Len(callList) \in Nat
      /\ \A i \in 1 .. Len(live) : live[i] \in Calls /\ live[i].due \in Int
  BY <1>1, <1>3, ListFacts DEF Pending
<1>5. ASSUME NEW i \in 1 .. Len(live)
      PROVE  /\ callList'[i] \in Calls /\ callList'[i].delta = live[i].delta
             /\ callList'[i].due = live[i].due + 0 /\ callList'[i].onTime = live[i].onTime
  <2> DEFINE c == live[i]
             g == IF c.cg \in destructed THEN NoObject ELSE c.cg
  <2>1. c \in Calls /\ callList'[i] = [c EXCEPT !.cg = g] /\ c.due \in Int
    BY <1>2, <1>4
  <2>2. g \in Objects \cup {NoObject}
    BY <2>1 DEF Calls
  <2> HIDE DEF c, g
  <2>3. /\ [c EXCEPT !.cg = g] \in Calls /\ [c EXCEPT !.cg = g].delta = c.delta
        /\ [c EXCEPT !.cg = g].due = c.due /\ [c EXCEPT !.cg = g].onTime = c.onTime
    BY <2>1, <2>2 DEF Calls
  <2> QED
    BY <2>1, <2>3 DEF c
<1>6. callList' \in Seq(Calls) /\ Len(callList') = Len(live)
  <2>1. callList' \in [1 .. Len(live) -> Calls]
    BY <1>2, <1>4, <1>5
  <2> QED
    BY <1>4, <2>1, IsASeq
<1>7. Pending(callList', currentTime + 0)
  <2> DEFINE d == 0
             now == currentTime
             new == callList'
  <2>1. /\ now \in Int /\ Pending(live, now) /\ d \in Int
        /\ new \in Seq(Calls) /\ Len(new) = Len(live)
        /\ \A i \in 1 .. Len(live) : /\ new[i].delta = live[i].delta
                                      /\ new[i].due = live[i].due + d
                                      /\ new[i].onTime = live[i].onTime
    BY <1>1, <1>3, <1>5, <1>6
  <2> HIDE DEF d, now, new
  <2>2. Pending(new, now + d)
    BY <2>1, ShiftKeeps
  <2> QED
    BY <2>2 DEF d, now, new
<1>8. Pending(callList', currentTime)
  BY <1>1, <1>7
<1>9. numCallouts' \in 0 .. MaxCallouts /\ numCallouts' = Len(callList')
  BY <1>2, <1>3, <1>4, <1>6, ConstantFacts DEF OnSchedule, TypeOK
<1>10. TypeOK'
  BY <1>2, <1>6, <1>9 DEF OnSchedule, TypeOK, timeVars, userVars, runVars
<1> QED
  BY <1>2, <1>3, <1>4, <1>6, <1>8, <1>10, ListStepKeeps

LEMMA AddToHeadKeeps ==
  ASSUME NEW now \in Int, NEW list, Pending(list, now), NEW d \in Int
  PROVE  Pending(AddToHead(list, -d), now + d) /\ Len(AddToHead(list, -d)) = Len(list)
<1> DEFINE e == -d
           new == AddToHead(list, e)
<1>1. e \in Int /\ list \in Seq(Calls) /\ Ascending(list) /\ Timely(list, now)
  BY DEF Pending
<1> HIDE DEF e
<1>2. /\ Len(list) \in Nat
      /\ \A i \in 1 .. Len(list) : /\ list[i] \in Calls /\ list[i].delta \in Int
                                    /\ list[i].due \in Int /\ Waits(list)[i] \in Int
  BY <1>1, ListFacts, WaitsFacts
<1>3. /\ new \in Seq(Calls) /\ Len(new) = Len(list)
      /\ \A i \in 1 .. Len(list) :
           new[i] = IF i = 1 THEN Waiting(list[1], list[1].delta + e) ELSE list[i]
      /\ \A i \in 1 .. Len(list) : Waits(new)[i] = Waits(list)[i] + e
      /\ Ascending(new)
  BY <1>1, AddToHeadFacts
<1> HIDE DEF new
<1>4. ASSUME NEW i \in 1 .. Len(new)
      PROVE  /\ now + d + Waits(new)[i] <= new[i].due
             /\ new[i].onTime => now + d + Waits(new)[i] = new[i].due
  <2>1. new[i].due = list[i].due /\ new[i].onTime = list[i].onTime
    <3>1. CASE i = 1
      <4> DEFINE w == list[1].delta + e
      <4>1. w \in Int /\ list[1] \in Calls /\ new[1] = Waiting(list[1], w)
        BY <1>1, <1>2, <1>3, <3>1
      <4> HIDE DEF w
      <4>2. Waiting(list[1], w).due = list[1].due /\ Waiting(list[1], w).onTime = list[1].onTime
        BY <4>1, WaitingFacts
      <4> QED
        BY <3>1, <4>1, <4>2
    <3>2. CASE i # 1
      BY <1>3, <3>2
    <3> QED
      BY <3>1, <3>2
  <2>2. /\ Waits(new)[i] = Waits(list)[i] - d /\ Waits(list)[i] \in Int /\ list[i].due \in Int
        /\ now + Waits(list)[i] <= list[i].due
        /\ list[i].onTime => now + Waits(list)[i] = list[i].due
    BY <1>1, <1>2, <1>3 DEF Timely, e
  <2> QED
    BY <2>1, <2>2
<1> QED
  BY <1>3, <1>4 DEF Pending, Timely, new, e

\* The alarm: the first calls stay due when they were, or all move together.
LEMMA NextCallOutCycleSchedules ==
  ASSUME OnSchedule, NEW step \in ClockSteps, NextCallOutCycle(step)
  PROVE  OnSchedule' /\ Len(callList') = Len(callList)
<1>1. /\ step \in Int /\ currentTime \in Int /\ Pending(callList, currentTime)
      /\ callList \in Seq(Calls)
  BY CallOutAssumption DEF OnSchedule, TypeOK
<1>2. /\ currentTime' = currentTime + step /\ lastTime' = currentTime' /\ currentTime' \in 1 .. MaxTime
      /\ callList' = IF lastTime = 0 THEN Rebase(callList, step)
                     ELSE AddToHead(callList, lastTime - currentTime')
      /\ spent' = (IF step = 0 THEN spent ELSE [u \in Users |-> 0]) /\ phase' = "heartbeats"
      /\ UNCHANGED <<numCallouts, lastCallOut, callOutCost, runVars, destructed, commandGiver>>
  BY DEF NextCallOutCycle
<1>3. Pending(callList', currentTime') /\ Len(callList') = Len(callList)
  <2>1. CASE lastTime = 0
    <3>1. callList' = [i \in DOMAIN callList |-> [callList[i] EXCEPT !.due = @ + step]]
      BY <1>2, <2>1 DEF Rebase
    <3>2. /\ Len(callList) \in Nat /\ DOMAIN callList = 1 .. Len(callList)
          /\ \A i \in 1 .. Len(callList) : callList[i] \in Calls
      BY <1>1, ListFacts
    <3>3. ASSUME NEW i \in 1 .. Len(callList)
          PROVE  /\ callList'[i] \in Calls /\ callList'[i].delta = callList[i].delta
                 /\ callList'[i].due = callList[i].due + step
                 /\ callList'[i].onTime = callList[i].onTime
      <4> DEFINE c == callList[i]
      <4>1. c \in Calls /\ callList'[i] = [c EXCEPT !.due = c.due + step]
        BY <3>1, <3>2
      <4> HIDE DEF c
      <4> DEFINE d == c.due + step
      <4>2. d \in Int
        BY <1>1, <4>1 DEF Calls
      <4> HIDE DEF d
      <4>3. /\ [c EXCEPT !.due = d] \in Calls /\ [c EXCEPT !.due = d].delta = c.delta
            /\ [c EXCEPT !.due = d].due = d /\ [c EXCEPT !.due = d].onTime = c.onTime
        BY <4>1, <4>2 DEF Calls
      <4> QED
        BY <4>1, <4>3 DEF c, d
    <3>4. callList' \in Seq(Calls) /\ Len(callList') = Len(callList)
      <4>1. callList' \in [1 .. Len(callList) -> Calls]
        BY <3>1, <3>2, <3>3
      <4> QED
        BY <3>2, <4>1, IsASeq
    <3>5. Pending(callList', currentTime + step)
      BY <1>1, <3>3, <3>4, ShiftKeeps
    <3> QED
      BY <1>2, <3>4, <3>5
  <2>2. CASE lastTime # 0
    <3>1. lastTime = currentTime /\ lastTime - currentTime' = -step
      BY <1>1, <1>2, <2>2 DEF OnSchedule
    <3>2. callList' = AddToHead(callList, -step)
      BY <1>2, <2>2, <3>1
    <3>3. Pending(callList', currentTime + step) /\ Len(callList') = Len(callList)
      BY <1>1, <3>2, AddToHeadKeeps
    <3> QED
      BY <1>2, <3>3
  <2> QED
    BY <2>1, <2>2
<1>4. callList' \in Seq(Calls)
  BY <1>3 DEF Pending
<1>5. spent' \in [Users -> Nat]
  BY <1>2 DEF OnSchedule, TypeOK
<1>6. TypeOK'
  <2>1. lastTime' \in 0 .. MaxTime /\ currentTime' \in 1 .. MaxTime
    BY <1>2, ConstantFacts
  <2>2. numCallouts' \in 0 .. MaxCallouts /\ numCallouts' = Len(callList')
    BY <1>2, <1>3 DEF OnSchedule, TypeOK
  <2>3. phase' \in Phases
    BY <1>2, ConstantFacts
  <2> QED
    BY <1>2, <1>4, <1>5, <2>1, <2>2, <2>3 DEF OnSchedule, TypeOK, runVars
<1> QED
  BY <1>2, <1>3, <1>6 DEF OnSchedule, Pending, Timely, Ascending

\* The first call is taken off the list.
LEMMA SkipOrRunSchedules ==
  ASSUME OnSchedule, SkipCall \/ RunCall
  PROVE  OnSchedule' /\ Len(callList') = Len(callList) - 1
<1>1. /\ currentTime \in Int /\ Pending(callList, currentTime) /\ callList \in Seq(Calls)
      /\ callList # <<>>
  BY DEF OnSchedule, TypeOK, SkipCall, RunCall, FirstIsDue
<1>2. 1 \in 1 .. Len(callList) /\ callList[1] \in Calls /\ Len(callList) \in Nat
      /\ callList[1].ob \in Objects /\ callList[1].cg \in Objects \cup {NoObject}
  BY <1>1, EmptySeq, ListFacts
<1>3. /\ callList' = RemoveCall(callList, 1) /\ numCallouts' = numCallouts - 1
      /\ UNCHANGED <<timeVars, callOutCost, asker, spent, destructed>>
  BY DEF SkipCall, RunCall, userVars, runVars
<1>4. Pending(callList', currentTime) /\ Len(callList') = Len(callList) - 1
  BY <1>1, <1>2, <1>3, RemoveCallKeeps
<1>5. callList' \in Seq(Calls)
  BY <1>4 DEF Pending
<1>6. numCallouts' \in 0 .. MaxCallouts /\ numCallouts' = Len(callList')
  <2>1. Len(callList) \in 1 .. MaxCallouts /\ numCallouts = Len(callList) /\ MaxCallouts \in Nat
    BY <1>2, ConstantFacts DEF OnSchedule, TypeOK
  <2> QED
    BY <1>3, <1>4, <2>1
<1>7. CASE SkipCall
  <2>1. TypeOK'
    BY <1>3, <1>5, <1>6, <1>7 DEF OnSchedule, TypeOK, SkipCall, timeVars, userVars, runVars
  <2> QED
    BY <1>3, <1>4, <2>1, ListStepKeeps
<1>8. CASE RunCall
  <2> DEFINE call == callList[1]
             user == Owner[call.ob]
  <2>1. /\ current' = call /\ commandGiver' = GiverOf(call) /\ phase' = "running"
        /\ lastCallOut' = [lastCallOut EXCEPT ![user] = currentTime]
        /\ evalCost' = IF lastCallOut[user] = currentTime THEN callOutCost[user] ELSE 0
        /\ lastCallOut[user] # currentTime \/ ~(callOutCost[user] < 0)
    BY <1>8 DEF RunCall, Blocked
  <2>2. user \in Users
    BY <1>2, ConstantFacts
  <2>3. commandGiver' \in Objects \cup {NoObject}
    <3>1. EndOfShadows(call.ob) \in Objects
      BY <1>2, ConstantFacts DEF EndOfShadows
    <3> QED
      BY <1>2, <2>1, <3>1 DEF GiverOf, OnSchedule, TypeOK
  <2>4. lastCallOut' \in [Users -> 0 .. MaxTime] /\ evalCost' \in -1 .. MaxEvalCost
    BY <2>1, <2>2, ConstantFacts DEF OnSchedule, TypeOK
  <2>5. TypeOK'
    BY <1>2, <1>3, <1>5, <1>6, <2>1, <2>3, <2>4, ConstantFacts DEF OnSchedule, TypeOK, timeVars
  <2> QED
    BY <1>3, <1>4, <2>5, ListStepKeeps
<1> QED
  BY <1>4, <1>7, <1>8

\* The call of a blocked user goes behind all calls of the next second.
LEMMA PostponeCallSchedules ==
  ASSUME OnSchedule, PostponeCall
  PROVE  /\ OnSchedule' /\ Len(callList') = Len(callList)
         /\ (\A j \in DOMAIN callList' : callList'[j].onTime)
               => \E i \in DOMAIN callList' :
                    IsInsertedAt(i, Tail(callList), callList') /\ IsLastOfItsTime(i, callList')
<1> DEFINE rest == RemoveCall(callList, 1)
           b == rest = <<>> \/ rest[1].delta >= 0
           call == [callList[1] EXCEPT !.due = currentTime + 1, !.onTime = b]
<1>1. /\ currentTime \in Int /\ Pending(callList, currentTime) /\ callList \in Seq(Calls)
      /\ callList # <<>>
  BY DEF OnSchedule, TypeOK, PostponeCall, FirstIsDue
<1>2. /\ 1 \in 1 .. Len(callList) /\ Len(callList) \in Nat
      /\ \A j \in 1 .. Len(callList) : callList[j] \in Calls
  BY <1>1, EmptySeq, ListFacts
<1>3. /\ callList' = InsertCall(rest, call, 1)
      /\ UNCHANGED <<numCallouts, timeVars, userVars, runVars, destructed, commandGiver, phase>>
  BY DEF PostponeCall
<1>4. Pending(rest, currentTime) /\ Len(rest) = Len(callList) - 1
  BY <1>1, <1>2, RemoveCallKeeps
<1>5. b \in BOOLEAN
  OBVIOUS
<1> HIDE DEF b
<1>6. call \in Calls /\ call.due = currentTime + 1 /\ call.onTime = b
  <2> DEFINE c == callList[1]
             t == currentTime + 1
  <2>1. c \in Calls /\ t \in Int /\ b \in BOOLEAN
    BY <1>1, <1>2, <1>5
  <2> HIDE DEF c, t
  <2> DEFINE m == [c EXCEPT !.due = t, !.onTime = b]
  <2>2. m \in Calls /\ m.due = t
    BY <2>1 DEF Calls
  <2>3. m.onTime = b
    BY <2>1 DEF Calls
  <2>4. call = m
    BY DEF c, t
  <2> QED
    BY <2>2, <2>3, <2>4 DEF t
<1>7. call.onTime => rest = <<>> \/ rest[1].delta >= 0
  BY <1>6 DEF b
<1>8. \A j \in 1 .. Len(callList) - 1 : WithoutDelta(rest[j]) = WithoutDelta(callList[j + 1])
  <2> TAKE j \in 1 .. Len(callList) - 1
  <2> DEFINE d == rest[j].delta
  <2>1. rest[j] = Waiting(callList[j + 1], d)
    <3>1. ~(j < 1) /\ 1 \in 1 .. Len(callList)
      BY <1>2
    <3>2. rest[j] = Waiting(callList[IF j < 1 THEN j ELSE j + 1], rest[j].delta)
      BY <1>1, <3>1, RemoveCallFacts
    <3> QED
      BY <3>1, <3>2
  <2>2. d \in Int
    <3>1. rest \in Seq(Calls) /\ j \in 1 .. Len(rest)
      BY <1>2, <1>4 DEF Pending
    <3> HIDE DEF rest
    <3> QED
      BY <3>1, ListFacts
  <2>3. callList[j + 1] \in Calls
    BY <1>2
  <2> HIDE DEF d
  <2> QED
    BY <2>1, <2>2, <2>3, WaitingFacts
<1> HIDE DEF rest, call
<1>9. /\ Pending(callList', currentTime) /\ Len(callList') = Len(rest) + 1
      /\ (\A j \in DOMAIN callList' : callList'[j].onTime)
            => \E i \in DOMAIN callList' :
                 IsInsertedAt(i, rest, callList') /\ IsLastOfItsTime(i, callList')
  <2>1. ASSUME NEW delay \in Nat, delay = 1
        PROVE  /\ Pending(callList', currentTime) /\ Len(callList') = Len(rest) + 1
               /\ (\A j \in DOMAIN callList' : callList'[j].onTime)
                     => \E i \in DOMAIN callList' :
                          IsInsertedAt(i, rest, callList') /\ IsLastOfItsTime(i, callList')
    <3>1. call.due = currentTime + delay /\ callList' = InsertCall(rest, call, delay)
      BY <1>3, <1>6, <2>1
    <3> QED
      BY <1>1, <1>4, <1>6, <1>7, <3>1, InsertCallKeeps
  <2> QED
    BY <2>1
<1>10. Len(callList') = Len(callList)
  BY <1>2, <1>4, <1>9
<1>11. callList' \in Seq(Calls)
  BY <1>9 DEF Pending
<1>12. TypeOK'
  BY <1>3, <1>10, <1>11 DEF OnSchedule, TypeOK, timeVars, userVars, runVars
<1>13. ASSUME NEW i \in DOMAIN callList', IsInsertedAt(i, rest, callList')
       PROVE  IsInsertedAt(i, Tail(callList), callList')
  <2>1. /\ DOMAIN Tail(callList) = 1 .. Len(callList) - 1
        /\ \A j \in 1 .. Len(callList) - 1 : Tail(callList)[j] = callList[j + 1]
    BY <1>1, <1>2, HeadTailProperties, LenProperties
  <2>2. DOMAIN rest = 1 .. Len(callList) - 1
    BY <1>4, ListFacts DEF Pending
  <2> QED
    BY <1>8, <1>13, <2>1, <2>2 DEF IsInsertedAt
<1> QED
  BY <1>3, <1>9, <1>10, <1>12, <1>13, ListStepKeeps

\* What FirstInFirstOut says of a step, and NothingDueLeft.
KeepsOrder ==
  LET postponed == phase = "loop" /\ phase' = "loop"
      old == IF postponed THEN Tail(callList) ELSE callList
  IN  /\ Len(callList') = Len(old) + 1
      /\ \A j \in DOMAIN callList' : callList'[j].onTime
      => \E i \in DOMAIN callList' :
           /\ IsInsertedAt(i, old, callList')
           /\ \A j \in DOMAIN callList' : callList'[j].due = callList'[i].due => j <= i

LeavesNothingDue ==
  phase = "loop" /\ phase' = "commands" =>
    \A i \in DOMAIN callList' : callList'[i].due > currentTime

\* A step that inserts nothing keeps the order.
LEMMA ShorterKeepsOrder ==
  ASSUME OnSchedule, Len(callList') \in Int, Len(callList') <= Len(callList),
         phase = "loop" /\ phase' = "loop" => Len(callList') # Len(callList)
  PROVE  KeepsOrder
<1>1. callList \in Seq(Calls) /\ Len(callList) \in Nat
  BY LenProperties DEF OnSchedule, TypeOK
<1>2. CASE phase = "loop" /\ phase' = "loop"
  <2>1. CASE callList = <<>>
    BY <1>2, <2>1
  <2>2. CASE callList # <<>>
    <3>1. Len(Tail(callList)) = Len(callList) - 1
      BY <1>1, <2>2, HeadTailProperties
    <3> QED
      BY <1>1, <1>2, <3>1 DEF KeepsOrder
  <2> QED
    BY <2>1, <2>2
<1>3. CASE ~(phase = "loop" /\ phase' = "loop")
  BY <1>1, <1>3 DEF KeepsOrder
<1> QED
  BY <1>2, <1>3

LEMMA EfunSchedules ==
  ASSUME OnSchedule, Efun
  PROVE  OnSchedule' /\ KeepsOrder /\ LeavesNothingDue
<1>1. Len(callList) \in Nat
  BY LenProperties DEF OnSchedule, TypeOK
<1>2. phase # "loop"
  BY ConstantFacts DEF Efun, CallOutEfun, RemoveCallOutEfun, DestructEfun, StatusEfun, Compute
<1>3. CASE \E ob \in Objects, delay \in Delays : CallOutEfun(ob, delay)
  <2>1. PICK ob \in Objects, delay \in Delays : CallOutEfun(ob, delay)
    BY <1>3
  <2>2. /\ OnSchedule'
        /\ (\A j \in DOMAIN callList' : callList'[j].onTime)
              => \E i \in DOMAIN callList' :
                   IsInsertedAt(i, callList, callList') /\ IsLastOfItsTime(i, callList')
    BY <2>1, CallOutEfunSchedules
  <2> QED
    BY <1>2, <2>2 DEF KeepsOrder, LeavesNothingDue, IsLastOfItsTime
<1>4. CASE \E ob \in Objects : RemoveCallOutEfun(ob)
  <2>1. OnSchedule' /\ Len(callList') = Len(callList) - 1
    BY <1>4, RemoveCallOutEfunSchedules
  <2>2. KeepsOrder
    BY <1>1, <1>2, <2>1, ShorterKeepsOrder
  <2> QED
    BY <1>2, <2>1, <2>2 DEF LeavesNothingDue
<1>5. CASE StatusEfun
  <2>1. OnSchedule' /\ Len(callList') <= Len(callList)
    BY <1>5, StatusEfunSchedules
  <2>2. Len(callList') \in Nat
    BY <2>1, LenProperties DEF OnSchedule, TypeOK
  <2>3. KeepsOrder
    BY <1>1, <1>2, <2>1, <2>2, ShorterKeepsOrder
  <2> QED
    BY <1>2, <2>1, <2>3 DEF LeavesNothingDue
<1>6. CASE Compute \/ \E ob \in Objects \ LwObjects : DestructEfun(ob)
  <2>1. evalCost' \in -1 .. MaxEvalCost /\ spent' \in [Users -> Nat]
    BY <1>6, EvaluateTypes DEF Compute, DestructEfun, OnSchedule
  <2>2. /\ UNCHANGED <<listVars, timeVars, lastCallOut, callOutCost, current, asker, phase>>
        /\ destructed' \subseteq Objects \ LwObjects /\ commandGiver' \in Objects \cup {NoObject}
    BY <1>6 DEF Compute, DestructEfun, OnSchedule, TypeOK
  <2>3. TypeOK'
    BY <2>1, <2>2 DEF OnSchedule, TypeOK, listVars, timeVars
  <2>4. Pending(callList', currentTime)
    BY <2>2 DEF OnSchedule, listVars, Pending, Timely, Ascending
  <2>5. OnSchedule'
    BY <2>2, <2>3, <2>4, ListStepKeeps
  <2>6. Len(callList') = Len(callList)
    BY <2>2 DEF listVars
  <2>7. KeepsOrder
    BY <1>1, <1>2, <2>6, ShorterKeepsOrder
  <2> QED
    BY <1>2, <2>5, <2>7 DEF LeavesNothingDue
<1> QED
  BY <1>3, <1>4, <1>5, <1>6 DEF Efun

\* The answers of the ERQ demon keep the types.
LEMMA AnswerStepTypes ==
  ASSUME TypeOK, AnswerStep
  PROVE  TypeOK'
<1>1. CASE \E ob \in Objects : StartAnswer(ob)
  <2>1. PICK ob \in Objects : StartAnswer(ob)
    BY <1>1
  <2>2. Owner[ob] \in Users
    BY ConstantFacts
  <2>3. lastCallOut' \in [Users -> 0 .. MaxTime] /\ evalCost' \in -1 .. MaxEvalCost
    BY <2>1, <2>2, ConstantFacts DEF StartAnswer, TypeOK, timeVars
  <2>4. /\ asker' \in Objects /\ commandGiver' = NoObject /\ phase' = "answer"
        /\ UNCHANGED <<listVars, timeVars, callOutCost, spent, current, destructed>>
    BY <2>1 DEF StartAnswer
  <2> QED
    BY <2>3, <2>4, ConstantFacts DEF TypeOK, listVars, timeVars
<1>2. CASE AnswerFails
  <2>1. spent' \in [Users -> Nat]
    BY <1>2 DEF AnswerFails, TypeOK
  <2> QED
    BY <1>2, <2>1, ConstantFacts DEF AnswerFails, TypeOK, listVars, timeVars
<1>3. CASE AnswerReturns
  <2>1. callOutCost' \in [Users -> -1 .. MaxEvalCost]
    BY <1>3 DEF AnswerReturns, TypeOK
  <2> QED
    BY <1>3, <2>1, ConstantFacts DEF AnswerReturns, TypeOK, listVars, timeVars
<1> QED
  BY <1>1, <1>2, <1>3 DEF AnswerStep

\* Steps that leave the list and the time alone.
LEMMA OtherStepsSchedule ==
  ASSUME OnSchedule,
         \/ \E giver \in (Livings \ destructed) \cup {NoObject} : StartEvaluation(giver)
         \/ AnswerStep
         \/ StartCallOut
         \/ ReturnFromCall
         \/ CallFails
         \/ RunError
         \/ EndLoop
  PROVE  OnSchedule' /\ KeepsOrder /\ LeavesNothingDue
<1>1. callList \in Seq(Calls) /\ Len(callList) \in Nat /\ Pending(callList, currentTime)
      /\ currentTime \in Int
  BY LenProperties DEF OnSchedule, TypeOK
<1>2. /\ UNCHANGED <<listVars, timeVars, destructed>>
      /\ phase = "loop" => phase' = "commands" /\ EndLoop
  BY DEF StartEvaluation, AnswerStep, StartAnswer, AnswerFails, AnswerReturns,
         StartCallOut, ReturnFromCall, CallFails, RunError, EndLoop
<1>3. TypeOK'
  <2>1. CASE \E giver \in (Livings \ destructed) \cup {NoObject} : StartEvaluation(giver)
    BY <1>2, <2>1, ConstantFacts DEF StartEvaluation, OnSchedule, TypeOK, listVars, timeVars, userVars, runVars
  <2>2. CASE StartCallOut \/ EndLoop
    BY <1>2, <2>2, ConstantFacts DEF StartCallOut, EndLoop, OnSchedule, TypeOK, listVars, timeVars, userVars, runVars
  <2>3. CASE ReturnFromCall \/ RunError
    <3>1. PICK c \in -1 .. MaxEvalCost :
            callOutCost' = [callOutCost EXCEPT ![Owner[current.ob]] = c]
      BY <2>3, ConstantFacts DEF ReturnFromCall, RunError, OnSchedule, TypeOK
    <3>2. callOutCost' \in [Users -> -1 .. MaxEvalCost]
      BY <3>1 DEF OnSchedule, TypeOK
    <3>3. /\ current' = NoCall /\ evalCost' = 0 /\ phase' = "loop"
          /\ commandGiver' \in {commandGiver, NoObject}
          /\ UNCHANGED <<lastCallOut, asker, spent>>
      BY <2>3 DEF ReturnFromCall, RunError
    <3>4. /\ evalCost' \in -1 .. MaxEvalCost /\ phase' \in Phases
          /\ current' \in Calls \cup {NoCall}
      BY <3>3, ConstantFacts
    <3>5. commandGiver' \in Objects \cup {NoObject}
      BY <3>3 DEF OnSchedule, TypeOK
    <3> QED
      BY <1>2, <3>2, <3>3, <3>4, <3>5 DEF OnSchedule, TypeOK, listVars, timeVars
  <2>4. CASE CallFails
    BY <1>2, <2>4, ConstantFacts DEF CallFails, OnSchedule, TypeOK, listVars, timeVars, userVars
  <2>5. CASE AnswerStep
    BY <2>5, AnswerStepTypes DEF OnSchedule
  <2> QED
    BY <2>1, <2>2, <2>3, <2>4, <2>5
<1>4. OnSchedule'
  BY <1>1, <1>2, <1>3, ListStepKeeps DEF listVars, Pending, Timely, Ascending
<1>5. KeepsOrder
  BY <1>1, <1>2, ShorterKeepsOrder DEF listVars
<1>6. ASSUME EndLoop, phase = "loop", NEW i \in 1 .. Len(callList)
      PROVE  callList[i].due > currentTime
  <2>1. /\ 1 \in 1 .. Len(callList) /\ i \in 1 .. Len(callList) /\ i \in 0 .. Len(callList)
        /\ 1 \in 0 .. Len(callList) /\ 1 - 1 = 0 /\ i \in 1 .. Len(callList) /\ callList # <<>>
    BY <1>1
  <2>2. /\ Waits(callList)[1] = Waits(callList)[0] + callList[1].delta /\ Waits(callList)[0] = 0
        /\ Waits(callList)[1] \in Int /\ Waits(callList)[i] \in Int
    BY <1>1, <2>1, WaitsFacts
  <2>3. /\ callList[1].delta \in Int /\ callList[i].due \in Int
    BY <1>1, <2>1, ListFacts
  <2>4. callList[1].delta > 0
    BY <1>6, <2>1, <2>3 DEF EndLoop, FirstIsDue
  <2>5. Waits(callList)[1] <= Waits(callList)[i]
    <3>1. Ascending(callList) /\ i \in 1 .. Len(callList)
      BY <1>1 DEF Pending
    <3> QED
      BY <1>1, <2>1, <3>1, WaitsAscend
  <2>6. currentTime + Waits(callList)[i] <= callList[i].due
    BY <1>1 DEF Pending, Timely
  <2> QED
    BY <1>1, <2>2, <2>3, <2>4, <2>5, <2>6
<1>7. LeavesNothingDue
  <2>1. DOMAIN callList = 1 .. Len(callList) /\ callList' = callList
    BY <1>1, <1>2, LenProperties DEF listVars
  <2> QED
    BY <1>2, <1>6, <2>1 DEF LeavesNothingDue
<1> QED
  BY <1>4, <1>5, <1>7

LEMMA NextSchedules ==
  ASSUME OnSchedule, Next
  PROVE  OnSchedule' /\ KeepsOrder /\ LeavesNothingDue
<1>1. Len(callList) \in Nat
  BY LenProperties DEF OnSchedule, TypeOK
<1>2. OnSchedule' => Len(callList') \in Nat
  BY LenProperties DEF OnSchedule, TypeOK
<1>3. CASE Efun
  BY <1>3, EfunSchedules
<1>4. CASE \E step \in ClockSteps : NextCallOutCycle(step)
  <2>1. OnSchedule' /\ Len(callList') = Len(callList)
    BY <1>4, NextCallOutCycleSchedules
  <2>2. phase = "commands"
    BY <1>4 DEF NextCallOutCycle
  <2> QED
    BY <1>1, <2>1, <2>2, ShorterKeepsOrder DEF LeavesNothingDue
<1>5. CASE SkipCall \/ RunCall
  <2>1. OnSchedule' /\ Len(callList') = Len(callList) - 1
    BY <1>5, SkipOrRunSchedules
  <2>2. phase' # "commands"
    BY <1>5 DEF SkipCall, RunCall, FirstIsDue
  <2> QED
    BY <1>1, <2>1, <2>2, ShorterKeepsOrder DEF LeavesNothingDue
<1>6. CASE PostponeCall
  <2>1. /\ OnSchedule'
        /\ (\A j \in DOMAIN callList' : callList'[j].onTime)
              => \E i \in DOMAIN callList' :
                   IsInsertedAt(i, Tail(callList), callList') /\ IsLastOfItsTime(i, callList')
    BY <1>6, PostponeCallSchedules
  <2>2. phase = "loop" /\ phase' = "loop"
    BY <1>6 DEF PostponeCall, FirstIsDue
  <2> QED
    BY <2>1, <2>2 DEF KeepsOrder, LeavesNothingDue, IsLastOfItsTime
<1>7. CASE GarbageCollection
  <2>1. OnSchedule' /\ Len(callList') <= Len(callList)
    BY <1>7, GarbageCollectionSchedules
  <2>2. phase = "commands"
    BY <1>7 DEF GarbageCollection
  <2> QED
    BY <1>1, <1>2, <2>1, <2>2, ShorterKeepsOrder DEF LeavesNothingDue
<1>8. CASE \/ \E giver \in (Livings \ destructed) \cup {NoObject} : StartEvaluation(giver)
           \/ AnswerStep
           \/ StartCallOut
           \/ ReturnFromCall
           \/ CallFails
           \/ RunError
           \/ EndLoop
  BY <1>8, OtherStepsSchedule
<1> QED
  BY <1>3, <1>4, <1>5, <1>6, <1>7, <1>8 DEF Next, CallOutStep

LEMMA InitSchedules == Init => OnSchedule
<1> HAVE Init
<1>1. callList = <<>> /\ callList \in Seq(Calls) /\ Len(callList) = 0
  BY DEF Init
<1>2. Pending(callList, currentTime)
  BY <1>1 DEF Pending, Ascending, Timely
<1>3. TypeOK
  BY <1>1, CallOutAssumption, ConstantFacts DEF Init, TypeOK
<1> QED
  BY <1>2, <1>3 DEF Init, OnSchedule

LEMMA StutterSchedules == OnSchedule /\ UNCHANGED vars => OnSchedule'
BY DEF OnSchedule, TypeOK, Pending, Timely, Ascending, vars, listVars, timeVars, userVars, runVars

-----------------------------------------------------------------------------
(* The costs.                                                              *)

\* The user whose call_out or ERQ callback runs.
Runs(u) == phase \in BilledPhases /\ Owner[Runner] = u

\* The user whose call_out failed, until he is blocked for it.
Fails(u) == phase = "reporting" /\ Owner[current.ob] = u

CostsOK ==
  /\ currentTime \in Int
  /\ lastCallOut \in [Users -> Int]
  /\ callOutCost \in [Users -> -1 .. MaxEvalCost]
  /\ \A u \in Users : Runs(u) => evalCost \in -1 .. MaxEvalCost
  /\ spent \in [Users -> Nat]
  /\ phase \in Phases

\* What a user spent in this second is nothing if no call_out or callback of
\* his ran in it, else not more than what is counted: in eval_cost while one of
\* them runs, in call_out_cost between them, unless he is blocked
\* or about to be.
SpentIsCounted ==
  \A u \in Users :
    /\ lastCallOut[u] # currentTime => spent[u] = 0 /\ ~Runs(u)
    /\ Runs(u) /\ evalCost >= 0 => spent[u] <= evalCost
    /\ ~Runs(u) /\ ~Fails(u) /\ callOutCost[u] >= 0 => spent[u] = 0 \/ spent[u] <= callOutCost[u]

IInv == CostsOK /\ SpentIsCounted /\ EvalBudget

-----------------------------------------------------------------------------
(* The steps and the costs.                                                *)

\* The phases in which a call_out or a callback is at work.
Busy == BilledPhases \cup {"reporting"}

\* Steps that leave the costs alone and do not begin or end a call.
LEMMA SameCosts ==
  ASSUME IInv, UNCHANGED <<currentTime, userVars, runVars>>, phase' \in Phases,
         phase' = phase \/ (phase \notin Busy /\ phase' \notin Busy)
  PROVE  IInv'
BY DEF IInv, CostsOK, SpentIsCounted, EvalBudget, Runs, Fails, Runner, Busy, userVars, runVars

\* An LPC operation is counted for the user whose call runs.
LEMMA EvaluateKeeps ==
  ASSUME IInv, Evaluate, UNCHANGED <<currentTime, lastCallOut, callOutCost, current, asker, phase>>
  PROVE  IInv'
<1>1. CASE phase \notin BilledPhases
  <2>1. UNCHANGED <<evalCost, spent>>
    BY <1>1 DEF Evaluate
  <2> QED
    BY <2>1, SameCosts DEF userVars, runVars, IInv, CostsOK
<1>2. CASE phase \in BilledPhases
  <2>1. /\ evalCost \in 0 .. MaxEvalCost - 1 /\ evalCost' = evalCost + 1
        /\ spent' = [spent EXCEPT ![Owner[Runner]] = @ + 1]
    BY <1>2 DEF Evaluate
  <2>2. \A u \in Users : (Runs(u)' <=> Runs(u)) /\ (Fails(u)' <=> Fails(u))
    BY DEF Runs, Fails, Runner
  <2>3. spent' = [u \in Users |-> IF Runs(u) THEN spent[u] + 1 ELSE spent[u]]
    BY <1>2, <2>1 DEF IInv, CostsOK, Runs
  <2>4. CostsOK'
    <3>1. spent' \in [Users -> Nat]
      BY <2>3 DEF IInv, CostsOK
    <3>2. evalCost' \in -1 .. MaxEvalCost
      BY <2>1, ConstantFacts
    <3> QED
      BY <3>1, <3>2 DEF IInv, CostsOK
  <2>5. SpentIsCounted'
    BY <2>1, <2>2, <2>3, ConstantFacts DEF IInv, CostsOK, SpentIsCounted
  <2>6. EvalBudget'
    BY <2>1, <2>3, ConstantFacts DEF IInv, CostsOK, SpentIsCounted, EvalBudget
  <2> QED
    BY <2>4, <2>5, <2>6 DEF IInv
<1> QED
  BY <1>1, <1>2

LEMMA EfunKeeps ==
  ASSUME IInv, Efun
  PROVE  IInv'
BY EvaluateKeeps DEF Efun, CallOutEfun, RemoveCallOutEfun, DestructEfun, StatusEfun, Compute,
                     timeVars

\* Time goes on: what was spent is forgotten in the next second.
LEMMA NextCallOutCycleKeeps ==
  ASSUME IInv, NEW step \in ClockSteps, NextCallOutCycle(step)
  PROVE  IInv'
<1>1. /\ phase = "commands" /\ phase' = "heartbeats"
      /\ currentTime' = currentTime + step /\ step \in Int
      /\ spent' = IF step = 0 THEN spent ELSE [u \in Users |-> 0]
      /\ UNCHANGED <<lastCallOut, callOutCost, current, evalCost>>
  BY CallOutAssumption DEF NextCallOutCycle, runVars
<1>2. \A u \in Users : ~Runs(u) /\ ~Runs(u)' /\ ~Fails(u) /\ ~Fails(u)'
  BY <1>1, ConstantFacts DEF Runs, Fails
<1>3. CostsOK'
  <2>1. \A u \in Users : ~Runs(u)'
    BY <1>2
  <2>2. spent' \in [Users -> Nat] /\ currentTime' \in Int
    BY <1>1 DEF IInv, CostsOK
  <2> QED
    BY <1>1, <2>1, <2>2, ConstantFacts DEF IInv, CostsOK
<1>4. CASE step = 0
  <2>1. currentTime' = currentTime /\ spent' = spent
    BY <1>1, <1>4 DEF IInv, CostsOK
  <2> QED
    BY <1>2, <1>1, <1>3, <2>1 DEF IInv, SpentIsCounted, EvalBudget
<1>5. CASE step # 0
  <2>1. \A u \in Users : spent'[u] = 0 /\ ~Runs(u)'
    BY <1>2, <1>1, <1>5
  <2> QED
    BY <1>3, <2>1, ConstantFacts DEF IInv, SpentIsCounted, EvalBudget
<1> QED
  BY <1>4, <1>5

\* A call_out or a callback starts with what is counted for its user in this
\* second; only a callback starts for a user who is blocked.
LEMMA StartKeeps ==
  ASSUME IInv, NEW user,
         phase' \in BilledPhases, Owner[Runner'] = user,
         \A u \in Users : ~Runs(u) /\ ~Fails(u),
         lastCallOut' = [lastCallOut EXCEPT ![user] = currentTime],
         evalCost' = IF lastCallOut[user] = currentTime THEN callOutCost[user] ELSE 0,
         UNCHANGED <<currentTime, callOutCost, spent>>
  PROVE  IInv'
<1>1. \A u \in Users : Runs(u)' <=> u = user
  BY DEF Runs
<1>6. \A u \in Users : ~Fails(u)'
  BY ConstantFacts DEF Fails
<1>2. /\ lastCallOut' \in [Users -> Int]
      /\ \A u \in Users : lastCallOut'[u] = IF u = user THEN currentTime ELSE lastCallOut[u]
  BY DEF IInv, CostsOK
<1>3. ASSUME user \in Users
      PROVE  evalCost' \in -1 .. MaxEvalCost /\ (evalCost' >= 0 => spent[user] <= evalCost')
  BY <1>3, ConstantFacts DEF IInv, CostsOK, SpentIsCounted
<1>4. CostsOK'
  BY <1>1, <1>2, <1>3, ConstantFacts DEF IInv, CostsOK
<1>5. SpentIsCounted'
  BY <1>1, <1>2, <1>3, <1>6 DEF IInv, CostsOK, SpentIsCounted
<1> QED
  BY <1>4, <1>5 DEF IInv, EvalBudget

LEMMA RunCallKeeps ==
  ASSUME IInv, RunCall
  PROVE  IInv'
<1> DEFINE user == Owner[callList[1].ob]
<1>1. /\ phase = "loop" /\ phase' = "running" /\ current' = callList[1]
      /\ lastCallOut' = [lastCallOut EXCEPT ![user] = currentTime]
      /\ evalCost' = IF lastCallOut[user] = currentTime THEN callOutCost[user] ELSE 0
      /\ UNCHANGED <<currentTime, callOutCost, spent>>
  BY DEF RunCall, FirstIsDue, timeVars
<1>2. /\ phase' \in BilledPhases /\ Owner[Runner'] = user
      /\ \A u \in Users : ~Runs(u) /\ ~Fails(u)
  BY <1>1, ConstantFacts DEF Runs, Fails, Runner
<1> HIDE DEF user
<1> QED
  BY <1>1, <1>2, StartKeeps

LEMMA StartAnswerKeeps ==
  ASSUME IInv, NEW ob \in Objects, StartAnswer(ob)
  PROVE  IInv'
<1> DEFINE user == Owner[ob]
<1>1. /\ phase = "commands" /\ phase' = "answer" /\ asker' = ob
      /\ lastCallOut' = [lastCallOut EXCEPT ![user] = currentTime]
      /\ evalCost' = IF lastCallOut[user] = currentTime THEN callOutCost[user] ELSE 0
      /\ UNCHANGED <<currentTime, callOutCost, spent>>
  BY DEF StartAnswer, timeVars
<1>2. /\ phase' \in BilledPhases /\ Owner[Runner'] = user
      /\ \A u \in Users : ~Runs(u) /\ ~Fails(u)
  BY <1>1, ConstantFacts DEF Runs, Fails, Runner
<1> HIDE DEF user
<1> QED
  BY <1>1, <1>2, StartKeeps

\* A failed callback forgets what its user spent, in eval_cost as well.
LEMMA AnswerFailsKeeps ==
  ASSUME IInv, AnswerFails
  PROVE  IInv'
<1>1. /\ phase = "answer" /\ phase' = "failed" /\ evalCost' = 0
      /\ spent' = [spent EXCEPT ![Owner[asker]] = 0]
      /\ UNCHANGED <<currentTime, lastCallOut, callOutCost, asker>>
  BY DEF AnswerFails, timeVars
<1>2. \A u \in Users : /\ (Runs(u)' <=> Runs(u)) /\ (Runs(u) <=> u = Owner[asker])
                         /\ ~Fails(u) /\ ~Fails(u)'
  BY <1>1, ConstantFacts DEF Runs, Fails, Runner
<1>3. spent' = [u \in Users |-> IF Runs(u) THEN 0 ELSE spent[u]]
  BY <1>1, <1>2 DEF IInv, CostsOK
<1>4. CostsOK'
  <2>1. spent' \in [Users -> Nat]
    BY <1>3 DEF IInv, CostsOK
  <2>2. evalCost' \in -1 .. MaxEvalCost /\ phase' \in Phases
    BY <1>1, ConstantFacts
  <2> QED
    BY <1>1, <2>1, <2>2 DEF IInv, CostsOK
<1>5. SpentIsCounted'
  BY <1>1, <1>2, <1>3 DEF IInv, CostsOK, SpentIsCounted
<1>6. EvalBudget'
  BY <1>3, ConstantFacts DEF IInv, EvalBudget
<1> QED
  BY <1>4, <1>5, <1>6 DEF IInv

\* A call_out fails: nothing runs at its user's expense any more.
LEMMA CallFailsKeeps ==
  ASSUME IInv, CallFails
  PROVE  IInv'
<1>1. /\ phase = "running" /\ phase' = "reporting"
      /\ UNCHANGED <<currentTime, lastCallOut, callOutCost, spent, current>>
  BY DEF CallFails, timeVars, userVars
<1>2. \A u \in Users : ~Runs(u)' /\ ~Fails(u) /\ (Fails(u)' <=> Runs(u))
  BY <1>1, ConstantFacts DEF Runs, Fails, Runner
<1>3. CostsOK'
  BY <1>1, <1>2, ConstantFacts DEF IInv, CostsOK
<1>4. SpentIsCounted'
  BY <1>1, <1>2 DEF IInv, SpentIsCounted
<1> QED
  BY <1>1, <1>3, <1>4 DEF IInv, EvalBudget

\* A call_out or a callback returns and its cost is noted, or the user of a
\* call_out that failed is blocked.
LEMMA CallEndsKeeps ==
  ASSUME IInv, ReturnFromCall \/ RunError \/ AnswerReturns
  PROVE  IInv'
<1> DEFINE ob == IF phase \in {"running", "reporting"} THEN current.ob ELSE asker
           user == Owner[ob]
<1>1. /\ phase \in Busy /\ phase' \in {"loop", "commands"}
      /\ UNCHANGED <<currentTime, lastCallOut, spent>>
  BY ConstantFacts DEF ReturnFromCall, RunError, AnswerReturns, Busy, timeVars
<1>2. PICK c \in {evalCost, -1} :
        /\ callOutCost' = [callOutCost EXCEPT ![user] = c]
        /\ phase = "reporting" => c = -1
  BY DEF ReturnFromCall, RunError, AnswerReturns
<1>3. \A u \in Users : /\ ~Runs(u)' /\ ~Fails(u)'
                         /\ (Runs(u) \/ Fails(u) <=> u = user)
                         /\ (Fails(u) => c = -1)
  BY <1>1, <1>2, ConstantFacts DEF Runs, Fails, Runner, Busy
<1> HIDE DEF user
<1>4. callOutCost' = [u \in Users |-> IF u = user THEN c ELSE callOutCost[u]]
  BY <1>2 DEF IInv, CostsOK
<1>5. \A u \in Users : u = user => c \in -1 .. MaxEvalCost
  BY <1>3, ConstantFacts DEF IInv, CostsOK
<1>6. CostsOK'
  BY <1>1, <1>3, <1>4, <1>5, ConstantFacts DEF IInv, CostsOK
<1>7. SpentIsCounted'
  BY <1>1, <1>3, <1>4, <1>5 DEF IInv, CostsOK, SpentIsCounted
<1> QED
  BY <1>1, <1>6, <1>7 DEF IInv, EvalBudget

LEMMA NextKeeps ==
  ASSUME IInv, [Next]_vars
  PROVE  IInv'
<1>1. CASE Efun
  BY <1>1, EfunKeeps
<1>2. CASE \E giver \in (Livings \ destructed) \cup {NoObject} : StartEvaluation(giver)
  BY <1>2, SameCosts DEF StartEvaluation, timeVars, IInv, CostsOK
<1>3. CASE \E step \in ClockSteps : NextCallOutCycle(step)
  BY <1>3, NextCallOutCycleKeeps
<1>4. CASE StartCallOut \/ EndLoop
  BY <1>4, SameCosts, ConstantFacts DEF StartCallOut, EndLoop, timeVars, Busy
<1>5. CASE SkipCall \/ PostponeCall \/ GarbageCollection
  BY <1>5, SameCosts DEF SkipCall, PostponeCall, GarbageCollection, timeVars, IInv, CostsOK
<1>6. CASE RunCall
  BY <1>6, RunCallKeeps
<1>7. CASE ReturnFromCall \/ RunError \/ AnswerReturns
  BY <1>7, CallEndsKeeps
<1>8. CASE (\E ob \in Objects : StartAnswer(ob)) \/ AnswerFails \/ CallFails
  BY <1>8, StartAnswerKeeps, AnswerFailsKeeps, CallFailsKeeps
<1>9. CASE UNCHANGED vars
  BY <1>9, SameCosts DEF vars, timeVars, IInv, CostsOK
<1> QED
  BY <1>1, <1>2, <1>3, <1>4, <1>5, <1>6, <1>7, <1>8, <1>9
  DEF Next, CallOutStep, AnswerStep

LEMMA InitHolds == Init => IInv
BY CallOutAssumption, ConstantFacts DEF Init, IInv, CostsOK, SpentIsCounted, EvalBudget, Runs, Fails

-----------------------------------------------------------------------------
(* Theorems.                                                               *)

\* The invariant holds in every reachable state.
THEOREM Invariance == Spec => []IInv
BY InitHolds, NextKeeps, PTL DEF Spec

\* All call_outs and ERQ callbacks of one user together get one evaluation's
\* cost per second, or since the last of his ERQ callbacks that failed, across
\* errors, calls that are put off and a clock that is set back.
THEOREM BudgetIsKept == Spec => []EvalBudget
<1>1. IInv => EvalBudget
  BY DEF IInv
<1> QED
  BY <1>1, Invariance, PTL

\* The list is always on schedule.
THEOREM ScheduleIsKept == Spec => []OnSchedule
<1>1. OnSchedule /\ [Next]_vars => OnSchedule'
  BY NextSchedules, StutterSchedules
<1> QED
  BY <1>1, InitSchedules, PTL DEF Spec

\* The variables have their types, and num_callouts counts the list.
THEOREM TypeCorrect == Spec => []TypeOK
<1>1. OnSchedule => TypeOK
  BY DEF OnSchedule
<1> QED
  BY <1>1, ScheduleIsKept, PTL

\* No call is executed later than asked for, and one that was not made behind
\* an overdue call is not executed earlier either.
THEOREM CallsAreOnTime == Spec => []OnTimeExact
<1>1. OnSchedule => OnTimeExact
  <2> HAVE OnSchedule
  <2>1. DOMAIN callList = 1 .. Len(callList)
    BY LenProperties DEF OnSchedule, TypeOK
  <2>2. \A i \in DOMAIN callList : FireTime(i) = currentTime + Waits(callList)[i]
    BY DEF FireTime, OnSchedule
  <2> QED
    BY <2>1, <2>2 DEF OnTimeExact, OnSchedule, Pending, Timely
<1> QED
  BY <1>1, ScheduleIsKept, PTL

\* call_out() leaves no call behind that is due.
THEOREM DueCallsAreMade == Spec => NothingDueLeft
<1>1. OnSchedule /\ [Next]_vars => [LeavesNothingDue]_vars
  BY NextSchedules
<1> QED
  BY <1>1, ScheduleIsKept, PTL DEF Spec, NothingDueLeft, LeavesNothingDue

\* Of two calls for the same time the one made first stays first.
THEOREM FirstComesFirst == Spec => FirstInFirstOut
<1>1. OnSchedule /\ [Next]_vars => [KeepsOrder]_vars
  BY NextSchedules
<1> QED
  BY <1>1, ScheduleIsKept, PTL DEF Spec, FirstInFirstOut, KeepsOrder
=============================================================================
