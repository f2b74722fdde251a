---------------------------- MODULE ObjectsProofs ----------------------------
(***************************************************************************)
(* Proofs about Objects, for any number of objects, actions and users:     *)
(* inventories are trees, chains of shadows are chains, and nobody has an  *)
(* action of an object that is gone or out of reach, or one that a shadow  *)
(* added which is no longer one.  All of it is for MasterMeddles = FALSE,  *)
(* as the code does not repeat its tests after the master was asked; what  *)
(* is shown of actions is for RoomsShadow = FALSE besides.                 *)
(***************************************************************************)
EXTENDS Objects, TLAPS, SequenceTheorems, FiniteSetTheorems, WellFoundedInduction

-----------------------------------------------------------------------------
(* Induction, with a set of numbers for what is to be shown.               *)

\* A set of natural numbers has a least one.
LEMMA NatMin ==
  ASSUME NEW T, T \subseteq Nat, T # {}
  PROVE  \E n \in T : \A m \in T : n <= m
<1> DEFINE R == {ss \in Nat \X Nat : ss[1] < ss[2]}
<1>1. IsWellFoundedOn(R, Nat)
  BY NatLessThanWellFounded DEF OpToRel
<1>2. PICK x \in T : \A y \in T : <<y, x>> \notin R
  BY <1>1, WFMin
<1>3. ASSUME NEW y \in T
      PROVE  x <= y
  <2>1. <<y, x>> \in Nat \X Nat /\ <<y, x>>[1] = y /\ <<y, x>>[2] = x
    OBVIOUS
  <2>2. ~(y < x)
    BY <1>2, <2>1
  <2> QED
    BY <2>2
<1> QED
  BY <1>3

\* Induction up to a bound.
LEMMA InductionUpTo ==
  ASSUME NEW N \in Nat, NEW T, 0 \in T, \A n \in 0 .. N : n < N /\ n \in T => n + 1 \in T
  PROVE  N \in T /\ \A n \in 0 .. N : n \in T
<1> DEFINE U == {n \in Nat : n <= N /\ n \notin T}
<1>1. SUFFICES ASSUME U # {} PROVE FALSE
  OBVIOUS
<1>2. PICK n \in U : \A m \in U : n <= m
  <2> HIDE DEF U
  <2>1. U \subseteq Nat
    BY DEF U
  <2> QED
    BY <1>1, <2>1, NatMin
<1>3. n # 0
  BY <1>2
<1>4. n - 1 \in Nat /\ n - 1 \notin U
  BY <1>2, <1>3
<1> QED
  BY <1>2, <1>4

\* g applies next[1], next[2], ... next[N] one after the other, first to x.
Iterates(g, next, x, N) == g[0] = x /\ \A n \in 1 .. N : g[n] = next[n][g[n - 1]]

\* There is such a function.
LEMMA IterationExists ==
  ASSUME NEW X, NEW N \in Nat, NEW next \in [1 .. N -> [X -> X]], NEW x \in X
  PROVE  \E g \in [0 .. N -> X] : Iterates(g, next, x, N)
<1> DEFINE T == {m \in 0 .. N : \E g \in [0 .. m -> X] : Iterates(g, next, x, m)}
<1>1. 0 \in T
  <2> DEFINE g == [i \in 0 .. 0 |-> x]
  <2>1. g \in [0 .. 0 -> X] /\ Iterates(g, next, x, 0)
    BY DEF Iterates
  <2> HIDE DEF g
  <2> QED
    BY <2>1
<1>2. \A m \in 0 .. N : m < N /\ m \in T => m + 1 \in T
  <2> TAKE m \in 0 .. N
  <2> HAVE m < N /\ m \in T
  <2>1. PICK g \in [0 .. m -> X] : Iterates(g, next, x, m)
    OBVIOUS
  <2> DEFINE h == [i \in 0 .. m + 1 |-> IF i <= m THEN g[i] ELSE next[m + 1][g[m]]]
  <2>2. next[m + 1] \in [X -> X]
    OBVIOUS
  <2>3. h \in [0 .. m + 1 -> X]
    BY <2>2
  <2>4. h[0] = x
    BY <2>1 DEF Iterates
  <2>5. \A n \in 1 .. m + 1 : h[n] = next[n][h[n - 1]]
    BY <2>1 DEF Iterates
  <2> HIDE DEF h
  <2>6. Iterates(h, next, x, m + 1) /\ m + 1 \in 0 .. N
    BY <2>4, <2>5 DEF Iterates
  <2> QED
    BY <2>3, <2>6
<1> HIDE DEF T
<1>3. N \in T
  BY <1>1, <1>2, InductionUpTo
<1> QED
  BY <1>3 DEF T

\* What Steps is, for a function on the objects, with or without None.
LEMMA StepsFacts ==
  ASSUME NEW X, NEW next \in [X -> X], NEW x \in X
  PROVE  /\ Cardinality(Objects) \in Nat
         /\ Steps(next, x) \in [0 .. Cardinality(Objects) -> X]
         /\ Steps(next, x)[0] = x
         /\ \A n \in 1 .. Cardinality(Objects) :
              Steps(next, x)[n] = next[Steps(next, x)[n - 1]]
<1> DEFINE N == Cardinality(Objects)
           F(f) == [n \in 0 .. N |-> IF n = 0 THEN x ELSE next[f[n - 1]]]
<1>1. N \in Nat
  BY ObjectsAssumption, FS_CardinalityType
<1> HIDE DEF N, F
<1> DEFINE same == [n \in 1 .. N |-> next]
<1>2. PICK g \in [0 .. N -> X] : Iterates(g, same, x, N)
  <2>1. same \in [1 .. N -> [X -> X]]
    OBVIOUS
  <2> HIDE DEF same
  <2> QED
    BY <1>1, <2>1, IterationExists
<1>3. g = F(g)
  BY <1>1, <1>2 DEF F, Iterates
<1>4. Steps(next, x) = CHOOSE f : f = F(f)
  BY DEF Steps, N, F
<1>5. Steps(next, x) = F(Steps(next, x))
  BY <1>3, <1>4
<1> DEFINE f == Steps(next, x)
<1>6. f[0] = x /\ \A n \in 1 .. N : f[n] = next[f[n - 1]]
  BY <1>1, <1>5 DEF F
<1> HIDE DEF f
<1>7. \A n \in 0 .. N : f[n] \in X
  <2> DEFINE T == {n \in 0 .. N : f[n] \in X}
  <2>1. 0 \in T
    BY <1>1, <1>6
  <2>2. \A n \in 0 .. N : n < N /\ n \in T => n + 1 \in T
    BY <1>1, <1>6
  <2> HIDE DEF T
  <2>3. \A n \in 0 .. N : n \in T
    BY <1>1, <2>1, <2>2, InductionUpTo
  <2> QED
    BY <2>3 DEF T
<1>8. f \in [0 .. N -> X]
  BY <1>5, <1>7 DEF F, f
<1> QED
  BY <1>1, <1>6, <1>8 DEF N, f

\* What KeepAt keeps, and that it keeps the order as far as it matters.
LEMMA KeepAtFacts ==
  ASSUME NEW S, NEW seq \in Seq(S), NEW places
  PROVE  /\ KeepAt(seq, places) \in Seq(S)
         /\ \A j \in DOMAIN KeepAt(seq, places) :
              \E i \in DOMAIN seq : i \in places /\ j <= i /\ KeepAt(seq, places)[j] = seq[i]
         /\ \A i \in DOMAIN seq :
              i \in places => \E j \in DOMAIN KeepAt(seq, places) : KeepAt(seq, places)[j] = seq[i]
         /\ 1 \in DOMAIN seq /\ 1 \in places =>
              1 \in DOMAIN KeepAt(seq, places) /\ KeepAt(seq, places)[1] = seq[1]
         /\ IsInjective(seq) => IsInjective(KeepAt(seq, places))
<1> DEFINE N == Len(seq)
           F(f) == [n \in 0 .. N |-> IF n = 0 THEN << >>
                                     ELSE IF n \in places THEN Append(f[n - 1], seq[n])
                                     ELSE f[n - 1]]
           next == [n \in 1 .. N |->
                      [s \in Seq(S) |-> IF n \in places THEN Append(s, seq[n]) ELSE s]]
           Good(s, n) ==
             /\ s \in Seq(S) /\ Len(s) <= n
             /\ \A j \in 1 .. Len(s) : \E i \in 1 .. n : i \in places /\ j <= i /\ s[j] = seq[i]
             /\ \A i \in 1 .. n : i \in places => \E j \in 1 .. Len(s) : s[j] = seq[i]
             /\ n >= 1 /\ 1 \in places => Len(s) >= 1 /\ s[1] = seq[1]
             /\ IsInjective(seq) => \A j, k \in 1 .. Len(s) : s[j] = s[k] => j = k
<1> HIDE DEF Good, next, F
<1>1. N \in Nat /\ DOMAIN seq = 1 .. N /\ \A i \in 1 .. N : seq[i] \in S
  BY LenProperties, ElementOfSeq
<1> HIDE DEF N
<1>2. PICK f \in [0 .. N -> Seq(S)] : Iterates(f, next, << >>, N)
  <2>1. next \in [1 .. N -> [Seq(S) -> Seq(S)]]
    <3>1. \A n \in 1 .. N : \A s \in Seq(S) : Append(s, seq[n]) \in Seq(S)
      BY <1>1, AppendProperties
    <3> QED
      BY <3>1 DEF next
  <2>2. << >> \in Seq(S)
    OBVIOUS
  <2> QED
    BY <1>1, <2>1, <2>2, IterationExists
<1>3. /\ f[0] = << >>
      /\ \A n \in 1 .. N : f[n] = IF n \in places THEN Append(f[n - 1], seq[n]) ELSE f[n - 1]
  <2>1. f[0] = << >> /\ \A n \in 1 .. N : f[n] = next[n][f[n - 1]]
    BY <1>2 DEF Iterates
  <2>2. \A n \in 1 .. N : f[n - 1] \in Seq(S)
    BY <1>1, <1>2
  <2>3. \A n \in 1 .. N : next[n][f[n - 1]] =
                             IF n \in places THEN Append(f[n - 1], seq[n]) ELSE f[n - 1]
    BY <2>2 DEF next
  <2> QED
    BY <2>1, <2>3
<1>4. f = F(f)
  <2>1. \A n \in 0 .. N : F(f)[n] = IF n = 0 THEN << >>
                                    ELSE IF n \in places THEN Append(f[n - 1], seq[n])
                                    ELSE f[n - 1]
    BY DEF F
  <2>2. \A n \in 0 .. N : f[n] = F(f)[n]
    <3> TAKE n \in 0 .. N
    <3>1. CASE n = 0
      BY <1>3, <2>1, <3>1
    <3>2. CASE n # 0
      <4>1. n \in 1 .. N
        BY <1>1, <3>2
      <4> QED
        BY <1>3, <2>1, <3>2, <4>1
    <3> QED
      BY <3>1, <3>2
  <2>3. f = [n \in 0 .. N |-> f[n]] /\ F(f) = [n \in 0 .. N |-> F(f)[n]]
    BY <1>2 DEF F
  <2> QED
    BY <2>2, <2>3
<1>5. KeepAt(seq, places) = (CHOOSE g : g = F(g))[N]
  BY DEF KeepAt, N, F
<1> DEFINE h == CHOOSE g : g = F(g)
<1>6. h = F(h)
  BY <1>4
<1> HIDE DEF h
<1>7. /\ h[0] = << >>
      /\ \A n \in 1 .. N : h[n] = IF n \in places THEN Append(h[n - 1], seq[n]) ELSE h[n - 1]
  <2>1. \A n \in 0 .. N : h[n] = F(h)[n]
    BY <1>6
  <2>2. \A n \in 0 .. N : F(h)[n] = IF n = 0 THEN << >>
                                    ELSE IF n \in places THEN Append(h[n - 1], seq[n])
                                    ELSE h[n - 1]
    BY DEF F
  <2> QED
    BY <1>1, <2>1, <2>2
<1>8. Good(h[0], 0)
  BY <1>7 DEF Good
<1>9. ASSUME NEW n \in 0 .. N, n < N, Good(h[n], n)
      PROVE  Good(h[n + 1], n + 1)
  <2> DEFINE s == h[n]
             e == seq[n + 1]
             m == Len(s)
  <2>0. /\ n + 1 \in 1 .. N /\ (n + 1) - 1 = n /\ e \in S /\ s \in Seq(S)
        /\ m \in Nat /\ m <= n
    BY <1>1, <1>9, LenProperties DEF Good
  <2>1. CASE n + 1 \notin places
    <3>1. h[n + 1] = h[n]
      BY <1>7, <2>0, <2>1
    <3>2. \A i \in 1 .. n + 1 : i \in places => i \in 1 .. n
      BY <2>1
    <3>3. n + 1 >= 1 /\ 1 \in places => n >= 1
      BY <2>1
    <3> QED
      BY <1>9, <3>1, <3>2, <3>3 DEF Good
  <2>2. CASE n + 1 \in places
    <3> HIDE DEF s, e, m
    <3> DEFINE t == Append(s, e)
    <3>1. h[n + 1] = t
      BY <1>7, <2>0, <2>2 DEF s, e
    <3>2. /\ t \in Seq(S) /\ Len(t) = m + 1
          /\ \A j \in 1 .. m : t[j] = s[j]
          /\ t[m + 1] = e
      BY <2>0, AppendProperties DEF m
    <3> HIDE DEF t
    <3>3. \A j \in 1 .. m : \E i \in 1 .. n : i \in places /\ j <= i /\ s[j] = seq[i]
      BY <1>9 DEF Good, s, m
    <3>4. \A j \in 1 .. m + 1 : \E i \in 1 .. n + 1 : i \in places /\ j <= i /\ t[j] = seq[i]
      <4> TAKE j \in 1 .. m + 1
      <4>1. CASE j = m + 1
        BY <2>0, <2>2, <3>2, <4>1 DEF e
      <4>2. CASE j # m + 1
        <5>1. j \in 1 .. m
          BY <2>0, <4>2
        <5> QED
          BY <3>2, <3>3, <5>1
      <4> QED
        BY <4>1, <4>2
    <3>5. \A i \in 1 .. n + 1 : i \in places => \E j \in 1 .. m + 1 : t[j] = seq[i]
      <4> TAKE i \in 1 .. n + 1
      <4> HAVE i \in places
      <4>1. CASE i = n + 1
        BY <2>0, <3>2, <4>1 DEF e
      <4>2. CASE i # n + 1
        <5>1. i \in 1 .. n
          BY <4>2
        <5>2. PICK j \in 1 .. m : s[j] = seq[i]
          BY <1>9, <5>1 DEF Good, s, m
        <5>3. j \in 1 .. m + 1 /\ t[j] = seq[i]
          BY <2>0, <3>2, <5>2
        <5> QED
          BY <5>3
      <4> QED
        BY <4>1, <4>2
    <3>6. 1 \in places => m + 1 >= 1 /\ t[1] = seq[1]
      <4>1. CASE n = 0
        <5>1. m = 0
          BY <2>0, <4>1
        <5> QED
          BY <3>2, <4>1, <5>1 DEF e
      <4>2. CASE n # 0
        <5>1. 1 \in places => m >= 1 /\ s[1] = seq[1]
          BY <1>9, <4>2 DEF Good, s, m
        <5> QED
          BY <2>0, <3>2, <5>1
      <4> QED
        BY <4>1, <4>2
    <3>7. ASSUME IsInjective(seq), NEW j \in 1 .. m + 1, NEW k \in 1 .. m + 1, t[j] = t[k]
          PROVE  j = k
      <4>1. \A l \in 1 .. m : s[l] # e
        <5> TAKE l \in 1 .. m
        <5>1. PICK i \in 1 .. n : s[l] = seq[i]
          BY <3>3
        <5>2. i \in DOMAIN seq /\ n + 1 \in DOMAIN seq /\ i # n + 1
          BY <1>1, <2>0
        <5> QED
          BY <3>7, <5>1, <5>2 DEF IsInjective, e
      <4>2. CASE j \in 1 .. m /\ k \in 1 .. m
        BY <1>9, <3>2, <3>7, <4>2 DEF Good, s, m
      <4>3. CASE j = m + 1 /\ k \in 1 .. m
        BY <3>2, <3>7, <4>1, <4>3
      <4>4. CASE k = m + 1 /\ j \in 1 .. m
        BY <3>2, <3>7, <4>1, <4>4
      <4>5. j = m + 1 \/ j \in 1 .. m
        BY <2>0
      <4>6. k = m + 1 \/ k \in 1 .. m
        BY <2>0
      <4> QED
        BY <4>2, <4>3, <4>4, <4>5, <4>6
    <3>8. m + 1 <= n + 1
      BY <2>0
    <3> QED
      BY <3>1, <3>2, <3>4, <3>5, <3>6, <3>7, <3>8 DEF Good
  <2> QED
    BY <2>1, <2>2
<1> DEFINE T == {n \in 0 .. N : Good(h[n], n)}
<1>10. N \in T
  <2>1. 0 \in T
    BY <1>1, <1>8
  <2>2. \A n \in 0 .. N : n < N /\ n \in T => n + 1 \in T
    BY <1>1, <1>9
  <2> HIDE DEF T
  <2> QED
    BY <1>1, <2>1, <2>2, InductionUpTo
<1>11. Good(h[N], N) /\ KeepAt(seq, places) = h[N]
  BY <1>5, <1>10 DEF h
<1> DEFINE t == h[N]
<1>12. t \in Seq(S) /\ DOMAIN t = 1 .. Len(t) /\ Len(t) \in Nat
  BY <1>11, LenProperties DEF Good
<1> HIDE DEF t
<1>13. Good(t, N) /\ KeepAt(seq, places) = t
  BY <1>11 DEF t
<1>14. \A j \in DOMAIN t : \E i \in DOMAIN seq : i \in places /\ j <= i /\ t[j] = seq[i]
  <2>1. \A j \in 1 .. Len(t) : \E i \in 1 .. N : i \in places /\ j <= i /\ t[j] = seq[i]
    BY <1>13 DEF Good
  <2> QED
    BY <1>1, <1>12, <2>1, Zenon
<1>15. \A i \in DOMAIN seq : i \in places => \E j \in DOMAIN t : t[j] = seq[i]
  <2>1. \A i \in 1 .. N : i \in places => \E j \in 1 .. Len(t) : t[j] = seq[i]
    BY <1>13 DEF Good
  <2> QED
    BY <1>1, <1>12, <2>1, Zenon
<1>16. 1 \in DOMAIN seq /\ 1 \in places => 1 \in DOMAIN t /\ t[1] = seq[1]
  BY <1>1, <1>12, <1>13 DEF Good
<1>17. IsInjective(seq) => IsInjective(t)
  <2>1. IsInjective(seq) => \A j, k \in 1 .. Len(t) : t[j] = t[k] => j = k
    BY <1>13 DEF Good
  <2> QED
    BY <1>12, <2>1 DEF IsInjective
<1> QED
  BY <1>12, <1>13, <1>14, <1>15, <1>16, <1>17

-----------------------------------------------------------------------------
(* Chains: f gives each object the next one or None.                       *)

ObjectOrNone == Objects \cup {None}

\* There is no ring: of any objects one is the last.
Acyclic(f) == \A T \in SUBSET Objects : T # {} => \E o \in T : f[o] \notin T

\* A chain has no more objects than there are.
LEMMA NoLongChain ==
  ASSUME NEW f \in [Objects -> ObjectOrNone], Acyclic(f),
         NEW g \in [0 .. Cardinality(Objects) -> Objects],
         \A n \in 1 .. Cardinality(Objects) : g[n] = f[g[n - 1]]
  PROVE  FALSE
<1> DEFINE N == Cardinality(Objects)
<1>1. N \in Nat /\ IsFiniteSet(Objects)
  BY ObjectsAssumption, FS_CardinalityType
<1>2. IsFiniteSet(0 .. N) /\ Cardinality(0 .. N) = N + 1
  BY <1>1, FS_Interval
<1>3. PICK i, j \in 0 .. N : i # j /\ g[i] = g[j]
  BY <1>1, <1>2, FS_PigeonHole
<1>4. ASSUME NEW k \in 0 .. N, NEW l \in 0 .. N, k < l, g[k] = g[l]
      PROVE  FALSE
  <2> DEFINE T == {g[n] : n \in k .. l - 1}
  <2>1. T \subseteq Objects /\ g[k] \in T
    BY <1>1, <1>4
  <2>2. PICK o \in T : f[o] \notin T
    BY <2>1 DEF Acyclic
  <2>3. PICK n \in k .. l - 1 : o = g[n]
    BY <2>2
  <2>4. f[o] = g[n + 1]
    <3>1. n + 1 \in 1 .. N /\ (n + 1) - 1 = n
      BY <1>1
    <3> QED
      BY <2>3, <3>1
  <2>5. CASE n + 1 = l
    BY <1>4, <2>1, <2>2, <2>4, <2>5
  <2>6. CASE n + 1 # l
    <3>1. n + 1 \in k .. l - 1
      BY <1>1, <1>4, <2>3, <2>6
    <3> QED
      BY <2>2, <2>4, <3>1
  <2> QED
    BY <2>5, <2>6
<1>5. i < j \/ j < i
  BY <1>3
<1> QED
  BY <1>3, <1>4, <1>5

\* The end of the chain that begins with o.
End(f, o) ==
  Steps([x \in Objects |-> IF f[x] = None THEN x ELSE f[x]], o)[Cardinality(Objects)]

\* The end of a chain is reached object by object.
LEMMA EndFacts ==
  ASSUME NEW f \in [Objects -> ObjectOrNone], Acyclic(f)
  PROVE  \A o \in Objects :
           /\ End(f, o) \in Objects /\ f[End(f, o)] = None
           /\ f[o] = None => End(f, o) = o
           /\ f[o] # None => End(f, o) = End(f, f[o])
<1> DEFINE N == Cardinality(Objects)
           next == [x \in Objects |-> IF f[x] = None THEN x ELSE f[x]]
           G(o) == Steps(next, o)
<1>0. None \notin Objects
  BY ObjectsAssumption
<1>1. next \in [Objects -> Objects]
  BY DEF ObjectOrNone
<1>2. \A o \in Objects : /\ N \in Nat /\ G(o) \in [0 .. N -> Objects] /\ G(o)[0] = o
                         /\ \A n \in 1 .. N : G(o)[n] = next[G(o)[n - 1]]
  <2> HIDE DEF next
  <2> QED
    BY <1>1, StepsFacts
<1>3. \A o \in Objects : End(f, o) = G(o)[N]
  BY DEF End
<1> HIDE DEF G
<1>4. ASSUME NEW o \in Objects
      PROVE  f[G(o)[N]] = None
  <2>1. SUFFICES ASSUME f[G(o)[N]] # None PROVE FALSE
    OBVIOUS
  <2> DEFINE T == {n \in 0 .. N : f[G(o)[N - n]] # None}
  <2>2. N \in Nat /\ G(o) \in [0 .. N -> Objects]
    BY <1>2
  <2>3. 0 \in T
    BY <2>1, <2>2
  <2>4. \A n \in 0 .. N : n < N /\ n \in T => n + 1 \in T
    <3> TAKE n \in 0 .. N
    <3> HAVE n < N /\ n \in T
    <3>1. N - n \in 1 .. N /\ (N - n) - 1 = N - (n + 1) /\ N - (n + 1) \in 0 .. N
      BY <2>2
    <3>2. G(o)[N - n] = next[G(o)[N - (n + 1)]]
      BY <1>2, <3>1
    <3>3. G(o)[N - (n + 1)] \in Objects
      BY <2>2, <3>1
    <3>4. f[G(o)[N - (n + 1)]] # None
      BY <3>2, <3>3
    <3> QED
      BY <3>4, <2>2
  <2> HIDE DEF T
  <2>5. \A n \in 0 .. N : n \in T
    BY <2>2, <2>3, <2>4, InductionUpTo
  <2>6. \A n \in 1 .. N : G(o)[n] = f[G(o)[n - 1]]
    <3> TAKE n \in 1 .. N
    <3>1. N - (n - 1) \in T /\ N - (N - (n - 1)) = n - 1
      BY <2>2, <2>5
    <3>2. f[G(o)[n - 1]] # None /\ G(o)[n - 1] \in Objects
      BY <2>2, <3>1 DEF T
    <3> QED
      BY <1>2, <3>2
  <2> QED
    BY <2>2, <2>6, NoLongChain
<1>5. ASSUME NEW o \in Objects, f[o] = None
      PROVE  G(o)[N] = o
  <2> DEFINE T == {n \in 0 .. N : G(o)[n] = o}
  <2>1. N \in Nat /\ 0 \in T
    BY <1>2
  <2>2. \A n \in 0 .. N : n < N /\ n \in T => n + 1 \in T
    <3> TAKE n \in 0 .. N
    <3> HAVE n < N /\ n \in T
    <3>1. n + 1 \in 1 .. N /\ (n + 1) - 1 = n
      BY <2>1
    <3>2. G(o)[n + 1] = next[G(o)[n]] /\ next[o] = o
      BY <1>2, <1>5, <3>1
    <3> QED
      BY <2>1, <3>1, <3>2
  <2> HIDE DEF T
  <2>3. N \in T
    BY <2>1, <2>2, InductionUpTo
  <2> QED
    BY <2>3 DEF T
<1>6. ASSUME NEW o \in Objects, f[o] # None
      PROVE  G(o)[N] = G(f[o])[N]
  <2>0. f[o] \in Objects
    BY <1>6 DEF ObjectOrNone
  <2>1. /\ N \in Nat /\ G(o) \in [0 .. N -> Objects] /\ G(f[o]) \in [0 .. N -> Objects]
        /\ G(o)[0] = o /\ G(f[o])[0] = f[o]
        /\ \A n \in 1 .. N : G(o)[n] = next[G(o)[n - 1]]
        /\ \A n \in 1 .. N : G(f[o])[n] = next[G(f[o])[n - 1]]
    BY <1>2, <2>0
  <2>2. CASE N = 0
    BY <1>4, <1>6, <2>1, <2>2
  <2>3. CASE N # 0
    <3> DEFINE T == {n \in 0 .. N - 1 : G(f[o])[n] = G(o)[n + 1]}
    <3>0. N - 1 \in Nat /\ 1 \in 1 .. N /\ 1 - 1 = 0 /\ 0 + 1 = 1
      BY <2>1, <2>3
    <3>1. N - 1 \in Nat /\ 0 \in T
      <4>1. G(o)[1] = next[G(o)[1 - 1]]
        BY <2>1, <3>0, Zenon
      <4>2. G(o)[1] = next[o]
        BY <2>1, <4>1
      <4> QED
        BY <1>6, <2>1, <3>0, <4>2
    <3>2. \A n \in 0 .. N - 1 : n < N - 1 /\ n \in T => n + 1 \in T
      <4> TAKE n \in 0 .. N - 1
      <4> HAVE n < N - 1 /\ n \in T
      <4>1. n + 1 \in 1 .. N /\ n + 2 \in 1 .. N /\ (n + 1) - 1 = n /\ (n + 2) - 1 = n + 1
        BY <2>1, <3>1
      <4>2. G(f[o])[n + 1] = next[G(f[o])[n]] /\ G(o)[n + 2] = next[G(o)[n + 1]]
        BY <2>1, <4>1
      <4> QED
        BY <4>1, <4>2, <2>1
    <3> HIDE DEF T
    <3>3. N - 1 \in T
      BY <3>1, <3>2, InductionUpTo
    <3>4. G(f[o])[N - 1] = G(o)[N]
      BY <2>1, <3>3 DEF T
    <3>5. G(f[o])[N] = next[G(o)[N]] /\ G(o)[N] \in Objects
      BY <2>1, <2>3, <3>4
    <3> QED
      BY <1>4, <3>5
  <2> QED
    BY <2>2, <2>3
<1>7. \A o \in Objects : G(o)[N] \in Objects
  BY <1>2
<1> QED
  BY <1>3, <1>4, <1>5, <1>6, <1>7 DEF ObjectOrNone

\* A link to y from an x that no object links to makes no ring.
LEMMA NewFirst ==
  ASSUME NEW f \in [Objects -> ObjectOrNone], Acyclic(f), NEW x \in Objects, NEW y \in Objects,
         x # y, \A o \in Objects : f[o] # x
  PROVE  Acyclic([f EXCEPT ![x] = y])
<1> DEFINE g == [f EXCEPT ![x] = y]
<1>1. g[x] = y /\ \A o \in Objects : o # x => g[o] = f[o]
  OBVIOUS
<1> HIDE DEF g
<1>2. ASSUME NEW T \in SUBSET Objects, T # {}, \A o \in T : g[o] \in T
      PROVE  FALSE
  <2>1. T \ {x} # {}
    <3>1. x \in T => y \in T \ {x}
      BY <1>1, <1>2
    <3> QED
      BY <1>2, <3>1
  <2>2. PICK o \in T \ {x} : f[o] \notin T \ {x}
    BY <2>1 DEF Acyclic
  <2>3. g[o] \in T /\ g[o] = f[o] /\ f[o] # x
    BY <1>1, <1>2, <2>2
  <2> QED
    BY <2>2, <2>3
<1>3. Acyclic(g)
  BY <1>2 DEF Acyclic
<1> QED
  BY <1>3 DEF g

\* A link from x to a y that links to nothing makes no ring.
LEMMA NewLast ==
  ASSUME NEW f \in [Objects -> ObjectOrNone], Acyclic(f), NEW x \in Objects, NEW y \in Objects,
         x # y, f[y] = None
  PROVE  Acyclic([f EXCEPT ![x] = y])
<1> DEFINE g == [f EXCEPT ![x] = y]
<1>0. None \notin Objects
  BY ObjectsAssumption
<1>1. g[x] = y /\ g[y] = None /\ \A o \in Objects : o # x => g[o] = f[o]
  OBVIOUS
<1> HIDE DEF g
<1>2. ASSUME NEW T \in SUBSET Objects, T # {}, \A o \in T : g[o] \in T
      PROVE  FALSE
  <2>1. y \notin T /\ x \notin T
    BY <1>0, <1>1, <1>2
  <2>2. PICK o \in T : f[o] \notin T
    BY <1>2 DEF Acyclic
  <2> QED
    BY <1>1, <1>2, <2>1, <2>2
<1>3. Acyclic(g)
  BY <1>2 DEF Acyclic
<1> QED
  BY <1>3 DEF g

\* g has links of f only, or in their place two of them that follow each other.
Shortens(g, f) ==
  \A o \in Objects : \/ g[o] = None \/ g[o] = f[o]
                     \/ f[o] \in Objects /\ g[o] = f[f[o]]

\* Shorter chains are no rings.
LEMMA ShorterIsAcyclic ==
  ASSUME NEW f \in [Objects -> ObjectOrNone], Acyclic(f),
         NEW g \in [Objects -> ObjectOrNone], Shortens(g, f)
  PROVE  Acyclic(g)
<1>0. None \notin Objects
  BY ObjectsAssumption
<1>1. ASSUME NEW T \in SUBSET Objects, T # {}, \A o \in T : g[o] \in T
      PROVE  FALSE
  <2> DEFINE U == T \cup {m \in Objects : f[m] \in T}
  <2>1. U # {} /\ U \subseteq Objects
    BY <1>1
  <2>2. PICK o \in U : f[o] \notin U
    BY <2>1 DEF Acyclic
  <2>3. o \in T
    BY <2>2
  <2>4. g[o] \in T /\ g[o] # None
    BY <1>0, <1>1, <2>3
  <2>5. g[o] = f[o] \/ (f[o] \in Objects /\ g[o] = f[f[o]])
    BY <2>3, <2>4 DEF Shortens
  <2> QED
    BY <2>2, <2>4, <2>5
<1> QED
  BY <1>1 DEF Acyclic

\* If no link goes, the ends of the chains stay.
LEMMA ShorterEnds ==
  ASSUME NEW f \in [Objects -> ObjectOrNone], Acyclic(f),
         NEW g \in [Objects -> ObjectOrNone], Shortens(g, f),
         \A o \in Objects : g[o] = None => f[o] = None
  PROVE  \A o \in Objects : End(g, o) = End(f, o)
<1>0. None \notin Objects
  BY ObjectsAssumption
<1>1. Acyclic(g)
  BY ShorterIsAcyclic
<1> DEFINE T == {o \in Objects : End(g, o) # End(f, o)}
<1>2. SUFFICES ASSUME T # {} PROVE FALSE
  OBVIOUS
<1>3. PICK o \in T : g[o] \notin T
  BY <1>1, <1>2 DEF Acyclic
<1>4. CASE g[o] = None
  <2>1. f[o] = None
    BY <1>3, <1>4
  <2> QED
    BY <1>1, <1>3, <1>4, <2>1, EndFacts
<1>5. CASE g[o] # None
  <2>1. g[o] \in Objects
    BY <1>3, <1>5 DEF ObjectOrNone
  <2>2. End(g, o) = End(g, g[o]) /\ End(g, g[o]) = End(f, g[o])
    BY <1>1, <1>3, <1>5, <2>1, EndFacts
  <2>3. End(f, g[o]) = End(f, o)
    <3>1. CASE g[o] = f[o]
      BY <1>3, <1>5, <3>1, EndFacts
    <3>2. CASE f[o] \in Objects /\ g[o] = f[f[o]]
      <4>1. f[o] # None /\ f[f[o]] # None
        BY <1>0, <1>5, <3>2
      <4> QED
        BY <1>3, <3>2, <4>1, EndFacts
    <3> QED
      BY <1>3, <1>5, <3>1, <3>2 DEF Shortens
  <2> QED
    BY <1>3, <2>2, <2>3
<1> QED
  BY <1>4, <1>5

\* Below x nothing changes when x loses its link.
LEMMA EndBelow ==
  ASSUME NEW f \in [Objects -> ObjectOrNone], Acyclic(f), NEW x \in Objects, f[x] # None
  PROVE  End([f EXCEPT ![x] = None], f[x]) = End(f, x)
<1> DEFINE g == [f EXCEPT ![x] = None]
<1>0. None \notin Objects /\ f[x] \in Objects
  BY ObjectsAssumption DEF ObjectOrNone
<1>1. g \in [Objects -> ObjectOrNone] /\ g[x] = None /\ \A o \in Objects : o # x => g[o] = f[o]
  BY DEF ObjectOrNone
<1> HIDE DEF g
<1>2. Acyclic(g)
  <2>1. Shortens(g, f)
    BY <1>1 DEF Shortens
  <2> QED
    BY <1>1, <2>1, ShorterIsAcyclic
<1>3. \A o \in Objects : End(g, o) = End(f, o) \/ End(g, o) = x
  <2> DEFINE T == {o \in Objects : End(g, o) # End(f, o) /\ End(g, o) # x}
  <2>1. SUFFICES ASSUME T # {} PROVE FALSE
    OBVIOUS
  <2>2. PICK o \in T : g[o] \notin T
    BY <1>2, <2>1 DEF Acyclic
  <2>3. o # x
    BY <1>1, <1>2, <2>2, EndFacts
  <2>4. CASE f[o] = None
    BY <1>1, <1>2, <2>2, <2>3, <2>4, EndFacts
  <2>5. CASE f[o] # None
    <3>1. f[o] \in Objects /\ g[o] = f[o]
      BY <1>1, <2>2, <2>3, <2>5 DEF ObjectOrNone
    <3>2. End(g, o) = End(g, f[o]) /\ End(f, o) = End(f, f[o])
      BY <1>1, <1>2, <2>2, <2>5, <3>1, EndFacts
    <3> QED
      BY <2>2, <3>1, <3>2
  <2> QED
    BY <2>4, <2>5
<1>4. End(g, f[x]) # x
  <2> DEFINE T == {o \in Objects : End(g, o) = x}
  <2>1. SUFFICES ASSUME f[x] \in T PROVE FALSE
    BY <1>0
  <2>2. PICK o \in T : f[o] \notin T
    BY <2>1 DEF Acyclic
  <2>3. o # x
    BY <2>1, <2>2
  <2>4. g[o] = f[o] /\ g[o] # None
    BY <1>1, <1>2, <2>2, <2>3, EndFacts
  <2>5. f[o] \in Objects
    BY <2>2, <2>4 DEF ObjectOrNone
  <2> QED
    BY <1>1, <1>2, <2>2, <2>4, <2>5, EndFacts
<1>5. End(f, x) = End(f, f[x])
  BY EndFacts
<1>6. End(g, f[x]) = End(f, x)
  BY <1>0, <1>3, <1>4, <1>5
<1> QED
  BY <1>6 DEF g

\* The end of a chain is where all its objects are, if each has the next one there.
LEMMA EndStays ==
  ASSUME NEW f \in [Objects -> ObjectOrNone], Acyclic(f), NEW L,
         \A o \in Objects : o \in L /\ f[o] # None => f[o] \in L
  PROVE  \A o \in Objects : o \in L => End(f, o) \in L
<1> DEFINE T == {o \in Objects : o \in L /\ End(f, o) \notin L}
<1>1. SUFFICES ASSUME T # {} PROVE FALSE
  OBVIOUS
<1>2. PICK o \in T : f[o] \notin T
  BY <1>1 DEF Acyclic
<1>3. f[o] # None
  BY <1>2, EndFacts
<1>4. f[o] \in Objects /\ f[o] \in L
  BY <1>2, <1>3 DEF ObjectOrNone
<1> QED
  BY <1>2, <1>3, <1>4, EndFacts

\* Links that are inverse: sh from each shadow down, by up.
Linked(sh, by) ==
  /\ sh \in [Objects -> ObjectOrNone] /\ by \in [Objects -> ObjectOrNone]
  /\ Acyclic(sh) /\ Acyclic(by)
  /\ \A o \in Objects : /\ sh[o] # None => by[sh[o]] = o
                        /\ by[o] # None => sh[by[o]] = o

\* f without x, which to[x] links to.
Leave(f, to, x) ==
  [o \in Objects |-> IF o = x THEN None ELSE IF o = to[x] THEN f[x] ELSE f[o]]

\* What is left is shorter, and nothing links to x any more.
LEMMA LeaveShortens ==
  ASSUME NEW sh, NEW by, Linked(sh, by) \/ Linked(by, sh), NEW x \in Objects
  PROVE  /\ Leave(sh, by, x) \in [Objects -> ObjectOrNone]
         /\ Leave(sh, by, x)[x] = None
         /\ \A o \in Objects : o # x => Leave(sh, by, x)[o] # x
         /\ Shortens(Leave(sh, by, x), sh) /\ Acyclic(Leave(sh, by, x))
<1> DEFINE g == Leave(sh, by, x)
<1>0. None \notin Objects
  BY ObjectsAssumption
<1>1. /\ sh \in [Objects -> ObjectOrNone] /\ by \in [Objects -> ObjectOrNone] /\ Acyclic(sh)
      /\ \A o \in Objects : /\ sh[o] # None => by[sh[o]] = o
                            /\ by[o] # None => sh[by[o]] = o
  BY DEF Linked
<1>2. /\ g \in [Objects -> ObjectOrNone]
      /\ \A o \in Objects : g[o] = IF o = x THEN None ELSE IF o = by[x] THEN sh[x] ELSE sh[o]
  BY <1>1 DEF Leave, ObjectOrNone
<1> HIDE DEF g
<1>3. sh[x] # x
  <2>1. {x} \in SUBSET Objects /\ {x} # {}
    OBVIOUS
  <2>2. PICK o \in {x} : sh[o] \notin {x}
    BY <1>1, <2>1 DEF Acyclic
  <2> QED
    BY <2>2
<1>4. \A o \in Objects : o # x => g[o] # x
  BY <1>0, <1>1, <1>2, <1>3
<1>5. Shortens(g, sh)
  BY <1>0, <1>1, <1>2 DEF Shortens
<1>6. Acyclic(g)
  BY <1>1, <1>2, <1>5, ShorterIsAcyclic
<1> QED
  BY <1>2, <1>4, <1>5, <1>6 DEF g

\* x leaves its chain.
LEMMA LeaveFacts ==
  ASSUME NEW sh, NEW by, Linked(sh, by), NEW x \in Objects
  PROVE  /\ Linked(Leave(sh, by, x), Leave(by, sh, x))
         /\ \A o \in Objects : o # x /\ End(sh, o) # x =>
              End(Leave(sh, by, x), o) = End(sh, o)
         /\ \A o \in Objects : o # x /\ End(sh, o) = x =>
              by[x] # None /\ End(Leave(sh, by, x), o) = by[x]
<1> DEFINE g == Leave(sh, by, x)
           h == Leave(by, sh, x)
<1>0. None \notin Objects
  BY ObjectsAssumption
<1>1. /\ sh \in [Objects -> ObjectOrNone] /\ by \in [Objects -> ObjectOrNone] /\ Acyclic(sh)
      /\ \A o \in Objects : /\ sh[o] # None => by[sh[o]] = o
                            /\ by[o] # None => sh[by[o]] = o
  BY DEF Linked
<1>2. /\ g \in [Objects -> ObjectOrNone] /\ Acyclic(g)
      /\ h \in [Objects -> ObjectOrNone] /\ Acyclic(h)
      /\ \A o \in Objects : o # x => g[o] # x /\ h[o] # x
  BY LeaveShortens
<1>3. /\ \A o \in Objects : g[o] = IF o = x THEN None ELSE IF o = by[x] THEN sh[x] ELSE sh[o]
      /\ \A o \in Objects : h[o] = IF o = x THEN None ELSE IF o = sh[x] THEN by[x] ELSE by[o]
  BY DEF Leave
<1> HIDE DEF g, h
<1>4. \A o \in Objects : g[o] # None => h[g[o]] = o
  <2> TAKE o \in Objects
  <2> HAVE g[o] # None
  <2>1. o # x /\ g[o] \in Objects /\ g[o] # x
    BY <1>2, <1>3 DEF ObjectOrNone
  <2>2. CASE o = by[x]
    BY <1>3, <2>1, <2>2
  <2>3. CASE o # by[x]
    <3>1. g[o] = sh[o] /\ by[sh[o]] = o /\ sh[o] # sh[x]
      BY <1>1, <1>3, <2>1, <2>3
    <3> QED
      BY <1>3, <2>1, <3>1
  <2> QED
    BY <2>2, <2>3
<1>5. \A o \in Objects : h[o] # None => g[h[o]] = o
  <2> TAKE o \in Objects
  <2> HAVE h[o] # None
  <2>1. o # x /\ h[o] \in Objects /\ h[o] # x
    BY <1>2, <1>3 DEF ObjectOrNone
  <2>2. CASE o = sh[x]
    BY <1>3, <2>1, <2>2
  <2>3. CASE o # sh[x]
    <3>1. h[o] = by[o] /\ sh[by[o]] = o /\ by[o] # by[x]
      BY <1>1, <1>3, <2>1, <2>3
    <3> QED
      BY <1>3, <2>1, <3>1
  <2> QED
    BY <2>2, <2>3
<1>6. Linked(g, h)
  BY <1>2, <1>4, <1>5 DEF Linked
<1>7. \A o \in Objects : o # x /\ End(sh, o) # x => End(g, o) = End(sh, o)
  <2> DEFINE T == {o \in Objects : o # x /\ End(sh, o) # x /\ End(g, o) # End(sh, o)}
  <2>1. SUFFICES ASSUME T # {} PROVE FALSE
    OBVIOUS
  <2>2. PICK o \in T : g[o] \notin T
    BY <1>2, <2>1 DEF Acyclic
  <2>3. CASE sh[o] = None
    <3>1. o # by[x] \/ g[o] = sh[x]
      BY <1>3, <2>2
    <3>2. g[o] = None
      BY <1>0, <1>1, <1>3, <2>2, <2>3
    <3> QED
      BY <1>1, <1>2, <2>2, <2>3, <3>2, EndFacts
  <2>4. CASE sh[o] # None
    <3>0. sh[o] \in Objects /\ End(sh, o) = End(sh, sh[o])
      BY <1>1, <2>2, <2>4, EndFacts DEF ObjectOrNone
    <3>1. CASE sh[o] # x
      <4>1. g[o] = sh[o]
        BY <1>0, <1>1, <1>3, <2>2, <2>4, <3>1
      <4>2. End(g, o) = End(g, sh[o])
        BY <1>2, <2>2, <2>4, <4>1, EndFacts
      <4> QED
        BY <2>2, <3>0, <3>1, <4>1, <4>2
    <3>2. CASE sh[o] = x
      <4>1. o = by[x] /\ g[o] = sh[x]
        BY <1>1, <1>3, <2>2, <2>4, <3>2
      <4>2. sh[x] # None
        BY <1>1, <2>2, <3>0, <3>2, EndFacts
      <4>3. sh[x] \in Objects /\ End(sh, x) = End(sh, sh[x]) /\ End(g, o) = End(g, sh[x])
        BY <1>1, <1>2, <2>2, <4>1, <4>2, EndFacts DEF ObjectOrNone
      <4>4. sh[x] # x
        BY <1>2, <2>2, <4>1
      <4> QED
        BY <2>2, <3>0, <3>2, <4>1, <4>3, <4>4
    <3> QED
      BY <3>1, <3>2
  <2> QED
    BY <2>3, <2>4
<1>8. \A o \in Objects : o # x /\ End(sh, o) = x => by[x] # None /\ End(g, o) = by[x]
  <2> DEFINE T == {o \in Objects : o # x /\ End(sh, o) = x /\ ~(by[x] # None /\ End(g, o) = by[x])}
  <2>1. SUFFICES ASSUME T # {} PROVE FALSE
    OBVIOUS
  <2>2. PICK o \in T : g[o] \notin T
    BY <1>2, <2>1 DEF Acyclic
  <2>3. sh[o] # None /\ sh[x] = None
    BY <1>1, <2>2, EndFacts
  <2>4. sh[o] \in Objects /\ End(sh, sh[o]) = x
    BY <1>1, <2>2, <2>3, EndFacts DEF ObjectOrNone
  <2>5. CASE sh[o] = x
    <3>1. o = by[x] /\ g[o] = None /\ o # None
      BY <1>0, <1>1, <1>3, <2>2, <2>3, <2>5
    <3> QED
      BY <1>2, <2>2, <3>1, EndFacts
  <2>6. CASE sh[o] # x
    <3>1. g[o] = sh[o]
      BY <1>1, <1>3, <2>2, <2>3, <2>6
    <3>2. End(g, o) = End(g, sh[o])
      BY <1>2, <2>2, <2>3, <3>1, EndFacts
    <3> QED
      BY <2>2, <2>4, <2>6, <3>1, <3>2
  <2> QED
    BY <2>5, <2>6
<1> QED
  BY <1>6, <1>7, <1>8 DEF g, h

\* The top of a chain has the same end, and it is no object out of the chain.
LEMMA TopFacts ==
  ASSUME NEW sh, NEW by, Linked(sh, by)
  PROVE  \A o \in Objects : /\ End(by, o) \in Objects /\ by[End(by, o)] = None
                            /\ End(sh, End(by, o)) = End(sh, o)
                            /\ End(by, o) = o \/ sh[End(by, o)] # None
<1>0. None \notin Objects
  BY ObjectsAssumption
<1>1. /\ sh \in [Objects -> ObjectOrNone] /\ Acyclic(sh)
      /\ by \in [Objects -> ObjectOrNone] /\ Acyclic(by)
      /\ \A o \in Objects : by[o] # None => sh[by[o]] = o
  BY DEF Linked
<1>2. \A o \in Objects : End(by, o) \in Objects /\ by[End(by, o)] = None
  BY <1>1, EndFacts
<1> DEFINE T == {o \in Objects : ~(/\ End(sh, End(by, o)) = End(sh, o)
                                   /\ End(by, o) = o \/ sh[End(by, o)] # None)}
<1>3. T = {}
  <2>1. SUFFICES ASSUME T # {} PROVE FALSE
    OBVIOUS
  <2>2. PICK o \in T : by[o] \notin T
    BY <1>1, <2>1 DEF Acyclic
  <2>3. by[o] # None
    BY <1>1, <2>2, EndFacts
  <2>4. by[o] \in Objects /\ End(by, o) = End(by, by[o]) /\ sh[by[o]] = o
    BY <1>1, <2>2, <2>3, EndFacts DEF ObjectOrNone
  <2>5. End(sh, by[o]) = End(sh, o) /\ sh[by[o]] # None
    BY <1>0, <1>1, <2>2, <2>4, EndFacts
  <2>6. /\ End(sh, End(by, by[o])) = End(sh, by[o])
        /\ End(by, by[o]) = by[o] \/ sh[End(by, by[o])] # None
    BY <2>2, <2>4
  <2>7. sh[End(by, o)] # None
    BY <2>4, <2>5, <2>6
  <2> QED
    BY <2>2, <2>4, <2>5, <2>6, <2>7
<1> QED
  BY <1>2, <1>3

\* f with a link from x to y.
With(f, x, y) == [f EXCEPT ![x] = y]

\* x comes on top of the chain of b, which is at its end.
LEMMA JoinFacts ==
  ASSUME NEW sh, NEW by, Linked(sh, by), NEW x \in Objects, sh[x] = None, by[x] = None,
         NEW b \in Objects, b # x, sh[b] = None
  PROVE  /\ End(by, b) \in Objects \ {x} /\ by[End(by, b)] = None
         /\ Linked(With(sh, x, End(by, b)), With(by, End(by, b), x))
         /\ \A o \in Objects :
              End(With(sh, x, End(by, b)), o) = IF o = x THEN b ELSE End(sh, o)
<1> DEFINE y == End(by, b)
           g == With(sh, x, y)
           h == With(by, y, x)
<1>0. None \notin Objects
  BY ObjectsAssumption
<1>1. /\ sh \in [Objects -> ObjectOrNone] /\ by \in [Objects -> ObjectOrNone]
      /\ Acyclic(sh) /\ Acyclic(by)
      /\ \A o \in Objects : /\ sh[o] # None => by[sh[o]] = o
                            /\ by[o] # None => sh[by[o]] = o
  BY DEF Linked
<1>2. y \in Objects /\ by[y] = None /\ End(sh, y) = b /\ y # x
  BY <1>1, EndFacts, TopFacts
<1> HIDE DEF y
<1>3. \A o \in Objects : sh[o] # x
  BY <1>0, <1>1, <1>2
<1>4. Acyclic(g) /\ Acyclic(h)
  BY <1>1, <1>2, <1>3, NewFirst, NewLast DEF With
<1>5. /\ g \in [Objects -> ObjectOrNone] /\ h \in [Objects -> ObjectOrNone]
      /\ \A o \in Objects : g[o] = IF o = x THEN y ELSE sh[o]
      /\ \A o \in Objects : h[o] = IF o = y THEN x ELSE by[o]
  BY <1>1, <1>2 DEF ObjectOrNone, With
<1> HIDE DEF g, h
<1>6. Linked(g, h)
  <2>1. \A o \in Objects : g[o] # None => h[g[o]] = o
    <3> TAKE o \in Objects
    <3> HAVE g[o] # None
    <3>1. g[o] \in Objects
      BY <1>5 DEF ObjectOrNone
    <3>2. CASE o = x
      BY <1>2, <1>5, <3>2
    <3>3. CASE o # x
      <4>1. g[o] = sh[o] /\ by[sh[o]] = o /\ sh[o] # y
        BY <1>0, <1>1, <1>2, <1>5, <3>3
      <4> QED
        BY <1>5, <3>1, <4>1
    <3> QED
      BY <3>2, <3>3
  <2>2. \A o \in Objects : h[o] # None => g[h[o]] = o
    <3> TAKE o \in Objects
    <3> HAVE h[o] # None
    <3>1. h[o] \in Objects
      BY <1>5 DEF ObjectOrNone
    <3>2. CASE o = y
      BY <1>5, <3>2
    <3>3. CASE o # y
      <4>1. h[o] = by[o] /\ sh[by[o]] = o /\ by[o] # x
        BY <1>0, <1>1, <1>5, <3>3
      <4> QED
        BY <1>5, <3>1, <4>1
    <3> QED
      BY <3>2, <3>3
  <2> QED
    BY <1>4, <1>5, <2>1, <2>2 DEF Linked
<1>7. \A o \in Objects : o # x => End(g, o) = End(sh, o)
  <2> DEFINE T == {o \in Objects : o # x /\ End(g, o) # End(sh, o)}
  <2>1. SUFFICES ASSUME T # {} PROVE FALSE
    OBVIOUS
  <2>2. PICK o \in T : g[o] \notin T
    BY <1>4, <2>1 DEF Acyclic
  <2>3. g[o] = sh[o] /\ sh[o] # x
    BY <1>3, <1>5, <2>2
  <2>4. sh[o] = None \/ sh[o] \in Objects
    BY <1>1, <2>2 DEF ObjectOrNone
  <2> QED
    BY <1>1, <1>4, <1>5, <2>2, <2>3, <2>4, EndFacts
<1>8. End(g, x) = b
  <2>1. End(g, x) = End(g, y)
    BY <1>0, <1>2, <1>4, <1>5, EndFacts
  <2> QED
    BY <1>2, <1>7, <2>1
<1> QED
  BY <1>2, <1>6, <1>7, <1>8 DEF y, g, h

-----------------------------------------------------------------------------
(* Inventories.                                                            *)

\* The objects around o, from o on.
LEMMA OuterFacts ==
  ASSUME super \in [Objects -> ObjectOrNone], NEW o \in Objects
  PROVE  \E g \in [0 .. Cardinality(Objects) -> ObjectOrNone] :
           /\ Cardinality(Objects) \in Nat /\ g[0] = o
           /\ \A n \in 1 .. Cardinality(Objects) :
                g[n] = IF g[n - 1] = None THEN None ELSE super[g[n - 1]]
           /\ \A item : IsOrIsAround(o, item) <=> \E n \in 0 .. Cardinality(Objects) : g[n] = item
<1> DEFINE next == [x \in ObjectOrNone |-> IF x = None THEN None ELSE super[x]]
           N == Cardinality(Objects)
           g == Steps(next, o)
<1>1. next \in [ObjectOrNone -> ObjectOrNone] /\ o \in ObjectOrNone
  BY DEF ObjectOrNone
<1>2. \A x \in ObjectOrNone : next[x] = IF x = None THEN None ELSE super[x]
  OBVIOUS
<1>3. \A item : IsOrIsAround(o, item) <=> \E n \in DOMAIN g : g[n] = item
  BY DEF IsOrIsAround, ObjectOrNone
<1> HIDE DEF next
<1>4. /\ N \in Nat /\ g \in [0 .. N -> ObjectOrNone] /\ g[0] = o
      /\ \A n \in 1 .. N : g[n] = next[g[n - 1]]
  BY <1>1, StepsFacts
<1> HIDE DEF g, N
<1>5. \A n \in 1 .. N : g[n] = IF g[n - 1] = None THEN None ELSE super[g[n - 1]]
  BY <1>2, <1>4
<1>6. \A item : IsOrIsAround(o, item) <=> \E n \in 0 .. N : g[n] = item
  BY <1>3, <1>4
<1> QED
  BY <1>4, <1>5, <1>6 DEF N

\* An object may go into one it is not around.
LEMMA MoveIsAcyclic ==
  ASSUME super \in [Objects -> ObjectOrNone], Acyclic(super),
         NEW item \in Objects, NEW dest \in ObjectOrNone,
         dest # None => ~IsOrIsAround(dest, item)
  PROVE  Acyclic([super EXCEPT ![item] = dest])
<1> DEFINE f == [super EXCEPT ![item] = dest]
           N == Cardinality(Objects)
<1>0. None \notin Objects
  BY ObjectsAssumption
<1>1. f[item] = dest /\ \A o \in Objects : o # item => f[o] = super[o]
  OBVIOUS
<1> HIDE DEF f
<1>2. ASSUME NEW T \in SUBSET Objects, T # {}, \A o \in T : f[o] \in T
      PROVE  FALSE
  <2>1. item \in T
    BY <1>1, <1>2 DEF Acyclic
  <2>2. dest \in T /\ dest \in Objects
    BY <1>1, <1>2, <2>1
  <2>3. PICK g \in [0 .. N -> ObjectOrNone] :
          /\ N \in Nat /\ g[0] = dest
          /\ \A n \in 1 .. N : g[n] = IF g[n - 1] = None THEN None ELSE super[g[n - 1]]
          /\ \A x : IsOrIsAround(dest, x) <=> \E n \in 0 .. N : g[n] = x
    BY <2>2, OuterFacts
  <2>4. \A n \in 0 .. N : g[n] # item
    BY <1>0, <2>2, <2>3
  <2> DEFINE U == {n \in 0 .. N : g[n] \in T}
  <2>5. \A n \in 0 .. N : n \in U
    <3>1. 0 \in U
      BY <2>2, <2>3
    <3>2. \A n \in 0 .. N : n < N /\ n \in U => n + 1 \in U
      <4> TAKE n \in 0 .. N
      <4> HAVE n < N /\ n \in U
      <4>1. n + 1 \in 1 .. N /\ (n + 1) - 1 = n /\ n + 1 \in 0 .. N
        BY <2>3
      <4>2. g[n + 1] = IF g[n] = None THEN None ELSE super[g[n]]
        BY <2>3, <4>1
      <4>3. g[n] \in T /\ g[n] # None /\ g[n] # item
        BY <1>0, <2>4
      <4>4. super[g[n]] \in T
        BY <1>1, <1>2, <4>3
      <4> QED
        BY <4>1, <4>2, <4>3, <4>4
    <3> HIDE DEF U
    <3> QED
      BY <2>3, <3>1, <3>2, InductionUpTo
  <2>6. g \in [0 .. N -> Objects] /\ \A n \in 0 .. N : g[n] # None
    BY <1>0, <2>3, <2>5
  <2>7. \A n \in 1 .. N : g[n] = super[g[n - 1]]
    <3> TAKE n \in 1 .. N
    <3>1. n - 1 \in 0 .. N
      BY <2>3
    <3> QED
      BY <2>3, <2>6, <3>1
  <2> QED
    BY <2>6, <2>7, NoLongChain
<1>3. Acyclic(f)
  BY <1>2 DEF Acyclic
<1> QED
  BY <1>3 DEF f

\* No object is inside itself.
LEMMA NotInsideItself ==
  ASSUME super \in [Objects -> ObjectOrNone], Acyclic(super),
         NEW o \in Objects, super[o] # None
  PROVE  ~IsOrIsAround(super[o], o)
<1> DEFINE N == Cardinality(Objects)
<1>0. None \notin Objects /\ super[o] \in Objects
  BY ObjectsAssumption DEF ObjectOrNone
<1>1. PICK g \in [0 .. N -> ObjectOrNone] :
        /\ N \in Nat /\ g[0] = super[o]
        /\ \A n \in 1 .. N : g[n] = IF g[n - 1] = None THEN None ELSE super[g[n - 1]]
        /\ \A x : IsOrIsAround(super[o], x) <=> \E n \in 0 .. N : g[n] = x
  BY <1>0, OuterFacts
<1>2. SUFFICES ASSUME NEW n \in 0 .. N, g[n] = o PROVE FALSE
  BY <1>1
<1> DEFINE U == {k \in 0 .. n : g[n - k] # None}
<1>3. n \in Nat /\ \A k \in 0 .. n : k \in U
  <2>1. n \in Nat /\ 0 \in U
    BY <1>0, <1>1, <1>2
  <2>2. \A k \in 0 .. n : k < n /\ k \in U => k + 1 \in U
    <3> TAKE k \in 0 .. n
    <3> HAVE k < n /\ k \in U
    <3>1. n - k \in 1 .. N /\ (n - k) - 1 = n - (k + 1) /\ k + 1 \in 0 .. n
      BY <1>1, <2>1
    <3>2. g[n - k] = IF g[n - (k + 1)] = None THEN None ELSE super[g[n - (k + 1)]]
      BY <1>1, <3>1
    <3> QED
      BY <3>1, <3>2
  <2> HIDE DEF U
  <2> QED
    BY <2>1, <2>2, InductionUpTo
<1>4. \A k \in 0 .. n : g[k] \in Objects
  <2> TAKE k \in 0 .. n
  <2>0. n - k \in 0 .. n /\ n - (n - k) = k /\ k \in 0 .. N
    BY <1>1, <1>3
  <2>1. n - k \in U /\ n - (n - k) = k /\ k \in 0 .. N
    BY <1>3, <2>0, Zenon
  <2> QED
    BY <1>1, <2>1 DEF ObjectOrNone
<1> DEFINE T == {g[k] : k \in 0 .. n}
<1>5. T \subseteq Objects /\ T # {}
  BY <1>3, <1>4
<1>6. PICK x \in T : super[x] \notin T
  BY <1>5 DEF Acyclic
<1>7. PICK k \in 0 .. n : x = g[k]
  BY <1>6
<1>8. CASE k = n
  <2>1. super[x] = g[0] /\ 0 \in 0 .. n
    BY <1>1, <1>2, <1>3, <1>7, <1>8
  <2> QED
    BY <1>6, <2>1
<1>9. CASE k # n
  <2>1. k + 1 \in 1 .. N /\ (k + 1) - 1 = k /\ k + 1 \in 0 .. n
    BY <1>1, <1>3, <1>9
  <2>2. g[k] # None
    BY <1>0, <1>4
  <2>3. g[k + 1] = super[x]
    BY <1>1, <1>7, <2>1, <2>2
  <2> QED
    BY <1>6, <2>1, <2>3
<1> QED
  BY <1>8, <1>9


-----------------------------------------------------------------------------
(* The inductive invariant.                                                *)

Sentences == [type : {"action", "shadow"}, link : ObjectOrNone,
              ob : ObjectOrNone, shadowOb : ObjectOrNone]

\* The shadow sentence of an object comes first, O_SHADOW says that it is there.
Annotated(a) ==
  /\ a \in [sent : [Objects -> Seq(Sentences)], flagged : SUBSET Objects]
  /\ \A o \in Objects :
       /\ o \in a.flagged => a.sent[o] # << >>
       /\ \A i \in DOMAIN a.sent[o] :
            /\ a.sent[o][i].type = "shadow" <=> i = 1 /\ o \in a.flagged
            /\ a.sent[o][i].type = "shadow" => a.sent[o][i].shadowOb = None

\* What the sentences say: whom an object shadows, who shadows it, its actions.
Sh(a) == [o \in Objects |-> Shadowing(a, o)]
By(a) == [o \in Objects |-> ShadowedBy(a, o)]
Acts(a, o) ==
  {a.sent[o][i] : i \in {j \in DOMAIN a.sent[o] : a.sent[o][j].type = "action"}}

Inventory ==
  /\ super \in [Objects -> ObjectOrNone] /\ contains \in [Objects -> Seq(Objects)]
  /\ \A o \in Objects : /\ IsInjective(contains[o])
                        /\ ElementsOf(contains[o]) = {i \in Objects : super[i] = o}
                        /\ super[o] # None => o \in live /\ super[o] \in live
  /\ Acyclic(super)
  /\ \A i, j \in Objects : super[i] \in Masters /\ super[j] = super[i] => i = j

\* The shadow sentence of o says something, unless it is not there.
Needed(a, o, ips) == o \in a.flagged => o \in ips \/ Sh(a)[o] # None \/ By(a)[o] # None

Shadows ==
  /\ Annotated(ann) /\ Linked(Sh(ann), By(ann))
  /\ \A o \in Objects : Needed(ann, o, interactive)
  /\ \A o \in Objects :
       Sh(ann)[o] # None => o \in live /\ Sh(ann)[o] \in live /\ super[o] = None

\* An action is of an object at hand; a shadow added it for the object below all
\* shadows; and none is of a shadow of the one who has it.
Fine(s, giver) ==
  /\ s.ob \in live /\ InVicinity(s.ob, giver)
  /\ s.shadowOb # None =>
       Sh(ann)[s.shadowOb] # None /\ End(Sh(ann), s.shadowOb) = s.ob
  /\ Sh(ann)[s.ob] # None => End(Sh(ann), s.ob) # giver

Actions == \A giver \in live : \A s \in Acts(ann, giver) : Fine(s, giver)

Consistent ==
  /\ live \subseteq Objects /\ interactive \subseteq Objects /\ hung \in BOOLEAN
  /\ Inventory /\ Shadows
  /\ ~RoomsShadow => Actions

IInv == Consistent /\ calls \in Seq(Calls)

-----------------------------------------------------------------------------
(* The lists of sentences, and what each operation does to what they say.  *)

\* The parts of Annotated, and the links in the first sentence.
LEMMA AnnotatedFacts ==
  ASSUME NEW a, Annotated(a)
  PROVE  /\ a = [sent |-> a.sent, flagged |-> a.flagged]
         /\ a.sent \in [Objects -> Seq(Sentences)] /\ a.flagged \subseteq Objects
         /\ Sh(a) \in [Objects -> ObjectOrNone] /\ By(a) \in [Objects -> ObjectOrNone]
         /\ \A o \in Objects :
              /\ a.sent[o] \in Seq(Sentences)
              /\ Len(a.sent[o]) \in Nat /\ DOMAIN a.sent[o] = 1 .. Len(a.sent[o])
              /\ \A i \in DOMAIN a.sent[o] : a.sent[o][i] \in Sentences
              /\ o \notin a.flagged => /\ Sh(a)[o] = None /\ By(a)[o] = None
              /\ o \in a.flagged =>
                   /\ 1 \in DOMAIN a.sent[o] /\ a.sent[o][1] \in Sentences
                   /\ a.sent[o][1].type = "shadow"
                   /\ a.sent[o][1].shadowOb = None
                   /\ Sh(a)[o] = a.sent[o][1].link /\ By(a)[o] = a.sent[o][1].ob
<1>1. /\ a \in [sent : [Objects -> Seq(Sentences)], flagged : SUBSET Objects]
      /\ \A o \in Objects : o \in a.flagged => a.sent[o] # << >>
      /\ \A o \in Objects : \A i \in DOMAIN a.sent[o] :
            /\ a.sent[o][i].type = "shadow" <=> i = 1 /\ o \in a.flagged
            /\ a.sent[o][i].type = "shadow" => a.sent[o][i].shadowOb = None
  BY DEF Annotated
<1>2. /\ a = [sent |-> a.sent, flagged |-> a.flagged]
      /\ a.sent \in [Objects -> Seq(Sentences)] /\ a.flagged \subseteq Objects
  BY <1>1
<1>3. ASSUME NEW o \in Objects
      PROVE  /\ a.sent[o] \in Seq(Sentences)
             /\ Len(a.sent[o]) \in Nat /\ DOMAIN a.sent[o] = 1 .. Len(a.sent[o])
             /\ \A i \in DOMAIN a.sent[o] : a.sent[o][i] \in Sentences
  <2>1. a.sent[o] \in Seq(Sentences)
    BY <1>2
  <2> QED
    BY <2>1, LenProperties, ElementOfSeq
<1>4. ASSUME NEW o \in Objects, o \notin a.flagged
      PROVE  Sh(a)[o] = None /\ By(a)[o] = None
  BY <1>4 DEF Sh, By, Shadowing, ShadowedBy, IsFlagged
<1>5. ASSUME NEW o \in Objects, o \in a.flagged
      PROVE  /\ 1 \in DOMAIN a.sent[o] /\ a.sent[o][1] \in Sentences
             /\ a.sent[o][1].type = "shadow"
             /\ a.sent[o][1].shadowOb = None
             /\ Sh(a)[o] = a.sent[o][1].link /\ By(a)[o] = a.sent[o][1].ob
  <2>1. a.sent[o] # << >> /\ a.sent[o] \in Seq(Sentences)
    BY <1>1, <1>3, <1>5
  <2>2. Head(a.sent[o]) = a.sent[o][1] /\ 1 \in DOMAIN a.sent[o]
    BY <2>1, HeadTailProperties
  <2>3. a.sent[o][1].type = "shadow" /\ a.sent[o][1].shadowOb = None
    BY <1>1, <1>5, <2>2
  <2>4. a.sent[o][1] \in Sentences
    BY <1>3, <2>2
  <2> QED
    BY <1>5, <2>2, <2>3, <2>4 DEF Sh, By, Shadowing, ShadowedBy, IsFlagged
<1>6. Sh(a) \in [Objects -> ObjectOrNone] /\ By(a) \in [Objects -> ObjectOrNone]
  <2>1. \A o \in Objects : Sh(a)[o] \in ObjectOrNone /\ By(a)[o] \in ObjectOrNone
    BY <1>4, <1>5 DEF Sentences, ObjectOrNone
  <2>2. Sh(a) = [o \in Objects |-> Sh(a)[o]] /\ By(a) = [o \in Objects |-> By(a)[o]]
    BY DEF Sh, By
  <2> QED
    BY <2>1, <2>2
<1> QED
  BY <1>2, <1>3, <1>4, <1>5, <1>6

\* Where an action is.
LEMMA ActsFacts ==
  ASSUME NEW a, Annotated(a), NEW o \in Objects
  PROVE  /\ \A s \in Acts(a, o) : s \in Sentences /\ s.type = "action"
         /\ \A s : s \in Acts(a, o) <=>
              \E i \in DOMAIN a.sent[o] : s = a.sent[o][i] /\ s.type = "action"
         /\ \A i \in DOMAIN a.sent[o] :
              a.sent[o][i] \in Acts(a, o) <=> ~(i = 1 /\ o \in a.flagged)
<1>1. \A i \in DOMAIN a.sent[o] : a.sent[o][i] \in Sentences
  BY AnnotatedFacts
<1>2. \A s : s \in Acts(a, o) <=>
        \E i \in DOMAIN a.sent[o] : s = a.sent[o][i] /\ s.type = "action"
  BY DEF Acts
<1>3. \A i \in DOMAIN a.sent[o] : a.sent[o][i].type = "action" <=> ~(i = 1 /\ o \in a.flagged)
  BY <1>1 DEF Annotated, Sentences
<1> QED
  BY <1>1, <1>2, <1>3

\* b is a without some of its actions.
Fewer(b, a) ==
  /\ Annotated(b) /\ b.flagged = a.flagged /\ Sh(b) = Sh(a) /\ By(b) = By(a)
  /\ \A o \in Objects : Acts(b, o) \subseteq Acts(a, o)

LEMMA FewerThanFewer ==
  ASSUME NEW a, NEW b, NEW c, Fewer(c, b), Fewer(b, a)
  PROVE  Fewer(c, a)
BY DEF Fewer

\* t is what is at some places of s, or at some of them; what comes first stays first.
Kept(t, s, places) ==
  /\ t \in Seq(Sentences)
  /\ \A j \in DOMAIN t : \E i \in DOMAIN s : i \in places /\ j <= i /\ t[j] = s[i]
  /\ 1 \in DOMAIN s /\ 1 \in places => 1 \in DOMAIN t /\ t[1] = s[1]

LEMMA KeptFacts ==
  ASSUME NEW s \in Seq(Sentences)
  PROVE  /\ Kept(s, s, DOMAIN s)
         /\ \A places : Kept(KeepAt(s, places), s, places)
         /\ \A i \in DOMAIN s : Kept(RemoveAt(s, i), s, DOMAIN s \ {i})
<1>1. Len(s) \in Nat /\ DOMAIN s = 1 .. Len(s) /\ \A j \in 1 .. Len(s) : s[j] \in Sentences
  BY LenProperties, ElementOfSeq
<1>2. Kept(s, s, DOMAIN s)
  BY <1>1 DEF Kept
<1>3. \A places : Kept(KeepAt(s, places), s, places)
  BY KeepAtFacts DEF Kept
<1>4. ASSUME NEW i \in DOMAIN s
      PROVE  Kept(RemoveAt(s, i), s, DOMAIN s \ {i})
  <2> DEFINE a == SubSeq(s, 1, i - 1)
             b == SubSeq(s, i + 1, Len(s))
             t == a \o b
  <2>1. a \in Seq(Sentences) /\ Len(a) = i - 1 /\ \A j \in 1 .. i - 1 : a[j] = s[j]
    BY <1>1, SubSeqProperties
  <2>2. b \in Seq(Sentences) /\ Len(b) = Len(s) - i /\ \A j \in 1 .. Len(s) - i : b[j] = s[j + i]
    BY <1>1, SubSeqProperties
  <2> HIDE DEF a, b
  <2>3. /\ t \in Seq(Sentences) /\ Len(t) = Len(a) + Len(b)
        /\ \A j \in 1 .. Len(a) + Len(b) : t[j] = IF j <= Len(a) THEN a[j] ELSE b[j - Len(a)]
    BY <2>1, <2>2, ConcatProperties
  <2>4. RemoveAt(s, i) = t
    BY DEF RemoveAt, a, b
  <2> HIDE DEF t
  <2>5. Len(a) + Len(b) = Len(s) - 1 /\ DOMAIN t = 1 .. Len(s) - 1
    BY <1>1, <2>1, <2>2, <2>3, LenProperties
  <2>6. \A j \in 1 .. Len(s) - 1 : t[j] = s[IF j < i THEN j ELSE j + 1]
    <3> TAKE j \in 1 .. Len(s) - 1
    <3>1. CASE j < i
      <4>1. j \in 1 .. i - 1
        BY <1>1, <3>1
      <4> QED
        BY <1>1, <2>1, <2>3, <2>5, <3>1, <4>1
    <3>2. CASE ~(j < i)
      <4>1. j - (i - 1) \in 1 .. Len(s) - i /\ (j - (i - 1)) + i = j + 1
        BY <1>1, <3>2
      <4>2. t[j] = b[j - (i - 1)]
        BY <1>1, <2>1, <2>3, <2>5, <3>2
      <4> QED
        BY <2>2, <3>2, <4>1, <4>2
    <3> QED
      BY <3>1, <3>2
  <2>7. \A j \in DOMAIN t : \E k \in DOMAIN s : k \in DOMAIN s \ {i} /\ j <= k /\ t[j] = s[k]
    <3> TAKE j \in DOMAIN t
    <3> DEFINE k == IF j < i THEN j ELSE j + 1
    <3>1. k \in DOMAIN s /\ k # i /\ j <= k
      BY <1>1, <2>5
    <3>2. t[j] = s[k]
      BY <2>5, <2>6
    <3> HIDE DEF k
    <3> QED
      BY <3>1, <3>2
  <2>8. 1 \in DOMAIN s \ {i} => 1 \in DOMAIN t /\ t[1] = s[1]
    BY <1>1, <2>5, <2>6
  <2> QED
    BY <2>3, <2>4, <2>7, <2>8 DEF Kept
<1> QED
  BY <1>2, <1>3, <1>4

\* Only actions go: what stays of each list is what was at some places of it.
LEMMA FilterKeeps ==
  ASSUME NEW a, Annotated(a), NEW b,
         b = [sent |-> b.sent, flagged |-> a.flagged], DOMAIN b.sent = Objects,
         b.sent = [o \in Objects |-> b.sent[o]], NEW keep,
         \A o \in Objects : Kept(b.sent[o], a.sent[o], keep[o]),
         \A o \in a.flagged : 1 \in keep[o]
  PROVE  /\ Fewer(b, a)
         /\ \A o \in Objects : \A s \in Acts(b, o) :
              \E i \in DOMAIN a.sent[o] \cap keep[o] : s = a.sent[o][i] /\ s.type = "action"
<1>1. /\ a.sent \in [Objects -> Seq(Sentences)] /\ a.flagged \subseteq Objects
      /\ b.flagged = a.flagged
  BY AnnotatedFacts
<1>2. ASSUME NEW o \in Objects
      PROVE  /\ b.sent[o] \in Seq(Sentences) /\ DOMAIN b.sent[o] \subseteq Nat \ {0}
             /\ \A j \in DOMAIN b.sent[o] :
                  \E i \in DOMAIN a.sent[o] : i \in keep[o] /\ j <= i /\ b.sent[o][j] = a.sent[o][i]
             /\ o \in a.flagged => 1 \in DOMAIN b.sent[o] /\ b.sent[o][1] = a.sent[o][1]
  <2>1. Kept(b.sent[o], a.sent[o], keep[o])
    OBVIOUS
  <2>2. o \in a.flagged => 1 \in DOMAIN a.sent[o] /\ 1 \in keep[o]
    BY AnnotatedFacts
  <2>3. b.sent[o] \in Seq(Sentences)
    BY <2>1 DEF Kept
  <2>4. DOMAIN b.sent[o] = 1 .. Len(b.sent[o]) /\ Len(b.sent[o]) \in Nat
    BY <2>3, LenProperties
  <2>5. DOMAIN b.sent[o] \subseteq Nat \ {0}
    BY <2>4
  <2> QED
    BY <2>1, <2>2, <2>3, <2>5 DEF Kept
<1>3. b \in [sent : [Objects -> Seq(Sentences)], flagged : SUBSET Objects]
  <2>1. b.sent \in [Objects -> Seq(Sentences)]
    BY <1>2
  <2> QED
    BY <1>1, <2>1
<1>4. ASSUME NEW o \in Objects, NEW j \in DOMAIN b.sent[o]
      PROVE  /\ b.sent[o][j].type = "shadow" <=> j = 1 /\ o \in a.flagged
             /\ b.sent[o][j].type = "shadow" => b.sent[o][j].shadowOb = None
  <2>1. PICK i \in DOMAIN a.sent[o] : j <= i /\ b.sent[o][j] = a.sent[o][i]
    BY <1>2
  <2>2. /\ a.sent[o][i].type = "shadow" <=> i = 1 /\ o \in a.flagged
        /\ a.sent[o][i].type = "shadow" => a.sent[o][i].shadowOb = None
    BY DEF Annotated
  <2>3. i \in Nat /\ j \in Nat \ {0}
    BY <1>2, AnnotatedFacts
  <2>4. o \in a.flagged => b.sent[o][1].type = "shadow"
    BY <1>2, AnnotatedFacts
  <2> QED
    BY <2>1, <2>2, <2>3, <2>4
<1>5. Annotated(b)
  <2>1. \A o \in b.flagged : b.sent[o] # << >>
    BY <1>1, <1>2
  <2>2. \A o \in Objects : \A j \in DOMAIN b.sent[o] :
          /\ b.sent[o][j].type = "shadow" <=> j = 1 /\ o \in b.flagged
          /\ b.sent[o][j].type = "shadow" => b.sent[o][j].shadowOb = None
    BY <1>1, <1>4
  <2> QED
    BY <1>3, <2>1, <2>2 DEF Annotated
<1>6. Sh(b) = Sh(a) /\ By(b) = By(a)
  <2>1. \A o \in Objects : Sh(b)[o] = Sh(a)[o] /\ By(b)[o] = By(a)[o]
    <3> TAKE o \in Objects
    <3>1. CASE o \in a.flagged
      <4>1. Sh(b)[o] = b.sent[o][1].link /\ By(b)[o] = b.sent[o][1].ob
        BY <1>1, <1>5, <3>1, AnnotatedFacts
      <4>2. Sh(a)[o] = a.sent[o][1].link /\ By(a)[o] = a.sent[o][1].ob
        BY <3>1, AnnotatedFacts
      <4> QED
        BY <1>2, <3>1, <4>1, <4>2
    <3>2. CASE o \notin a.flagged
      BY <1>1, <1>5, <3>2, AnnotatedFacts
    <3> QED
      BY <3>1, <3>2
  <2>2. /\ Sh(a) \in [Objects -> ObjectOrNone] /\ By(a) \in [Objects -> ObjectOrNone]
        /\ Sh(b) \in [Objects -> ObjectOrNone] /\ By(b) \in [Objects -> ObjectOrNone]
    BY <1>5, AnnotatedFacts
  <2> QED
    BY <2>1, <2>2
<1>7. ASSUME NEW o \in Objects, NEW s \in Acts(b, o)
      PROVE  \E i \in DOMAIN a.sent[o] \cap keep[o] : s = a.sent[o][i] /\ s.type = "action"
  <2>1. PICK j \in DOMAIN b.sent[o] : s = b.sent[o][j] /\ s.type = "action"
    BY <1>5, ActsFacts
  <2> QED
    BY <1>2, <2>1
<1>8. \A o \in Objects : Acts(b, o) \subseteq Acts(a, o)
  BY <1>7, ActsFacts
<1> QED
  BY <1>1, <1>5, <1>6, <1>7, <1>8 DEF Fewer

\* b has the actions of a.
SameActs(b, a) == \A o \in Objects : Acts(b, o) = Acts(a, o)

\* Other lists of sentences in a.
LEMMA OtherSent ==
  ASSUME NEW a, a = [sent |-> a.sent, flagged |-> a.flagged], NEW sent
  PROVE  [a EXCEPT !.sent = sent] = [sent |-> sent, flagged |-> a.flagged]
OBVIOUS

\* Other links in the shadow sentence of o.
LEMMA NewLinks ==
  ASSUME NEW a, Annotated(a), NEW o \in a.flagged,
         NEW s \in Sentences, s.type = "shadow", s.shadowOb = None, NEW b,
         b = [sent |-> [a.sent EXCEPT ![o] = [a.sent[o] EXCEPT ![1] = s]], flagged |-> a.flagged]
  PROVE  /\ Annotated(b) /\ b.flagged = a.flagged /\ SameActs(b, a)
         /\ Sh(b) = [Sh(a) EXCEPT ![o] = s.link] /\ By(b) = [By(a) EXCEPT ![o] = s.ob]
<1> DEFINE old == a.sent[o]
           new == [old EXCEPT ![1] = s]
<1>1. /\ a.sent \in [Objects -> Seq(Sentences)] /\ a.flagged \subseteq Objects /\ o \in Objects
      /\ old \in Seq(Sentences) /\ Len(old) \in Nat /\ DOMAIN old = 1 .. Len(old)
      /\ \A i \in DOMAIN old : old[i] \in Sentences
      /\ 1 \in DOMAIN old /\ old[1].type = "shadow"
      /\ Sh(a) \in [Objects -> ObjectOrNone] /\ By(a) \in [Objects -> ObjectOrNone]
  BY AnnotatedFacts
<1> HIDE DEF old
<1>2. /\ new \in Seq(Sentences) /\ DOMAIN new = DOMAIN old /\ new[1] = s
      /\ \A i \in DOMAIN old : i # 1 => new[i] = old[i]
  BY <1>1, ExceptSeq
<1> HIDE DEF new
<1>3. /\ b.flagged = a.flagged /\ b.sent \in [Objects -> Seq(Sentences)]
      /\ b \in [sent : [Objects -> Seq(Sentences)], flagged : SUBSET Objects]
      /\ b.sent[o] = new /\ \A p \in Objects : p # o => b.sent[p] = a.sent[p]
  BY <1>1, <1>2 DEF new, old
<1>4. \A p \in b.flagged : b.sent[p] # << >>
  <2> TAKE p \in b.flagged
  <2>1. p \in Objects /\ a.sent[p] # << >> /\ 1 \in DOMAIN new
    BY <1>1, <1>2, <1>3 DEF Annotated
  <2> QED
    BY <1>3, <2>1
<1>5. ASSUME NEW p \in Objects, NEW i \in DOMAIN b.sent[p]
      PROVE  /\ b.sent[p][i].type = "shadow" <=> i = 1 /\ p \in b.flagged
             /\ b.sent[p][i].type = "shadow" => b.sent[p][i].shadowOb = None
  <2>1. CASE p = o
    <3>1. i \in DOMAIN old /\ b.sent[p][i] = new[i]
      BY <1>2, <1>3, <2>1
    <3>2. /\ old[i].type = "shadow" <=> i = 1
          /\ old[i].type = "shadow" => old[i].shadowOb = None
      BY <1>1, <3>1 DEF Annotated, old
    <3> QED
      BY <1>2, <1>3, <2>1, <3>1, <3>2
  <2>2. CASE p # o
    <3>1. b.sent[p] = a.sent[p]
      BY <1>3, <2>2
    <3> QED
      BY <1>3, <3>1 DEF Annotated
  <2> QED
    BY <2>1, <2>2
<1>6. Annotated(b)
  <2> QED
    BY <1>3, <1>4, <1>5 DEF Annotated
<1>7. SameActs(b, a)
  <2> SUFFICES ASSUME NEW p \in Objects PROVE Acts(b, p) = Acts(a, p)
    BY DEF SameActs
  <2>1. CASE p # o
    BY <1>3, <2>1 DEF Acts
  <2>2. CASE p = o
    <3>1. \A i \in DOMAIN old :
            \/ i = 1 /\ new[i].type = "shadow" /\ old[i].type = "shadow"
            \/ new[i] = old[i]
      BY <1>1, <1>2
    <3>0. b.sent[p] = new /\ DOMAIN new = DOMAIN old
      BY <1>2, <1>3, <2>2
    <3>2. Acts(b, p) = {new[i] : i \in {j \in DOMAIN old : new[j].type = "action"}}
      BY <3>0, Zenon DEF Acts
    <3>3. Acts(a, p) = {old[i] : i \in {j \in DOMAIN old : old[j].type = "action"}}
      BY <2>2 DEF Acts, old
    <3> QED
      BY <3>1, <3>2, <3>3
  <2> QED
    BY <2>1, <2>2
<1>8. Sh(b) = [Sh(a) EXCEPT ![o] = s.link] /\ By(b) = [By(a) EXCEPT ![o] = s.ob]
  <2>1. Sh(b)[o] = s.link /\ By(b)[o] = s.ob
    BY <1>2, <1>3, <1>6, AnnotatedFacts
  <2>2. ASSUME NEW p \in Objects, p # o
        PROVE  Sh(b)[p] = Sh(a)[p] /\ By(b)[p] = By(a)[p]
    BY <1>3, <2>2 DEF Sh, By, Shadowing, ShadowedBy, IsFlagged
  <2>3. Sh(b) \in [Objects -> ObjectOrNone] /\ By(b) \in [Objects -> ObjectOrNone]
    BY <1>6, AnnotatedFacts
  <2> QED
    BY <1>1, <2>1, <2>2, <2>3
<1> QED
  BY <1>3, <1>6, <1>7, <1>8

LEMMA SetShadowingFacts ==
  ASSUME NEW a, Annotated(a), NEW o \in a.flagged, NEW x \in ObjectOrNone
  PROVE  /\ Annotated(SetShadowing(a, o, x)) /\ SetShadowing(a, o, x).flagged = a.flagged
         /\ SameActs(SetShadowing(a, o, x), a)
         /\ Sh(SetShadowing(a, o, x)) = [Sh(a) EXCEPT ![o] = x]
         /\ By(SetShadowing(a, o, x)) = By(a)
<1> DEFINE s == [a.sent[o][1] EXCEPT !.link = x]
           b == SetShadowing(a, o, x)
<1>1. /\ a = [sent |-> a.sent, flagged |-> a.flagged] /\ a.sent \in [Objects -> Seq(Sentences)]
      /\ a.sent[o][1] \in Sentences /\ 1 \in DOMAIN a.sent[o] /\ o \in Objects
      /\ a.sent[o][1].type = "shadow" /\ a.sent[o][1].shadowOb = None
      /\ By(a)[o] = a.sent[o][1].ob /\ By(a) \in [Objects -> ObjectOrNone]
  BY AnnotatedFacts
<1>2. /\ s \in Sentences /\ s.type = "shadow" /\ s.shadowOb = None
      /\ s.link = x /\ s.ob = By(a)[o]
  BY <1>1 DEF Sentences
<1>3. b = [sent |-> [a.sent EXCEPT ![o] = [a.sent[o] EXCEPT ![1] = s]], flagged |-> a.flagged]
  <2>1. b = [a EXCEPT !.sent = [a.sent EXCEPT ![o] = [a.sent[o] EXCEPT ![1] = s]]]
    BY Zenon DEF SetShadowing
  <2> HIDE DEF b, s
  <2> QED
    BY <1>1, <2>1, OtherSent
<1>4. [By(a) EXCEPT ![o] = By(a)[o]] = By(a)
  BY <1>1
<1> HIDE DEF s, b
<1>5. /\ Annotated(b) /\ b.flagged = a.flagged /\ SameActs(b, a)
      /\ Sh(b) = [Sh(a) EXCEPT ![o] = x] /\ By(b) = [By(a) EXCEPT ![o] = By(a)[o]]
  BY <1>2, <1>3, NewLinks
<1> QED
  BY <1>4, <1>5 DEF b

LEMMA SetShadowedByFacts ==
  ASSUME NEW a, Annotated(a), NEW o \in a.flagged, NEW x \in ObjectOrNone
  PROVE  /\ Annotated(SetShadowedBy(a, o, x)) /\ SetShadowedBy(a, o, x).flagged = a.flagged
         /\ SameActs(SetShadowedBy(a, o, x), a)
         /\ Sh(SetShadowedBy(a, o, x)) = Sh(a)
         /\ By(SetShadowedBy(a, o, x)) = [By(a) EXCEPT ![o] = x]
<1> DEFINE s == [a.sent[o][1] EXCEPT !.ob = x]
           b == SetShadowedBy(a, o, x)
<1>1. /\ a = [sent |-> a.sent, flagged |-> a.flagged] /\ a.sent \in [Objects -> Seq(Sentences)]
      /\ a.sent[o][1] \in Sentences /\ 1 \in DOMAIN a.sent[o] /\ o \in Objects
      /\ a.sent[o][1].type = "shadow" /\ a.sent[o][1].shadowOb = None
      /\ Sh(a)[o] = a.sent[o][1].link /\ Sh(a) \in [Objects -> ObjectOrNone]
  BY AnnotatedFacts
<1>2. /\ s \in Sentences /\ s.type = "shadow" /\ s.shadowOb = None
      /\ s.ob = x /\ s.link = Sh(a)[o]
  BY <1>1 DEF Sentences
<1>3. b = [sent |-> [a.sent EXCEPT ![o] = [a.sent[o] EXCEPT ![1] = s]], flagged |-> a.flagged]
  <2>1. b = [a EXCEPT !.sent = [a.sent EXCEPT ![o] = [a.sent[o] EXCEPT ![1] = s]]]
    BY Zenon DEF SetShadowedBy
  <2> HIDE DEF b, s
  <2> QED
    BY <1>1, <2>1, OtherSent
<1>4. [Sh(a) EXCEPT ![o] = Sh(a)[o]] = Sh(a)
  BY <1>1
<1> HIDE DEF s, b
<1>5. /\ Annotated(b) /\ b.flagged = a.flagged /\ SameActs(b, a)
      /\ Sh(b) = [Sh(a) EXCEPT ![o] = Sh(a)[o]] /\ By(b) = [By(a) EXCEPT ![o] = x]
  BY <1>2, <1>3, NewLinks
<1> QED
  BY <1>4, <1>5 DEF b

\* What the operators of Objects say, in these terms.
LEMMA ViewFacts ==
  ASSUME NEW a, NEW o \in Objects
  PROVE  /\ Shadowing(a, o) = Sh(a)[o] /\ ShadowedBy(a, o) = By(a)[o]
         /\ Bottom(a, o) = End(Sh(a), o) /\ Top(a, o) = End(By(a), o)
<1>1. \A x \in Objects : Shadowing(a, x) = Sh(a)[x] /\ ShadowedBy(a, x) = By(a)[x]
  BY DEF Sh, By
<1>2. [x \in Objects |-> IF Shadowing(a, x) = None THEN x ELSE Shadowing(a, x)]
        = [x \in Objects |-> IF Sh(a)[x] = None THEN x ELSE Sh(a)[x]]
  BY <1>1
<1>3. [x \in Objects |-> IF ShadowedBy(a, x) = None THEN x ELSE ShadowedBy(a, x)]
        = [x \in Objects |-> IF By(a)[x] = None THEN x ELSE By(a)[x]]
  BY <1>1
<1>4. Bottom(a, o) = End(Sh(a), o)
  BY <1>2 DEF Bottom, Chain, End
<1>5. Top(a, o) = End(By(a), o)
  BY <1>3 DEF Top, End
<1> QED
  BY <1>1, <1>4, <1>5

\* Who has something below shadows it, and stands on the same bottom.
LEMMA BelowFacts ==
  ASSUME NEW a, Sh(a) \in [Objects -> ObjectOrNone], Acyclic(Sh(a)),
         NEW o \in Objects, NEW x \in Below(a, o)
  PROVE  x \in Objects /\ Sh(a)[o] # None /\ End(Sh(a), x) = End(Sh(a), o)
<1> DEFINE sh == Sh(a)
           N == Cardinality(Objects)
           next == [y \in Objects |-> IF sh[y] = None THEN y ELSE sh[y]]
           g == Steps(next, o)
<1>1. next \in [Objects -> Objects]
  BY DEF ObjectOrNone
<1>2. \A y \in Objects : /\ next[y] \in Objects
                         /\ sh[y] = None => next[y] = y
                         /\ End(sh, next[y]) = End(sh, y)
  BY <1>1, EndFacts
<1>3. Chain(a, o) = g
  <2>1. \A y \in Objects : Shadowing(a, y) = sh[y]
    BY ViewFacts
  <2>2. [y \in Objects |-> IF Shadowing(a, y) = None THEN y ELSE Shadowing(a, y)] = next
    BY <2>1
  <2> QED
    BY <2>2 DEF Chain
<1> HIDE DEF next
<1>4. /\ N \in Nat /\ g \in [0 .. N -> Objects] /\ g[0] = o
      /\ \A n \in 1 .. N : g[n] = next[g[n - 1]]
  BY <1>1, StepsFacts
<1> HIDE DEF g, N, sh
<1> DEFINE T == {n \in 0 .. N : End(sh, g[n]) = End(sh, o) /\ (sh[o] = None => g[n] = o)}
<1>5. \A n \in 0 .. N : n \in T
  <2>1. 0 \in T
    BY <1>4
  <2>2. ASSUME NEW n \in 0 .. N, n < N, n \in T
        PROVE  n + 1 \in T
    <3>1. n + 1 \in 1 .. N /\ n + 1 \in 0 .. N /\ (n + 1) - 1 = n
      BY <1>4, <2>2
    <3>2. g[n] \in Objects /\ g[n + 1] = next[g[n]]
      BY <1>4, <3>1
    <3> QED
      BY <1>2, <2>2, <3>1, <3>2
  <2> HIDE DEF T
  <2> QED
    BY <1>4, <2>1, <2>2, InductionUpTo
<1>6. PICK n \in 0 .. N : x = g[n] /\ x # o
  BY <1>3, <1>4 DEF Below
<1>7. n \in T /\ x \in Objects
  BY <1>4, <1>5, <1>6
<1> QED
  BY <1>6, <1>7 DEF sh

\* b is a with another list for o, with or without a shadow sentence.
OtherList(b, a, o, new, flags) ==
  /\ new \in Seq(Sentences) /\ flags \in SUBSET Objects /\ flags \ {o} = a.flagged \ {o}
  /\ o \in flags => new # << >>
  /\ \A i \in DOMAIN new : /\ new[i].type = "shadow" <=> i = 1 /\ o \in flags
                           /\ new[i].type = "shadow" => new[i].shadowOb = None
  /\ b = [sent |-> [a.sent EXCEPT ![o] = new], flagged |-> flags]

LEMMA OneList ==
  ASSUME NEW a, Annotated(a), NEW o \in Objects, NEW new, NEW flags, NEW b,
         OtherList(b, a, o, new, flags)
  PROVE  /\ Annotated(b) /\ b.flagged = flags /\ b.sent[o] = new
         /\ \A p \in Objects \ {o} : /\ Acts(b, p) = Acts(a, p)
                                     /\ Sh(b)[p] = Sh(a)[p] /\ By(b)[p] = By(a)[p]
         /\ \A s : s \in Acts(b, o) <=> \E i \in DOMAIN new : s = new[i] /\ s.type = "action"
<1>0. /\ new \in Seq(Sentences) /\ flags \in SUBSET Objects /\ flags \ {o} = a.flagged \ {o}
      /\ o \in flags => new # << >>
      /\ \A i \in DOMAIN new : /\ new[i].type = "shadow" <=> i = 1 /\ o \in flags
                               /\ new[i].type = "shadow" => new[i].shadowOb = None
      /\ b = [sent |-> [a.sent EXCEPT ![o] = new], flagged |-> flags]
  BY DEF OtherList
<1>1. /\ a.sent \in [Objects -> Seq(Sentences)] /\ a.flagged \subseteq Objects
  BY AnnotatedFacts
<1>2. /\ b.flagged = flags /\ b.sent \in [Objects -> Seq(Sentences)]
      /\ b \in [sent : [Objects -> Seq(Sentences)], flagged : SUBSET Objects]
      /\ b.sent[o] = new /\ \A p \in Objects : p # o => b.sent[p] = a.sent[p]
  BY <1>0, <1>1
<1>3. \A p \in Objects \ {o} : b.sent[p] = a.sent[p] /\ (p \in b.flagged <=> p \in a.flagged)
  BY <1>0, <1>2
<1>4. ASSUME NEW p \in Objects
      PROVE  /\ p \in b.flagged => b.sent[p] # << >>
             /\ \A i \in DOMAIN b.sent[p] :
                  /\ b.sent[p][i].type = "shadow" <=> i = 1 /\ p \in b.flagged
                  /\ b.sent[p][i].type = "shadow" => b.sent[p][i].shadowOb = None
  <2>1. CASE p = o
    <3>1. b.sent[p] = new /\ b.flagged = flags
      BY <1>2, <2>1
    <3> QED
      BY <1>0, <2>1, <3>1, Zenon
  <2>2. CASE p # o
    <3>1. b.sent[p] = a.sent[p] /\ (p \in b.flagged <=> p \in a.flagged)
      BY <1>3, <2>2
    <3>2. /\ p \in a.flagged => a.sent[p] # << >>
          /\ \A i \in DOMAIN a.sent[p] :
               /\ a.sent[p][i].type = "shadow" <=> i = 1 /\ p \in a.flagged
               /\ a.sent[p][i].type = "shadow" => a.sent[p][i].shadowOb = None
      BY Zenon DEF Annotated
    <3> QED
      BY <3>1, <3>2, Zenon
  <2> QED
    BY <2>1, <2>2
<1>5. Annotated(b)
  BY <1>2, <1>4, Zenon DEF Annotated
<1>6. ASSUME NEW p \in Objects \ {o}
      PROVE  Acts(b, p) = Acts(a, p) /\ Sh(b)[p] = Sh(a)[p] /\ By(b)[p] = By(a)[p]
  BY <1>3 DEF Acts, Sh, By, Shadowing, ShadowedBy, IsFlagged
<1>7. \A s : s \in Acts(b, o) <=> \E i \in DOMAIN new : s = new[i] /\ s.type = "action"
  BY <1>2, <1>5, ActsFacts
<1> QED
  BY <1>2, <1>5, <1>6, <1>7

\* assert_shadow_sent(): nothing that is there changes.
LEMMA AssertFacts ==
  ASSUME NEW a, Annotated(a), NEW o \in Objects, NEW b, b = AssertShadowSent(a, o)
  PROVE  /\ Annotated(b) /\ b.flagged = a.flagged \cup {o}
         /\ Sh(b) = Sh(a) /\ By(b) = By(a) /\ SameActs(b, a)
<1>1. CASE o \in a.flagged
  <2>1. b = a /\ a.flagged = a.flagged \cup {o}
    BY <1>1 DEF AssertShadowSent, IsFlagged
  <2> QED
    BY <2>1 DEF SameActs
<1>2. CASE o \notin a.flagged
  <2> DEFINE old == a.sent[o]
             one == <<ShadowSentence>>
             new == one \o old
             flags == a.flagged \cup {o}
  <2>1. /\ a = [sent |-> a.sent, flagged |-> a.flagged] /\ a.sent \in [Objects -> Seq(Sentences)]
        /\ a.flagged \subseteq Objects
        /\ old \in Seq(Sentences) /\ Len(old) \in Nat /\ DOMAIN old = 1 .. Len(old)
        /\ Sh(a)[o] = None /\ By(a)[o] = None
        /\ Sh(a) \in [Objects -> ObjectOrNone] /\ By(a) \in [Objects -> ObjectOrNone]
    BY <1>2, AnnotatedFacts
  <2>2. b = [sent |-> [a.sent EXCEPT ![o] = new], flagged |-> flags]
    BY <1>2, <2>1 DEF AssertShadowSent, IsFlagged
  <2>3. /\ ShadowSentence \in Sentences /\ ShadowSentence.type = "shadow"
        /\ ShadowSentence.link = None /\ ShadowSentence.ob = None
        /\ ShadowSentence.shadowOb = None
    BY DEF ShadowSentence, Sentences, ObjectOrNone
  <2>4. \A i \in DOMAIN old : old[i].type # "shadow"
    BY <1>2 DEF Annotated
  <2>5. one \in Seq(Sentences) /\ Len(one) = 1 /\ one[1] = ShadowSentence
    BY <2>3
  <2> HIDE DEF old, one
  <2>6. /\ new \in Seq(Sentences) /\ Len(new) = 1 + Len(old) /\ new[1] = ShadowSentence
        /\ \A i \in 2 .. Len(old) + 1 : new[i] = old[i - 1]
    <3>1. /\ new \in Seq(Sentences) /\ Len(new) = Len(one) + Len(old)
          /\ \A i \in 1 .. Len(one) + Len(old) :
               new[i] = IF i <= Len(one) THEN one[i] ELSE old[i - Len(one)]
      BY <2>1, <2>5, ConcatProperties
    <3> HIDE DEF new
    <3>2. Len(new) = 1 + Len(old)
      BY <2>5, <3>1
    <3>4. new[1] = ShadowSentence
      <4>1. 1 \in 1 .. Len(one) + Len(old) /\ 1 <= Len(one)
        BY <2>1, <2>5
      <4>2. new[1] = one[1]
        BY <3>1, <4>1
      <4> QED
        BY <2>5, <4>2
    <3>3. \A i \in 2 .. Len(old) + 1 : new[i] = old[i - 1]
      BY <2>1, <2>5, <3>1
    <3> QED
      BY <3>1, <3>2, <3>3, <3>4
  <2>7. DOMAIN new = 1 .. Len(old) + 1 /\ new # << >>
    BY <2>1, <2>6, LenProperties
  <2> HIDE DEF new
  <2>8. \A i \in DOMAIN new : /\ new[i].type = "shadow" <=> i = 1 /\ o \in flags
                              /\ new[i].type = "shadow" => new[i].shadowOb = None
    <3> TAKE i \in DOMAIN new
    <3>1. CASE i = 1
      BY <2>3, <2>6, <3>1
    <3>2. CASE i # 1
      <4>1. i \in 2 .. Len(old) + 1 /\ i - 1 \in DOMAIN old
        BY <2>1, <2>7, <3>2
      <4> QED
        BY <2>4, <2>6, <3>2, <4>1
    <3> QED
      BY <3>1, <3>2
  <2>9. flags \in SUBSET Objects /\ flags \ {o} = a.flagged \ {o} /\ o \in flags
    BY <2>1
  <2> HIDE DEF flags
  <2>. OtherList(b, a, o, new, flags)
    BY <2>2, <2>5, <2>6, <2>7, <2>8, <2>9, Zenon DEF OtherList
  <2>10. /\ Annotated(b) /\ b.flagged = flags /\ b.sent[o] = new
         /\ \A p \in Objects \ {o} : /\ Acts(b, p) = Acts(a, p)
                                     /\ Sh(b)[p] = Sh(a)[p] /\ By(b)[p] = By(a)[p]
         /\ \A s : s \in Acts(b, o) <=> \E i \in DOMAIN new : s = new[i] /\ s.type = "action"
    BY OneList
  <2>11. Sh(b)[o] = None /\ By(b)[o] = None
    BY <2>3, <2>6, <2>9, <2>10, AnnotatedFacts
  <2>12. Sh(b) = Sh(a) /\ By(b) = By(a)
    <3>1. Sh(b) \in [Objects -> ObjectOrNone] /\ By(b) \in [Objects -> ObjectOrNone]
      BY <2>10, AnnotatedFacts
    <3>2. \A p \in Objects : Sh(b)[p] = Sh(a)[p] /\ By(b)[p] = By(a)[p]
      BY <2>1, <2>10, <2>11
    <3> QED
      BY <2>1, <3>1, <3>2
  <2>13. Acts(b, o) = Acts(a, o)
    <3>1. \A s : s \in Acts(a, o) <=> \E i \in DOMAIN old : s = old[i] /\ s.type = "action"
      BY ActsFacts DEF old
    <3>2. \A i \in DOMAIN new : i = 1 \/ (i - 1 \in DOMAIN old /\ new[i] = old[i - 1])
      <4> TAKE i \in DOMAIN new
      <4>1. i = 1 \/ (i \in 2 .. Len(old) + 1 /\ i - 1 \in DOMAIN old)
        BY <2>1, <2>7
      <4> QED
        BY <2>6, <4>1
    <3>3. \A i \in DOMAIN old : i + 1 \in DOMAIN new /\ new[i + 1] = old[i]
      <4> TAKE i \in DOMAIN old
      <4>1. i + 1 \in 2 .. Len(old) + 1 /\ (i + 1) - 1 = i /\ i + 1 \in DOMAIN new
        BY <2>1, <2>7
      <4> QED
        BY <2>6, <4>1
    <3>4. Acts(b, o) \subseteq Acts(a, o)
      BY <2>3, <2>6, <2>10, <3>1, <3>2
    <3>5. Acts(a, o) \subseteq Acts(b, o)
      BY <2>10, <3>1, <3>3
    <3> QED
      BY <3>4, <3>5
  <2> QED
    BY <2>10, <2>12, <2>13 DEF SameActs, flags
<1> QED
  BY <1>1, <1>2

\* check_shadow_sent(): a sentence goes that says nothing.
LEMMA CheckFacts ==
  ASSUME NEW a, Annotated(a), NEW o \in Objects, NEW ips, NEW b, b = CheckShadowSent(a, o, ips)
  PROVE  /\ Annotated(b) /\ Sh(b) = Sh(a) /\ By(b) = By(a) /\ SameActs(b, a)
         /\ b.flagged \subseteq a.flagged /\ Needed(b, o, ips)
         /\ \A p \in a.flagged : p # o => p \in b.flagged
<1>0. Shadowing(a, o) = Sh(a)[o] /\ ShadowedBy(a, o) = By(a)[o]
  BY ViewFacts
<1>1. CASE ~(o \in a.flagged /\ o \notin ips /\ Sh(a)[o] = None /\ By(a)[o] = None)
  <2>1. b = a
    BY <1>0, <1>1 DEF CheckShadowSent, IsFlagged
  <2> QED
    BY <1>1, <2>1 DEF SameActs, Needed
<1>2. CASE o \in a.flagged /\ o \notin ips /\ Sh(a)[o] = None /\ By(a)[o] = None
  <2> DEFINE old == a.sent[o]
             new == Tail(old)
             flags == a.flagged \ {o}
  <2>1. /\ a = [sent |-> a.sent, flagged |-> a.flagged] /\ a.sent \in [Objects -> Seq(Sentences)]
        /\ a.flagged \subseteq Objects
        /\ old \in Seq(Sentences) /\ Len(old) \in Nat /\ DOMAIN old = 1 .. Len(old)
        /\ 1 \in DOMAIN old /\ old[1].type = "shadow"
        /\ Sh(a) \in [Objects -> ObjectOrNone] /\ By(a) \in [Objects -> ObjectOrNone]
    BY <1>2, AnnotatedFacts
  <2>2. b = [sent |-> [a.sent EXCEPT ![o] = new], flagged |-> flags]
    BY <1>0, <1>2, <2>1 DEF CheckShadowSent, IsFlagged
  <2>3. \A i \in DOMAIN old : i # 1 => old[i].type # "shadow"
    BY DEF Annotated
  <2> HIDE DEF old
  <2>4. old # << >>
    BY <2>1
  <2>5. /\ new \in Seq(Sentences) /\ Len(new) = Len(old) - 1
        /\ \A i \in 1 .. Len(new) : new[i] = old[i + 1]
    BY <2>1, <2>4, HeadTailProperties
  <2>6. DOMAIN new = 1 .. Len(old) - 1
    BY <2>5, LenProperties
  <2> HIDE DEF new
  <2>7. \A i \in DOMAIN new : i + 1 \in DOMAIN old /\ i + 1 # 1 /\ new[i] = old[i + 1]
    BY <2>1, <2>5, <2>6
  <2>9. flags \in SUBSET Objects /\ flags \ {o} = a.flagged \ {o} /\ o \notin flags
    BY <2>1
  <2> HIDE DEF flags
  <2>8. \A i \in DOMAIN new : /\ new[i].type = "shadow" <=> i = 1 /\ o \in flags
                              /\ new[i].type = "shadow" => new[i].shadowOb = None
    BY <2>3, <2>7, <2>9
  <2>. OtherList(b, a, o, new, flags)
    BY <2>2, <2>5, <2>6, <2>7, <2>8, <2>9, Zenon DEF OtherList
  <2>10. /\ Annotated(b) /\ b.flagged = flags /\ b.sent[o] = new
         /\ \A p \in Objects \ {o} : /\ Acts(b, p) = Acts(a, p)
                                     /\ Sh(b)[p] = Sh(a)[p] /\ By(b)[p] = By(a)[p]
         /\ \A s : s \in Acts(b, o) <=> \E i \in DOMAIN new : s = new[i] /\ s.type = "action"
    BY OneList
  <2>11. Sh(b)[o] = None /\ By(b)[o] = None
    BY <2>9, <2>10, AnnotatedFacts
  <2>12. Sh(b) = Sh(a) /\ By(b) = By(a)
    <3>1. Sh(b) \in [Objects -> ObjectOrNone] /\ By(b) \in [Objects -> ObjectOrNone]
      BY <2>10, AnnotatedFacts
    <3>2. \A p \in Objects : Sh(b)[p] = Sh(a)[p] /\ By(b)[p] = By(a)[p]
      BY <1>2, <2>10, <2>11
    <3> QED
      BY <2>1, <3>1, <3>2
  <2>13. Acts(b, o) = Acts(a, o)
    <3>1. \A s : s \in Acts(a, o) <=> \E i \in DOMAIN old : s = old[i] /\ s.type = "action"
      BY ActsFacts DEF old
    <3>2. \A i \in DOMAIN old : i # 1 => \E j \in DOMAIN new : new[j] = old[i]
      <4> TAKE i \in DOMAIN old
      <4> HAVE i # 1
      <4>1. i - 1 \in DOMAIN new /\ (i - 1) + 1 = i
        BY <2>1, <2>6
      <4>2. new[i - 1] = old[i]
        BY <2>7, <4>1
      <4> QED
        BY <4>1, <4>2
    <3>4. Acts(b, o) \subseteq Acts(a, o)
      BY <2>7, <2>10, <3>1
    <3>5. Acts(a, o) \subseteq Acts(b, o)
      BY <2>1, <2>10, <3>1, <3>2
    <3> QED
      BY <3>4, <3>5
  <2> QED
    BY <2>1, <2>9, <2>10, <2>12, <2>13 DEF SameActs, flags, Needed
<1> QED
  BY <1>1, <1>2

\* remove_action_sent()
LEMMA RemoveActionFacts ==
  ASSUME NEW a, Annotated(a), NEW ob \in Objects, NEW players,
         \A p \in Objects : By(a)[p] # ob,
         NEW b, b = RemoveActionSent(a, ob, players)
  PROVE  Fewer(b, a) /\ \A p \in Objects \cap players : \A s \in Acts(b, p) : s.ob # ob
<1> DEFINE keep == [p \in Objects |-> IF p \in players THEN {i \in DOMAIN a.sent[p] : a.sent[p][i].ob # ob}
                                      ELSE DOMAIN a.sent[p]]
           sent == [p \in Objects |->
                      IF p \in players
                      THEN KeepAt(a.sent[p], {i \in DOMAIN a.sent[p] : a.sent[p][i].ob # ob})
                      ELSE a.sent[p]]
<1>1. a = [sent |-> a.sent, flagged |-> a.flagged] /\ a.flagged \subseteq Objects
  BY AnnotatedFacts
<1>2. b = [a EXCEPT !.sent = sent]
  BY Zenon DEF RemoveActionSent
<1>3. \A p \in Objects : /\ p \in players => keep[p] = {i \in DOMAIN a.sent[p] : a.sent[p][i].ob # ob}
                         /\ p \notin players => keep[p] = DOMAIN a.sent[p]
                         /\ p \in players => sent[p] = KeepAt(a.sent[p], keep[p])
                         /\ p \notin players => sent[p] = a.sent[p]
  OBVIOUS
<1>4. sent = [p \in Objects |-> sent[p]]
  OBVIOUS
<1> HIDE DEF keep, sent
<1>5. b = [sent |-> sent, flagged |-> a.flagged]
  BY <1>1, <1>2, OtherSent
<1>6. \A p \in Objects : Kept(sent[p], a.sent[p], keep[p])
  <2> TAKE p \in Objects
  <2>1. a.sent[p] \in Seq(Sentences)
    BY AnnotatedFacts
  <2> QED
    BY <1>3, <2>1, KeptFacts
<1>7. \A p \in a.flagged : 1 \in keep[p]
  <2> TAKE p \in a.flagged
  <2>1. 1 \in DOMAIN a.sent[p] /\ a.sent[p][1].ob = By(a)[p] /\ p \in Objects
    BY <1>1, AnnotatedFacts
  <2> QED
    BY <1>3, <2>1
<1>8. b.sent = sent /\ b.flagged = a.flagged
  BY <1>5
<1>9. /\ Fewer(b, a)
      /\ \A p \in Objects : \A s \in Acts(b, p) :
           \E i \in DOMAIN a.sent[p] \cap keep[p] : s = a.sent[p][i] /\ s.type = "action"
  <2>1. b = [sent |-> b.sent, flagged |-> a.flagged] /\ DOMAIN b.sent = Objects
    BY <1>4, <1>5, <1>8
  <2>2. b.sent = [p \in Objects |-> b.sent[p]]
    BY <1>4, <1>8
  <2>3. \A p \in Objects : Kept(b.sent[p], a.sent[p], keep[p])
    BY <1>6, <1>8
  <2> QED
    BY <1>7, <2>1, <2>2, <2>3, FilterKeeps
<1> QED
  BY <1>3, <1>9

\* Those that have actions of a shadow which target has at the bottom of its chain.
Reached(a, shadow, target) ==
  LET t == End(Sh(a), target)
  IN  {t} \cup ((Inside(t) \cup Siblings(t)) \ {shadow}) \cup ({super[t]} \ {None})

\* remove_shadow_actions()
LEMMA RemoveShadowFacts ==
  ASSUME NEW a, Annotated(a), NEW shadow, shadow # None, NEW target \in Objects,
         NEW b, b = RemoveShadowActions(a, shadow, target)
  PROVE  /\ Fewer(b, a)
         /\ \A p \in Objects \cap Reached(a, shadow, target) :
              \A s \in Acts(b, p) : s.shadowOb # shadow
<1> DEFINE players == Reached(a, shadow, target)
           keep == [p \in Objects |-> IF p \in players
                                      THEN {i \in DOMAIN a.sent[p] : a.sent[p][i].shadowOb # shadow}
                                      ELSE DOMAIN a.sent[p]]
           sent == [p \in Objects |-> IF p \in players THEN NotOfShadow(a.sent[p], shadow)
                                      ELSE a.sent[p]]
<1>0. Bottom(a, target) = End(Sh(a), target)
  BY ViewFacts
<1>1. a = [sent |-> a.sent, flagged |-> a.flagged] /\ a.flagged \subseteq Objects
  BY AnnotatedFacts
<1>2. b = [a EXCEPT !.sent = sent]
  <2> DEFINE t == Bottom(a, target)
             q == {t} \cup ((Inside(t) \cup Siblings(t)) \ {shadow}) \cup ({super[t]} \ {None})
  <2>1. b = [a EXCEPT !.sent = [p \in Objects |-> IF p \in q THEN NotOfShadow(a.sent[p], shadow)
                                                  ELSE a.sent[p]]]
    BY Zenon DEF RemoveShadowActions
  <2>2. q = players
    BY <1>0 DEF Reached
  <2> HIDE DEF q, players
  <2> QED
    BY <2>1, <2>2
<1> HIDE DEF players
<1>3. \A p \in Objects :
        /\ p \in players => keep[p] = {i \in DOMAIN a.sent[p] : a.sent[p][i].shadowOb # shadow}
        /\ p \notin players => keep[p] = DOMAIN a.sent[p]
        /\ p \in players => sent[p] = KeepAt(a.sent[p], keep[p])
        /\ p \notin players => sent[p] = a.sent[p]
  BY DEF NotOfShadow
<1>4. sent = [p \in Objects |-> sent[p]]
  OBVIOUS
<1> HIDE DEF keep, sent
<1>5. b = [sent |-> sent, flagged |-> a.flagged]
  BY <1>1, <1>2, OtherSent
<1>6. \A p \in Objects : Kept(sent[p], a.sent[p], keep[p])
  <2> TAKE p \in Objects
  <2>1. a.sent[p] \in Seq(Sentences)
    BY AnnotatedFacts
  <2> QED
    BY <1>3, <2>1, KeptFacts
<1>7. \A p \in a.flagged : 1 \in keep[p]
  <2> TAKE p \in a.flagged
  <2>1. 1 \in DOMAIN a.sent[p] /\ a.sent[p][1].shadowOb = None /\ p \in Objects
    BY <1>1, AnnotatedFacts
  <2> QED
    BY <1>3, <2>1
<1>8. b.sent = sent /\ b.flagged = a.flagged
  BY <1>5
<1>9. /\ Fewer(b, a)
      /\ \A p \in Objects : \A s \in Acts(b, p) :
           \E i \in DOMAIN a.sent[p] \cap keep[p] : s = a.sent[p][i] /\ s.type = "action"
  <2>1. b = [sent |-> b.sent, flagged |-> a.flagged] /\ DOMAIN b.sent = Objects
    BY <1>4, <1>5, <1>8
  <2>2. b.sent = [p \in Objects |-> b.sent[p]]
    BY <1>4, <1>8
  <2>3. \A p \in Objects : Kept(b.sent[p], a.sent[p], keep[p])
    BY <1>6, <1>8
  <2> QED
    BY <1>7, <2>1, <2>2, <2>3, FilterKeeps
<1> QED
  BY <1>3, <1>9 DEF players

\* remove_environment_sent(): what it keeps, it keeps for the first of a run.
LEMMA RemoveEnvironmentFacts ==
  ASSUME NEW a, Annotated(a), NEW player \in Objects,
         NEW b, b = RemoveEnvironmentSent(a, player)
  PROVE  /\ Fewer(b, a) /\ \A p \in Objects \ {player} : Acts(b, p) = Acts(a, p)
         /\ \A s \in Acts(b, player) :
              \/ player \in a.flagged /\ s.ob = By(a)[player]
              \/ s.ob # super[player] /\ (s.ob = player \/ s.ob \notin Siblings(player))
<1> DEFINE s == a.sent[player]
           First(i) == CHOOSE j \in 1 .. i :
                         /\ \A k \in j .. i : s[k].ob = s[i].ob
                         /\ j = 1 \/ s[j - 1].ob # s[i].ob
           FromEnvironment(x) ==
             /\ x.type = "action"
             /\ \/ x.ob = super[player]
                \/ x.ob # player /\ x.ob \in Siblings(player)
           places == {i \in DOMAIN s : ~FromEnvironment(s[First(i)])}
           keep == [p \in Objects |-> IF p = player THEN places ELSE DOMAIN a.sent[p]]
           sent == [a.sent EXCEPT ![player] = KeepAt(s, places)]
<1>1. /\ a = [sent |-> a.sent, flagged |-> a.flagged] /\ a.flagged \subseteq Objects
      /\ a.sent \in [Objects -> Seq(Sentences)]
      /\ s \in Seq(Sentences) /\ Len(s) \in Nat /\ DOMAIN s = 1 .. Len(s)
  BY AnnotatedFacts
<1>2. b = [a EXCEPT !.sent = sent]
  BY Zenon DEF RemoveEnvironmentSent
<1> HIDE DEF places, FromEnvironment
<1>3. /\ \A p \in Objects : p # player => keep[p] = DOMAIN a.sent[p] /\ sent[p] = a.sent[p]
      /\ keep[player] = places /\ sent[player] = KeepAt(s, places)
      /\ sent = [p \in Objects |-> sent[p]] /\ DOMAIN sent = Objects
  BY <1>1
<1> HIDE DEF keep, sent
<1>4. ASSUME NEW i \in DOMAIN s
      PROVE  First(i) \in DOMAIN s /\ s[First(i)].ob = s[i].ob /\ (i = 1 => First(i) = 1)
  <2> HIDE DEF s
  <2> DEFINE T == {j \in 1 .. i : \A k \in j .. i : s[k].ob = s[i].ob}
  <2>1. T \subseteq Nat /\ i \in T /\ i \in Nat
    BY <1>1
  <2>2. PICK j \in T : \A m \in T : j <= m
    <3> HIDE DEF T
    <3> QED
      BY <2>1, NatMin
  <2>3. j = 1 \/ s[j - 1].ob # s[i].ob
    <3>1. SUFFICES ASSUME j # 1, s[j - 1].ob = s[i].ob PROVE FALSE
      OBVIOUS
    <3>2. j - 1 \in T
      BY <2>1, <3>1
    <3> QED
      BY <2>1, <2>2, <3>2
  <2>4. j \in 1 .. i /\ \A k \in j .. i : s[k].ob = s[i].ob
    OBVIOUS
  <2>5. /\ First(i) \in 1 .. i
        /\ \A k \in First(i) .. i : s[k].ob = s[i].ob
    BY <2>3, <2>4
  <2> HIDE DEF First
  <2>6. First(i) \in First(i) .. i
    BY <2>1, <2>5
  <2> QED
    BY <1>1, <2>1, <2>5, <2>6
<1>5. b = [sent |-> sent, flagged |-> a.flagged]
  BY <1>1, <1>2, OtherSent
<1> HIDE DEF First
<1>6. \A p \in Objects : Kept(sent[p], a.sent[p], keep[p])
  <2> TAKE p \in Objects
  <2>1. a.sent[p] \in Seq(Sentences)
    BY AnnotatedFacts
  <2> QED
    BY <1>3, <2>1, KeptFacts
<1>7. \A p \in a.flagged : 1 \in keep[p]
  <2> TAKE p \in a.flagged
  <2>1. 1 \in DOMAIN a.sent[p] /\ a.sent[p][1].type = "shadow" /\ p \in Objects
    BY <1>1, AnnotatedFacts
  <2>2. CASE p = player
    <3>1. First(1) = 1 /\ 1 \in DOMAIN s /\ s[1].type = "shadow"
      BY <1>4, <2>1, <2>2
    <3>2. 1 \in places
      BY <3>1 DEF places, FromEnvironment
    <3> QED
      BY <1>3, <2>2, <3>2
  <2>3. CASE p # player
    BY <1>3, <2>1, <2>3
  <2> QED
    BY <2>2, <2>3
<1>8. b.sent = sent /\ b.flagged = a.flagged
  BY <1>5
<1>9. /\ Fewer(b, a)
      /\ \A p \in Objects : \A x \in Acts(b, p) :
           \E i \in DOMAIN a.sent[p] \cap keep[p] : x = a.sent[p][i] /\ x.type = "action"
  <2>1. b = [sent |-> b.sent, flagged |-> a.flagged] /\ DOMAIN b.sent = Objects
    BY <1>3, <1>5, <1>8
  <2>2. b.sent = [p \in Objects |-> b.sent[p]]
    BY <1>3, <1>8
  <2>3. \A p \in Objects : Kept(b.sent[p], a.sent[p], keep[p])
    BY <1>6, <1>8
  <2> QED
    BY <1>7, <2>1, <2>2, <2>3, FilterKeeps
<1>10. ASSUME NEW x \in Acts(b, player)
       PROVE  \/ player \in a.flagged /\ x.ob = By(a)[player]
              \/ x.ob # super[player] /\ (x.ob = player \/ x.ob \notin Siblings(player))
  <2>1. PICK i \in DOMAIN s : i \in places /\ x = s[i]
    BY <1>3, <1>9
  <2>2. First(i) \in DOMAIN s /\ s[First(i)].ob = x.ob /\ ~FromEnvironment(s[First(i)])
    BY <1>4, <2>1 DEF places
  <2>3. CASE s[First(i)].type = "action"
    BY <2>2, <2>3 DEF FromEnvironment
  <2>4. CASE s[First(i)].type # "action"
    <3>1. First(i) = 1 /\ player \in a.flagged
      BY <2>2, <2>4, ActsFacts
    <3>2. By(a)[player] = s[1].ob
      BY <3>1, AnnotatedFacts
    <3> QED
      BY <2>2, <3>1, <3>2
  <2> QED
    BY <2>3, <2>4
<1>11. ASSUME NEW p \in Objects \ {player}
       PROVE  Acts(b, p) = Acts(a, p)
  BY <1>3, <1>8 DEF Acts
<1> QED
  BY <1>9, <1>10, <1>11

\* Nothing removed.
LEMMA FewerThanItself ==
  ASSUME NEW a, Annotated(a)
  PROVE  Fewer(a, a)
BY DEF Fewer

\* The loop of destruct() over shadows, wherever the links lead it.
LEMMA LoopFacts ==
  ASSUME NEW a, Annotated(a), NEW ob \in Objects, NEW first \in ObjectOrNone,
         NEW end, end = RemoveShadowsActions(a, ob, first)
  PROVE  Fewer(end.ann, a)
<1> DEFINE N == Turns
           Body(w) == LET b == RemoveShadowActions(w.ann, w.shadow, ob)
                      IN  IF w.shadow = None THEN w
                          ELSE [ann |-> b,
                                shadow |-> IF b.sent[w.shadow] = << >> THEN None
                                           ELSE Head(b.sent[w.shadow]).ob]
           A == {x \in [sent : [Objects -> Seq(Sentences)], flagged : SUBSET Objects] : Fewer(x, a)}
           W == [ann : A, shadow : ObjectOrNone]
           start == [ann |-> a, shadow |-> first]
           F(f) == [n \in 0 .. N |-> IF n = 0 THEN start ELSE Body(f[n - 1])]
           next == [n \in 1 .. N |-> [w \in W |-> Body(w)]]
<1>1. N \in Nat
  BY ObjectsAssumption, FS_CardinalityType DEF Turns
<1>2. start \in W
  <2>1. a \in A
    BY FewerThanItself DEF Annotated
  <2> QED
    BY <2>1
<1>3. ASSUME NEW w \in W
      PROVE  Body(w) \in W
  <2>1. w.ann \in A /\ w.shadow \in ObjectOrNone
    OBVIOUS
  <2>2. CASE w.shadow = None
    BY <2>2
  <2>3. CASE w.shadow # None
    <3> DEFINE b == RemoveShadowActions(w.ann, w.shadow, ob)
               next1 == IF b.sent[w.shadow] = << >> THEN None ELSE Head(b.sent[w.shadow]).ob
    <3>1. Fewer(w.ann, a) /\ Annotated(w.ann)
      BY <2>1 DEF Fewer
    <3>2. Fewer(b, w.ann)
      BY <2>3, <3>1, RemoveShadowFacts
    <3> HIDE DEF b
    <3>3. Fewer(b, a) /\ Annotated(b)
      BY <3>1, <3>2, FewerThanFewer DEF Fewer
    <3>4. b \in A
      BY <3>3 DEF Annotated
    <3>5. next1 \in ObjectOrNone
      <4>1. w.shadow \in Objects
        BY <2>1, <2>3 DEF ObjectOrNone
      <4>2. b.sent[w.shadow] \in Seq(Sentences)
        BY <3>3, <4>1, AnnotatedFacts
      <4>3. b.sent[w.shadow] # << >> => Head(b.sent[w.shadow]) \in Sentences
        BY <4>2, HeadTailProperties
      <4> QED
        BY <4>3 DEF Sentences, ObjectOrNone
    <3> HIDE DEF next1, A
    <3>6. Body(w) = [ann |-> b, shadow |-> next1]
      BY <2>3 DEF b, next1
    <3> QED
      BY <3>4, <3>5, <3>6
  <2> QED
    BY <2>2, <2>3
<1> HIDE DEF Body, W, N, F, next, start
<1>4. PICK f \in [0 .. N -> W] : Iterates(f, next, start, N)
  <2>1. next \in [1 .. N -> [W -> W]]
    BY <1>3 DEF next
  <2> QED
    BY <1>1, <1>2, <2>1, IterationExists
<1>5. f = F(f)
  <2>1. f[0] = start /\ \A n \in 1 .. N : f[n] = next[n][f[n - 1]]
    BY <1>4 DEF Iterates
  <2>2. \A n \in 1 .. N : f[n - 1] \in W
    BY <1>1, <1>4
  <2>3. \A n \in 1 .. N : f[n] = Body(f[n - 1])
    BY <2>1, <2>2 DEF next
  <2>4. \A n \in 0 .. N : f[n] = F(f)[n]
    BY <1>1, <2>1, <2>3 DEF F
  <2>5. f = [n \in 0 .. N |-> f[n]] /\ F(f) = [n \in 0 .. N |-> F(f)[n]]
    BY <1>4 DEF F
  <2> QED
    BY <2>4, <2>5
<1>6. end = (CHOOSE g : g = F(g))[N]
  BY Zenon DEF RemoveShadowsActions, N, F, Body, start
<1> DEFINE h == CHOOSE g : g = F(g)
<1>7. h = F(h)
  BY <1>5
<1> HIDE DEF h
<1>8. h[0] = start /\ \A n \in 1 .. N : h[n] = Body(h[n - 1])
  <2>1. \A n \in 0 .. N : h[n] = F(h)[n]
    BY <1>7
  <2>2. \A n \in 0 .. N : F(h)[n] = IF n = 0 THEN start ELSE Body(h[n - 1])
    BY DEF F
  <2> QED
    BY <1>1, <2>1, <2>2
<1> DEFINE T == {n \in 0 .. N : h[n] \in W}
<1>9. N \in T
  <2>1. 0 \in T
    BY <1>1, <1>2, <1>8
  <2>2. \A n \in 0 .. N : n < N /\ n \in T => n + 1 \in T
    <3> TAKE n \in 0 .. N
    <3> HAVE n < N /\ n \in T
    <3>1. n + 1 \in 1 .. N /\ (n + 1) - 1 = n /\ n + 1 \in 0 .. N
      BY <1>1
    <3>2. h[n + 1] = Body(h[n])
      BY <1>8, <3>1
    <3> QED
      BY <1>3, <3>1, <3>2
  <2> HIDE DEF T
  <2> QED
    BY <1>1, <2>1, <2>2, InductionUpTo
<1>10. end \in W
  BY <1>6, <1>9 DEF h
<1> QED
  BY <1>10 DEF W

\* What InsertAt is.
LEMMA InsertAtFacts ==
  ASSUME NEW s \in Seq(Sentences), NEW e \in Sentences, NEW i \in 1 .. Len(s) + 1
  PROVE  /\ Len(s) \in Nat /\ DOMAIN s = 1 .. Len(s)
         /\ InsertAt(s, i, e) \in Seq(Sentences)
         /\ Len(InsertAt(s, i, e)) = Len(s) + 1
         /\ DOMAIN InsertAt(s, i, e) = 1 .. Len(s) + 1
         /\ InsertAt(s, i, e)[i] = e
         /\ \A j \in 1 .. i - 1 : InsertAt(s, i, e)[j] = s[j]
         /\ \A j \in i + 1 .. Len(s) + 1 : InsertAt(s, i, e)[j] = s[j - 1]
<1>1. Len(s) \in Nat /\ DOMAIN s = 1 .. Len(s) /\ i \in 1 .. Len(s) + 1
  BY LenProperties
<1>2. \A j \in 1 .. Len(s) : s[j] \in Sentences
  BY ElementOfSeq
<1> DEFINE a == SubSeq(s, 1, i - 1)
           b == SubSeq(s, i, Len(s))
           c == a \o <<e>>
<1>3. a \in Seq(Sentences) /\ Len(a) = i - 1 /\ \A j \in 1 .. i - 1 : a[j] = s[j]
  BY <1>1, <1>2, SubSeqProperties
<1>4. /\ b \in Seq(Sentences) /\ Len(b) = Len(s) - i + 1
      /\ \A j \in 1 .. Len(s) - i + 1 : b[j] = s[i + j - 1]
  BY <1>1, <1>2, SubSeqProperties
<1> HIDE DEF a, b
<1>5. <<e>> \in Seq(Sentences) /\ Len(<<e>>) = 1 /\ <<e>>[1] = e
  OBVIOUS
<1>6. /\ c \in Seq(Sentences) /\ Len(c) = Len(a) + 1
      /\ \A j \in 1 .. Len(a) + 1 : c[j] = IF j <= Len(a) THEN a[j] ELSE <<e>>[j - Len(a)]
  BY <1>3, <1>5, ConcatProperties
<1> HIDE DEF c
<1>7. /\ c \o b \in Seq(Sentences) /\ Len(c \o b) = Len(c) + Len(b)
      /\ \A j \in 1 .. Len(c) + Len(b) :
           (c \o b)[j] = IF j <= Len(c) THEN c[j] ELSE b[j - Len(c)]
  BY <1>4, <1>6, ConcatProperties
<1>8. InsertAt(s, i, e) = c \o b
  BY DEF InsertAt, a, b, c
<1>9. Len(c) = i /\ Len(c) + Len(b) = Len(s) + 1
  BY <1>1, <1>3, <1>4, <1>6
<1>10. c[i] = e /\ \A j \in 1 .. i - 1 : c[j] = s[j]
  BY <1>1, <1>3, <1>5, <1>6
<1>11. /\ \A j \in 1 .. i - 1 : (c \o b)[j] = s[j]
       /\ \A j \in i + 1 .. Len(s) + 1 : (c \o b)[j] = s[j - 1]
  <2>1. ASSUME NEW j \in 1 .. i - 1
        PROVE  (c \o b)[j] = s[j]
    BY <1>1, <1>7, <1>9, <1>10
  <2>2. ASSUME NEW j \in i + 1 .. Len(s) + 1
        PROVE  (c \o b)[j] = s[j - 1]
    <3>1. j - i \in 1 .. Len(s) - i + 1 /\ i + (j - i) - 1 = j - 1
      BY <1>1
    <3>2. (c \o b)[j] = b[j - i]
      BY <1>1, <1>7, <1>9
    <3> QED
      BY <1>4, <3>1, <3>2
  <2> QED
    BY <2>1, <2>2
<1>12. (c \o b)[i] = e
  BY <1>1, <1>7, <1>9, <1>10
<1>13. DOMAIN InsertAt(s, i, e) = 1 .. Len(s) + 1
  BY <1>7, <1>8, <1>9, LenProperties
<1> QED
  BY <1>1, <1>7, <1>8, <1>9, <1>11, <1>12, <1>13

\* An action more, after the shadow sentence.
WithAction(a, giver, ob, shadowOb) ==
  [a EXCEPT !.sent[giver] =
     InsertAt(@, IF IsFlagged(a, giver) THEN 2 ELSE 1, Action(ob, shadowOb))]

\* add_action(): one action more, behind the shadow sentence.
LEMMA AddActionFacts ==
  ASSUME NEW a, Annotated(a), NEW giver \in Objects, NEW ob \in Objects,
         NEW shadowOb \in ObjectOrNone,
         NEW b, b = WithAction(a, giver, ob, shadowOb)
  PROVE  /\ Annotated(b) /\ b.flagged = a.flagged /\ Sh(b) = Sh(a) /\ By(b) = By(a)
         /\ \A o \in Objects : \A s \in Acts(b, o) :
              s \in Acts(a, o) \/ (o = giver /\ s = Action(ob, shadowOb))
<1> DEFINE old == a.sent[giver]
           e == Action(ob, shadowOb)
           at == IF IsFlagged(a, giver) THEN 2 ELSE 1
           new == InsertAt(old, at, e)
<1>1. /\ a = [sent |-> a.sent, flagged |-> a.flagged] /\ a.flagged \subseteq Objects
      /\ a.sent \in [Objects -> Seq(Sentences)]
      /\ old \in Seq(Sentences) /\ Len(old) \in Nat /\ DOMAIN old = 1 .. Len(old)
      /\ \A i \in DOMAIN old : old[i] \in Sentences
      /\ giver \in a.flagged => 1 \in DOMAIN old
      /\ Sh(a) \in [Objects -> ObjectOrNone] /\ By(a) \in [Objects -> ObjectOrNone]
  BY AnnotatedFacts
<1>2. e \in Sentences /\ e.type = "action"
  BY DEF Action, Sentences, ObjectOrNone
<1>3. at \in 1 .. Len(old) + 1 /\ at \in 1 .. 2 /\ (at = 2 <=> giver \in a.flagged)
  <2> HIDE DEF old
  <2> QED
    BY <1>1 DEF IsFlagged
<1>4. b = [sent |-> [a.sent EXCEPT ![giver] = new], flagged |-> a.flagged]
  <2>1. b = [a EXCEPT !.sent = [a.sent EXCEPT ![giver] = new]]
    BY Zenon DEF WithAction
  <2> HIDE DEF new
  <2> QED
    BY <1>1, <2>1, OtherSent
<1> HIDE DEF old, e, at
<1>5. /\ new \in Seq(Sentences) /\ DOMAIN new = 1 .. Len(old) + 1 /\ new[at] = e
      /\ \A j \in 1 .. at - 1 : new[j] = old[j]
      /\ \A j \in at + 1 .. Len(old) + 1 : new[j] = old[j - 1]
  <2>1. at \in 1 .. Len(old) + 1 /\ e \in Sentences /\ old \in Seq(Sentences)
    BY <1>1, <1>2, <1>3
  <2> HIDE DEF new
  <2>2. /\ new \in Seq(Sentences) /\ DOMAIN new = 1 .. Len(old) + 1 /\ new[at] = e
        /\ \A j \in 1 .. at - 1 : new[j] = old[j]
        /\ \A j \in at + 1 .. Len(old) + 1 : new[j] = old[j - 1]
    <3>1. /\ InsertAt(old, at, e) \in Seq(Sentences)
          /\ DOMAIN InsertAt(old, at, e) = 1 .. Len(old) + 1
          /\ InsertAt(old, at, e)[at] = e
          /\ \A j \in 1 .. at - 1 : InsertAt(old, at, e)[j] = old[j]
          /\ \A j \in at + 1 .. Len(old) + 1 : InsertAt(old, at, e)[j] = old[j - 1]
      BY <2>1, InsertAtFacts
    <3>2. new = InsertAt(old, at, e)
      BY DEF new
    <3> QED
      BY <3>1, <3>2
  <2> QED
    BY <2>2
<1> HIDE DEF new
<1>6. \A i \in DOMAIN new : /\ i = at /\ new[i] = e
                            \/ /\ i < at /\ i = 1 /\ at = 2 /\ 1 \in DOMAIN old /\ new[i] = old[1]
                            \/ /\ i > at /\ i - 1 \in DOMAIN old /\ new[i] = old[i - 1]
  <2> TAKE i \in DOMAIN new
  <2>1. CASE i = at
    BY <1>5, <2>1
  <2>2. CASE i < at
    <3>1. i = 1 /\ at = 2 /\ i \in 1 .. at - 1
      BY <1>3, <1>5, <2>2
    <3> QED
      BY <1>1, <1>3, <1>5, <2>2, <3>1
  <2>3. CASE i > at
    <3>1. i \in at + 1 .. Len(old) + 1 /\ i - 1 \in DOMAIN old
      BY <1>1, <1>3, <1>5, <2>3
    <3> QED
      BY <1>5, <2>3, <3>1
  <2> QED
    BY <1>3, <1>5, <2>1, <2>2, <2>3
<1>7. \A i \in DOMAIN old : /\ old[i].type = "shadow" <=> i = 1 /\ giver \in a.flagged
                            /\ old[i].type = "shadow" => old[i].shadowOb = None
  BY Zenon DEF Annotated, old
<1>8. \A i \in DOMAIN new : /\ new[i].type = "shadow" <=> i = 1 /\ giver \in a.flagged
                            /\ new[i].type = "shadow" => new[i].shadowOb = None
  <2> TAKE i \in DOMAIN new
  <2>1. CASE i = at /\ new[i] = e
    BY <1>2, <1>3, <2>1
  <2>2. CASE i < at /\ i = 1 /\ at = 2 /\ 1 \in DOMAIN old /\ new[i] = old[1]
    BY <1>3, <1>7, <2>2
  <2>3. CASE i > at /\ i - 1 \in DOMAIN old /\ new[i] = old[i - 1]
    <3>1. i # 1 /\ ~(i - 1 = 1 /\ giver \in a.flagged)
      BY <1>3, <1>5, <2>3
    <3> QED
      BY <1>7, <2>3, <3>1
  <2> QED
    BY <1>6, <2>1, <2>2, <2>3
<1>9. new # << >>
  BY <1>3, <1>5
<1>14. OtherList(b, a, giver, new, a.flagged)
  BY <1>1, <1>4, <1>5, <1>8, <1>9, Zenon DEF OtherList
<1>10. /\ Annotated(b) /\ b.flagged = a.flagged /\ b.sent[giver] = new
       /\ \A p \in Objects \ {giver} : /\ Acts(b, p) = Acts(a, p)
                                       /\ Sh(b)[p] = Sh(a)[p] /\ By(b)[p] = By(a)[p]
       /\ \A s : s \in Acts(b, giver) <=> \E i \in DOMAIN new : s = new[i] /\ s.type = "action"
  BY <1>14, OneList
<1>11. Sh(b)[giver] = Sh(a)[giver] /\ By(b)[giver] = By(a)[giver]
  <2>1. CASE giver \in a.flagged
    <3>1. 1 \in 1 .. at - 1
      BY <1>3, <2>1
    <3>2. new[1] = old[1]
      BY <1>5, <3>1
    <3>3. /\ Sh(b)[giver] = b.sent[giver][1].link /\ By(b)[giver] = b.sent[giver][1].ob
          /\ Sh(a)[giver] = a.sent[giver][1].link /\ By(a)[giver] = a.sent[giver][1].ob
      BY <1>10, <2>1, AnnotatedFacts
    <3> QED
      BY <1>10, <3>2, <3>3 DEF old
  <2>2. CASE giver \notin a.flagged
    BY <1>10, <2>2, AnnotatedFacts
  <2> QED
    BY <2>1, <2>2
<1>12. Sh(b) = Sh(a) /\ By(b) = By(a)
  <2>1. Sh(b) \in [Objects -> ObjectOrNone] /\ By(b) \in [Objects -> ObjectOrNone]
    BY <1>10, AnnotatedFacts
  <2>2. \A p \in Objects : Sh(b)[p] = Sh(a)[p] /\ By(b)[p] = By(a)[p]
    BY <1>10, <1>11
  <2> QED
    BY <1>1, <2>1, <2>2
<1>13. ASSUME NEW s \in Acts(b, giver), s # e
       PROVE  s \in Acts(a, giver)
  <2>1. PICK i \in DOMAIN new : s = new[i] /\ s.type = "action"
    BY <1>10
  <2>2. \E j \in DOMAIN old : s = old[j]
    BY <1>6, <1>13, <2>1
  <2> QED
    BY <2>1, <2>2, ActsFacts DEF old
<1> QED
  BY <1>10, <1>12, <1>13 DEF e

\* What is in an inventory without x, and with x in front.
LEMMA WithoutFacts ==
  ASSUME NEW seq \in Seq(Objects), IsInjective(seq), NEW x
  PROVE  /\ Without(seq, x) \in Seq(Objects) /\ IsInjective(Without(seq, x))
         /\ ElementsOf(Without(seq, x)) = ElementsOf(seq) \ {x}
<1> DEFINE places == {i \in DOMAIN seq : seq[i] # x}
           t == KeepAt(seq, places)
<1> HIDE DEF places
<1>1. /\ t \in Seq(Objects) /\ IsInjective(t)
      /\ \A j \in DOMAIN t : \E i \in DOMAIN seq : i \in places /\ t[j] = seq[i]
      /\ \A i \in DOMAIN seq : i \in places => \E j \in DOMAIN t : t[j] = seq[i]
  <2>1. /\ KeepAt(seq, places) \in Seq(Objects)
        /\ \A j \in DOMAIN KeepAt(seq, places) :
             \E i \in DOMAIN seq :
               i \in places /\ j <= i /\ KeepAt(seq, places)[j] = seq[i]
        /\ \A i \in DOMAIN seq : i \in places =>
             \E j \in DOMAIN KeepAt(seq, places) : KeepAt(seq, places)[j] = seq[i]
        /\ IsInjective(seq) => IsInjective(KeepAt(seq, places))
    BY KeepAtFacts
  <2>2. QED
    BY <2>1
<1> HIDE DEF t
<1>2. Without(seq, x) = t
  BY DEF Without, t, places
<1>3. ElementsOf(t) = ElementsOf(seq) \ {x}
  BY <1>1 DEF ElementsOf, ToSet, places
<1> QED
  BY <1>1, <1>2, <1>3

LEMMA InFrontFacts ==
  ASSUME NEW seq \in Seq(Objects), IsInjective(seq), NEW x \in Objects, x \notin ElementsOf(seq)
  PROVE  /\ <<x>> \o seq \in Seq(Objects) /\ IsInjective(<<x>> \o seq)
         /\ ElementsOf(<<x>> \o seq) = ElementsOf(seq) \cup {x}
<1> DEFINE one == <<x>>
           t == one \o seq
<1>1. one \in Seq(Objects) /\ Len(one) = 1 /\ one[1] = x
  OBVIOUS
<1>2. Len(seq) \in Nat /\ DOMAIN seq = 1 .. Len(seq)
  BY LenProperties
<1> HIDE DEF one
<1>3. /\ t \in Seq(Objects) /\ Len(t) = Len(one) + Len(seq)
      /\ \A i \in 1 .. Len(one) + Len(seq) : t[i] = IF i <= Len(one) THEN one[i] ELSE seq[i - Len(one)]
  BY <1>1, ConcatProperties
<1> HIDE DEF t
<1>4. DOMAIN t = 1 .. Len(seq) + 1
  BY <1>1, <1>3, LenProperties
<1>5. 1 \in DOMAIN t /\ t[1] = x
  <2>1. 1 \in 1 .. Len(one) + Len(seq) /\ 1 <= Len(one)
    BY <1>1, <1>2
  <2>2. t[1] = one[1]
    BY <1>3, <2>1
  <2> QED
    BY <1>1, <1>2, <1>4, <2>2
<1>6. \A i \in DOMAIN t : i # 1 => i - 1 \in DOMAIN seq /\ t[i] = seq[i - 1]
  <2> TAKE i \in DOMAIN t
  <2> HAVE i # 1
  <2>1. i - 1 \in DOMAIN seq /\ i \in 1 .. Len(one) + Len(seq) /\ ~(i <= Len(one))
    BY <1>1, <1>2, <1>4
  <2> QED
    BY <1>1, <1>3, <2>1
<1>7. \A i \in DOMAIN seq : i + 1 \in DOMAIN t /\ t[i + 1] = seq[i]
  <2> TAKE i \in DOMAIN seq
  <2>1. i + 1 \in DOMAIN t /\ i + 1 # 1 /\ (i + 1) - 1 = i
    BY <1>2, <1>4
  <2> QED
    BY <1>6, <2>1
<1>8. ElementsOf(t) = ElementsOf(seq) \cup {x}
  BY <1>5, <1>6, <1>7 DEF ElementsOf, ToSet
<1>9. IsInjective(t)
  <2>1. ASSUME NEW i \in DOMAIN t, NEW j \in DOMAIN t, t[i] = t[j]
        PROVE  i = j
    <3>1. \A k \in DOMAIN seq : seq[k] # x
      BY DEF ElementsOf, ToSet
    <3>2. CASE i = 1 \/ j = 1
      BY <1>5, <1>6, <2>1, <3>1, <3>2
    <3>3. CASE i # 1 /\ j # 1
      <4>1. i - 1 = j - 1
        BY <1>6, <2>1, <3>3 DEF IsInjective
      <4>2. i \in Int /\ j \in Int
        BY <1>4
      <4> QED
        BY <4>1, <4>2
    <3> QED
      BY <3>2, <3>3
  <2> QED
    BY <2>1 DEF IsInjective
<1> QED
  BY <1>3, <1>8, <1>9 DEF t, one

\* An object has its links with two others only, and these are two.
LEMMA LinkedFacts ==
  ASSUME NEW sh, NEW by, Linked(sh, by), NEW x \in Objects
  PROVE  /\ sh[x] \in ObjectOrNone /\ by[x] \in ObjectOrNone
         /\ sh[x] # x /\ by[x] # x
         /\ sh[x] # None => sh[x] # by[x] /\ by[sh[x]] = x
         /\ by[x] # None => sh[by[x]] = x
<1>1. /\ sh \in [Objects -> ObjectOrNone] /\ by \in [Objects -> ObjectOrNone] /\ Acyclic(sh)
      /\ \A o \in Objects : /\ sh[o] # None => by[sh[o]] = o
                            /\ by[o] # None => sh[by[o]] = o
      /\ Acyclic(by)
  BY DEF Linked
<1>2. \A o \in Objects : sh[o] # o /\ by[o] # o
  <2> TAKE o \in Objects
  <2>1. {o} \in SUBSET Objects /\ {o} # {}
    OBVIOUS
  <2>2. (\E p \in {o} : sh[p] \notin {o}) /\ (\E p \in {o} : by[p] \notin {o})
    BY <1>1, <2>1, Zenon DEF Acyclic
  <2> QED
    BY <2>2
<1>3. sh[x] # None => sh[x] # by[x]
  <2>1. SUFFICES ASSUME sh[x] # None, sh[x] = by[x] PROVE FALSE
    OBVIOUS
  <2>2. sh[x] \in Objects /\ sh[sh[x]] = x
    BY <1>1, <2>1 DEF ObjectOrNone
  <2>3. {x, sh[x]} \in SUBSET Objects /\ {x, sh[x]} # {}
    BY <2>2
  <2>4. \E p \in {x, sh[x]} : sh[p] \notin {x, sh[x]}
    BY <1>1, <2>3, Zenon DEF Acyclic
  <2> QED
    BY <2>2, <2>4
<1> QED
  BY <1>1, <1>2, <1>3

\* destruct(), as far as the links go: ob leaves its chain.
LEMMA UnlinkFacts ==
  ASSUME Shadows, NEW ob \in Objects, NEW left, left = LeaveShadowing(ann, ob),
         NEW b, b = LeaveShadow(left, ann, ob)
  PROVE  /\ Annotated(b)
         /\ Sh(b) = Leave(Sh(ann), By(ann), ob) /\ By(b) = Leave(By(ann), Sh(ann), ob)
         /\ ShadowedBy(left, ob) \in ObjectOrNone
         /\ \A o \in Objects \ {ob} : Needed(b, o, interactive)
         /\ \A o \in Objects : Acts(b, o) \subseteq Acts(ann, o)
         /\ Sh(ann)[ob] # None =>
              \A p \in Objects \cap Reached(ann, ob, ob) :
                \A s \in Acts(b, p) : s.shadowOb # ob
<1> DEFINE sh == Sh(ann)
           by == By(ann)
           v == sh[ob]
           y == by[ob]
<1>0. None \notin Objects
  BY ObjectsAssumption
<1>1. /\ Annotated(ann) /\ Linked(sh, by)
      /\ \A o \in Objects : Needed(ann, o, interactive)
  BY DEF Shadows
<1>2. /\ sh \in [Objects -> ObjectOrNone] /\ by \in [Objects -> ObjectOrNone]
      /\ \A o \in Objects : o \notin ann.flagged => sh[o] = None /\ by[o] = None
      /\ ann.flagged \subseteq Objects
  BY <1>1, AnnotatedFacts
<1>3. Shadowing(ann, ob) = v /\ ShadowedBy(ann, ob) = y
  BY ViewFacts
<1>4. /\ v \in ObjectOrNone /\ y \in ObjectOrNone /\ v # ob /\ y # ob
      /\ v # None => v # y /\ by[v] = ob /\ v \in Objects
      /\ y # None => sh[y] = ob /\ y \in Objects
  BY <1>0, <1>1, LinkedFacts DEF ObjectOrNone
<1> HIDE DEF sh, by, v, y
<1>5. /\ Annotated(left) /\ By(left)[ob] = y /\ Sh(left) = [sh EXCEPT ![ob] = None]
      /\ By(left) = IF v = None THEN by ELSE [by EXCEPT ![v] = y]
      /\ ob \in ann.flagged => ob \in left.flagged
      /\ left.flagged \subseteq ann.flagged /\ (v # None => Needed(left, v, interactive))
      /\ \A o \in Objects : Acts(left, o) \subseteq Acts(ann, o)
      /\ v # None => \A p \in Objects \cap Reached(ann, ob, ob) :
                       \A s \in Acts(left, p) : s.shadowOb # ob
  <2>1. CASE v = None
    <3>1. left = ann
      BY <1>3, <2>1 DEF LeaveShadowing
    <3>2. [sh EXCEPT ![ob] = None] = sh
      BY <1>2, <2>1 DEF v
    <3> QED
      BY <1>0, <1>1, <1>2, <2>1, <3>1, <3>2 DEF sh, by, y
  <2>2. CASE v # None
    <3> DEFINE c == SetShadowing(ann, ob, None)
               d == SetShadowedBy(c, v, y)
               e == CheckShadowSent(d, v, interactive)
    <3>1. ob \in ann.flagged /\ v \in ann.flagged /\ v \in Objects /\ None \in ObjectOrNone
      BY <1>0, <1>2, <1>4, <2>2 DEF v, ObjectOrNone
    <3>2. left = RemoveShadowActions(e, ob, v)
      BY <1>3, <2>2 DEF LeaveShadowing
    <3>3. /\ Annotated(c) /\ c.flagged = ann.flagged /\ SameActs(c, ann)
          /\ Sh(c) = [sh EXCEPT ![ob] = None] /\ By(c) = by
      BY <1>1, <3>1, SetShadowingFacts DEF sh, by
    <3> HIDE DEF c
    <3>4. /\ Annotated(d) /\ d.flagged = ann.flagged /\ SameActs(d, c)
          /\ Sh(d) = [sh EXCEPT ![ob] = None] /\ By(d) = [by EXCEPT ![v] = y]
      BY <1>4, <3>1, <3>3, SetShadowedByFacts
    <3> HIDE DEF d
    <3>5. /\ Annotated(e) /\ Sh(e) = Sh(d) /\ By(e) = By(d) /\ SameActs(e, d)
          /\ e.flagged \subseteq d.flagged /\ Needed(e, v, interactive)
          /\ \A p \in d.flagged : p # v => p \in e.flagged
      BY <3>1, <3>4, CheckFacts
    <3> HIDE DEF e
    <3>6. /\ Fewer(left, e)
          /\ \A p \in Objects \cap Reached(e, ob, v) : \A s \in Acts(left, p) : s.shadowOb # ob
      <4>1. ob # None
        BY <1>0
      <4> QED
        BY <3>1, <3>2, <3>5, <4>1, RemoveShadowFacts
    <3>7. End(Sh(e), v) = End(sh, ob)
      <4>1. sh[ob] # None /\ Acyclic(sh)
        BY <1>1, <2>2 DEF v, Linked
      <4>2. End([sh EXCEPT ![ob] = None], sh[ob]) = End(sh, ob)
        BY <1>2, <4>1, EndBelow
      <4> QED
        BY <3>4, <3>5, <4>2 DEF v
    <3>8. Reached(e, ob, v) = Reached(ann, ob, ob)
      BY <3>7 DEF Reached, sh
    <3>9. /\ Annotated(left) /\ left.flagged = e.flagged
          /\ Sh(left) = [sh EXCEPT ![ob] = None] /\ By(left) = [by EXCEPT ![v] = y]
      BY <3>4, <3>5, <3>6 DEF Fewer
    <3>10. \A o \in Objects : Acts(left, o) \subseteq Acts(ann, o)
      BY <3>3, <3>4, <3>5, <3>6 DEF Fewer, SameActs
    <3>11. By(left)[ob] = y
      BY <1>2, <1>4, <3>9 DEF y
    <3>12. left.flagged \subseteq ann.flagged /\ Needed(left, v, interactive)
      BY <3>4, <3>5, <3>9 DEF Needed
    <3>13. ob \in left.flagged
      BY <1>4, <3>1, <3>4, <3>5, <3>9
    <3> QED
      BY <2>2, <3>6, <3>8, <3>9, <3>10, <3>11, <3>12, <3>13
  <2> QED
    BY <2>1, <2>2
<1>6. ShadowedBy(left, ob) = y
  BY <1>5, ViewFacts
<1>7. /\ Annotated(b)
      /\ Sh(b) = IF y = None THEN Sh(left) ELSE [Sh(left) EXCEPT ![y] = v]
      /\ By(b) = [By(left) EXCEPT ![ob] = None]
      /\ b.flagged \subseteq left.flagged /\ (y # None => Needed(b, y, interactive))
      /\ SameActs(b, left)
  <2>1. CASE y = None
    <3>1. b = left
      BY <1>6, <2>1 DEF LeaveShadow
    <3>2. By(left) \in [Objects -> ObjectOrNone] /\ By(left)[ob] = None
      BY <1>5, <2>1, AnnotatedFacts
    <3>3. [By(left) EXCEPT ![ob] = None] = By(left)
      BY <3>2
    <3> QED
      BY <1>5, <2>1, <3>1, <3>3 DEF SameActs
  <2>2. CASE y # None
    <3> DEFINE c == SetShadowedBy(left, ob, None)
               d == SetShadowing(c, y, v)
    <3>1. b = CheckShadowSent(d, y, interactive)
      BY <1>3, <1>6, <2>2 DEF LeaveShadow
    <3>2. ob \in left.flagged /\ y \in left.flagged /\ y \in Objects /\ None \in ObjectOrNone
      <4>1. Sh(left)[y] # None /\ By(left)[ob] # None
        BY <1>0, <1>2, <1>4, <1>5, <2>2
      <4> QED
        BY <1>4, <1>5, <2>2, <4>1, AnnotatedFacts DEF ObjectOrNone
    <3>3. /\ Annotated(c) /\ c.flagged = left.flagged /\ SameActs(c, left)
          /\ Sh(c) = Sh(left) /\ By(c) = [By(left) EXCEPT ![ob] = None]
      BY <1>5, <3>2, SetShadowedByFacts
    <3> HIDE DEF c
    <3>4. /\ Annotated(d) /\ d.flagged = left.flagged /\ SameActs(d, c)
          /\ Sh(d) = [Sh(left) EXCEPT ![y] = v] /\ By(d) = [By(left) EXCEPT ![ob] = None]
      BY <1>4, <3>2, <3>3, SetShadowingFacts
    <3> HIDE DEF d
    <3>5. /\ Annotated(b) /\ Sh(b) = Sh(d) /\ By(b) = By(d) /\ SameActs(b, d)
          /\ b.flagged \subseteq d.flagged /\ Needed(b, y, interactive)
      BY <3>1, <3>2, <3>4, CheckFacts
    <3>7. SameActs(b, left)
      BY <3>3, <3>4, <3>5 DEF SameActs
    <3> QED
      BY <2>2, <3>4, <3>5, <3>7
  <2> QED
    BY <2>1, <2>2
<1>8. Sh(b) = Leave(sh, by, ob)
  <2>1. Sh(b) \in [Objects -> ObjectOrNone]
    BY <1>7, AnnotatedFacts
  <2>2. \A o \in Objects :
          Sh(b)[o] = IF o = ob THEN None ELSE IF o = by[ob] THEN sh[ob] ELSE sh[o]
    BY <1>0, <1>2, <1>4, <1>5, <1>7 DEF v, y
  <2> QED
    BY <2>1, <2>2 DEF Leave
<1>9. By(b) = Leave(by, sh, ob)
  <2>1. By(b) \in [Objects -> ObjectOrNone]
    BY <1>7, AnnotatedFacts
  <2>2. \A o \in Objects :
          By(b)[o] = IF o = ob THEN None ELSE IF o = sh[ob] THEN by[ob] ELSE by[o]
    BY <1>0, <1>2, <1>4, <1>5, <1>7 DEF v, y
  <2> QED
    BY <2>1, <2>2 DEF Leave
<1>10. ASSUME NEW o \in Objects \ {ob}
       PROVE  Needed(b, o, interactive)
  <2>0. SUFFICES ASSUME o \in b.flagged
                 PROVE  o \in interactive \/ Sh(b)[o] # None \/ By(b)[o] # None
    BY DEF Needed
  <2>1. CASE o = y
    BY <1>0, <1>7, <2>0, <2>1 DEF Needed
  <2>2. CASE o # y /\ o = v
    <3>1. o \in interactive \/ Sh(left)[o] # None \/ By(left)[o] # None
      BY <1>0, <1>5, <1>7, <2>0, <2>2 DEF Needed
    <3>2. Sh(b)[o] = Sh(left)[o] /\ By(b)[o] = By(left)[o]
      BY <1>5, <1>7, <2>2, AnnotatedFacts
    <3> QED
      BY <3>1, <3>2
  <2>3. CASE o # y /\ o # v
    <3>1. o \in interactive \/ sh[o] # None \/ by[o] # None
      BY <1>1, <1>5, <1>7, <2>0 DEF Needed, sh, by
    <3>2. Sh(b)[o] = sh[o] /\ By(b)[o] = by[o]
      BY <1>8, <1>9, <2>3 DEF Leave, v, y
    <3> QED
      BY <3>1, <3>2
  <2> QED
    BY <2>1, <2>2, <2>3
<1>11. \A o \in Objects : Acts(b, o) = Acts(left, o)
  BY <1>7 DEF SameActs
<1> QED
  BY <1>4, <1>5, <1>6, <1>7, <1>8, <1>9, <1>10, <1>11 DEF sh, by, v

-----------------------------------------------------------------------------
(* Each action keeps the invariant.                                        *)

\* Where only sentences change, and not what they say of shadows.
LEMMA SameShadows ==
  ASSUME Consistent, UNCHANGED <<live, super, contains, hung>>, interactive' \subseteq Objects,
         Annotated(ann'), Sh(ann') = Sh(ann), By(ann') = By(ann),
         \A o \in Objects : Needed(ann', o, interactive'),
         ~RoomsShadow => \A giver \in live : \A s \in Acts(ann', giver) : Fine(s, giver)
  PROVE  Consistent'
<1>1. Inventory'
  BY DEF Consistent, Inventory
<1>2. Shadows'
  BY DEF Consistent, Shadows
<1>3. ~RoomsShadow => Actions'
  BY DEF Actions, Fine, InVicinity
<1> QED
  BY <1>1, <1>2, <1>3 DEF Consistent

LEMMA CreateKeeps ==
  ASSUME Consistent, NEW o \in Objects, Create(o)
  PROVE  Consistent'
<1>1. /\ o \notin live /\ ann.sent[o] = << >> /\ live' = live \cup {o}
      /\ UNCHANGED <<super, contains, ann, interactive, hung>>
  BY DEF Create
<1>2. Inventory'
  BY <1>1 DEF Consistent, Inventory
<1>3. Shadows'
  BY <1>1 DEF Consistent, Shadows
<1>4. Acts(ann, o) = {}
  BY <1>1 DEF Acts
<1>5. ~RoomsShadow => Actions'
  BY <1>1, <1>4 DEF Consistent, Actions, Fine, InVicinity
<1> QED
  BY <1>1, <1>2, <1>3, <1>5 DEF Consistent

LEMMA RemoveObjectKeeps ==
  ASSUME Consistent, NEW ob \in Objects, RemoveObject(ob)
  PROVE  Consistent'
<1> DEFINE a == CheckShadowSent(ann, ob, interactive')
<1>1. /\ ob \notin live /\ interactive' = interactive \ {ob}
      /\ ann' = [a EXCEPT !.sent[ob] = << >>]
      /\ UNCHANGED <<live, super, contains, hung>>
  BY DEF RemoveObject
<1>2. /\ Annotated(ann) /\ Linked(Sh(ann), By(ann)) /\ live \subseteq Objects
      /\ interactive \subseteq Objects
      /\ \A o \in Objects : Needed(ann, o, interactive)
      /\ \A o \in Objects : Sh(ann)[o] # None => o \in live /\ Sh(ann)[o] \in live
  BY DEF Consistent, Shadows
<1>3. Sh(ann)[ob] = None /\ By(ann)[ob] = None
  <2>1. By(ann)[ob] # None => By(ann)[ob] \in Objects /\ Sh(ann)[By(ann)[ob]] = ob
    BY <1>2, LinkedFacts DEF ObjectOrNone
  <2> QED
    BY <1>1, <1>2, <2>1, ObjectsAssumption
<1>4. /\ Annotated(a) /\ Sh(a) = Sh(ann) /\ By(a) = By(ann) /\ SameActs(a, ann)
      /\ a.flagged \subseteq ann.flagged /\ Needed(a, ob, interactive')
  BY <1>2, CheckFacts
<1> HIDE DEF a
<1>5. ob \notin a.flagged
  BY <1>1, <1>3, <1>4 DEF Needed
<1>6. ann' = [sent |-> [a.sent EXCEPT ![ob] = << >>], flagged |-> a.flagged]
  <2>1. a = [sent |-> a.sent, flagged |-> a.flagged]
    BY <1>4, AnnotatedFacts
  <2>2. ann' = [a EXCEPT !.sent = [a.sent EXCEPT ![ob] = << >>]]
    BY <1>1, Zenon
  <2> QED
    BY <2>1, <2>2, OtherSent
<1>7. OtherList(ann', a, ob, << >>, a.flagged)
  <2>1. << >> \in Seq(Sentences) /\ a.flagged \in SUBSET Objects
    BY <1>4, AnnotatedFacts
  <2> QED
    BY <1>5, <1>6, <2>1 DEF OtherList
<1>8. /\ Annotated(ann') /\ ann'.flagged = a.flagged
      /\ \A p \in Objects \ {ob} : /\ Acts(ann', p) = Acts(a, p)
                                   /\ Sh(ann')[p] = Sh(a)[p] /\ By(ann')[p] = By(a)[p]
  BY <1>4, <1>7, OneList
<1>9. Sh(ann') = Sh(ann) /\ By(ann') = By(ann)
  <2>1. /\ Sh(ann') \in [Objects -> ObjectOrNone] /\ By(ann') \in [Objects -> ObjectOrNone]
        /\ Sh(ann) \in [Objects -> ObjectOrNone] /\ By(ann) \in [Objects -> ObjectOrNone]
        /\ Sh(ann')[ob] = None /\ By(ann')[ob] = None
    BY <1>2, <1>5, <1>8, AnnotatedFacts
  <2>2. \A p \in Objects : Sh(ann')[p] = Sh(ann)[p] /\ By(ann')[p] = By(ann)[p]
    BY <1>3, <1>4, <1>8, <2>1
  <2> QED
    BY <2>1, <2>2
<1>10. \A o \in Objects : Needed(ann', o, interactive')
  BY <1>1, <1>2, <1>4, <1>5, <1>8, <1>9 DEF Needed
<1>11. ~RoomsShadow => \A giver \in live : \A s \in Acts(ann', giver) : Fine(s, giver)
  BY <1>1, <1>2, <1>4, <1>8 DEF Consistent, Actions, SameActs
<1>12. interactive' \subseteq Objects
  BY <1>1, <1>2
<1> QED
  BY <1>1, <1>8, <1>9, <1>10, <1>11, <1>12, SameShadows

LEMMA ConnectKeeps ==
  ASSUME Consistent, NEW ob \in Objects, Connect(ob)
  PROVE  Consistent'
<1>1. /\ interactive' = interactive \cup {ob} /\ ann' = AssertShadowSent(ann, ob)
      /\ UNCHANGED <<live, super, contains, hung>>
  BY DEF Connect
<1>2. /\ Annotated(ann) /\ live \subseteq Objects /\ interactive \subseteq Objects
      /\ \A o \in Objects : Needed(ann, o, interactive)
  BY DEF Consistent, Shadows
<1>3. /\ Annotated(ann') /\ ann'.flagged = ann.flagged \cup {ob}
      /\ Sh(ann') = Sh(ann) /\ By(ann') = By(ann) /\ SameActs(ann', ann)
  BY <1>1, <1>2, AssertFacts
<1>4. \A o \in Objects : Needed(ann', o, interactive')
  BY <1>1, <1>2, <1>3 DEF Needed
<1>5. ~RoomsShadow => \A giver \in live : \A s \in Acts(ann', giver) : Fine(s, giver)
  BY <1>2, <1>3 DEF Consistent, Actions, SameActs
<1>6. interactive' \subseteq Objects
  BY <1>1, <1>2
<1> QED
  BY <1>1, <1>3, <1>4, <1>5, <1>6, SameShadows

LEMMA DisconnectKeeps ==
  ASSUME Consistent, NEW ob \in Objects, Disconnect(ob)
  PROVE  Consistent'
<1>1. /\ interactive' = interactive \ {ob} /\ ann' = CheckShadowSent(ann, ob, interactive')
      /\ UNCHANGED <<live, super, contains, hung>>
  BY DEF Disconnect
<1>2. /\ Annotated(ann) /\ live \subseteq Objects /\ interactive \subseteq Objects
      /\ \A o \in Objects : Needed(ann, o, interactive)
  BY DEF Consistent, Shadows
<1>3. /\ Annotated(ann') /\ Sh(ann') = Sh(ann) /\ By(ann') = By(ann) /\ SameActs(ann', ann)
      /\ ann'.flagged \subseteq ann.flagged /\ Needed(ann', ob, interactive')
  BY <1>1, <1>2, CheckFacts
<1>4. \A o \in Objects : Needed(ann', o, interactive')
  BY <1>1, <1>2, <1>3 DEF Needed
<1>5. ~RoomsShadow => \A giver \in live : \A s \in Acts(ann', giver) : Fine(s, giver)
  BY <1>2, <1>3 DEF Consistent, Actions, SameActs
<1>6. interactive' \subseteq Objects
  BY <1>1, <1>2
<1> QED
  BY <1>1, <1>3, <1>4, <1>5, <1>6, SameShadows

LEMMA ExecKeeps ==
  ASSUME Consistent, NEW ob \in Objects, NEW obfrom \in Objects, Exec(ob, obfrom)
  PROVE  Consistent'
<1> DEFINE a == AssertShadowSent(ann, ob)
<1>1. /\ obfrom \in interactive
      /\ interactive' = IF ob \in interactive THEN interactive
                        ELSE (interactive \ {obfrom}) \cup {ob}
      /\ ann' = CheckShadowSent(a, obfrom, interactive')
      /\ UNCHANGED <<live, super, contains, hung>>
  BY DEF Exec
<1>2. /\ Annotated(ann) /\ live \subseteq Objects /\ interactive \subseteq Objects
      /\ \A o \in Objects : Needed(ann, o, interactive)
  BY DEF Consistent, Shadows
<1>3. /\ Annotated(a) /\ a.flagged = ann.flagged \cup {ob}
      /\ Sh(a) = Sh(ann) /\ By(a) = By(ann) /\ SameActs(a, ann)
  BY <1>2, AssertFacts
<1> HIDE DEF a
<1>4. /\ Annotated(ann') /\ Sh(ann') = Sh(ann) /\ By(ann') = By(ann) /\ SameActs(ann', a)
      /\ ann'.flagged \subseteq a.flagged /\ Needed(ann', obfrom, interactive')
  BY <1>1, <1>3, CheckFacts
<1>5. \A o \in Objects : Needed(ann', o, interactive')
  BY <1>1, <1>2, <1>3, <1>4 DEF Needed
<1>6. ~RoomsShadow => \A giver \in live : \A s \in Acts(ann', giver) : Fine(s, giver)
  BY <1>2, <1>3, <1>4 DEF Consistent, Actions, SameActs
<1>7. interactive' \subseteq Objects
  BY <1>1, <1>2
<1> QED
  BY <1>1, <1>4, <1>5, <1>6, <1>7, SameShadows

\* One action more, of an object that shadows nothing.
LEMMA InsertKeeps ==
  ASSUME Consistent, NEW giver \in Objects, NEW ob \in live, Sh(ann)[ob] = None,
         NEW shadowOb \in ObjectOrNone,
         shadowOb # None => Sh(ann)[shadowOb] # None /\ End(Sh(ann), shadowOb) = ob,
         Insert(giver, ob, shadowOb)
  PROVE  Consistent'
<1>1. /\ Lives(giver) /\ InVicinity(ob, giver)
      /\ ann' = WithAction(ann, giver, ob, shadowOb)
      /\ UNCHANGED <<live, super, contains, interactive, hung>>
  BY Zenon DEF Insert, WithAction
<1>2. /\ Annotated(ann) /\ live \subseteq Objects /\ interactive \subseteq Objects
      /\ \A o \in Objects : Needed(ann, o, interactive)
  BY DEF Consistent, Shadows
<1>3. /\ Annotated(ann') /\ ann'.flagged = ann.flagged /\ Sh(ann') = Sh(ann) /\ By(ann') = By(ann)
      /\ \A o \in Objects : \A s \in Acts(ann', o) :
           s \in Acts(ann, o) \/ (o = giver /\ s = Action(ob, shadowOb))
  BY <1>1, <1>2, AddActionFacts
<1>4. Fine(Action(ob, shadowOb), giver)
  BY <1>1 DEF Fine, Action
<1>5. ~RoomsShadow => \A o \in live : \A s \in Acts(ann', o) : Fine(s, o)
  BY <1>2, <1>3, <1>4 DEF Consistent, Actions
<1>6. \A o \in Objects : Needed(ann', o, interactive')
  BY <1>1, <1>2, <1>3 DEF Needed
<1>7. interactive' \subseteq Objects
  BY <1>1, <1>2
<1> QED
  BY <1>1, <1>3, <1>5, <1>6, <1>7, SameShadows

LEMMA AddActionKeeps ==
  ASSUME Consistent, NEW current \in Objects, NEW giver \in Objects, AddAction(current, giver)
  PROVE  Consistent'
<1> DEFINE ob == Bottom(ann, current)
           shadowOb == IF Shadowing(ann, current) # None THEN current ELSE None
<1>1. current \in live /\ Insert(giver, ob, shadowOb)
  BY DEF AddAction, Lives
<1>2. /\ Linked(Sh(ann), By(ann)) /\ live \subseteq Objects
      /\ \A o \in Objects : Sh(ann)[o] # None => o \in live /\ Sh(ann)[o] \in live
  BY DEF Consistent, Shadows
<1>3. ob = End(Sh(ann), current) /\ Shadowing(ann, current) = Sh(ann)[current]
  BY ViewFacts
<1>4. Sh(ann) \in [Objects -> ObjectOrNone] /\ Acyclic(Sh(ann))
  BY <1>2 DEF Linked
<1>5. ob \in live /\ Sh(ann)[ob] = None
  BY <1>1, <1>2, <1>3, <1>4, EndFacts, EndStays
<1>6. /\ shadowOb \in ObjectOrNone
      /\ shadowOb # None => Sh(ann)[shadowOb] # None /\ End(Sh(ann), shadowOb) = ob
  BY <1>3 DEF ObjectOrNone
<1> HIDE DEF ob, shadowOb
<1> QED
  BY <1>1, <1>5, <1>6, InsertKeeps

\* What the walk of add_action() found is still below the shadow.
LEMMA EndAddActionKeeps ==
  ASSUME IInv, MasterMeddles = FALSE, NEW giver \in live, EndAddAction(giver)
  PROVE  Consistent'
<1> DEFINE current == Last(calls).current
           at == Last(calls).ob
           ob == Bottom(ann, at)
<1>1. calls # << >> /\ ob \in Below(ann, current) /\ Insert(giver, ob, current)
  BY DEF EndAddAction, WalksOn, Allowed
<1>2. current \in Objects /\ at \in Objects
  <2>1. calls \in Seq(Calls)
    BY DEF IInv
  <2>2. Last(calls) \in Calls
    BY <1>1, <2>1, LenProperties, ElementOfSeq DEF Last
  <2> QED
    BY <2>2 DEF Calls
<1>3. /\ Linked(Sh(ann), By(ann)) /\ live \subseteq Objects
      /\ \A o \in Objects : Sh(ann)[o] # None => o \in live /\ Sh(ann)[o] \in live
  BY DEF IInv, Consistent, Shadows
<1>4. Sh(ann) \in [Objects -> ObjectOrNone] /\ Acyclic(Sh(ann))
  BY <1>3 DEF Linked
<1> HIDE DEF current, at
<1>5. ob \in Objects /\ Sh(ann)[ob] = None /\ End(Sh(ann), ob) = ob
  <2>1. ob = End(Sh(ann), at)
    BY <1>2, ViewFacts
  <2> HIDE DEF ob
  <2> QED
    BY <1>2, <1>4, <2>1, EndFacts
<1> HIDE DEF ob
<1>6. Sh(ann)[current] # None /\ End(Sh(ann), current) = ob
  BY <1>1, <1>2, <1>4, <1>5, BelowFacts
<1>7. ob \in live
  BY <1>2, <1>3, <1>4, <1>6, EndStays
<1> QED
  BY <1>1, <1>2, <1>3, <1>5, <1>6, <1>7, InsertKeeps DEF IInv, ObjectOrNone

LEMMA RemoveActionKeeps ==
  ASSUME Consistent, NEW current \in Objects, NEW giver \in Objects, NEW i \in DOMAIN ann.sent[giver],
         RemoveActionEfun(current, giver, i)
  PROVE  Consistent'
<1> DEFINE sent == [ann.sent EXCEPT ![giver] = RemoveAt(ann.sent[giver], i)]
           keep == [o \in Objects |-> IF o = giver THEN DOMAIN ann.sent[o] \ {i}
                                      ELSE DOMAIN ann.sent[o]]
<1>1. /\ ann.sent[giver][i].type = "action"
      /\ ann' = [ann EXCEPT !.sent = sent]
      /\ UNCHANGED <<live, super, contains, interactive, hung>>
  BY Zenon DEF RemoveActionEfun
<1>2. /\ Annotated(ann) /\ live \subseteq Objects /\ interactive \subseteq Objects
      /\ \A o \in Objects : Needed(ann, o, interactive)
  BY DEF Consistent, Shadows
<1>3. ann = [sent |-> ann.sent, flagged |-> ann.flagged] /\ ann.sent \in [Objects -> Seq(Sentences)]
  BY <1>2, AnnotatedFacts
<1>4. /\ \A o \in Objects : o # giver => sent[o] = ann.sent[o] /\ keep[o] = DOMAIN ann.sent[o]
      /\ sent[giver] = RemoveAt(ann.sent[giver], i)
      /\ keep[giver] = DOMAIN ann.sent[giver] \ {i}
      /\ sent = [o \in Objects |-> sent[o]] /\ DOMAIN sent = Objects
  BY <1>3
<1> HIDE DEF sent, keep
<1>5. ann' = [sent |-> sent, flagged |-> ann.flagged]
  BY <1>1, <1>3, OtherSent
<1>6. \A o \in Objects : Kept(sent[o], ann.sent[o], keep[o])
  <2> TAKE o \in Objects
  <2>1. ann.sent[o] \in Seq(Sentences)
    BY <1>3
  <2> QED
    BY <1>4, <2>1, KeptFacts
<1>7. \A o \in ann.flagged : 1 \in keep[o]
  <2> TAKE o \in ann.flagged
  <2>1. o \in Objects /\ 1 \in DOMAIN ann.sent[o] /\ ann.sent[o][1].type = "shadow"
    BY <1>2, AnnotatedFacts
  <2> QED
    BY <1>1, <1>4, <2>1
<1>8. Fewer(ann', ann)
  <2>1. ann'.sent = sent /\ ann'.flagged = ann.flagged
    BY <1>5
  <2>2. /\ ann' = [sent |-> ann'.sent, flagged |-> ann.flagged] /\ DOMAIN ann'.sent = Objects
        /\ ann'.sent = [o \in Objects |-> ann'.sent[o]]
    BY <1>4, <1>5, <2>1
  <2>3. \A o \in Objects : Kept(ann'.sent[o], ann.sent[o], keep[o])
    BY <1>6, <2>1
  <2> QED
    BY <1>2, <1>7, <2>2, <2>3, FilterKeeps
<1>9. ~RoomsShadow => \A o \in live : \A s \in Acts(ann', o) : Fine(s, o)
  BY <1>2, <1>8 DEF Consistent, Actions, Fewer
<1>10. \A o \in Objects : Needed(ann', o, interactive')
  BY <1>1, <1>2, <1>8 DEF Needed, Fewer
<1>11. interactive' \subseteq Objects
  BY <1>1, <1>2
<1> QED
  BY <1>1, <1>8, <1>9, <1>10, <1>11, SameShadows DEF Fewer

\* `current' is linked in above the top of `ob', and still may shadow it.
Links(current, ob) ==
  /\ current \in live /\ ob \in live /\ MayShadow(current, ob)
  /\ ann' = SetShadowedBy(SetShadowing(AssertShadowSent(AssertShadowSent(ann, ob), current),
                                       current, Top(ann, ob)),
                          Top(ann, ob), current)
  /\ UNCHANGED <<live, super, contains, interactive, hung>>

LEMMA LinksKeep ==
  ASSUME Consistent, NEW current \in Objects, NEW ob \in Objects, Links(current, ob)
  PROVE  Consistent'
<1> DEFINE sh == Sh(ann)
           by == By(ann)
           w == Top(ann, ob)
           a == AssertShadowSent(ann, ob)
           b == AssertShadowSent(a, current)
           c == SetShadowing(b, current, w)
<1>1. /\ current \in live /\ ob \in live /\ ob # current
      /\ Shadowing(ann, current) = None /\ ShadowedBy(ann, current) = None
      /\ super[current] = None /\ Shadowing(ann, ob) = None
      /\ ~RoomsShadow => super[ob] # current
      /\ ann' = SetShadowedBy(c, w, current)
      /\ UNCHANGED <<live, super, contains, interactive, hung>>
  BY DEF Links, MayShadow
<1>2. /\ Annotated(ann) /\ Linked(sh, by) /\ live \subseteq Objects /\ interactive \subseteq Objects
      /\ \A o \in Objects : Needed(ann, o, interactive)
      /\ \A o \in Objects : sh[o] # None => o \in live /\ sh[o] \in live /\ super[o] = None
  BY DEF Consistent, Shadows
<1>3. /\ sh[current] = None /\ by[current] = None /\ sh[ob] = None /\ w = End(by, ob)
  BY <1>1, ViewFacts
<1>4. /\ w \in Objects \ {current} /\ by[w] = None
      /\ Linked(With(sh, current, w), With(by, w, current))
      /\ \A o \in Objects : End(With(sh, current, w), o) = IF o = current THEN ob ELSE End(sh, o)
  <2> HIDE DEF sh, by, w
  <2> QED
    BY <1>1, <1>2, <1>3, JoinFacts
<1>5. w = ob \/ sh[w] # None
  BY <1>2, <1>3, TopFacts
<1>6. w # ob => by[ob] # None
  BY <1>2, <1>3, EndFacts DEF Linked
<1>7. /\ Annotated(b) /\ b.flagged = ann.flagged \cup {ob, current}
      /\ Sh(b) = sh /\ By(b) = by /\ SameActs(b, ann)
  <2>1. /\ Annotated(a) /\ a.flagged = ann.flagged \cup {ob}
        /\ Sh(a) = Sh(ann) /\ By(a) = By(ann) /\ SameActs(a, ann)
    BY <1>2, AssertFacts
  <2> HIDE DEF a
  <2>2. /\ Annotated(b) /\ b.flagged = a.flagged \cup {current}
        /\ Sh(b) = Sh(a) /\ By(b) = By(a) /\ SameActs(b, a)
    BY <2>1, AssertFacts
  <2> QED
    BY <2>1, <2>2 DEF SameActs
<1> HIDE DEF w, b
<1>8. w \in b.flagged /\ current \in b.flagged
  BY <1>2, <1>4, <1>5, <1>7, AnnotatedFacts
<1>9. /\ Annotated(c) /\ c.flagged = b.flagged /\ SameActs(c, b)
      /\ Sh(c) = With(sh, current, w) /\ By(c) = by
  <2>1. w \in ObjectOrNone
    BY <1>4 DEF ObjectOrNone
  <2>2. Annotated(b)
    BY <1>7
  <2>3. /\ Annotated(c) /\ c.flagged = b.flagged /\ SameActs(c, b)
        /\ Sh(c) = [Sh(b) EXCEPT ![current] = w] /\ By(c) = By(b)
    BY <1>8, <2>1, <2>2, SetShadowingFacts
  <2> HIDE DEF c
  <2> QED
    BY <1>7, <2>3 DEF With
<1> HIDE DEF c
<1>10. /\ Annotated(ann') /\ ann'.flagged = b.flagged /\ SameActs(ann', c)
       /\ Sh(ann') = With(sh, current, w) /\ By(ann') = With(by, w, current)
  <2>1. current \in ObjectOrNone
    BY DEF ObjectOrNone
  <2> QED
    BY <1>1, <1>8, <1>9, <2>1, SetShadowedByFacts DEF With
<1>11. \A o \in Objects : Acts(ann', o) = Acts(ann, o)
  BY <1>7, <1>9, <1>10 DEF SameActs
<1>12. /\ sh \in [Objects -> ObjectOrNone] /\ by \in [Objects -> ObjectOrNone]
       /\ None \notin Objects
  BY <1>2, ObjectsAssumption, AnnotatedFacts
<1> HIDE DEF sh, by
<1>13. /\ \A o \in Objects : Sh(ann')[o] = IF o = current THEN w ELSE sh[o]
       /\ \A o \in Objects : By(ann')[o] = IF o = w THEN current ELSE by[o]
       /\ \A o \in Objects : End(Sh(ann'), o) = IF o = current THEN ob ELSE End(sh, o)
  BY <1>4, <1>10, <1>12 DEF With
<1>14. \A o \in Objects : Needed(ann', o, interactive')
  <2> SUFFICES ASSUME NEW o \in Objects, o \in ann'.flagged
               PROVE  o \in interactive' \/ Sh(ann')[o] # None \/ By(ann')[o] # None
    BY DEF Needed
  <2>1. CASE o = current \/ o = w \/ o = ob
    BY <1>4, <1>6, <1>12, <1>13, <2>1
  <2>2. CASE o # current /\ o # w /\ o # ob
    <3>1. o \in ann.flagged
      BY <1>7, <1>10, <2>2
    <3>2. o \in interactive \/ sh[o] # None \/ by[o] # None
      BY <1>2, <3>1 DEF Needed, sh, by
    <3> QED
      BY <1>1, <1>13, <2>2, <3>2
  <2> QED
    BY <2>1, <2>2
<1>15. Shadows'
  <2>1. w \in live
    BY <1>1, <1>2, <1>4, <1>5
  <2>2. \A o \in Objects : Sh(ann')[o] # None => o \in live /\ Sh(ann')[o] \in live /\ super[o] = None
    BY <1>1, <1>2, <1>13, <2>1
  <2> QED
    BY <1>1, <1>4, <1>10, <1>14, <2>2 DEF Shadows
<1>16. ASSUME ~RoomsShadow, NEW giver \in live, NEW s \in Acts(ann', giver)
       PROVE  Fine(s, giver)'
  <2>1. s \in Acts(ann, giver) /\ giver \in Objects
    BY <1>2, <1>11
  <2>2. /\ s.ob \in live /\ InVicinity(s.ob, giver)
        /\ s.shadowOb # None => sh[s.shadowOb] # None /\ End(sh, s.shadowOb) = s.ob
        /\ sh[s.ob] # None => End(sh, s.ob) # giver
    BY <1>16, <2>1 DEF Consistent, Actions, Fine, sh
  <2>3. s.shadowOb \in ObjectOrNone /\ s.ob \in Objects
    BY <1>2, <2>1, <2>2, ActsFacts DEF Sentences
  <2>4. s.shadowOb # None => Sh(ann')[s.shadowOb] # None /\ End(Sh(ann'), s.shadowOb) = s.ob
    BY <1>3, <1>13, <2>2, <2>3 DEF ObjectOrNone
  <2>5. Sh(ann')[s.ob] # None => End(Sh(ann'), s.ob) # giver
    <3>1. CASE s.ob = current
      <4>1. giver # ob
        BY <1>1, <1>12, <1>16, <2>2, <2>1, <3>1 DEF InVicinity
      <4> QED
        BY <1>13, <3>1, <4>1
    <3>2. CASE s.ob # current
      BY <1>13, <2>2, <2>3, <3>2
    <3> QED
      BY <3>1, <3>2
  <2>6. InVicinity(s.ob, giver)'
    BY <1>1, <2>2 DEF InVicinity
  <2> QED
    BY <1>1, <2>2, <2>4, <2>5, <2>6 DEF Fine
<1>17. Inventory'
  BY <1>1 DEF Consistent, Inventory
<1>18. ~RoomsShadow => Actions'
  BY <1>1, <1>16 DEF Actions
<1> QED
  BY <1>1, <1>15, <1>17, <1>18 DEF Consistent

\* With MasterMeddles = FALSE it still may after the answer of the master.
LEMMA ShadowKeeps ==
  ASSUME Consistent, MasterMeddles = FALSE, Shadow
  PROVE  Consistent'
<1>1. Links(Last(calls).current, Last(calls).ob)
  BY DEF Shadow, Links
<1>2. Last(calls).current \in Objects /\ Last(calls).ob \in Objects
  BY <1>1 DEF Links, Consistent, Shadows
<1> QED
  BY <1>1, <1>2, LinksKeep

LEMMA SetEnvironmentKeeps ==
  ASSUME Consistent, NEW item \in Objects, NEW dest \in live \cup {None}, SetEnvironment(item, dest)
  PROVE  Consistent'
<1> DEFINE sh == Sh(ann)
<1>1. /\ item \in live /\ Shadowing(ann, item) = None
      /\ dest # None => ~IsOrIsAround(dest, item)
      /\ dest \in Masters => contains[dest] = << >>
      /\ ann' = LeaveActions(item)
      /\ super' = [super EXCEPT ![item] = dest]
      /\ contains' = [o \in Objects |->
           IF o = dest THEN <<item>> \o Without(contains[o], item) ELSE Without(contains[o], item)]
      /\ UNCHANGED <<live, interactive, hung>>
  BY DEF SetEnvironment, Lives
<1>2. /\ Annotated(ann) /\ Linked(Sh(ann), By(ann))
      /\ live \subseteq Objects /\ interactive \subseteq Objects
      /\ \A o \in Objects : Needed(ann, o, interactive)
      /\ \A o \in Objects : Sh(ann)[o] # None => o \in live /\ Sh(ann)[o] \in live /\ super[o] = None
  BY DEF Consistent, Shadows
<1>3. /\ super \in [Objects -> ObjectOrNone] /\ contains \in [Objects -> Seq(Objects)]
      /\ \A o \in Objects : /\ IsInjective(contains[o])
                            /\ ElementsOf(contains[o]) = {i \in Objects : super[i] = o}
                            /\ super[o] # None => o \in live /\ super[o] \in live
      /\ Acyclic(super)
      /\ \A i, j \in Objects : super[i] \in Masters /\ super[j] = super[i] => i = j
  BY DEF Consistent, Inventory
<1>4. None \notin Objects /\ Masters \subseteq Objects /\ dest \in ObjectOrNone
  BY <1>2, ObjectsAssumption DEF ObjectOrNone
<1>5. /\ super' \in [Objects -> ObjectOrNone] /\ super'[item] = dest
      /\ \A o \in Objects : o # item => super'[o] = super[o]
  BY <1>1, <1>3, <1>4
<1>6. Inventory'
  <2>1. ASSUME NEW o \in Objects
        PROVE  /\ contains'[o] \in Seq(Objects) /\ IsInjective(contains'[o])
               /\ ElementsOf(contains'[o]) = {i \in Objects : super'[i] = o}
    <3> DEFINE rest == Without(contains[o], item)
    <3>1. /\ rest \in Seq(Objects) /\ IsInjective(rest)
          /\ ElementsOf(rest) = {i \in Objects : super[i] = o} \ {item}
      BY <1>3, WithoutFacts
    <3> HIDE DEF rest
    <3>2. CASE o = dest
      <4>1. item \notin ElementsOf(rest)
        BY <3>1
      <4>2. /\ <<item>> \o rest \in Seq(Objects) /\ IsInjective(<<item>> \o rest)
            /\ ElementsOf(<<item>> \o rest) = ElementsOf(rest) \cup {item}
        BY <3>1, <4>1, InFrontFacts
      <4>3. contains'[o] = <<item>> \o rest
        BY <1>1, <3>2 DEF rest
      <4>4. {i \in Objects : super'[i] = o} = ({i \in Objects : super[i] = o} \ {item}) \cup {item}
        BY <1>5, <3>2
      <4> QED
        BY <3>1, <4>2, <4>3, <4>4
    <3>3. CASE o # dest
      <4>1. contains'[o] = rest
        BY <1>1, <3>3 DEF rest
      <4>2. {i \in Objects : super'[i] = o} = {i \in Objects : super[i] = o} \ {item}
        BY <1>5, <3>3
      <4> QED
        BY <3>1, <4>1, <4>2
    <3> QED
      BY <3>2, <3>3
  <2>2. contains' \in [Objects -> Seq(Objects)]
    <3>1. contains' = [o \in Objects |-> contains'[o]]
      BY <1>1
    <3> QED
      BY <2>1, <3>1
  <2>3. Acyclic(super')
    BY <1>1, <1>3, <1>4, MoveIsAcyclic
  <2>4. \A o \in Objects : super'[o] # None => o \in live /\ super'[o] \in live
    BY <1>1, <1>3, <1>5
  <2>5. ASSUME NEW i \in Objects, NEW j \in Objects, super'[i] \in Masters, super'[j] = super'[i]
        PROVE  i = j
    <3>1. CASE super'[i] = dest
      <4>1. ElementsOf(contains[dest]) = {} /\ dest \in Objects
        BY <1>1, <1>4, <2>5, <3>1 DEF ElementsOf, ToSet
      <4>2. \A k \in Objects : super[k] # dest
        BY <1>3, <4>1
      <4> QED
        BY <1>5, <2>5, <3>1, <4>2
    <3>2. CASE super'[i] # dest
      BY <1>3, <1>5, <2>5, <3>2
    <3> QED
      BY <3>1, <3>2
  <2> QED
    BY <1>1, <1>5, <2>1, <2>2, <2>3, <2>4, <2>5 DEF Inventory
<1>7. Sh(ann)[item] = None
  BY <1>1, ViewFacts
<1>8. \A o \in Objects : By(ann)[o] # item
  BY <1>2, <1>4, <1>7 DEF Linked
<1>9. /\ Fewer(ann', ann)
      /\ super[item] # None =>
           /\ \A s \in Acts(ann', item) :
                \/ item \in ann.flagged /\ s.ob = By(ann)[item]
                \/ s.ob # super[item] /\ (s.ob = item \/ s.ob \notin Siblings(item))
           /\ \A p \in Objects \cap (Around(item) \ {item}) : \A s \in Acts(ann', p) : s.ob # item
  <2>1. CASE super[item] = None
    <3>1. ann' = ann
      BY <1>1, <2>1 DEF LeaveActions
    <3> QED
      BY <1>2, <2>1, <3>1, FewerThanItself
  <2>2. CASE super[item] # None
    <3> DEFINE b == RemoveEnvironmentSent(ann, item)
    <3>1. ann' = RemoveActionSent(b, item, Around(item) \ {item})
      BY <1>1, <2>2 DEF LeaveActions
    <3>2. /\ Fewer(b, ann)
          /\ \A s \in Acts(b, item) :
               \/ item \in ann.flagged /\ s.ob = By(ann)[item]
               \/ s.ob # super[item] /\ (s.ob = item \/ s.ob \notin Siblings(item))
      BY <1>2, RemoveEnvironmentFacts
    <3> HIDE DEF b
    <3>3. Annotated(b) /\ \A p \in Objects : By(b)[p] # item
      BY <1>8, <3>2 DEF Fewer
    <3>4. /\ Fewer(ann', b)
          /\ \A p \in Objects \cap (Around(item) \ {item}) : \A s \in Acts(ann', p) : s.ob # item
      BY <3>1, <3>3, RemoveActionFacts
    <3>5. Fewer(ann', ann)
      BY <3>2, <3>4, FewerThanFewer
    <3>6. Acts(ann', item) \subseteq Acts(b, item)
      BY <3>4 DEF Fewer
    <3> QED
      BY <3>2, <3>4, <3>5, <3>6
  <2> QED
    BY <2>1, <2>2
<1>10. /\ Annotated(ann') /\ ann'.flagged = ann.flagged
       /\ Sh(ann') = Sh(ann) /\ By(ann') = By(ann)
       /\ \A o \in Objects : Acts(ann', o) \subseteq Acts(ann, o)
  BY <1>9 DEF Fewer
<1>11. Shadows'
  <2>1. \A o \in Objects : Needed(ann', o, interactive')
    BY <1>1, <1>2, <1>10 DEF Needed
  <2>2. \A o \in Objects : Sh(ann)[o] # None => super'[o] = None
    BY <1>2, <1>5, <1>7
  <2> QED
    BY <1>1, <1>2, <1>10, <2>1, <2>2 DEF Shadows
<1>12. ASSUME ~RoomsShadow, NEW giver \in live, NEW s \in Acts(ann', giver)
       PROVE  Fine(s, giver)'
  <2>1. s \in Acts(ann, giver) /\ giver \in Objects
    BY <1>2, <1>10
  <2>2. /\ s.ob \in live /\ s.ob \in Objects /\ InVicinity(s.ob, giver)
        /\ s.shadowOb # None =>
             Sh(ann)[s.shadowOb] # None /\ End(Sh(ann), s.shadowOb) = s.ob
        /\ Sh(ann)[s.ob] # None => End(Sh(ann), s.ob) # giver
    BY <1>2, <1>12, <2>1 DEF Consistent, Actions, Fine
  <2>3. super'[s.ob] = (IF s.ob = item THEN dest ELSE super[s.ob])
        /\ super'[giver] = (IF giver = item THEN dest ELSE super[giver])
    BY <1>5, <2>1, <2>2
  <2>4. \/ s.ob = giver
        \/ super'[s.ob] = giver
        \/ super'[s.ob] # None /\ super'[s.ob] = super'[giver]
        \/ s.ob = super'[giver]
    <3>1. CASE s.ob # item /\ giver # item
      BY <2>2, <2>3, <3>1 DEF InVicinity
    <3>2. CASE giver = item /\ s.ob # item
      <4>1. CASE super[s.ob] = item
        BY <2>3, <3>2, <4>1
      <4>2. CASE super[s.ob] # item
        <5>1. \/ super[s.ob] # None /\ super[s.ob] = super[item]
              \/ s.ob = super[item]
          BY <2>2, <3>2, <4>2 DEF InVicinity
        <5>2. super[item] # None
          BY <1>4, <2>2, <5>1
        <5>3. super[item] \in Objects
          BY <1>3, <5>2 DEF ObjectOrNone
        <5>4. s.ob = super[item] \/ s.ob \in Siblings(item)
          BY <1>3, <2>2, <5>1, <5>2, <5>3 DEF Siblings
        <5>5. s.ob = By(ann)[item]
          BY <1>9, <1>12, <3>2, <5>2, <5>4
        <5>6. Sh(ann)[s.ob] = item
          BY <1>2, <1>4, <2>2, <5>5, LinkedFacts
        <5>7. End(Sh(ann), s.ob) = item
          <6>1. Sh(ann) \in [Objects -> ObjectOrNone] /\ Acyclic(Sh(ann))
            BY <1>2 DEF Linked
          <6> QED
            BY <1>4, <1>7, <2>2, <5>6, <6>1, EndFacts
        <5> QED
          BY <1>4, <2>2, <3>2, <5>6, <5>7
      <4> QED
        BY <4>1, <4>2
    <3>3. CASE s.ob = item /\ giver # item
      <4>1. super[item] # None => giver \notin Around(item)
        BY <1>9, <1>12, <2>1, <3>3
      <4>2. CASE super[item] = giver
        BY <1>4, <2>1, <4>1, <4>2 DEF Around
      <4>3. CASE super[item] # None /\ super[item] = super[giver]
        <5>1. super[item] \in Objects
          BY <1>3, <4>3 DEF ObjectOrNone
        <5>2. giver \in Siblings(item)
          BY <1>3, <2>1, <4>3, <5>1 DEF Siblings
        <5> QED
          BY <4>1, <4>3, <5>2 DEF Around
      <4>4. CASE item = super[giver]
        BY <2>3, <3>3, <4>4
      <4> QED
        BY <2>2, <3>3, <4>2, <4>3, <4>4 DEF InVicinity
    <3> QED
      BY <3>1, <3>2, <3>3
  <2> QED
    BY <1>1, <1>10, <2>2, <2>4 DEF Fine, InVicinity
<1>13. ~RoomsShadow => Actions'
  BY <1>1, <1>12 DEF Actions
<1> QED
  BY <1>1, <1>2, <1>6, <1>11, <1>13 DEF Consistent

\* What remains true of an action when x leaves its chain, if the actions go that x added.
LEMMA LeaveKeepsFine ==
  ASSUME Consistent, ~RoomsShadow, NEW x \in Objects, NEW giver \in live, NEW s \in Acts(ann, giver),
         s.ob # x \/ Sh(ann)[x] # None,
         Sh(ann)[x] # None /\ giver \in Reached(ann, x, x) => s.shadowOb # x,
         NEW f, f = Leave(Sh(ann), By(ann), x)
  PROVE  /\ s.shadowOb # None => f[s.shadowOb] # None /\ End(f, s.shadowOb) = s.ob
         /\ f[s.ob] # None => End(f, s.ob) # giver
<1> DEFINE sh == Sh(ann)
           by == By(ann)
<1>0. None \notin Objects
  BY ObjectsAssumption
<1>1. /\ Annotated(ann) /\ Linked(sh, by) /\ live \subseteq Objects
      /\ \A o \in Objects : sh[o] # None => super[o] = None
  BY DEF Consistent, Shadows
<1>2. /\ super \in [Objects -> ObjectOrNone]
      /\ \A o \in Objects : ElementsOf(contains[o]) = {i \in Objects : super[i] = o}
  BY DEF Consistent, Inventory
<1>3. /\ s.ob \in Objects /\ InVicinity(s.ob, giver) /\ giver \in Objects
      /\ s.shadowOb # None => sh[s.shadowOb] # None /\ End(sh, s.shadowOb) = s.ob
      /\ sh[s.ob] # None => End(sh, s.ob) # giver
      /\ s.shadowOb \in ObjectOrNone
  <2>1. Fine(s, giver)
    BY DEF Consistent, Actions
  <2>2. giver \in Objects /\ s \in Sentences
    BY <1>1, ActsFacts
  <2> QED
    BY <1>1, <2>1, <2>2 DEF Fine, Sentences
<1>4. /\ sh \in [Objects -> ObjectOrNone] /\ by \in [Objects -> ObjectOrNone] /\ Acyclic(sh)
      /\ \A o \in Objects : by[o] # None => sh[by[o]] = o
  BY <1>1 DEF Linked
<1>5. /\ f \in [Objects -> ObjectOrNone] /\ Acyclic(f)
      /\ \A o \in Objects : o # x /\ End(sh, o) # x => End(f, o) = End(sh, o)
      /\ \A o \in Objects : o # x /\ End(sh, o) = x => by[x] # None /\ End(f, o) = by[x]
      /\ \A o \in Objects : f[o] = IF o = x THEN None ELSE IF o = by[x] THEN sh[x] ELSE sh[o]
  <2>1. f \in [Objects -> ObjectOrNone] /\ Acyclic(f)
    BY <1>1, LeaveShortens
  <2>2. /\ \A o \in Objects : o # x /\ End(sh, o) # x => End(f, o) = End(sh, o)
        /\ \A o \in Objects : o # x /\ End(sh, o) = x => by[x] # None /\ End(f, o) = by[x]
    BY <1>1, LeaveFacts
  <2>3. \A o \in Objects : f[o] = IF o = x THEN None ELSE IF o = by[x] THEN sh[x] ELSE sh[o]
    BY DEF Leave
  <2> QED
    BY <2>1, <2>2, <2>3
<1>6. sh[x] # None => s.shadowOb # x
  <2> SUFFICES ASSUME sh[x] # None, s.shadowOb = x PROVE FALSE
    OBVIOUS
  <2> DEFINE t == End(sh, x)
  <2>1. s.ob = t /\ t \in Objects /\ sh[t] = None /\ t # x
    BY <1>0, <1>3, <1>4, EndFacts
  <2>2. super[x] = None
    BY <1>1
  <2>3. giver \in Reached(ann, x, x)
    <3>1. CASE t = giver
      BY <3>1 DEF Reached
    <3>2. CASE super[t] = giver
      BY <1>0, <1>3, <3>2 DEF Reached
    <3>3. CASE super[t] # None /\ super[t] = super[giver]
      <4>1. giver # x /\ super[t] \in Objects
        BY <1>2, <2>1, <2>2, <3>3 DEF ObjectOrNone
      <4>2. giver \in Siblings(t)
        BY <1>2, <1>3, <3>3, <4>1 DEF Siblings
      <4> QED
        BY <4>1, <4>2 DEF Reached
    <3>4. CASE t = super[giver]
      <4>1. giver # x
        BY <1>0, <2>1, <2>2, <3>4
      <4>2. giver \in Inside(t)
        BY <1>2, <1>3, <2>1, <3>4 DEF Inside
      <4> QED
        BY <4>1, <4>2 DEF Reached
    <3> QED
      BY <1>3, <2>1, <3>1, <3>2, <3>3, <3>4 DEF InVicinity
  <2> QED
    BY <2>3
<1>7. ASSUME s.shadowOb # None
      PROVE  f[s.shadowOb] # None /\ End(f, s.shadowOb) = s.ob
  <2> DEFINE z == s.shadowOb
  <2>1. z \in Objects /\ sh[z] # None /\ End(sh, z) = s.ob
    BY <1>3, <1>7 DEF ObjectOrNone
  <2>2. sh[s.ob] = None
    BY <1>4, <2>1, EndFacts
  <2>3. z # x /\ s.ob # x
    BY <1>6, <2>1, <2>2
  <2>4. End(f, z) = s.ob
    BY <1>5, <2>1, <2>3
  <2>5. f[z] # None
    BY <1>5, <2>1, <2>2, <2>4, EndFacts
  <2> QED
    BY <2>4, <2>5
<1>8. ASSUME f[s.ob] # None, End(f, s.ob) = giver
      PROVE  FALSE
  <2>1. s.ob # x /\ sh[s.ob] # None
    BY <1>0, <1>3, <1>4, <1>5, <1>8
  <2>2. End(sh, s.ob) = x
    BY <1>3, <1>5, <1>8, <2>1
  <2>3. giver = by[x] /\ by[x] # None
    BY <1>3, <1>5, <1>8, <2>1, <2>2
  <2>4. super[giver] = None /\ super[s.ob] = None
    BY <1>0, <1>1, <1>3, <1>4, <2>1, <2>3
  <2>5. s.ob # giver
    BY <1>3, <1>5, <1>8, EndFacts
  <2> QED
    BY <1>0, <1>3, <2>4, <2>5 DEF InVicinity
<1> QED
  BY <1>7, <1>8

LEMMA UnshadowKeeps ==
  ASSUME Consistent, NEW current \in Objects, Unshadow(current)
  PROVE  Consistent'
<1> DEFINE sh == Sh(ann)
           by == By(ann)
           v == Shadowing(ann, current)
           y == ShadowedBy(ann, current)
           a == SetShadowedBy(ann, v, y)
           b == IF y # None THEN SetShadowing(a, y, v) ELSE CheckShadowSent(a, v, interactive)
           c == RemoveShadowActions(b, current, v)
           d == SetShadowing(c, current, None)
           e == SetShadowedBy(d, current, None)
<1>0. None \notin Objects /\ None \in ObjectOrNone
  BY ObjectsAssumption DEF ObjectOrNone
<1>1. /\ v # None /\ ann' = CheckShadowSent(e, current, interactive)
      /\ UNCHANGED <<live, super, contains, interactive, hung>>
  BY DEF Unshadow
<1>2. /\ Annotated(ann) /\ Linked(sh, by) /\ live \subseteq Objects /\ interactive \subseteq Objects
      /\ \A o \in Objects : Needed(ann, o, interactive)
      /\ \A o \in Objects : sh[o] # None => o \in live /\ sh[o] \in live /\ super[o] = None
  BY DEF Consistent, Shadows
<1>3. v = sh[current] /\ y = by[current]
  BY ViewFacts
<1>4. /\ v \in Objects /\ y \in ObjectOrNone /\ v # current /\ y # current
      /\ v # y /\ by[v] = current
      /\ y # None => sh[y] = current /\ y \in Objects
  BY <1>0, <1>1, <1>2, <1>3, LinkedFacts DEF ObjectOrNone
<1>5. /\ sh \in [Objects -> ObjectOrNone] /\ by \in [Objects -> ObjectOrNone] /\ Acyclic(sh)
      /\ \A o \in Objects : o \notin ann.flagged => sh[o] = None /\ by[o] = None
      /\ ann.flagged \subseteq Objects
  BY <1>2, AnnotatedFacts DEF Linked
<1>6. current \in ann.flagged /\ v \in ann.flagged /\ (y # None => y \in ann.flagged)
  BY <1>0, <1>1, <1>3, <1>4, <1>5
<1> HIDE DEF v, y
<1>7. /\ Annotated(a) /\ a.flagged = ann.flagged /\ SameActs(a, ann)
      /\ Sh(a) = sh /\ By(a) = [by EXCEPT ![v] = y]
  BY <1>2, <1>4, <1>6, SetShadowedByFacts
<1> HIDE DEF a
<1>8. /\ Annotated(b) /\ SameActs(b, ann) /\ b.flagged \subseteq ann.flagged /\ current \in b.flagged
      /\ Sh(b) = IF y # None THEN [sh EXCEPT ![y] = v] ELSE sh
      /\ By(b) = [by EXCEPT ![v] = y]
      /\ y = None => Needed(b, v, interactive)
  <2>1. CASE y # None
    <3>1. b = SetShadowing(a, y, v) /\ v \in ObjectOrNone
      BY <1>4, <2>1 DEF ObjectOrNone
    <3>2. /\ Annotated(b) /\ b.flagged = a.flagged /\ SameActs(b, a)
          /\ Sh(b) = [sh EXCEPT ![y] = v] /\ By(b) = [by EXCEPT ![v] = y]
      BY <1>6, <1>7, <2>1, <3>1, SetShadowingFacts
    <3> HIDE DEF b
    <3> QED
      BY <1>6, <1>7, <2>1, <3>2 DEF SameActs
  <2>2. CASE y = None
    <3>1. b = CheckShadowSent(a, v, interactive)
      BY <2>2
    <3> HIDE DEF b
    <3>2. /\ Annotated(b) /\ Sh(b) = Sh(a) /\ By(b) = By(a) /\ SameActs(b, a)
          /\ b.flagged \subseteq a.flagged /\ Needed(b, v, interactive)
          /\ \A p \in a.flagged : p # v => p \in b.flagged
      BY <1>4, <1>7, <3>1, CheckFacts
    <3> QED
      BY <1>4, <1>6, <1>7, <2>2, <3>2 DEF SameActs
  <2> QED
    BY <2>1, <2>2
<1> HIDE DEF b
<1>9. End(Sh(b), v) = End(sh, current)
  <2>1. Sh(b) \in [Objects -> ObjectOrNone]
    BY <1>8, AnnotatedFacts
  <2>2. \A o \in Objects : Sh(b)[o] = IF y # None /\ o = y THEN v ELSE sh[o]
    BY <1>5, <1>8
  <2>3. Shortens(Sh(b), sh)
    BY <1>1, <1>3, <1>4, <2>2 DEF Shortens
  <2>4. \A o \in Objects : Sh(b)[o] = None => sh[o] = None
    BY <1>1, <2>2
  <2>5. End(Sh(b), v) = End(sh, v)
    BY <1>4, <1>5, <2>1, <2>3, <2>4, ShorterEnds
  <2>6. End(sh, v) = End(sh, current)
    BY <1>1, <1>3, <1>5, EndFacts
  <2> QED
    BY <2>5, <2>6
<1>10. /\ Fewer(c, b)
       /\ \A p \in Objects \cap Reached(ann, current, current) :
            \A s \in Acts(c, p) : s.shadowOb # current
  <2>1. current # None
    BY <1>0
  <2>2. /\ Fewer(c, b)
        /\ \A p \in Objects \cap Reached(b, current, v) : \A s \in Acts(c, p) : s.shadowOb # current
    <3>1. Annotated(b) /\ v \in Objects
      BY <1>4, <1>8
    <3> QED
      BY <2>1, <3>1, RemoveShadowFacts
  <2>3. Reached(b, current, v) = Reached(ann, current, current)
    BY <1>9 DEF Reached
  <2> QED
    BY <2>2, <2>3
<1> HIDE DEF c
<1>11. Annotated(c) /\ c.flagged = b.flagged /\ Sh(c) = Sh(b) /\ By(c) = By(b)
  BY <1>10 DEF Fewer
<1>12. /\ Annotated(d) /\ d.flagged = c.flagged /\ SameActs(d, c)
       /\ Sh(d) = [Sh(b) EXCEPT ![current] = None] /\ By(d) = By(b)
  BY <1>0, <1>8, <1>11, SetShadowingFacts
<1> HIDE DEF d
<1>13. /\ Annotated(e) /\ e.flagged = d.flagged /\ SameActs(e, d)
       /\ Sh(e) = Sh(d) /\ By(e) = [By(b) EXCEPT ![current] = None]
  <2>1. current \in d.flagged
    BY <1>8, <1>11, <1>12
  <2>2. /\ Annotated(e) /\ e.flagged = d.flagged /\ SameActs(e, d)
        /\ Sh(e) = Sh(d) /\ By(e) = [By(d) EXCEPT ![current] = None]
    BY <1>0, <1>12, <2>1, SetShadowedByFacts
  <2> QED
    BY <1>12, <2>2
<1> HIDE DEF e
<1>14. /\ Annotated(ann') /\ Sh(ann') = Sh(e) /\ By(ann') = By(e) /\ SameActs(ann', e)
       /\ ann'.flagged \subseteq e.flagged /\ Needed(ann', current, interactive)
  BY <1>1, <1>13, CheckFacts
<1>15. Sh(ann') = Leave(sh, by, current) /\ By(ann') = Leave(by, sh, current)
  <2>1. /\ Sh(ann') \in [Objects -> ObjectOrNone] /\ By(ann') \in [Objects -> ObjectOrNone]
        /\ Sh(b) \in [Objects -> ObjectOrNone] /\ By(b) \in [Objects -> ObjectOrNone]
    BY <1>8, <1>14, AnnotatedFacts
  <2> HIDE DEF sh, by
  <2>2. \A o \in Objects :
          Sh(ann')[o] = IF o = current THEN None ELSE IF o = by[current] THEN sh[current] ELSE sh[o]
    BY <1>0, <1>3, <1>4, <1>5, <1>8, <1>12, <1>13, <1>14, <2>1
  <2>3. \A o \in Objects :
          By(ann')[o] = IF o = current THEN None ELSE IF o = sh[current] THEN by[current] ELSE by[o]
    BY <1>0, <1>3, <1>4, <1>5, <1>8, <1>12, <1>13, <1>14, <2>1
  <2> QED
    BY <2>1, <2>2, <2>3 DEF Leave
<1>16. \A o \in Objects : Acts(ann', o) \subseteq Acts(c, o) /\ Acts(c, o) \subseteq Acts(ann, o)
  BY <1>8, <1>10, <1>12, <1>13, <1>14 DEF SameActs, Fewer
<1>17. \A o \in Objects : Needed(ann', o, interactive)
  <2> SUFFICES ASSUME NEW o \in Objects, o \in ann'.flagged
               PROVE  o \in interactive \/ Sh(ann')[o] # None \/ By(ann')[o] # None
    BY DEF Needed
  <2>0. \A p \in Objects : /\ Sh(ann')[p] = IF p = current THEN None ELSE IF p = y THEN v ELSE sh[p]
                           /\ By(ann')[p] = IF p = current THEN None ELSE IF p = v THEN y ELSE by[p]
    BY <1>3, <1>15 DEF Leave
  <2>1. CASE o = current
    BY <1>14, <2>1 DEF Needed
  <2>2. CASE o # current /\ o = y
    BY <1>0, <1>4, <2>0, <2>2
  <2>3. CASE o # current /\ o # y /\ o = v /\ y # None
    BY <2>0, <2>3
  <2>4. CASE o # current /\ o # y /\ o = v /\ y = None
    <3>1. o \in b.flagged
      BY <1>11, <1>12, <1>13, <1>14
    <3>2. o \in interactive \/ Sh(b)[o] # None \/ By(b)[o] # None
      BY <1>8, <2>4, <3>1 DEF Needed
    <3>3. Sh(b)[o] = sh[o] /\ By(b)[o] = None
      BY <1>5, <1>8, <2>4
    <3> QED
      BY <2>0, <2>4, <3>2, <3>3
  <2>5. CASE o # current /\ o # y /\ o # v
    <3>1. o \in ann.flagged
      BY <1>8, <1>11, <1>12, <1>13, <1>14
    <3>2. o \in interactive \/ sh[o] # None \/ by[o] # None
      BY <1>2, <3>1 DEF Needed
    <3> QED
      BY <2>0, <2>5, <3>2
  <2> QED
    BY <2>1, <2>2, <2>3, <2>4, <2>5
<1>18. Shadows'
  <2>1. Linked(Sh(ann'), By(ann'))
    BY <1>2, <1>15, LeaveFacts
  <2>2. \A o \in Objects :
          Sh(ann')[o] # None => o \in live /\ Sh(ann')[o] \in live /\ super[o] = None
    <3>1. \A o \in Objects : Sh(ann')[o] = IF o = current THEN None ELSE IF o = y THEN v ELSE sh[o]
      BY <1>3, <1>15 DEF Leave
    <3> QED
      BY <1>0, <1>1, <1>2, <1>3, <1>4, <3>1
  <2> QED
    BY <1>1, <1>14, <1>17, <2>1, <2>2 DEF Shadows
<1>19. ASSUME ~RoomsShadow, NEW giver \in live, NEW s \in Acts(ann', giver)
       PROVE  Fine(s, giver)'
  <2>1. s \in Acts(ann, giver) /\ s \in Acts(c, giver) /\ giver \in Objects
    BY <1>2, <1>16
  <2>2. s.ob \in live /\ InVicinity(s.ob, giver)
    BY <1>19, <2>1 DEF Consistent, Actions, Fine
  <2>3. giver \in Reached(ann, current, current) => s.shadowOb # current
    BY <1>10, <2>1
  <2>4. Sh(ann)[current] # None
    BY <1>1, <1>3
  <2>5. /\ s.shadowOb # None =>
             Sh(ann')[s.shadowOb] # None /\ End(Sh(ann'), s.shadowOb) = s.ob
        /\ Sh(ann')[s.ob] # None => End(Sh(ann'), s.ob) # giver
    BY <1>15, <1>19, <2>1, <2>3, <2>4, LeaveKeepsFine
  <2> QED
    BY <1>1, <2>2, <2>5 DEF Fine, InVicinity
<1>20. Inventory'
  BY <1>1 DEF Consistent, Inventory
<1>21. ~RoomsShadow => Actions'
  BY <1>1, <1>19 DEF Actions
<1> QED
  BY <1>1, <1>18, <1>20, <1>21 DEF Consistent

LEMMA DestructKeeps ==
  ASSUME Consistent, MasterMeddles = FALSE, NEW ob \in Objects, Destruct(ob)
  PROVE  Consistent'
<1> DEFINE sh == Sh(ann)
           by == By(ann)
           left == LeaveShadowing(ann, ob)
           b == LeaveShadow(left, ann, ob)
           end == RemoveShadowsActions(b, ob, ShadowedBy(left, ob))
           a == CheckShadowSent(end.ann, ob, interactive)
<1>0. None \notin Objects /\ Masters \subseteq Objects
  BY ObjectsAssumption
<1>1. CASE end.shadow # None
  <2>1. hung' = TRUE /\ UNCHANGED <<live, super, contains, ann, interactive>>
    BY <1>1 DEF Destruct, UnlinkShadows
  <2>2. Inventory' /\ Shadows'
    BY <2>1 DEF Consistent, Inventory, Shadows
  <2>3. ~RoomsShadow => Actions'
    BY <2>1 DEF Consistent, Actions, Fine, InVicinity
  <2> QED
    BY <2>1, <2>2, <2>3 DEF Consistent
<1>2. CASE end.shadow = None
  <2>1. /\ ob \in live /\ (ob \notin Masters => contains[ob] = << >>)
        /\ ann' = RemoveActionSent(a, ob, Inside(ob) \cup Around(ob))
        /\ super' = [o \in Objects |-> IF o = ob \/ o \in Inside(ob) THEN None ELSE super[o]]
        /\ contains' = [o \in Objects |->
                          IF o = ob THEN << >>
                          ELSE IF o = super[ob] THEN Without(contains[o], ob)
                          ELSE contains[o]]
        /\ live' = live \ {ob}
        /\ UNCHANGED <<interactive, hung>>
    BY <1>2 DEF Destruct, MayDestruct, UnlinkShadows, Lives
  <2>2. /\ Annotated(ann) /\ Linked(sh, by) /\ live \subseteq Objects /\ interactive \subseteq Objects
        /\ \A o \in Objects : sh[o] # None => o \in live /\ sh[o] \in live /\ super[o] = None
        /\ Shadows
    BY DEF Consistent, Shadows
  <2>3. /\ super \in [Objects -> ObjectOrNone] /\ contains \in [Objects -> Seq(Objects)]
        /\ \A o \in Objects : /\ IsInjective(contains[o])
                              /\ ElementsOf(contains[o]) = {i \in Objects : super[i] = o}
                              /\ super[o] # None => o \in live /\ super[o] \in live
        /\ Acyclic(super)
        /\ \A i, j \in Objects : super[i] \in Masters /\ super[j] = super[i] => i = j
    BY DEF Consistent, Inventory
  <2>4. /\ Annotated(b)
        /\ Sh(b) = Leave(sh, by, ob) /\ By(b) = Leave(by, sh, ob)
        /\ ShadowedBy(left, ob) \in ObjectOrNone
        /\ \A o \in Objects \ {ob} : Needed(b, o, interactive)
        /\ \A o \in Objects : Acts(b, o) \subseteq Acts(ann, o)
        /\ sh[ob] # None => \A p \in Objects \cap Reached(ann, ob, ob) :
                              \A s \in Acts(b, p) : s.shadowOb # ob
    BY <2>2, UnlinkFacts
  <2> HIDE DEF left, b
  <2>5. Fewer(end.ann, b)
    BY <2>4, LoopFacts
  <2> HIDE DEF end
  <2>6. /\ Annotated(a) /\ Sh(a) = Sh(b) /\ By(a) = By(b)
        /\ \A o \in Objects : Acts(a, o) \subseteq Acts(b, o)
        /\ a.flagged \subseteq b.flagged /\ Needed(a, ob, interactive)
    <3>1. /\ Annotated(end.ann) /\ Sh(end.ann) = Sh(b) /\ By(end.ann) = By(b)
          /\ end.ann.flagged = b.flagged
          /\ \A o \in Objects : Acts(end.ann, o) \subseteq Acts(b, o)
      BY <2>5 DEF Fewer
    <3>2. /\ Annotated(a) /\ Sh(a) = Sh(end.ann) /\ By(a) = By(end.ann) /\ SameActs(a, end.ann)
          /\ a.flagged \subseteq end.ann.flagged /\ Needed(a, ob, interactive)
      BY <3>1, CheckFacts
    <3> QED
      BY <3>1, <3>2 DEF SameActs
  <2> HIDE DEF a
  <2>7. /\ Linked(Sh(b), By(b)) /\ \A o \in Objects : By(b)[o] # ob
        /\ \A o \in Objects : Sh(b)[o] = IF o = ob THEN None ELSE IF o = by[ob] THEN sh[ob] ELSE sh[o]
    <3>1. Linked(Sh(b), By(b))
      BY <2>2, <2>4, LeaveFacts
    <3>2. \A o \in Objects : By(b)[o] # ob
      BY <1>0, <2>2, <2>4, LeaveShortens
    <3>3. \A o \in Objects : Sh(b)[o] = IF o = ob THEN None ELSE IF o = by[ob] THEN sh[ob] ELSE sh[o]
      BY <2>4 DEF Leave
    <3> QED
      BY <3>1, <3>2, <3>3
  <2>8. /\ Annotated(ann') /\ ann'.flagged = a.flagged /\ Sh(ann') = Sh(b) /\ By(ann') = By(b)
        /\ \A o \in Objects : Acts(ann', o) \subseteq Acts(b, o)
        /\ \A p \in Objects \cap (Inside(ob) \cup Around(ob)) : \A s \in Acts(ann', p) : s.ob # ob
    <3>1. /\ Fewer(ann', a)
          /\ \A p \in Objects \cap (Inside(ob) \cup Around(ob)) : \A s \in Acts(ann', p) : s.ob # ob
      BY <2>1, <2>6, <2>7, RemoveActionFacts
    <3> QED
      BY <2>6, <3>1 DEF Fewer
  <2>9. /\ \A o \in Objects : super'[o] = IF o = ob \/ super[o] = ob THEN None ELSE super[o]
        /\ super' \in [Objects -> ObjectOrNone]
    <3>1. \A o \in Objects : o \in Inside(ob) <=> super[o] = ob
      BY <2>3 DEF Inside
    <3>2. \A o \in Objects : super'[o] = IF o = ob \/ super[o] = ob THEN None ELSE super[o]
      BY <2>1, <3>1
    <3> QED
      BY <2>1, <2>3, <3>2 DEF ObjectOrNone
  <2>10. Inventory'
    <3>1. ASSUME NEW o \in Objects
          PROVE  /\ contains'[o] \in Seq(Objects) /\ IsInjective(contains'[o])
                 /\ ElementsOf(contains'[o]) = {i \in Objects : super'[i] = o}
      <4>1. CASE o = ob
        <5>1. contains'[o] = << >>
          BY <2>1, <4>1
        <5>2. {i \in Objects : super'[i] = o} = {}
          BY <1>0, <2>9, <4>1
        <5> QED
          BY <5>1, <5>2 DEF ElementsOf, ToSet, IsInjective
      <4>2. CASE o # ob /\ o = super[ob]
        <5>1. contains'[o] = Without(contains[o], ob)
          BY <2>1, <4>2
        <5>2. {i \in Objects : super'[i] = o} = {i \in Objects : super[i] = o} \ {ob}
          BY <1>0, <2>9, <4>2
        <5> QED
          BY <2>3, <5>1, <5>2, WithoutFacts
      <4>3. CASE o # ob /\ o # super[ob]
        <5>1. contains'[o] = contains[o]
          BY <2>1, <4>3
        <5>2. {i \in Objects : super'[i] = o} = {i \in Objects : super[i] = o}
          BY <1>0, <2>9, <4>3
        <5> QED
          BY <2>3, <5>1, <5>2
      <4> QED
        BY <4>1, <4>2, <4>3
    <3>2. contains' \in [Objects -> Seq(Objects)]
      <4>1. contains' = [o \in Objects |-> contains'[o]]
        BY <2>1
      <4> QED
        BY <3>1, <4>1
    <3>3. Acyclic(super')
      <4>1. Shortens(super', super)
        BY <2>9 DEF Shortens
      <4> QED
        BY <2>3, <2>9, <4>1, ShorterIsAcyclic
    <3>4. \A o \in Objects : super'[o] # None => o \in live' /\ super'[o] \in live'
      BY <2>1, <2>3, <2>9
    <3>5. \A i, j \in Objects : super'[i] \in Masters /\ super'[j] = super'[i] => i = j
      BY <1>0, <2>3, <2>9
    <3> QED
      BY <2>9, <3>1, <3>2, <3>3, <3>4, <3>5 DEF Inventory
  <2>11. Shadows'
    <3>1. ASSUME NEW o \in Objects
          PROVE  Needed(ann', o, interactive')
      <4>1. CASE o = ob
        BY <2>1, <2>6, <2>8, <4>1 DEF Needed
      <4>2. CASE o # ob
        BY <2>1, <2>4, <2>6, <2>8, <4>2 DEF Needed
      <4> QED
        BY <4>1, <4>2
    <3>2. ASSUME NEW o \in Objects, Sh(ann')[o] # None
          PROVE  o \in live' /\ Sh(ann')[o] \in live' /\ super'[o] = None
      <4>1. Sh(ann')[o] # ob
        BY <1>0, <2>2, <2>4, <2>8, LeaveShortens
      <4>2. o # ob /\ Sh(ann')[o] = IF o = by[ob] THEN sh[ob] ELSE sh[o]
        BY <2>7, <2>8, <3>2
      <4>3. o = by[ob] => sh[o] = ob
        BY <1>0, <2>2, LinkedFacts
      <4>4. o \in live /\ Sh(ann')[o] \in live /\ super[o] = None
        BY <1>0, <2>2, <3>2, <4>2, <4>3
      <4> QED
        BY <2>1, <2>9, <4>1, <4>2, <4>4
    <3> QED
      BY <2>7, <2>8, <3>1, <3>2 DEF Shadows
  <2>12. ASSUME ~RoomsShadow, NEW giver \in live', NEW s \in Acts(ann', giver)
         PROVE  Fine(s, giver)'
    <3>1. /\ s \in Acts(ann, giver) /\ s \in Acts(b, giver) /\ giver \in live /\ giver \in Objects
          /\ giver # ob
      BY <2>1, <2>2, <2>4, <2>8
    <3>2. s.ob \in live /\ s.ob \in Objects /\ InVicinity(s.ob, giver)
      BY <2>2, <2>12, <3>1 DEF Consistent, Actions, Fine
    <3>3. s.ob # ob
      <4> SUFFICES ASSUME s.ob = ob PROVE FALSE
        OBVIOUS
      <4>1. giver \notin Inside(ob) \cup Around(ob)
        BY <2>8, <3>1
      <4>2. CASE super[ob] = giver
        BY <1>0, <3>1, <4>1, <4>2 DEF Around
      <4>3. CASE super[ob] # None /\ super[ob] = super[giver]
        <5>1. super[ob] \in Objects
          BY <2>3, <4>3 DEF ObjectOrNone
        <5>2. giver \in Siblings(ob)
          BY <2>3, <3>1, <4>3, <5>1 DEF Siblings
        <5> QED
          BY <4>1, <5>2 DEF Around
      <4>4. CASE ob = super[giver]
        BY <2>3, <3>1, <4>1, <4>4 DEF Inside
      <4> QED
        BY <3>1, <3>2, <4>2, <4>3, <4>4 DEF InVicinity
    <3>4. /\ s.shadowOb # None =>
               Sh(ann')[s.shadowOb] # None /\ End(Sh(ann'), s.shadowOb) = s.ob
          /\ Sh(ann')[s.ob] # None => End(Sh(ann'), s.ob) # giver
      BY <2>4, <2>8, <2>12, <3>1, <3>3, LeaveKeepsFine
    <3>5. \/ s.ob = giver
          \/ super'[s.ob] = giver
          \/ super'[s.ob] # None /\ super'[s.ob] = super'[giver]
          \/ s.ob = super'[giver]
      <4>1. CASE super[s.ob] # None /\ super[s.ob] = super[giver]
        <5>1. CASE super[s.ob] = ob
          <6>1. s.ob \in ElementsOf(contains[ob])
            BY <2>3, <3>2, <5>1
          <6>2. contains[ob] # << >>
            BY <6>1 DEF ElementsOf, ToSet
          <6>3. ob \in Masters
            BY <2>1, <6>2
          <6> QED
            BY <2>3, <3>1, <3>2, <4>1, <5>1, <6>3
        <5>2. CASE super[s.ob] # ob
          BY <2>9, <3>1, <3>2, <3>3, <4>1, <5>2
        <5> QED
          BY <5>1, <5>2
      <4> QED
        BY <2>9, <3>1, <3>2, <3>3, <4>1 DEF InVicinity
    <3> QED
      BY <2>1, <3>2, <3>3, <3>4, <3>5 DEF Fine, InVicinity
  <2>13. ~RoomsShadow => Actions'
    BY <2>12 DEF Actions
  <2> QED
    BY <2>1, <2>2, <2>10, <2>11, <2>13 DEF Consistent
<1> QED
  BY <1>1, <1>2

-----------------------------------------------------------------------------
(* The invariant and what follows from it.                                 *)

LEMMA InitKeeps == Init => Consistent
<1> SUFFICES ASSUME Init PROVE Consistent
  OBVIOUS
<1>0. None \notin Objects
  BY ObjectsAssumption
<1>1. /\ live = {} /\ interactive = {} /\ hung = FALSE
      /\ super = [o \in Objects |-> None] /\ contains = [o \in Objects |-> << >>]
      /\ ann = [sent |-> [o \in Objects |-> << >>], flagged |-> {}]
  BY DEF Init
<1>2. Inventory
  <2>1. /\ super \in [Objects -> ObjectOrNone] /\ contains \in [Objects -> Seq(Objects)]
        /\ \A o \in Objects : super[o] = None /\ contains[o] = << >>
    BY <1>1 DEF ObjectOrNone
  <2>2. /\ IsInjective(<< >>) /\ ElementsOf(<< >>) = {}
    BY DEF IsInjective, ElementsOf, ToSet
  <2>3. Acyclic(super)
    BY <1>0, <2>1 DEF Acyclic
  <2>4. \A o \in Objects : {i \in Objects : super[i] = o} = {}
    BY <1>0, <2>1
  <2>5. \A i \in Objects : super[i] \notin Masters
    BY <2>1, ObjectsAssumption
  <2>6. QED
    BY <2>1, <2>2, <2>3, <2>4, <2>5 DEF Inventory
<1>3. /\ Annotated(ann) /\ ann.flagged = {}
  <2>1. /\ ann \in [sent : [Objects -> Seq(Sentences)], flagged : SUBSET Objects]
        /\ ann.flagged = {} /\ \A o \in Objects : ann.sent[o] = << >>
    BY <1>1
  <2>2. DOMAIN << >> = {}
    OBVIOUS
  <2>3. QED
    BY <2>1, <2>2 DEF Annotated
<1>4. /\ Sh(ann) \in [Objects -> ObjectOrNone] /\ By(ann) \in [Objects -> ObjectOrNone]
      /\ \A o \in Objects : Sh(ann)[o] = None /\ By(ann)[o] = None
  BY <1>3, AnnotatedFacts
<1>5. Linked(Sh(ann), By(ann))
  BY <1>0, <1>4 DEF Linked, Acyclic
<1>6. Shadows
  BY <1>3, <1>4, <1>5 DEF Shadows, Needed
<1>7. QED
  BY <1>1, <1>2, <1>6 DEF Consistent, Actions

\* The efuns that wait for the master.
LEMMA CallsStayTyped ==
  ASSUME calls \in Seq(Calls), live \subseteq Objects, [Next]_vars
  PROVE  calls' \in Seq(Calls)
<1>1. ASSUME NEW efun \in {"shadow", "add_action"}, NEW current \in live, NEW ob \in Objects,
             Ask(efun, current, ob)
      PROVE  calls' \in Seq(Calls)
  BY <1>1, AppendProperties DEF Ask, Calls
<1>2. calls # << >> => /\ Front(calls) \in Seq(Calls) /\ Last(calls) \in Calls
  <2> SUFFICES ASSUME calls # << >>
               PROVE  Front(calls) \in Seq(Calls) /\ Last(calls) \in Calls
    OBVIOUS
  <2>1. Len(calls) \in Nat \ {0} /\ \A i \in 1 .. Len(calls) : calls[i] \in Calls
    BY EmptySeq, LenProperties, ElementOfSeq
  <2>2. SubSeq(calls, 1, Len(calls) - 1) \in Seq(Calls)
    BY <2>1, SubSeqProperties
  <2> QED
    BY <2>1, <2>2 DEF Front, Last
<1>3. ASSUME NEW current \in live, NEW ob \in live,
             AskShadow(current, ob) \/ AskAddAction(current, ob)
      PROVE  calls' \in Seq(Calls)
  BY <1>1, <1>3 DEF AskShadow, AskAddAction
<1>4. ASSUME Shadow \/ Refuse \/ \E giver \in live : EndAddAction(giver)
      PROVE  calls' \in Seq(Calls)
  BY <1>2, <1>4 DEF Shadow, Refuse, EndAddAction, WalksOn, Allowed
<1>5. ASSUME NEW ob \in live, AskAgain(ob)
      PROVE  calls' \in Seq(Calls)
  <2>1. calls # << >> /\ calls' = Append(Front(calls), [Last(calls) EXCEPT !.ob = ob])
    BY <1>5 DEF AskAgain, WalksOn, Allowed
  <2>2. [Last(calls) EXCEPT !.ob = ob] \in Calls
    BY <1>2, <2>1 DEF Calls
  <2> QED
    BY <1>2, <2>1, <2>2, AppendProperties
<1>6. ASSUME UNCHANGED calls
      PROVE  calls' \in Seq(Calls)
  BY <1>6
<1> QED
  BY <1>3, <1>4, <1>5, <1>6, Zenon
     DEF Next, vars, Create, Destruct, RemoveObject, SetEnvironment, AddAction,
         RemoveActionEfun, Exec, Unshadow, Connect, Disconnect

\* The inductive invariant: objects lie in each other as a forest, shadows form
\* chains, and no shadow gives its victim an action; provided that the LPC code
\* that runs in the middle of shadow() and add_action() leaves what they tested.
THEOREM Invariance ==
  ASSUME MasterMeddles = FALSE
  PROVE  Spec => []IInv
<1>1. Init => IInv
  BY InitKeeps, EmptySeq DEF IInv, Init
<1>2. IInv /\ [Next]_vars => IInv'
  <2> SUFFICES ASSUME IInv, [Next]_vars PROVE Consistent'
    BY CallsStayTyped DEF IInv, Consistent
  <2>0. Consistent /\ live \subseteq Objects /\ interactive \subseteq Objects
    BY DEF IInv, Consistent
  <2>1. ASSUME NEW o \in Objects, Create(o) \/ Destruct(o) \/ RemoveObject(o)
        PROVE  Consistent'
    BY <2>0, <2>1, CreateKeeps, DestructKeeps, RemoveObjectKeeps
  <2>2. ASSUME NEW item \in live, NEW dest \in live \cup {None}, SetEnvironment(item, dest)
        PROVE  Consistent'
    BY <2>0, <2>2, SetEnvironmentKeeps
  <2>3. ASSUME NEW current \in live, NEW giver \in live,
               AddAction(current, giver) \/ EndAddAction(giver)
        PROVE  Consistent'
    BY <2>0, <2>3, AddActionKeeps, EndAddActionKeeps
  <2>4. ASSUME NEW current \in live, NEW giver \in live, NEW i \in DOMAIN ann.sent[giver],
               RemoveActionEfun(current, giver, i)
        PROVE  Consistent'
    BY <2>0, <2>4, RemoveActionKeeps
  <2>5. ASSUME Shadow
        PROVE  Consistent'
    BY <2>0, <2>5, ShadowKeeps
  <2>6. ASSUME NEW ob \in Objects, NEW obfrom \in interactive, Exec(ob, obfrom)
        PROVE  Consistent'
    BY <2>0, <2>6, ExecKeeps
  <2>7. ASSUME NEW o \in live, Unshadow(o) \/ Connect(o)
        PROVE  Consistent'
    BY <2>0, <2>7, UnshadowKeeps, ConnectKeeps
  <2>8. ASSUME NEW o \in interactive, Disconnect(o)
        PROVE  Consistent'
    BY <2>0, <2>8, DisconnectKeeps
  <2>9. ASSUME UNCHANGED <<live, super, contains, ann, interactive, hung>>
        PROVE  Consistent'
    <3>1. /\ live' = live /\ super' = super /\ contains' = contains /\ ann' = ann
          /\ interactive' = interactive /\ hung' = hung
      BY <2>9
    <3> QED
      BY <2>0, <3>1 DEF Consistent, Inventory, Shadows, Actions, Fine, InVicinity
  <2>10. ASSUME NEW current \in live, NEW ob \in live,
                AskShadow(current, ob) \/ AskAddAction(current, ob)
         PROVE  Consistent'
    BY <2>9, <2>10 DEF AskShadow, AskAddAction, Ask
  <2>11. ASSUME Refuse \/ \E o \in live : AskAgain(o)
         PROVE  Consistent'
    BY <2>9, <2>11 DEF AskAgain, Refuse
  <2>12. ASSUME Next
         PROVE  Consistent'
    BY <2>1, <2>2, <2>3, <2>4, <2>5, <2>6, <2>7, <2>8, <2>10, <2>11, <2>12 DEF Next
  <2> QED
    BY <2>9, <2>12 DEF vars
<1>3. QED
  BY <1>1, <1>2, PTL DEF Spec

\* Types, and where objects are: each is in the inventory of its environment, once,
\* in no other one, and never inside itself, after any moves and destructions.
THEOREM TypeCorrect ==
  ASSUME MasterMeddles = FALSE
  PROVE  Spec => []TypeOK
<1>1. IInv => TypeOK
  <2> SUFFICES ASSUME IInv PROVE TypeOK
    OBVIOUS
  <2>1. /\ live \subseteq Objects /\ interactive \subseteq Objects /\ hung \in BOOLEAN
        /\ calls \in Seq(Calls)
    BY DEF IInv, Consistent
  <2>2. /\ super \in [Objects -> ObjectOrNone] /\ Acyclic(super)
        /\ \A o \in Objects : /\ IsInjective(contains[o])
                              /\ ElementsOf(contains[o]) = {i \in Objects : super[i] = o}
                              /\ super[o] # None => o \in live /\ super[o] \in live
    BY DEF IInv, Consistent, Inventory
  <2>3. ann.flagged \subseteq Objects
    BY AnnotatedFacts DEF IInv, Consistent, Shadows
  <2>4. ASSUME NEW o \in Objects, NEW i \in DOMAIN ann.sent[o], NEW s, s = ann.sent[o][i]
        PROVE  /\ s.type \in {"action", "shadow"}
               /\ {s.link, s.ob, s.shadowOb} \subseteq Objects \cup {None}
    <3>1. s \in Sentences
      BY <2>4, AnnotatedFacts DEF IInv, Consistent, Shadows
    <3>2. QED
      BY <3>1 DEF Sentences, ObjectOrNone
  <2>5. \A o \in Objects : super[o] # None =>
          {o, super[o]} \subseteq live /\ ~IsOrIsAround(super[o], o)
    BY <2>2, NotInsideItself
  <2>6. \A o \in Objects : \A i \in DOMAIN ann.sent[o] :
          LET s == ann.sent[o][i]
          IN  /\ s.type \in {"action", "shadow"}
              /\ {s.link, s.ob, s.shadowOb} \subseteq Objects \cup {None}
    BY <2>4
  <2>7. QED
    BY <2>1, <2>2, <2>3, <2>5, <2>6 DEF TypeOK, ObjectOrNone
<1>2. QED
  BY <1>1, Invariance, PTL

\* O_SHADOW, the shadow sentences and their links agree after any shadow(),
\* unshadow(), exec(), connections and destructions in between.
THEOREM ChainsStay ==
  ASSUME MasterMeddles = FALSE
  PROVE  Spec => []ShadowChains
<1>1. IInv => ShadowChains
  <2> SUFFICES ASSUME IInv, NEW o \in Objects
               PROVE  /\ \A i \in DOMAIN ann.sent[o] :
                           ann.sent[o][i].type = "shadow" <=> i = 1 /\ IsFlagged(ann, o)
                      /\ IsFlagged(ann, o) =>
                           /\ ann.sent[o] # << >>
                           /\ \/ o \in interactive
                              \/ Shadowing(ann, o) # None \/ ShadowedBy(ann, o) # None
                      /\ Shadowing(ann, o) # None =>
                           /\ {o, Shadowing(ann, o)} \subseteq live
                           /\ ShadowedBy(ann, Shadowing(ann, o)) = o
                           /\ super[o] = None
                           /\ Shadowing(ann, Bottom(ann, o)) = None
                      /\ ShadowedBy(ann, o) # None => Shadowing(ann, ShadowedBy(ann, o)) = o
    BY DEF ShadowChains
  <2>1. /\ Annotated(ann) /\ Linked(Sh(ann), By(ann)) /\ Needed(ann, o, interactive)
        /\ Sh(ann)[o] # None => o \in live /\ Sh(ann)[o] \in live /\ super[o] = None
    BY DEF IInv, Consistent, Shadows
  <2>2. /\ \A i \in DOMAIN ann.sent[o] :
             ann.sent[o][i].type = "shadow" <=> i = 1 /\ o \in ann.flagged
        /\ o \in ann.flagged => ann.sent[o] # << >>
    BY <2>1 DEF Annotated
  <2>3. /\ \A x \in Objects : Shadowing(ann, x) = Sh(ann)[x] /\ ShadowedBy(ann, x) = By(ann)[x]
        /\ Bottom(ann, o) = End(Sh(ann), o)
    BY ViewFacts
  <2>4. /\ Sh(ann) \in [Objects -> ObjectOrNone] /\ By(ann) \in [Objects -> ObjectOrNone]
        /\ Acyclic(Sh(ann))
    BY <2>1 DEF Linked
  <2>5. End(Sh(ann), o) \in Objects /\ Sh(ann)[End(Sh(ann), o)] = None
    BY <2>4, EndFacts
  <2>6. /\ Sh(ann)[o] # None => Sh(ann)[o] \in Objects /\ By(ann)[Sh(ann)[o]] = o
        /\ By(ann)[o] # None => By(ann)[o] \in Objects /\ Sh(ann)[By(ann)[o]] = o
    BY <2>1, <2>4, LinkedFacts DEF ObjectOrNone
  <2>7. /\ Shadowing(ann, o) # None =>
             /\ {o, Shadowing(ann, o)} \subseteq live
             /\ ShadowedBy(ann, Shadowing(ann, o)) = o
             /\ super[o] = None
             /\ Shadowing(ann, Bottom(ann, o)) = None
        /\ ShadowedBy(ann, o) # None => Shadowing(ann, ShadowedBy(ann, o)) = o
    BY <2>1, <2>3, <2>5, <2>6
  <2>8. IsFlagged(ann, o) =>
          \/ o \in interactive
          \/ Shadowing(ann, o) # None \/ ShadowedBy(ann, o) # None
    BY <2>1, <2>3 DEF Needed, IsFlagged
  <2>9. QED
    BY <2>2, <2>7, <2>8 DEF IsFlagged
<1>2. QED
  BY <1>1, Invariance, PTL

\* If no room shadows what is in it: whatever moves, shadows and is destructed, no
\* object has an action of one that is gone or out of reach.
THEOREM ActionsStayInVicinity ==
  ASSUME RoomsShadow = FALSE, MasterMeddles = FALSE
  PROVE  Spec => []ActionsInVicinity
<1>1. IInv => ActionsInVicinity
  <2> SUFFICES ASSUME IInv, NEW giver \in live, NEW i \in DOMAIN ann.sent[giver],
                      NEW s, s = ann.sent[giver][i], s.type = "action"
               PROVE  s.ob \in live /\ InVicinity(s.ob, giver)
    BY DEF ActionsInVicinity
  <2>1. s \in Acts(ann, giver)
    BY DEF Acts
  <2>2. Fine(s, giver)
    BY <2>1 DEF IInv, Consistent, Actions
  <2>3. QED
    BY <2>2 DEF Fine
<1>2. QED
  BY <1>1, Invariance, PTL

\* If no room shadows what is in it: an action that a shadow added goes with the
\* shadow, and is of the object at the bottom of its chain as long as it is there.
THEOREM ShadowsStayBacked ==
  ASSUME RoomsShadow = FALSE, MasterMeddles = FALSE
  PROVE  Spec => []ShadowActionsBacked
<1>1. IInv => ShadowActionsBacked
  <2> SUFFICES ASSUME IInv, NEW giver \in live, NEW i \in DOMAIN ann.sent[giver],
                      NEW s, s = ann.sent[giver][i], s.shadowOb # None
               PROVE  Shadowing(ann, s.shadowOb) # None /\ Bottom(ann, s.shadowOb) = s.ob
    BY DEF ShadowActionsBacked
  <2>1. giver \in Objects /\ Annotated(ann)
    BY DEF IInv, Consistent, Shadows
  <2>2. s \in Sentences
    BY <2>1, AnnotatedFacts
  <2>3. s.type = "action" /\ s.shadowOb \in Objects
    BY <2>1, <2>2 DEF Annotated, Sentences, ObjectOrNone
  <2>4. s \in Acts(ann, giver)
    BY <2>3 DEF Acts
  <2>5. Fine(s, giver)
    BY <2>4 DEF IInv, Consistent, Actions
  <2>6. QED
    BY <2>3, <2>5, ViewFacts DEF Fine
<1>2. QED
  BY <1>1, Invariance, PTL
=============================================================================
