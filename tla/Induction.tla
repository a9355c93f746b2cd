------------------------------ MODULE Induction ------------------------------
(***************************************************************************)
(* Induction over the natural numbers for the proofs about folds and other    *)
(* recursive functions of the model.  The library's theorems of that name take  *)
(* the induction hypothesis as an operator, which the provers here cannot      *)
(* instantiate; these take a set of numbers, or a function, in its place, and   *)
(* follow from the order of the numbers being well-founded.                  *)
(***************************************************************************)
EXTENDS Integers, FiniteSetsExt, WellFoundedInduction, TLAPS

\* Every set of natural numbers has a least element.
LEMMA LeastNumber ==
  ASSUME NEW T, T \subseteq Nat, T # {}
  PROVE  \E x \in T : \A y \in T : x <= y
<1> DEFINE R == OpToRel(<, Nat)
<1>1. IsWellFoundedOn(R, Nat)
  BY NatLessThanWellFounded
<1>2. \A x, y \in Nat : y < x => <<y, x>> \in R
  BY DEF OpToRel
<1> HIDE DEF R
<1>3. PICK x \in T : \A y \in T : ~ (<<y, x>> \in R)
  BY <1>1, WFMin
<1>4. \A y \in T : ~ (y < x)
  BY <1>2, <1>3
<1>5. \A y \in T : x <= y
  BY <1>4, x \in Nat
<1> QED
  BY <1>5

\* Of a set of natural numbers Min gives the least, and no other.
LEMMA MinInSet ==
  ASSUME NEW T, T \subseteq Nat, T # {}
  PROVE  Min(T) \in T /\ \A k \in T : Min(T) <= k
BY LeastNumber DEF Min

LEMMA MinIs ==
  ASSUME NEW T, T \subseteq Nat, NEW k \in T, \A x \in T : k <= x
  PROVE  Min(T) = k
<1>1. Min(T) \in T /\ Min(T) <= k
  BY MinInSet
<1>2. Min(T) \in Nat /\ k <= Min(T)
  BY <1>1
<1> QED
  BY <1>1, <1>2

\* A set that holds 0, and with every number the next one, holds all of them.
LEMMA Induct ==
  ASSUME NEW T, 0 \in T, \A n \in Nat : n \in T => n + 1 \in T
  PROVE  Nat \subseteq T
<1> SUFFICES ASSUME ~ (Nat \subseteq T) PROVE FALSE
  OBVIOUS
<1>1. PICK x \in Nat \ T : \A y \in Nat \ T : x <= y
  <2>1. Nat \ T # {} /\ Nat \ T \subseteq Nat
    OBVIOUS
  <2> QED
    BY <2>1, LeastNumber
<1>2. x - 1 \in T
  BY <1>1
<1> QED
  BY <1>1, <1>2

\* The same up to a bound.
LEMMA InductUpTo ==
  ASSUME NEW N \in Nat, NEW T, 0 \in T, \A n \in 0 .. N - 1 : n \in T => n + 1 \in T
  PROVE  0 .. N \subseteq T
<1> DEFINE U == {n \in Nat : n <= N => n \in T}
<1>1. 0 \in U
  OBVIOUS
<1>2. \A n \in Nat : n \in U => n + 1 \in U
  OBVIOUS
<1> HIDE DEF U
<1>3. Nat \subseteq U
  BY <1>1, <1>2, Induct
<1> QED
  BY <1>3 DEF U

\* The function that starts with a value and takes a step from each number to the
\* next.
Iterated(S, first, step) ==
  CHOOSE f \in [Nat -> S] : f[0] = first /\ \A n \in Nat : f[n + 1] = step[n][f[n]]

\* Whatever the value and the steps are, there is such a function.
LEMMA Recursion ==
  ASSUME NEW S, NEW first \in S, NEW step \in [Nat -> [S -> S]]
  PROVE  /\ Iterated(S, first, step) \in [Nat -> S]
         /\ Iterated(S, first, step)[0] = first
         /\ \A n \in Nat :
              Iterated(S, first, step)[n + 1] = step[n][Iterated(S, first, step)[n]]
<1> DEFINE Is(f, n) == f[0] = first /\ \A i \in 0 .. n - 1 : f[i + 1] = step[i][f[i]]
<1>1. \A n \in Nat : \E f \in [0 .. n -> S] : Is(f, n)
  <2> DEFINE T == {n \in Nat : \E f \in [0 .. n -> S] : Is(f, n)}
  <2>1. 0 \in T
    <3>1. [i \in 0 .. 0 |-> first] \in [0 .. 0 -> S] /\ Is([i \in 0 .. 0 |-> first], 0)
      OBVIOUS
    <3> QED
      BY <3>1
  <2>2. ASSUME NEW n \in Nat, n \in T
        PROVE  n + 1 \in T
    <3>1. PICK f \in [0 .. n -> S] : Is(f, n)
      BY <2>2
    <3> DEFINE g == [i \in 0 .. n + 1 |-> IF i <= n THEN f[i] ELSE step[n][f[n]]]
    <3>2. g \in [0 .. n + 1 -> S]
      OBVIOUS
    <3>3. g[0] = first
      BY <3>1
    <3>4. ASSUME NEW i \in 0 .. n
          PROVE  g[i + 1] = step[i][g[i]]
      <4>1. CASE i = n
        BY <4>1
      <4>2. CASE i < n
        <5>1. f[i + 1] = step[i][f[i]]
          BY <3>1, <4>2
        <5>2. i + 1 \in 0 .. n + 1 /\ i \in 0 .. n + 1 /\ i + 1 <= n /\ i <= n
          BY <4>2
        <5>3. g[i + 1] = f[i + 1] /\ g[i] = f[i]
          BY <5>2
        <5> QED
          BY <5>1, <5>3
      <4> QED
        BY <4>1, <4>2
    <3>5. Is(g, n + 1)
      <4> HIDE DEF g
      <4>1. 0 .. (n + 1) - 1 = 0 .. n
        OBVIOUS
      <4> QED
        BY <3>3, <3>4, <4>1
    <3> HIDE DEF g, Is
    <3> QED
      BY <3>2, <3>5
  <2> HIDE DEF T
  <2>3. Nat \subseteq T
    BY <2>1, <2>2, Induct
  <2> QED
    BY <2>3 DEF T
<1>2. ASSUME NEW m \in Nat, NEW n \in Nat, m <= n, NEW f, NEW g, Is(f, m), Is(g, n)
      PROVE  f[m] = g[m]
  <2> DEFINE T == {i \in 0 .. m : f[i] = g[i]}
  <2>1. 0 \in T
    BY <1>2
  <2>2. ASSUME NEW i \in 0 .. m - 1, i \in T
        PROVE  i + 1 \in T
    <3>1. i \in 0 .. n - 1
      BY <1>2
    <3>2. f[i + 1] = step[i][f[i]] /\ g[i + 1] = step[i][g[i]]
      BY <3>1, <1>2
    <3> QED
      BY <3>2, <2>2
  <2> HIDE DEF T
  <2>3. 0 .. m \subseteq T
    BY <2>1, <2>2, InductUpTo
  <2> QED
    BY <2>3 DEF T
<1> DEFINE upTo == [n \in Nat |-> CHOOSE f \in [0 .. n -> S] : Is(f, n)]
<1>3. \A n \in Nat : upTo[n] \in [0 .. n -> S] /\ Is(upTo[n], n)
  BY <1>1
<1> DEFINE h == [n \in Nat |-> upTo[n][n]]
<1> HIDE DEF upTo
<1>4. h \in [Nat -> S]
  <2>1. \A n \in Nat : n \in 0 .. n
    OBVIOUS
  <2> QED
    BY <1>3, <2>1
<1>5. h[0] = first
  BY <1>3
<1>6. ASSUME NEW n \in Nat
      PROVE  h[n + 1] = step[n][h[n]]
  <2>1. upTo[n + 1][n + 1] = step[n][upTo[n + 1][n]]
    BY <1>3
  <2>2. upTo[n + 1][n] = upTo[n][n]
    <3>1. Is(upTo[n], n) /\ Is(upTo[n + 1], n + 1)
      BY <1>3
    <3> HIDE DEF Is
    <3> QED
      BY <3>1, <1>2
  <2> QED
    BY <2>1, <2>2
<1> HIDE DEF h
<1> QED
  BY <1>4, <1>5, <1>6 DEF Iterated

\* The same over the positions of a sequence: the value after each of N steps.
Folded(S, first, step, N) ==
  CHOOSE f \in [0 .. N -> S] : f[0] = first /\ \A n \in 1 .. N : f[n] = step[n][f[n - 1]]

\* Again there is such a function.
LEMMA Folding ==
  ASSUME NEW S, NEW first \in S, NEW N \in Nat, NEW step \in [1 .. N -> [S -> S]]
  PROVE  /\ Folded(S, first, step, N) \in [0 .. N -> S]
         /\ Folded(S, first, step, N)[0] = first
         /\ \A n \in 1 .. N :
              Folded(S, first, step, N)[n] = step[n][Folded(S, first, step, N)[n - 1]]
<1> DEFINE next == [n \in Nat |-> [x \in S |-> IF n < N THEN step[n + 1][x] ELSE x]]
           f == Iterated(S, first, next)
           g == [n \in 0 .. N |-> f[n]]
<1>1. next \in [Nat -> [S -> S]]
  <2>1. ASSUME NEW n \in Nat, NEW x \in S
        PROVE  (IF n < N THEN step[n + 1][x] ELSE x) \in S
    <3>1. n < N => n + 1 \in 1 .. N
      OBVIOUS
    <3> QED
      BY <3>1
  <2> QED
    BY <2>1
<1>2. \A n \in Nat : n < N => \A x \in S : next[n][x] = step[n + 1][x]
  OBVIOUS
<1> HIDE DEF next
<1>3. f \in [Nat -> S] /\ f[0] = first /\ \A n \in Nat : f[n + 1] = next[n][f[n]]
  BY <1>1, Recursion
<1> HIDE DEF f
<1>4. g \in [0 .. N -> S] /\ g[0] = first
  BY <1>3
<1>5. ASSUME NEW n \in 1 .. N
      PROVE  g[n] = step[n][g[n - 1]]
  <2>1. n - 1 \in Nat /\ n - 1 < N /\ (n - 1) + 1 = n
    OBVIOUS
  <2>2. f[n] = step[n][f[n - 1]]
    BY <1>2, <1>3, <2>1
  <2> QED
    BY <2>2
<1> HIDE DEF g
<1> QED
  BY <1>4, <1>5 DEF Folded

=============================================================================
