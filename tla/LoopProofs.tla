----------------------------- MODULE LoopProofs ------------------------------
(***************************************************************************)
(* Loops of the code are recursive functions of the number of iterations.  *)
(* That such a function exists, and induction up to a number, are stated   *)
(* here about sets and functions, so that they can be cited wherever a     *)
(* loop is reasoned about.                                                 *)
(***************************************************************************)
EXTENDS Integers, TLAPS, NaturalsInduction, WellFoundedInduction

\* A set of natural numbers has a least element, and a largest one if it is bounded.
LEMMA HasLeast ==
  ASSUME NEW V \in SUBSET Nat, V # {}
  PROVE  \E m \in V : \A a \in V : m <= a
<1>1. PICK m \in V : \A a \in V : ~ (<<a, m>> \in OpToRel(<, Nat))
  BY NatLessThanWellFounded, WFMin, Zenon
<1>2. \A a \in V : ~ (a < m)
  BY <1>1 DEF OpToRel
<1> QED BY <1>2

LEMMA LargestBelow ==
  ASSUME NEW V \in SUBSET Nat, V # {}, NEW M \in Nat, \A a \in V : a <= M
  PROVE  \E m \in V : \A a \in V : a <= m
<1> DEFINE T == {M - a : a \in V}
<1>1. T \in SUBSET Nat /\ T # {}
  <2>1. T \in SUBSET Nat
    OBVIOUS
  <2>2. PICK a \in V : TRUE
    OBVIOUS
  <2>3. M - a \in T
    OBVIOUS
  <2> QED BY <2>1, <2>3
<1>2. PICK t \in T : \A u \in T : t <= u
  <2> HIDE DEF T
  <2> QED BY <1>1, HasLeast
<1>3. PICK m \in V : t = M - m
  OBVIOUS
<1>4. ASSUME NEW a \in V
      PROVE  a <= m
  <2>1. M - a \in T /\ M - a \in Nat /\ M - m \in Nat
    OBVIOUS
  <2>2. M - m <= M - a
    BY <1>2, <1>3, <2>1
  <2> QED BY <2>2
<1> QED BY <1>4

\* Induction up to N, on the set of numbers for which something holds.
LEMMA UpTo ==
  ASSUME NEW N \in Nat, NEW P, 0 \in P,
         \A n \in 0 .. N : n \in P /\ n # N => n + 1 \in P
  PROVE  \A n \in 0 .. N : n \in P
<1> DEFINE T == (0 .. N) \ P
<1> SUFFICES ASSUME T # {} PROVE FALSE
  OBVIOUS
<1>1. PICK t \in T : \A u \in T : t <= u
  <2>1. T \in SUBSET Nat
    OBVIOUS
  <2> HIDE DEF T
  <2> QED BY <2>1, HasLeast
<1>2. t \in Nat /\ t # 0
  OBVIOUS
<1>3. t - 1 \in 0 .. N /\ t - 1 # N /\ (t - 1) + 1 = t /\ t - 1 < t
  BY <1>2
<1>4. t - 1 \notin T
  <2> HIDE DEF T
  <2> QED BY <1>1, <1>2, <1>3
<1>5. t - 1 \in P
  BY <1>3, <1>4
<1> QED BY <1>3, <1>5

\* The states of a loop over 1 .. N from x on, when F[n] is its n-th iteration.
IsHistory(g, D, F, x, N) ==
  g \in [0 .. N -> D] /\ g[0] = x /\ \A n \in 1 .. N : g[n] = F[n][g[n - 1]]

\* Every loop has a history.
LEMMA Histories ==
  ASSUME NEW D, NEW N \in Nat, NEW F \in [1 .. N -> [D -> D]], NEW x \in D
  PROVE  \E g : IsHistory(g, D, F, x, N)
<1> DEFINE Of(n) == {g \in [0 .. n -> D] : g[0] = x /\ \A k \in 1 .. n : g[k] = F[k][g[k - 1]]}
           P == {n \in 0 .. N : Of(n) # {}}
<1>1. 0 \in P
  <2>1. [k \in 0 .. 0 |-> x] \in Of(0)
    OBVIOUS
  <2> QED BY <2>1
<1>2. ASSUME NEW n \in 0 .. N, n \in P, n # N
      PROVE  n + 1 \in P
  <2>1. PICK g \in Of(n) : TRUE
    BY <1>2
  <2> DEFINE h == [k \in 0 .. n + 1 |-> IF k = n + 1 THEN F[n + 1][g[n]] ELSE g[k]]
  <2>2. /\ g \in [0 .. n -> D] /\ g[0] = x /\ \A k \in 1 .. n : g[k] = F[k][g[k - 1]]
        /\ n + 1 \in 1 .. N
    BY <1>2, <2>1
  <2>3. /\ h \in [0 .. n + 1 -> D] /\ h[0] = x /\ h[n + 1] = F[n + 1][g[n]]
        /\ \A k \in 0 .. n : h[k] = g[k]
    BY <2>2
  <2> HIDE DEF h
  <2>4. ASSUME NEW k \in 1 .. n + 1
        PROVE  h[k] = F[k][h[k - 1]]
    <3>1. k - 1 \in 0 .. n /\ (k = n + 1 \/ k \in 1 .. n) /\ (k = n + 1 => k - 1 = n)
      BY <1>2
    <3> QED BY <2>2, <2>3, <3>1
  <2>5. h \in Of(n + 1)
    BY <2>3, <2>4
  <2> HIDE DEF Of
  <2> QED BY <1>2, <2>5
<1>3. N \in P
  <2> HIDE DEF P
  <2>1. \A n \in 0 .. N : n \in P
    BY <1>1, <1>2, UpTo
  <2> QED BY <2>1
<1> QED BY <1>3 DEF IsHistory

\* A loop that does the same N times.
IsRun(g, D, F, x, N) ==
  g \in [0 .. N -> D] /\ g[0] = x /\ \A n \in 0 .. N - 1 : g[n + 1] = F[g[n]]

LEMMA Loops ==
  ASSUME NEW D, NEW F \in [D -> D], NEW x \in D, NEW N \in Nat
  PROVE  \E g : IsRun(g, D, F, x, N)
<1> DEFINE G == [n \in 1 .. N |-> F]
<1>1. PICK g : IsHistory(g, D, G, x, N)
  <2>1. G \in [1 .. N -> [D -> D]]
    OBVIOUS
  <2> HIDE DEF G
  <2> QED BY <2>1, Histories
<1>2. ASSUME NEW n \in 0 .. N - 1
      PROVE  g[n + 1] = F[g[n]]
  <2>1. n + 1 \in 1 .. N /\ (n + 1) - 1 = n
    OBVIOUS
  <2> QED BY <1>1, <2>1 DEF IsHistory
<1> QED BY <1>1, <1>2 DEF IsHistory, IsRun

LEMMA RunSteps ==
  ASSUME NEW D, NEW F \in [D -> D], NEW x, NEW N \in Nat, NEW g, IsRun(g, D, F, x, N),
         NEW n \in 0 .. N, n # 0
  PROVE  g[n - 1] \in D /\ g[n] = F[g[n - 1]]
<1>1. n - 1 \in 0 .. N - 1 /\ (n - 1) + 1 = n /\ n - 1 \in 0 .. N
  OBVIOUS
<1> QED BY <1>1 DEF IsRun

-----------------------------------------------------------------------------
(***************************************************************************)
(* Sums.                                                                   *)
(***************************************************************************)
IsSum(g, a, N) ==
  g \in [0 .. N -> Nat] /\ g[0] = 0 /\ \A n \in 1 .. N : g[n] = g[n - 1] + a[n]

LEMMA Sums ==
  ASSUME NEW N \in Nat, NEW a \in [1 .. N -> Nat]
  PROVE  \E g : IsSum(g, a, N)
<1> DEFINE F == [n \in 1 .. N |-> [s \in Nat |-> s + a[n]]]
<1>1. PICK g : IsHistory(g, Nat, F, 0, N)
  <2>1. F \in [1 .. N -> [Nat -> Nat]]
    OBVIOUS
  <2> HIDE DEF F
  <2> QED BY <2>1, Histories
<1>2. ASSUME NEW n \in 1 .. N
      PROVE  g[n] = g[n - 1] + a[n]
  <2>1. n - 1 \in 0 .. N
    OBVIOUS
  <2> QED BY <1>1, <2>1 DEF IsHistory
<1> QED BY <1>1, <1>2 DEF IsHistory, IsSum

\* When one summand is d more, so is every sum that it is part of.
IsMore(b, a, N, c, d) == \A k \in 1 .. N : b[k] = IF k = c THEN a[k] + d ELSE a[k]

LEMMA SumsDiffer ==
  ASSUME NEW N \in Nat, NEW a \in [1 .. N -> Nat], NEW b, NEW c \in 1 .. N, NEW d \in Nat,
         IsMore(b, a, N, c, d), NEW g, IsSum(g, a, N), NEW h, IsSum(h, b, N)
  PROVE  h[N] = g[N] + d
<1> DEFINE P == {n \in 0 .. N : h[n] = g[n] + (IF c <= n THEN d ELSE 0)}
<1>1. 0 \in P
  BY DEF IsSum
<1>2. ASSUME NEW n \in 0 .. N, n \in P, n # N
      PROVE  n + 1 \in P
  <2>1. n + 1 \in 1 .. N /\ (n + 1) - 1 = n
    BY <1>2
  <2>2. /\ g[n] \in Nat /\ a[n + 1] \in Nat /\ g[n + 1] = g[n] + a[n + 1]
        /\ h[n + 1] = h[n] + b[n + 1]
    BY <2>1 DEF IsSum
  <2>3. h[n] = g[n] + (IF c <= n THEN d ELSE 0)
    BY <1>2
  <2>4. b[n + 1] = IF n + 1 = c THEN a[n + 1] + d ELSE a[n + 1]
    BY <2>1 DEF IsMore
  <2>5. h[n + 1] = g[n + 1] + (IF c <= n + 1 THEN d ELSE 0)
    BY <2>2, <2>3, <2>4
  <2> QED BY <2>1, <2>5
<1>3. N \in P
  <2> HIDE DEF P
  <2>1. \A n \in 0 .. N : n \in P
    BY <1>1, <1>2, UpTo
  <2> QED BY <2>1
<1> QED BY <1>3

\* A sum of nothing but 0 is 0.
LEMMA SumOfNothing ==
  ASSUME NEW N \in Nat, NEW a, \A k \in 1 .. N : a[k] = 0, NEW g, IsSum(g, a, N)
  PROVE  g[N] = 0
<1> DEFINE P == {n \in 0 .. N : g[n] = 0}
<1>1. 0 \in P
  BY DEF IsSum
<1>2. ASSUME NEW n \in 0 .. N, n \in P, n # N
      PROVE  n + 1 \in P
  <2>1. n + 1 \in 1 .. N /\ (n + 1) - 1 = n
    BY <1>2
  <2>2. g[n + 1] = g[n] + a[n + 1]
    BY <2>1 DEF IsSum
  <2>3. g[n] = 0 /\ a[n + 1] = 0
    BY <1>2, <2>1
  <2> QED BY <2>1, <2>2, <2>3
<1>3. N \in P
  <2> HIDE DEF P
  <2>1. \A n \in 0 .. N : n \in P
    BY <1>1, <1>2, UpTo
  <2> QED BY <2>1
<1> QED BY <1>3
=============================================================================
