----------------------------- MODULE Induction -----------------------------
(***************************************************************************)
(* Induction and recursion over the natural numbers, stated about sets and *)
(* functions.  The theorems of NaturalsInduction take a predicate as a     *)
(* parameter, which the provers cannot instantiate; a set they can.  And   *)
(* division with remainder, which they do not know much about.             *)
(***************************************************************************)
EXTENDS Integers, SequencesExt, FiniteSetTheorems, SequenceTheorems, WellFoundedInduction,
        TLAPS

(* A set of numbers that is not empty has a least one: the intervals from  *)
(* zero to its numbers are finite sets, which strict inclusion orders      *)
(* well.                                                                   *)
LEMMA LeastNat ==
  ASSUME NEW T, T \subseteq Nat, T # {}
  PROVE  \E m \in T : \A k \in T : m <= k
  <1> DEFINE Below == {0..k : k \in T}
  <1>1. Below \subseteq FiniteSubsetsOf(Nat)
    <2>1. ASSUME NEW k \in T PROVE 0..k \in FiniteSubsetsOf(Nat)
      <3>1. k \in Int /\ 0..k \in SUBSET Nat
        OBVIOUS
      <3>2. IsFiniteSet(0..k)
        BY <3>1, FS_Interval
      <3> QED
        BY <3>1, <3>2 DEF FiniteSubsetsOf
    <2> QED
      BY <2>1
  <1>2. Below # {}
    OBVIOUS
  <1>3. \E x \in Below : \A y \in Below : ~(<<y, x>> \in StrictSubsetOrdering(Nat))
    <2> HIDE DEF Below
    <2> QED
      BY <1>1, <1>2, FS_StrictSubsetOrderingWellFounded, WFMin
  <1>4. PICK m \in T : \A k \in T : ~(<<0..k, 0..m>> \in StrictSubsetOrdering(Nat))
    BY <1>3
  <1>5. ASSUME NEW k \in T PROVE m <= k
    <2>1. CASE k < m
      <3>1. m \in 0..m /\ m \notin 0..k
        BY <2>1
      <3>2. 0..k \subseteq 0..m /\ 0..k # 0..m
        BY <2>1, <3>1
      <3>3. 0..k \in SUBSET Nat /\ 0..m \in SUBSET Nat
        OBVIOUS
      <3> QED
        BY <3>2, <3>3, <1>4 DEF StrictSubsetOrdering
    <2> QED
      BY <2>1
  <1> QED
    BY <1>5

(* Induction: a set with zero and every successor has every number.        *)
LEMMA NatInd ==
  ASSUME NEW T, 0 \in T, \A n \in Nat : n \in T => n + 1 \in T
  PROVE  Nat \subseteq T
  <1> SUFFICES ASSUME NEW n0 \in Nat, n0 \notin T
               PROVE  FALSE
    OBVIOUS
  <1> DEFINE U == {n \in Nat : n \notin T}
  <1>1. PICK m \in U : \A k \in U : m <= k
    BY LeastNat
  <1>2. m # 0 /\ m - 1 \in Nat /\ m - 1 \notin U
    BY <1>1
  <1> QED
    BY <1>2

(* Recursion: there is a function with a given value at zero, whose value  *)
(* at each successor is a step from the one before.                        *)
IsRecursion(f, V, a, step) ==
  /\ f \in [Nat -> V]
  /\ f[0] = a
  /\ \A n \in Nat : f[n + 1] = step[n][f[n]]

LEMMA NatRec ==
  ASSUME NEW V, NEW a \in V, NEW step \in [Nat -> [V -> V]]
  PROVE  \E f : IsRecursion(f, V, a, step)
  <1> DEFINE Good(n, g) == /\ g \in [0..n -> V]
                           /\ g[0] = a
                           /\ \A i \in 0..n : i # n => g[i + 1] = step[i][g[i]]
             T == {n \in Nat : \E g : Good(n, g)}
             G(n) == CHOOSE g : Good(n, g)
  <1>1. \A n \in Nat : Good(n, G(n))
    <2>1. 0 \in T
      <3>1. Good(0, [i \in 0..0 |-> a])
        OBVIOUS
      <3> QED
        BY <3>1
    <2>2. ASSUME NEW n \in Nat, n \in T
          PROVE  n + 1 \in T
      <3>1. PICK g : Good(n, g)
        BY <2>2
      <3> DEFINE h == [i \in 0..n + 1 |-> IF i = n + 1 THEN step[n][g[n]] ELSE g[i]]
      <3>2. g[n] \in V /\ step[n][g[n]] \in V
        <4>1. n \in 0..n
          OBVIOUS
        <4>2. g[n] \in V
          BY <3>1, <4>1
        <4> QED
          BY <4>2
      <3>3. h \in [0..n + 1 -> V] /\ h[0] = a
        <4>1. \A i \in 0..n + 1 : i # n + 1 => i \in 0..n /\ g[i] \in V
          BY <3>1
        <4>2. h \in [0..n + 1 -> V]
          BY <3>2, <4>1
        <4>3. 0 \in 0..n + 1 /\ 0 # n + 1
          OBVIOUS
        <4>4. h[0] = g[0]
          BY <4>3
        <4> QED
          BY <4>2, <4>4, <3>1
      <3>4. ASSUME NEW i \in 0..n + 1, i # n + 1
            PROVE  h[i + 1] = step[i][h[i]]
        <4>1. i \in 0..n /\ i + 1 \in 0..n + 1 /\ h[i] = g[i]
          BY <3>4
        <4>2. CASE i = n
          BY <4>1, <4>2
        <4>3. CASE i # n
          <5>1. i + 1 # n + 1
            BY <4>1, <4>3
          <5>2. h[i + 1] = g[i + 1]
            BY <4>1, <5>1
          <5> QED
            BY <3>1, <4>1, <4>3, <5>2
        <4> QED
          BY <4>2, <4>3
      <3>5. Good(n + 1, h)
        <4> HIDE DEF h
        <4> QED
          BY <3>3, <3>4
      <3> HIDE DEF Good, h
      <3>6. \E e : Good(n + 1, e)
        BY <3>5
      <3> QED
        BY <3>6
    <2>3. Nat \subseteq T
      <3> HIDE DEF T
      <3> QED
        BY <2>1, <2>2, NatInd
    <2> HIDE DEF Good
    <2> QED
      BY <2>3
  <1>2. ASSUME NEW n \in Nat
        PROVE  /\ G(n) \in [0..n -> V] /\ G(n)[0] = a
               /\ \A i \in 0..n : i # n => G(n)[i + 1] = step[i][G(n)[i]]
    <2>1. Good(n, G(n))
      BY <1>1
    <2> HIDE DEF G
    <2> QED
      BY <2>1
  <1> HIDE DEF G, Good
  <1>3. ASSUME NEW n \in Nat
        PROVE  G(n + 1)[n] = G(n)[n]
    <2> DEFINE W == {k \in Nat : k <= n => G(n + 1)[k] = G(n)[k]}
    <2>1. 0 \in W
      <3>1. n + 1 \in Nat
        OBVIOUS
      <3>2. G(n + 1)[0] = a /\ G(n)[0] = a
        BY <3>1, <1>2
      <3> QED
        BY <3>2
    <2>2. ASSUME NEW k \in Nat, k \in W
          PROVE  k + 1 \in W
      <3> SUFFICES ASSUME k + 1 <= n
                   PROVE  G(n + 1)[k + 1] = G(n)[k + 1]
        OBVIOUS
      <3>1. k \in 0..n /\ k # n /\ k \in 0..n + 1 /\ k # n + 1 /\ k <= n
        OBVIOUS
      <3>2. G(n)[k + 1] = step[k][G(n)[k]]
        BY <3>1, <1>2
      <3>3. n + 1 \in Nat
        OBVIOUS
      <3>4. G(n + 1)[k + 1] = step[k][G(n + 1)[k]]
        BY <3>1, <3>3, <1>2
      <3> QED
        BY <3>1, <3>2, <3>4, <2>2
    <2>3. Nat \subseteq W
      <3> HIDE DEF W
      <3> QED
        BY <2>1, <2>2, NatInd
    <2> QED
      BY <2>3
  <1> DEFINE f == [n \in Nat |-> G(n)[n]]
  <1>4. f \in [Nat -> V] /\ f[0] = a
    <2>1. \A n \in Nat : n \in 0..n /\ G(n)[n] \in V
      BY <1>2
    <2> QED
      BY <2>1, <1>2
  <1>5. ASSUME NEW n \in Nat
        PROVE  f[n + 1] = step[n][f[n]]
    <2>1. n + 1 \in Nat /\ n \in 0..n + 1 /\ n # n + 1
      OBVIOUS
    <2>2. G(n + 1)[n + 1] = step[n][G(n + 1)[n]]
      BY <2>1, <1>2
    <2> QED
      BY <2>1, <2>2, <1>3
  <1>6. IsRecursion(f, V, a, step)
    <2> HIDE DEF f
    <2> QED
      BY <1>4, <1>5 DEF IsRecursion
  <1> QED
    BY <1>6

(* Induction from all smaller numbers.                                     *)
LEMMA NatIndBelow ==
  ASSUME NEW T, \A n \in Nat : (\A m \in Nat : m < n => m \in T) => n \in T
  PROVE  Nat \subseteq T
  <1> SUFFICES ASSUME NEW n0 \in Nat, n0 \notin T
               PROVE  FALSE
    OBVIOUS
  <1> DEFINE U == {n \in Nat : n \notin T}
  <1>1. PICK n \in U : \A k \in U : n <= k
    BY LeastNat
  <1>2. \A m \in Nat : m < n => m \notin U
    BY <1>1
  <1> QED
    BY <1>1, <1>2

(* Recursion on all smaller numbers: a step that only reads those values   *)
(* of a function that lie below has a function that it leads from to.      *)
ReadsBelow(V, step) ==
  \A n \in Nat : \A f, g \in [Nat -> V] :
    (\A m \in Nat : m < n => f[m] = g[m]) => step[n][f] = step[n][g]
IsRecursionBelow(f, V, step) ==
  f \in [Nat -> V] /\ \A n \in Nat : f[n] = step[n][f]

LEMMA NatRecBelow ==
  ASSUME NEW V, NEW step \in [Nat -> [[Nat -> V] -> V]], ReadsBelow(V, step), NEW v \in V
  PROVE  \E f : IsRecursionBelow(f, V, step)
  <1> DEFINE F == [Nat -> V]
             a == [n \in Nat |-> v]
             grow == [n \in Nat |-> [f \in F |-> [f EXCEPT ![n] = step[n][f]]]]
  <1>1. a \in F /\ grow \in [Nat -> [F -> F]]
    OBVIOUS
  <1>2. PICK h : IsRecursion(h, F, a, grow)
    <2> HIDE DEF F, a, grow
    <2> QED
      BY <1>1, NatRec, Zenon
  <1>3. /\ \A n \in Nat : h[n] \in F
        /\ \A n \in Nat : h[n + 1] = [h[n] EXCEPT ![n] = step[n][h[n]]]
    <2>1. h \in [Nat -> F] /\ \A n \in Nat : h[n + 1] = grow[n][h[n]]
      BY <1>2 DEF IsRecursion
    <2> QED
      BY <2>1
  <1> HIDE DEF F, a, grow
  <1> DEFINE f == [n \in Nat |-> h[n + 1][n]]
  <1>4. ASSUME NEW k \in Nat
        PROVE  h[k + 1][k] = step[k][h[k]] /\ f[k] = h[k + 1][k]
    BY <1>3 DEF F
  <1>5. ASSUME NEW k \in Nat
        PROVE  \A n \in Nat : k < n => h[n][k] = f[k]
    <2> DEFINE T == {n \in Nat : k < n => h[n][k] = f[k]}
    <2>1. 0 \in T
      OBVIOUS
    <2>2. ASSUME NEW n \in Nat, n \in T
          PROVE  n + 1 \in T
      <3>1. CASE k = n
        BY <1>4, <3>1
      <3>2. CASE k < n
        <4>1. h[n + 1][k] = h[n][k]
          <5>1. h[n] \in [Nat -> V] /\ h[n + 1] = [h[n] EXCEPT ![n] = step[n][h[n]]]
            BY <1>3 DEF F
          <5>2. k # n
            BY <3>2
          <5> QED
            BY <5>1, <5>2
        <4> QED
          BY <2>2, <3>2, <4>1
      <3>3. CASE n < k
        BY <3>3
      <3> QED
        BY <3>1, <3>2, <3>3
    <2>3. Nat \subseteq T
      <3> HIDE DEF T
      <3> QED
        BY <2>1, <2>2, NatInd
    <2> QED
      BY <2>3
  <1>6. f \in [Nat -> V]
    <2>1. ASSUME NEW n \in Nat
          PROVE  h[n + 1][n] \in V
      BY <1>3 DEF F
    <2> QED
      BY <2>1
  <1>7. ASSUME NEW n \in Nat
        PROVE  f[n] = step[n][f]
    <2>1. \A m \in Nat : m < n => h[n][m] = f[m]
      BY <1>5
    <2>2. h[n] \in [Nat -> V]
      BY <1>3 DEF F
    <2> HIDE DEF f
    <2>3. step[n][h[n]] = step[n][f]
      BY <1>6, <2>1, <2>2 DEF ReadsBelow
    <2> QED
      BY <1>4, <2>3
  <1> HIDE DEF f
  <1>8. IsRecursionBelow(f, V, step)
    BY <1>6, <1>7 DEF IsRecursionBelow
  <1> QED
    BY <1>8

(* A loop over n steps: there is a function with its values.               *)
IsLoop(h, n, base, step) ==
  h = [i \in 0..n |-> IF i = 0 THEN base ELSE step[i][h[i - 1]]]
LEMMA LoopRec ==
  ASSUME NEW n \in Nat, NEW V, NEW base \in V, NEW step \in [Nat -> [V -> V]]
  PROVE  \E h \in [0..n -> V] : IsLoop(h, n, base, step)
  <1> DEFINE next == [i \in Nat |-> step[i + 1]]
  <1>1. next \in [Nat -> [V -> V]]
    OBVIOUS
  <1>2. PICK f : IsRecursion(f, V, base, next)
    <2> HIDE DEF next
    <2> QED
      BY <1>1, NatRec
  <1>3. /\ f \in [Nat -> V] /\ f[0] = base
        /\ \A i \in Nat : f[i + 1] = step[i + 1][f[i]]
    BY <1>2 DEF IsRecursion
  <1> DEFINE h == [i \in 0..n |-> f[i]]
  <1>4. h \in [0..n -> V]
    BY <1>3
  <1>5. ASSUME NEW i \in 0..n
        PROVE  h[i] = IF i = 0 THEN base ELSE step[i][h[i - 1]]
    <2>1. CASE i = 0
      BY <1>3, <2>1
    <2>2. CASE i # 0
      <3>1. i - 1 \in 0..n /\ i - 1 \in Nat /\ i = (i - 1) + 1
        BY <2>2
      <3>2. f[i] = step[i][f[i - 1]]
        BY <1>3, <3>1
      <3> QED
        BY <2>2, <3>1, <3>2
    <2> QED
      BY <2>1, <2>2
  <1> HIDE DEF h
  <1>6. h = [i \in 0..n |-> IF i = 0 THEN base ELSE step[i][h[i - 1]]]
    BY <1>4, <1>5
  <1> QED
    BY <1>4, <1>6 DEF IsLoop

(* And what holds at first and is kept by each step holds at the end.      *)
LEMMA LoopInd ==
  ASSUME NEW n \in Nat, NEW T, 0 \in T, \A i \in 0..n - 1 : i \in T => i + 1 \in T
  PROVE  n \in T
  <1> DEFINE U == {i \in Nat : i > n \/ i \in T}
  <1>1. 0 \in U /\ \A i \in Nat : i \in U => i + 1 \in U
    OBVIOUS
  <1> HIDE DEF U
  <1>2. Nat \subseteq U
    BY <1>1, NatInd
  <1>3. n \in U
    BY <1>2
  <1> QED
    BY <1>3 DEF U

-----------------------------------------------------------------------------
(* Division with remainder.                                                *)
LEMMA Division ==
  ASSUME NEW x \in Nat, NEW n \in Nat \ {0}
  PROVE  /\ x \div n \in Nat
         /\ x % n \in 0..n - 1
         /\ x = n * (x \div n) + (x % n)
  BY SMT

(* A larger quotient is worth at least the divisor.                        *)
LEMMA FactorBound ==
  ASSUME NEW n \in Nat \ {0}, NEW p \in Int, NEW q \in Int, p > q
  PROVE  n * p >= n * q + n
  <1>1. p - q - 1 >= 0 /\ n * (p - q - 1) >= 0
    BY SMT
  <1> QED
    BY <1>1, SMT

(* The remainder is what is left of a multiple.                            *)
LEMMA RemainderUnique ==
  ASSUME NEW n \in Nat \ {0}, NEW q \in Nat, NEW r \in 0..n - 1
  PROVE  (n * q + r) % n = r
  <1> DEFINE x == n * q + r
  <1>1. x \in Nat
    BY SMT
  <1> DEFINE p == x \div n
             m == x % n
  <1>2. n * q + r = n * p + m /\ p \in Nat /\ m \in 0..n - 1
    BY <1>1, Division
  <1> HIDE DEF p, m
  <1>3. ~(p > q) /\ ~(q > p)
    BY <1>2, FactorBound, SMT
  <1>4. m = r
    BY <1>2, <1>3, SMT
  <1> QED
    BY <1>4 DEF m

(* One cyclic step, without the remainder.                                 *)
LEMMA ModStep ==
  ASSUME NEW a \in Nat, NEW n \in Nat \ {0}, NEW d \in 0..n - 1
  PROVE  (a + d) % n = IF (a % n) + d < n THEN (a % n) + d ELSE (a % n) + d - n
  <1> DEFINE q == a \div n
             r == a % n
  <1>1. q \in Nat /\ r \in 0..n - 1 /\ a = n * q + r
    BY Division
  <1> HIDE DEF q, r
  <1>2. CASE r + d < n
    <2>1. a + d = n * q + (r + d) /\ r + d \in 0..n - 1
      BY <1>1, <1>2, SMT
    <2>2. (a + d) % n = r + d
      BY <1>1, <2>1, RemainderUnique
    <2> QED
      BY <1>1, <1>2, <2>2 DEF r
  <1>3. CASE ~(r + d < n)
    <2>1. /\ a + d = n * (q + 1) + (r + d - n)
          /\ r + d - n \in 0..n - 1
          /\ q + 1 \in Nat
      BY <1>1, <1>3, SMT
    <2>2. (a + d) % n = r + d - n
      BY <2>1, RemainderUnique
    <2> QED
      BY <1>1, <1>3, <2>2 DEF r
  <1> QED
    BY <1>2, <1>3

-----------------------------------------------------------------------------
(* Sequences.                                                              *)

(* FlattenSeq by its partial results.                                      *)
LEMMA FlattenIs ==
  ASSUME NEW S, NEW m \in Nat, NEW r \in [1..m -> Seq(S)], NEW flat \in [Nat -> Seq(S)],
         flat[0] = <<>>, \A i \in Nat : i < m => flat[i + 1] = flat[i] \o r[i + 1]
  PROVE  FlattenSeq(r) = flat[m]
  <1>1. r \in Seq(Seq(S)) /\ Len(r) = m
    <2>1. r \in Seq(Seq(S))
      OBVIOUS
    <2> QED
      BY <2>1, LenProperties
  <1>2. CASE m = 0
    <2>1. r = <<>>
      BY <1>1, <1>2, EmptySeq
    <2> QED
      BY <1>1, <1>2, <2>1 DEF FlattenSeq
  <1>3. CASE m # 0
    <2> DEFINE Good(h) == h = [i \in 1..Len(r) |-> IF i = 1 THEN r[i] ELSE h[i - 1] \o r[i]]
               part == [i \in 1..Len(r) |-> flat[i]]
               h == CHOOSE e : Good(e)
    <2>1. flat[1] = r[1]
      <3>1. 0 < m /\ 1 \in 1..m
        BY <1>3
      <3>2. flat[0 + 1] = <<>> \o r[0 + 1]
        BY <3>1
      <3>3. <<>> \o r[1] = r[1]
        BY <3>1, ConcatEmptySeq
      <3> QED
        BY <3>2, <3>3
    <2>2. Good(part)
      <3>1. ASSUME NEW i \in 1..m
            PROVE  part[i] = IF i = 1 THEN r[i] ELSE part[i - 1] \o r[i]
        <4>1. CASE i = 1
          BY <1>1, <2>1, <4>1
        <4>2. CASE i # 1
          <5>1. i - 1 \in Nat /\ i - 1 < m /\ i - 1 \in 1..m /\ (i - 1) + 1 = i
            BY <4>2
          <5>2. flat[(i - 1) + 1] = flat[i - 1] \o r[(i - 1) + 1]
            BY <5>1
          <5>3. flat[i] = flat[i - 1] \o r[i]
            BY <5>1, <5>2
          <5>4. part[i] = flat[i] /\ part[i - 1] = flat[i - 1]
            BY <1>1, <5>1
          <5> HIDE DEF part
          <5> QED
            BY <4>2, <5>3, <5>4
        <4> QED
          BY <4>1, <4>2
      <3>2. part = [i \in 1..Len(r) |-> part[i]]
        OBVIOUS
      <3> HIDE DEF part
      <3> QED
        BY <1>1, <3>1, <3>2
    <2>3. Good(h)
      <3> HIDE DEF Good
      <3> QED
        BY <2>2
    <2> HIDE DEF h
    <2> DEFINE W == {i \in Nat : i + 1 <= m => h[i + 1] = flat[i + 1]}
    <2>4. 0 \in W
      <3>1. 1 \in 1..m
        BY <1>3
      <3>2. h[1] = r[1]
        BY <1>1, <2>3, <3>1
      <3>3. 0 + 1 = 1 /\ h[1] = flat[1]
        BY <2>1, <3>2
      <3> QED
        BY <3>3
    <2>5. ASSUME NEW i \in Nat, i \in W
          PROVE  i + 1 \in W
      <3> SUFFICES ASSUME (i + 1) + 1 <= m
                   PROVE  h[(i + 1) + 1] = flat[(i + 1) + 1]
        OBVIOUS
      <3> DEFINE j == (i + 1) + 1
      <3>1. j \in 1..m /\ j # 1 /\ j - 1 = i + 1 /\ i + 1 <= m /\ i + 1 \in Nat /\ i + 1 < m
        OBVIOUS
      <3>2. h[j] = h[j - 1] \o r[j]
        <4> HIDE DEF j
        <4> QED
          BY <1>1, <2>3, <3>1
      <3>3. flat[j] = flat[i + 1] \o r[j]
        BY <3>1
      <3>4. h[i + 1] = flat[i + 1]
        BY <2>5, <3>1
      <3> HIDE DEF j
      <3>5. h[j] = flat[j]
        BY <3>1, <3>2, <3>3, <3>4
      <3> QED
        BY <3>5 DEF j
    <2>6. Nat \subseteq W
      <3> HIDE DEF W
      <3> QED
        BY <2>4, <2>5, NatInd
    <2>7. h[m] = flat[m]
      <3>1. m - 1 \in Nat /\ (m - 1) + 1 = m
        BY <1>3
      <3>2. m - 1 \in W
        <4> HIDE DEF W
        <4> QED
          BY <2>6, <3>1
      <3> QED
        BY <3>1, <3>2
    <2>8. FlattenSeq(r) = h[m]
      BY <1>1, <1>3 DEF FlattenSeq, h
    <2> QED
      BY <2>7, <2>8
  <1> QED
    BY <1>2, <1>3

(* And these exist.                                                        *)
FlattenedBy(S, m, r, flat) ==
  /\ flat \in [Nat -> Seq(S)] /\ flat[0] = <<>>
  /\ \A i \in Nat : i < m => flat[i + 1] = flat[i] \o r[i + 1]
  /\ FlattenSeq(r) = flat[m]
LEMMA FlattenLoop ==
  ASSUME NEW S, NEW m \in Nat, NEW r \in [1..m -> Seq(S)]
  PROVE  \E flat : FlattenedBy(S, m, r, flat)
  <1> DEFINE step == [i \in Nat |-> [v \in Seq(S) |-> IF i < m THEN v \o r[i + 1] ELSE v]]
  <1>1. step \in [Nat -> [Seq(S) -> Seq(S)]]
    <2>1. ASSUME NEW i \in Nat, NEW v \in Seq(S)
          PROVE  (IF i < m THEN v \o r[i + 1] ELSE v) \in Seq(S)
      <3>1. CASE i < m
        <4>1. i + 1 \in 1..m
          BY <3>1
        <4>2. r[i + 1] \in Seq(S)
          BY <4>1
        <4>3. v \o r[i + 1] \in Seq(S)
          BY <4>2, ConcatProperties
        <4> QED
          BY <3>1, <4>3
      <3>2. CASE ~(i < m)
        BY <3>2
      <3> QED
        BY <3>1, <3>2
    <2> QED
      BY <2>1
  <1>2. <<>> \in Seq(S)
    OBVIOUS
  <1>3. PICK flat \in [Nat -> Seq(S)] :
          flat[0] = <<>> /\ \A i \in Nat : flat[i + 1] = step[i][flat[i]]
    <2>1. \E f : IsRecursion(f, Seq(S), <<>>, step)
      <3> HIDE DEF step
      <3> QED
        BY <1>1, <1>2, NatRec, Zenon
    <2> QED
      BY <2>1 DEF IsRecursion
  <1>4. \A i \in Nat : i < m => flat[i + 1] = flat[i] \o r[i + 1]
    BY <1>3
  <1>5. FlattenSeq(r) = flat[m]
    BY <1>3, <1>4, FlattenIs
  <1> QED
    BY <1>3, <1>4, <1>5 DEF FlattenedBy

(* FlattenSeq of one more.                                                 *)
LEMMA FlattenStep ==
  ASSUME NEW S, NEW n \in Nat, NEW r \in [1..n + 1 -> Seq(S)]
  PROVE  /\ FlattenSeq([i \in 1..n |-> r[i]]) \in Seq(S)
         /\ FlattenSeq(r) = FlattenSeq([i \in 1..n |-> r[i]]) \o r[n + 1]
  <1> DEFINE s == [i \in 1..n |-> r[i]]
  <1>1. n + 1 \in Nat /\ n < n + 1
    OBVIOUS
  <1>2. PICK flat : FlattenedBy(S, n + 1, r, flat)
    BY <1>1, FlattenLoop
  <1>3. /\ flat \in [Nat -> Seq(S)] /\ flat[0] = <<>> /\ FlattenSeq(r) = flat[n + 1]
        /\ \A i \in Nat : i < n + 1 => flat[i + 1] = flat[i] \o r[i + 1]
    BY <1>2 DEF FlattenedBy
  <1>4. FlattenSeq(s) = flat[n]
    <2>1. s \in [1..n -> Seq(S)]
      OBVIOUS
    <2>2. ASSUME NEW i \in Nat, i < n
          PROVE  flat[i + 1] = flat[i] \o s[i + 1]
      <3>1. i < n + 1 /\ i + 1 \in 1..n
        BY <2>2
      <3>2. s[i + 1] = r[i + 1]
        BY <3>1
      <3> QED
        BY <1>3, <3>1, <3>2
    <2>3. flat[0] = <<>> /\ \A i \in Nat : i < n => flat[i + 1] = flat[i] \o s[i + 1]
      BY <1>3, <2>2, Zenon
    <2> HIDE DEF s
    <2> QED
      BY <1>3, <2>1, <2>3, FlattenIs, ZenonT(30)
  <1>5. flat[n] \in Seq(S) /\ flat[n + 1] = flat[n] \o r[n + 1]
    BY <1>1, <1>3
  <1> QED
    BY <1>3, <1>4, <1>5

=============================================================================
