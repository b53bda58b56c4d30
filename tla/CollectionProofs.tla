-------------------------- MODULE CollectionProofs --------------------------
(***************************************************************************)
(* For vectors and queues of any size, with any keys, items and data.      *)
(*                                                                         *)
(* A vector is the sequence of its entries: its types are inductive as     *)
(* they stand, and under them every step maps to one of VectorEntries or   *)
(* to a stutter.  The insertion sort of SoA entries yields the one stable  *)
(* order (IsOrder); qsort of plain items yields the same items, since two  *)
(* sorted arrangements of them cannot differ at a place.  Halving finds a  *)
(* key among sorted entries, by induction on how many are left.            *)
(*                                                                         *)
(* A queue is first in, first out.  FirstInFirstOut is inductive as it     *)
(* stands: each step puts a node at the end of the chain, takes one from   *)
(* its front, or leaves the chain alone.                                   *)
(*                                                                         *)
(* A call of functions passes on what it owns.  FunctionalInv says of each *)
(* object, by the function that made it, whether it is freed by now, and   *)
(* that the list of a function that makes objects has each of them once,   *)
(* so that cleaning up the list frees them once.  The values are those     *)
(* that After means: a map builds what its function means entry by entry.  *)
(***************************************************************************)
EXTENDS Vector, Queue, Functional, Induction

-----------------------------------------------------------------------------
(* Slots and types.                                                        *)

Slots(S, size) == [1..size -> S]

LEMMA ResizedTypes ==
  ASSUME NEW S, 0 \in S, NEW slots, NEW size \in Nat, length \in Nat,
         \A i \in 1..length : i <= size => slots[i] \in S
  PROVE  Resized(slots, size) \in Slots(S, size)
  BY DEF Resized, Slots

LEMMA ZerosTypes ==
  ASSUME NEW S, 0 \in S, NEW size
  PROVE  Zeros(size) \in Slots(S, size)
  BY DEF Zeros, Slots

LEMMA NoSlots == \A S : <<>> \in Slots(S, 0)
  BY DEF Slots

LEMMA VectorParts ==
  ASSUME VectorTypeOK
  PROVE  /\ capacity \in Nat /\ length \in Nat /\ length <= capacity /\ soa \in BOOLEAN
         /\ items \in Slots(Items, capacity)
         /\ soa => index \in Slots(Indices, capacity)
         /\ ~soa => index \in Slots(Indices, 0)
         /\ \A i \in 1..length : /\ i \in 1..capacity /\ items[i] \in Items
                                 /\ soa => index[i] \in Indices
                                 /\ Key(i) \in Nat /\ Key(i) \in Indices \cup Items
  <1>1. /\ capacity \in Nat /\ length \in Nat /\ length <= capacity /\ soa \in BOOLEAN
        /\ items \in Slots(Items, capacity)
        /\ soa => index \in Slots(Indices, capacity)
        /\ ~soa => index \in Slots(Indices, 0)
    BY DEF VectorTypeOK, Slots
  <1>2. ASSUME NEW i \in 1..length
        PROVE  /\ i \in 1..capacity /\ items[i] \in Items
               /\ soa => index[i] \in Indices
    BY <1>1 DEF Slots
  <1>3. ASSUME NEW i \in 1..length
        PROVE  Key(i) \in Nat /\ Key(i) \in Indices \cup Items
    BY <1>2, IndicesAssumption, ItemsAssumption DEF Key
  <1> QED
    BY <1>1, <1>2, <1>3

LEMMA GrownRoom ==
  ASSUME VectorTypeOK
  PROVE  /\ Grown \in Nat /\ length + 1 \in 1..Grown
         /\ Grown = capacity \/ Grown > capacity
  BY CapacityAssumption, VectorParts DEF Grown

LEMMA StoredTypes ==
  ASSUME VectorTypeOK, NEW S, 0 \in S, NEW slots \in Slots(S, capacity),
         NEW x \in S \cup {None},
         None \notin S
  PROVE  /\ Stored(slots, x) \in Slots(S, Grown)
         /\ \A i \in 1..length : Stored(slots, x)[i] = slots[i]
         /\ x # None => Stored(slots, x)[length + 1] = x
  <1> DEFINE room == IF Grown = capacity THEN slots ELSE Resized(slots, Grown)
  <1>1. /\ length \in Nat /\ length <= capacity /\ capacity \in Nat
        /\ Grown \in Nat /\ length + 1 \in 1..Grown /\ (Grown = capacity \/ Grown > capacity)
    BY VectorParts, GrownRoom
  <1>2. room \in Slots(S, Grown) /\ \A i \in 1..length : room[i] = slots[i]
    <2>1. CASE Grown = capacity
      BY <2>1
    <2>2. CASE Grown # capacity
      <3>1. \A i \in 1..length : slots[i] \in S /\ i \in 1..Grown
        BY <1>1 DEF Slots
      <3>2. Resized(slots, Grown) \in Slots(S, Grown)
        BY <1>1, <3>1, ResizedTypes
      <3>3. \A i \in 1..length : Resized(slots, Grown)[i] = slots[i]
        BY <1>1, <3>1 DEF Resized
      <3> QED
        BY <2>2, <3>2, <3>3
    <2> QED
      BY <2>1, <2>2
  <1> HIDE DEF room
  <1>3. Stored(slots, x) = IF x = None THEN room ELSE [room EXCEPT ![length + 1] = x]
    BY DEF Stored, room
  <1>4. CASE x = None
    BY <1>2, <1>3, <1>4
  <1>5. CASE x # None
    BY <1>1, <1>2, <1>3, <1>5 DEF Slots
  <1> QED
    BY <1>4, <1>5

LEMMA MovedDownTypes ==
  ASSUME VectorTypeOK, NEW S, NEW slots \in Slots(S, capacity), NEW i \in 1..length
  PROVE  /\ MovedDown(slots, i) \in Slots(S, capacity)
         /\ \A j \in 1..length - 1 : MovedDown(slots, i)[j] = slots[IF j < i THEN j ELSE j + 1]
  <1>1. length \in Nat /\ length <= capacity /\ capacity \in Nat
    BY VectorParts
  <1>2. DOMAIN slots = 1..capacity
    BY DEF Slots
  <1>3. \A j \in 1..capacity : j \in i..length - 1 => j + 1 \in 1..capacity
    BY <1>1
  <1>4. MovedDown(slots, i) \in Slots(S, capacity)
    BY <1>2, <1>3 DEF MovedDown, Slots
  <1>5. ASSUME NEW j \in 1..length - 1
        PROVE  MovedDown(slots, i)[j] = slots[IF j < i THEN j ELSE j + 1]
    <2>1. j \in 1..capacity /\ (j \in i..length - 1 <=> ~(j < i))
      BY <1>1
    <2> QED
      BY <1>2, <2>1 DEF MovedDown
  <1> QED
    BY <1>4, <1>5

-----------------------------------------------------------------------------
(* Orders of entries: no two equal keys change places.                     *)

IsOrder(keys, m, o) ==
  /\ o \in [1..m -> 1..m]
  /\ \A i, j \in 1..m : i < j =>
       keys[o[i]] < keys[o[j]] \/ (keys[o[i]] = keys[o[j]] /\ o[i] < o[j])
(* Where the entry behind the first m goes in an order of them.            *)
IsPlace(keys, o, m, at) ==
  /\ at \in 1..m + 1
  /\ at = 1 \/ ~(keys[o[at - 1]] > keys[m + 1])
  /\ \A i \in at..m : keys[o[i]] > keys[m + 1]
PutAt(o, m, at) ==
  [i \in 1..m + 1 |-> IF i < at THEN o[i] ELSE IF i = at THEN m + 1 ELSE o[i - 1]]

LEMMA PutIsOrder ==
  ASSUME NEW c \in Nat, NEW keys \in [1..c -> Nat], NEW m \in Nat, m + 1 <= c, NEW o,
         IsOrder(keys, m, o), NEW at, IsPlace(keys, o, m, at)
  PROVE  IsOrder(keys, m + 1, PutAt(o, m, at))
  <1> DEFINE p == PutAt(o, m, at)
             K(i) == keys[o[i]]
             last == keys[m + 1]
  <1>1. /\ at \in 1..m + 1
        /\ at = 1 \/ ~(K(at - 1) > last)
        /\ \A i \in at..m : K(i) > last
        /\ o \in [1..m -> 1..m]
        /\ \A i, j \in 1..m : i < j => K(i) < K(j) \/ (K(i) = K(j) /\ o[i] < o[j])
    BY DEF IsOrder, IsPlace
  <1>d. at \in Nat /\ at >= 1 /\ at <= m + 1 /\ m + 1 \in 1..c /\ last \in Nat
    <2>1. at \in 1..m + 1
      BY <1>1
    <2>2. m + 1 \in 1..c
      OBVIOUS
    <2> QED
      BY <2>1, <2>2
  <1>e. ASSUME NEW i \in 1..m
        PROVE  o[i] \in 1..m /\ o[i] \in 1..c /\ K(i) \in Nat
    <2>1. o[i] \in 1..m
      BY <1>1
    <2>2. o[i] \in 1..c
      BY <2>1
    <2> QED
      BY <2>1, <2>2
  <1>2. /\ \A i \in 1..m : o[i] \in 1..m /\ o[i] \in 1..c /\ K(i) \in Nat
        /\ m + 1 \in 1..c /\ last \in Nat
    BY <1>d, <1>e
  <1>0. p = [i \in 1..m + 1 |-> IF i < at THEN o[i] ELSE IF i = at THEN m + 1 ELSE o[i - 1]]
    BY DEF PutAt
  <1> HIDE DEF p
  <1>3. \A i \in 1..m + 1 : p[i] = IF i < at THEN o[i] ELSE IF i = at THEN m + 1 ELSE o[i - 1]
    BY <1>0, <1>d
  <1>a. ASSUME NEW i \in 1..m + 1, i < at
        PROVE  i \in 1..m /\ p[i] = o[i] /\ keys[p[i]] = K(i)
    BY <1>d, <1>3, <1>a
  <1>b. ASSUME NEW i \in 1..m + 1, i = at
        PROVE  p[i] = m + 1 /\ keys[p[i]] = last
    BY <1>d, <1>3, <1>b
  <1>c. ASSUME NEW i \in 1..m + 1, i > at
        PROVE  i - 1 \in 1..m /\ i - 1 >= at /\ p[i] = o[i - 1] /\ keys[p[i]] = K(i - 1)
    BY <1>d, <1>3, <1>c, SMTT(30)
  <1>4. p \in [1..m + 1 -> 1..m + 1]
    <2>1. ASSUME NEW i \in 1..m + 1
          PROVE  p[i] \in 1..m + 1
      <3>1. CASE i < at
        BY <1>2, <1>a, <3>1
      <3>2. CASE i = at
        BY <1>b, <3>2
      <3>3. CASE i > at
        <4>1. i - 1 \in 1..m /\ p[i] = o[i - 1]
          BY <1>c, <3>3
        <4>2. o[i - 1] \in 1..m
          BY <1>2, <4>1
        <4> QED
          BY <4>1, <4>2
      <3> QED
        BY <1>d, <3>1, <3>2, <3>3
    <2>2. p = [i \in 1..m + 1 |-> p[i]]
      BY <1>0
    <2> QED
      BY <2>1, <2>2
  <1> HIDE DEF p, K, last
  <1>5. \A i \in 1..m : i < at => K(i) <= last
    <2> SUFFICES ASSUME NEW i \in 1..m, i < at
                 PROVE  K(i) <= last
      OBVIOUS
    <2>0. at \in Nat /\ at >= 1 /\ at <= m + 1
      BY <1>d
    <2>1. at # 1 /\ at - 1 \in 1..m /\ (i = at - 1 \/ i < at - 1)
      BY <2>0
    <2>a. ~(K(at - 1) > last)
      BY <1>1, <2>1
    <2>b. last \in Nat /\ K(at - 1) \in Nat /\ K(i) \in Nat
      BY <1>2, <2>1
    <2>2. K(at - 1) <= last /\ K(at - 1) \in Nat /\ K(i) \in Nat
      BY <2>a, <2>b
    <2>3. K(i) <= K(at - 1)
      <3>1. CASE i = at - 1
        BY <2>2, <3>1
      <3>2. CASE i < at - 1
        <4>1. K(i) < K(at - 1) \/ K(i) = K(at - 1)
          BY <1>1, <2>1, <3>2
        <4> QED
          BY <2>2, <4>1
      <3> QED
        BY <2>1, <3>1, <3>2
    <2> QED
      BY <1>2, <2>2, <2>3
  <1>6. \A i \in 1..m : i >= at => K(i) > last
    BY <1>1
  <1>7. ASSUME NEW i \in 1..m + 1, NEW j \in 1..m + 1, i < j
        PROVE  keys[p[i]] < keys[p[j]] \/ (keys[p[i]] = keys[p[j]] /\ p[i] < p[j])
    <2>1. CASE j < at
      <3>1. i < at
        BY <1>1, <1>7, <2>1
      <3>2. /\ i \in 1..m /\ p[i] = o[i] /\ keys[p[i]] = K(i)
            /\ j \in 1..m /\ p[j] = o[j] /\ keys[p[j]] = K(j)
        BY <1>a, <2>1, <3>1
      <3> QED
        BY <1>1, <1>7, <3>2
    <2>2. CASE j = at
      <3>1. /\ i < at /\ i \in 1..m /\ p[i] = o[i] /\ keys[p[i]] = K(i)
            /\ p[j] = m + 1 /\ keys[p[j]] = last
        <4>1. i < at
          BY <1>7, <2>2
        <4> QED
          BY <1>a, <1>b, <2>2, <4>1
      <3>2. K(i) <= last /\ o[i] < m + 1 /\ K(i) \in Nat
        BY <1>2, <1>5, <3>1
      <3> QED
        BY <1>2, <3>1, <3>2
    <2>3. CASE j > at
      <3>1. j - 1 \in 1..m /\ p[j] = o[j - 1] /\ j - 1 >= at /\ keys[p[j]] = K(j - 1)
        BY <1>c, <2>3
      <3>2. CASE i < at
        <4>1. i \in 1..m /\ p[i] = o[i] /\ keys[p[i]] = K(i)
          BY <1>a, <3>2
        <4>2. i < j - 1
          BY <1>1, <3>1, <3>2
        <4> QED
          BY <1>1, <3>1, <4>1, <4>2
      <3>3. CASE i = at
        <4>1. keys[p[i]] = last /\ K(j - 1) > last /\ K(j - 1) \in Nat
          BY <1>2, <1>b, <1>6, <3>1, <3>3
        <4> QED
          BY <1>2, <3>1, <4>1
      <3>4. CASE i > at
        <4>1. i - 1 \in 1..m /\ p[i] = o[i - 1] /\ keys[p[i]] = K(i - 1)
          BY <1>c, <3>4
        <4>2. i - 1 < j - 1
          BY <1>7
        <4> QED
          BY <1>1, <3>1, <4>1, <4>2
      <3> QED
        BY <1>1, <3>2, <3>3, <3>4
    <2> QED
      BY <1>1, <2>1, <2>2, <2>3
  <1>8. IsOrder(keys, m + 1, p)
    BY <1>4, <1>7 DEF IsOrder
  <1> QED
    BY <1>8 DEF p

(* There is an order.                                                      *)
LEMMA OrderExists ==
  ASSUME NEW c \in Nat, NEW keys \in [1..c -> Nat], NEW size \in Nat, size <= c
  PROVE  \E o : IsOrder(keys, size, o)
  <1> DEFINE T == {m \in Nat : m <= c => \E o : IsOrder(keys, m, o)}
  <1>1. 0 \in T
    <2>1. IsOrder(keys, 0, <<>>)
      BY DEF IsOrder
    <2> QED
      BY <2>1
  <1>2. ASSUME NEW m \in Nat, m \in T
        PROVE  m + 1 \in T
    <2> SUFFICES ASSUME m + 1 <= c
                 PROVE  \E o : IsOrder(keys, m + 1, o)
      OBVIOUS
    <2>1. PICK o : IsOrder(keys, m, o)
      BY <1>2
    <2> DEFINE U == {at \in 1..m + 1 : \A i \in at..m : keys[o[i]] > keys[m + 1]}
    <2>2. m + 1 \in U /\ U \subseteq Nat
      OBVIOUS
    <2>3. PICK at \in U : \A k \in U : at <= k
      <3> HIDE DEF U
      <3> QED
        BY <2>2, LeastNat
    <2>4. at = 1 \/ ~(keys[o[at - 1]] > keys[m + 1])
      <3> SUFFICES ASSUME at # 1, keys[o[at - 1]] > keys[m + 1]
                   PROVE  FALSE
        OBVIOUS
      <3>1. at \in 1..m + 1 /\ \A i \in at..m : keys[o[i]] > keys[m + 1]
        BY <2>3
      <3>2. at - 1 \in 1..m + 1 /\ \A i \in at - 1..m : i = at - 1 \/ i \in at..m
        BY <3>1
      <3>3. at - 1 \in U
        BY <3>1, <3>2
      <3>4. ~(at <= at - 1)
        BY <3>1
      <3> QED
        BY <2>3, <3>3, <3>4
    <2>5. IsPlace(keys, o, m, at)
      BY <2>3, <2>4 DEF IsPlace
    <2>6. IsOrder(keys, m + 1, PutAt(o, m, at))
      BY <2>1, <2>5, PutIsOrder
    <2> QED
      BY <2>6
  <1>3. Nat \subseteq T
    <2> HIDE DEF T
    <2> QED
      BY <1>1, <1>2, NatInd
  <1> QED
    BY <1>3

(* The recursion that looks for the place goes down from the new entry.    *)
LEMMA PlaceIsPlace ==
  ASSUME NEW c \in Nat, index \in [1..c -> Nat], NEW m \in Nat, m + 1 <= c,
         NEW o \in [1..m -> 1..m]
  PROVE  IsPlace(index, o, m, Place(o, m + 1))
  <1> DEFINE larger(j) == index[o[j]] > index[m + 1]
             turn == [k \in Nat |-> [v \in Nat |-> IF k = 0 \/ ~larger(k) THEN k + 1 ELSE v]]
             IsFalls(F) == F = [j \in 1..m + 1 |-> IF j = 1 \/ ~larger(j - 1) THEN j
                 ELSE F[j - 1]]
             Falls == CHOOSE F : IsFalls(F)
  <1>1. \E F : IsFalls(F)
    <2>1. turn \in [Nat -> [Nat -> Nat]]
      OBVIOUS
    <2>2. PICK f : IsRecursion(f, Nat, 0, turn)
      <3> HIDE DEF turn
      <3> QED
        BY <2>1, NatRec, Zenon
    <2>3. /\ f \in [Nat -> Nat]
          /\ \A k \in Nat : f[k + 1] = IF k = 0 \/ ~larger(k) THEN k + 1 ELSE f[k]
      BY <2>2 DEF IsRecursion
    <2> HIDE DEF larger
    <2> DEFINE F == [j \in 1..m + 1 |-> f[j]]
    <2>4. ASSUME NEW j \in 1..m + 1
          PROVE  F[j] = IF j = 1 \/ ~larger(j - 1) THEN j ELSE F[j - 1]
      <3>1. j - 1 \in Nat /\ (j - 1) + 1 = j /\ (j - 1 = 0 <=> j = 1)
        OBVIOUS
      <3>2. f[j] = IF j = 1 \/ ~larger(j - 1) THEN j ELSE f[j - 1]
        BY <2>3, <3>1
      <3>3. j # 1 => j - 1 \in 1..m + 1
        OBVIOUS
      <3> QED
        BY <3>2, <3>3
    <2>5. F = [j \in 1..m + 1 |-> IF j = 1 \/ ~larger(j - 1) THEN j ELSE F[j - 1]]
      <3>1. F = [j \in 1..m + 1 |-> F[j]]
        OBVIOUS
      <3> HIDE DEF F
      <3> QED
        BY <2>4, <3>1
    <2>6. IsFalls(F)
      BY <2>5
    <2> HIDE DEF F, IsFalls
    <2> QED
      BY <2>6
  <1>2. IsFalls(Falls)
    <2> HIDE DEF IsFalls
    <2> QED
      BY <1>1
  <1>3. Place(o, m + 1) = Falls[m + 1]
    <2>1. \A j \in 1..m + 1 : TRUE
      OBVIOUS
    <2> QED
      BY DEF Place
  <1> HIDE DEF Falls
  <1>4. \A j \in 1..m + 1 : Falls[j] = IF j = 1 \/ ~larger(j - 1) THEN j ELSE Falls[j - 1]
    BY <1>2
  <1> HIDE DEF larger, IsFalls
  <1> DEFINE Stops(j, at) == /\ at \in 1..j
                             /\ at = 1 \/ ~larger(at - 1)
                             /\ \A i \in at..j - 1 : larger(i)
             T == {k \in Nat : k <= m => Stops(k + 1, Falls[k + 1])}
  <1>5. 0 \in T
    <2>1. Falls[1] = 1
      BY <1>4
    <2>2. Stops(1, 1)
      OBVIOUS
    <2> QED
      BY <2>1, <2>2
  <1>6. ASSUME NEW k \in Nat, k \in T
        PROVE  k + 1 \in T
    <2> SUFFICES ASSUME k + 1 <= m
                 PROVE  Stops(k + 2, Falls[k + 2])
      OBVIOUS
    <2>1. k + 2 \in 1..m + 1 /\ k + 2 # 1 /\ (k + 2) - 1 = k + 1
      OBVIOUS
    <2>2. Falls[k + 2] = IF ~larger(k + 1) THEN k + 2 ELSE Falls[k + 1]
      BY <1>4, <2>1
    <2>3. Stops(k + 1, Falls[k + 1])
      BY <1>6
    <2>4. CASE ~larger(k + 1)
      <3>1. Falls[k + 2] = k + 2
        BY <2>2, <2>4
      <3>2. Stops(k + 2, k + 2)
        BY <2>4
      <3> QED
        BY <3>1, <3>2
    <2>5. CASE larger(k + 1)
      <3>1. Falls[k + 2] = Falls[k + 1]
        BY <2>2, <2>5
      <3> DEFINE at == Falls[k + 1]
      <3>2. at \in 1..k + 1 /\ (at = 1 \/ ~larger(at - 1))
                /\ \A i \in at..(k + 1) - 1 : larger(i)
        BY <2>3
      <3> HIDE DEF at
      <3>3. \A i \in at..(k + 2) - 1 : i = k + 1 \/ i \in at..(k + 1) - 1
        BY <3>2
      <3>4. Stops(k + 2, at)
        <4>1. at \in 1..k + 2
          BY <3>2
        <4>2. \A i \in at..(k + 2) - 1 : larger(i)
          BY <2>5, <3>2, <3>3
        <4> QED
          BY <4>1, <4>2, <3>2
      <3> QED
        BY <3>1, <3>4 DEF at
    <2> QED
      BY <2>4, <2>5
  <1>7. Nat \subseteq T
    <2> HIDE DEF T
    <2> QED
      BY <1>5, <1>6, NatInd
  <1>8. Stops(m + 1, Falls[m + 1])
    BY <1>7
  <1>9. Stops(m + 1, Place(o, m + 1))
    BY <1>3, <1>8
  <1> DEFINE at == Place(o, m + 1)
  <1> HIDE DEF at
  <1>10. /\ at \in 1..m + 1 /\ (at = 1 \/ ~larger(at - 1))
         /\ \A i \in at..m : larger(i)
    <2>1. Stops(m + 1, at)
      BY <1>9 DEF at
    <2>2. (m + 1) - 1 = m
      OBVIOUS
    <2> QED
      BY <2>1, <2>2
  <1>11. IsPlace(index, o, m, at)
    BY <1>10 DEF IsPlace, larger
  <1> QED
    BY <1>11 DEF at

(* What the pieces of the sequence are together.                           *)
LEMMA InsertedIsPut ==
  ASSUME NEW m \in Nat, NEW o \in [1..m -> 1..m], Place(o, m + 1) \in 1..m + 1
  PROVE  Inserted(o, m + 1) = PutAt(o, m, Place(o, m + 1))
  <1> DEFINE at == Place(o, m + 1)
             front == SubSeq(o, 1, at - 1)
             back == SubSeq(o, at, m)
             whole == front \o <<m + 1>> \o back
  <1>0. at \in 1..m + 1
    OBVIOUS
  <1>1. Inserted(o, m + 1) = whole
    <2>1. (m + 1) - 1 = m
      OBVIOUS
    <2> QED
      BY <2>1 DEF Inserted
  <1> HIDE DEF at
  <1>2. o \in Seq(1..m) /\ Len(o) = m
    <2>1. o \in Seq(1..m)
      OBVIOUS
    <2>2. DOMAIN o = 1..m
      OBVIOUS
    <2> QED
      BY <2>1, <2>2
  <1>3. front \in Seq(1..m) /\ Len(front) = at - 1 /\ \A i \in 1..at - 1 : front[i] = o[i]
    BY <1>0, <1>2, SubSeqProperties
  <1>4. back \in Seq(1..m) /\ Len(back) = m + 1 - at
            /\ \A i \in 1..m + 1 - at : back[i] = o[at + i - 1]
    <2>1. at \in 1..Len(o) + 1 /\ m \in at - 1..Len(o)
      BY <1>0, <1>2
    <2>2. back \in Seq(1..m)
      BY <1>0, <2>1, SubSeqProperties, SMTT(30)
    <2>3. at <= m + 1 => Len(back) = m + 1 - at
      BY <1>0, <2>1, SubSeqProperties
    <2>4. \A i \in 1..m + 1 - at : back[i] = o[at + i - 1]
      BY <1>0, <2>1, SubSeqProperties
    <2> QED
      BY <1>0, <1>2, <2>2, <2>3, <2>4
  <1> HIDE DEF front, back
  <1> DEFINE mid == front \o <<m + 1>>
  <1>5. /\ mid \in Seq(Nat) /\ Len(mid) = at
        /\ \A i \in 1..at : mid[i] = IF i < at THEN o[i] ELSE m + 1
    <2>1. front \in Seq(Nat) /\ <<m + 1>> \in Seq(Nat) /\ Len(<<m + 1>>) = 1
      BY <1>3
    <2>2. mid \in Seq(Nat) /\ Len(mid) = at
      BY <1>0, <1>3, <2>1
    <2>3. ASSUME NEW i \in 1..at
          PROVE  mid[i] = IF i < at THEN o[i] ELSE m + 1
      BY <1>0, <1>3, <2>1, SMTT(30)
    <2> QED
      BY <2>2, <2>3
  <1> HIDE DEF mid
  <1>6. whole = mid \o back
    BY DEF mid
  <1>7. back \in Seq(Nat)
    BY <1>4
  <1> HIDE DEF whole
  <1>c. at \in Nat /\ at >= 1 /\ at <= m + 1 /\ Len(mid) = at /\ Len(back) = m + 1 - at
    BY <1>0, <1>4, <1>5
  <1>8. /\ Len(whole) = m + 1 /\ whole \in Seq(Nat)
        /\ \A i \in 1..m + 1 : whole[i] = IF i <= at THEN mid[i] ELSE back[i - at]
    <2>1. /\ mid \o back \in Seq(Nat) /\ Len(mid \o back) = Len(mid) + Len(back)
          /\ \A i \in 1..Len(mid) + Len(back) :
               (mid \o back)[i] = IF i <= Len(mid) THEN mid[i] ELSE back[i - Len(mid)]
      BY <1>5, <1>7, ConcatProperties
    <2>2. Len(mid) + Len(back) = m + 1
      BY <1>c
    <2> QED
      BY <1>6, <1>c, <2>1, <2>2
  <1>9. ASSUME NEW i \in 1..m + 1
        PROVE  whole[i] = IF i < at THEN o[i] ELSE IF i = at THEN m + 1 ELSE o[i - 1]
    <2>1. CASE i <= at
      <3>1. i \in 1..at /\ (i < at \/ i = at)
        BY <1>c, <2>1
      <3>2. whole[i] = IF i < at THEN o[i] ELSE m + 1
        BY <1>5, <1>8, <2>1, <3>1
      <3> QED
        BY <1>c, <3>1, <3>2
    <2>2. CASE i > at
      <3>1. i - at \in 1..m + 1 - at /\ at + (i - at) - 1 = i - 1
        BY <1>c, <2>2
      <3>2. whole[i] = back[i - at]
        <4>1. ~(i <= at)
          BY <1>c, <2>2
        <4> QED
          BY <1>8, <4>1
      <3>3. whole[i] = o[i - 1]
        BY <1>4, <3>1, <3>2
      <3> QED
        BY <1>c, <2>2, <3>3
    <2> QED
      BY <1>c, <2>1, <2>2
  <1>10. whole = [i \in 1..m + 1 |-> whole[i]]
    BY <1>8
  <1> DEFINE put == PutAt(o, m, at)
  <1>11. /\ put = [i \in 1..m + 1 |-> put[i]]
         /\ \A i \in 1..m + 1 : put[i] = IF i < at THEN o[i] ELSE IF i = at THEN m + 1
                ELSE o[i - 1]
    BY DEF PutAt
  <1> HIDE DEF put
  <1>12. \A i \in 1..m + 1 : whole[i] = put[i]
    BY <1>9, <1>11
  <1>13. whole = put
    BY <1>10, <1>11, <1>12
  <1> QED
    BY <1>1, <1>13 DEF at, put

LEMMA InsertionSortIsOrder ==
  ASSUME NEW c \in Nat, index \in [1..c -> Nat], length \in Nat, length <= c
  PROVE  IsOrder(index, length, InsertionSort)
  <1> DEFINE turn == [k \in Nat |-> [o \in Seq(Nat) |->
                        IF IsOrder(index, k, o) /\ k < length THEN PutAt(o, k, Place(o, k + 1))
                        ELSE <<>>]]
             IsSorting(F) ==
               F = [m \in 0..length |-> IF m = 0 THEN <<>> ELSE Inserted(F[m - 1], m)]
             Order == CHOOSE F : IsSorting(F)
  <1>0. ASSUME NEW m \in Nat, m < length, NEW o, IsOrder(index, m, o)
        PROVE  /\ Inserted(o, m + 1) = PutAt(o, m, Place(o, m + 1))
               /\ IsOrder(index, m + 1, Inserted(o, m + 1))
    <2>1. o \in [1..m -> 1..m] /\ m + 1 <= c
      BY <1>0 DEF IsOrder
    <2>2. IsPlace(index, o, m, Place(o, m + 1))
      BY <2>1, PlaceIsPlace
    <2>3. Place(o, m + 1) \in 1..m + 1
      BY <2>2 DEF IsPlace
    <2>4. Inserted(o, m + 1) = PutAt(o, m, Place(o, m + 1))
      BY <2>1, <2>3, InsertedIsPut
    <2>5. IsOrder(index, m + 1, PutAt(o, m, Place(o, m + 1)))
      BY <1>0, <2>1, <2>2, PutIsOrder
    <2> QED
      BY <2>4, <2>5
  <1>a. \A m \in Nat : \A o : IsOrder(index, m, o) => o \in Seq(Nat)
    BY DEF IsOrder
  <1>b. IsOrder(index, 0, <<>>)
    BY DEF IsOrder
  <1>1. \E F : IsSorting(F)
    <2>1. turn \in [Nat -> [Seq(Nat) -> Seq(Nat)]]
      <3>1. ASSUME NEW k \in Nat, NEW o \in Seq(Nat)
            PROVE  (IF IsOrder(index, k, o) /\ k < length THEN PutAt(o, k, Place(o, k + 1))
                    ELSE <<>>) \in Seq(Nat)
        <4>1. CASE IsOrder(index, k, o) /\ k < length
          <5>1. IsOrder(index, k + 1, PutAt(o, k, Place(o, k + 1)))
            BY <1>0, <4>1
          <5>2. k + 1 \in Nat
            OBVIOUS
          <5> QED
            BY <1>a, <4>1, <5>1, <5>2
        <4>2. CASE ~(IsOrder(index, k, o) /\ k < length)
          BY <4>2
        <4> QED
          BY <4>1, <4>2
      <3> QED
        BY <3>1
    <2>2. PICK f : IsRecursion(f, Seq(Nat), <<>>, turn)
      <3>1. <<>> \in Seq(Nat)
        OBVIOUS
      <3> HIDE DEF turn
      <3> QED
        BY <2>1, <3>1, NatRec, Zenon
    <2>3. f \in [Nat -> Seq(Nat)] /\ f[0] = <<>>
      BY <2>2 DEF IsRecursion
    <2>4. ASSUME NEW m \in Nat, m < length, IsOrder(index, m, f[m])
          PROVE  f[m + 1] = Inserted(f[m], m + 1) /\ IsOrder(index, m + 1, f[m + 1])
      <3>1. f[m + 1] = turn[m][f[m]] /\ f[m] \in Seq(Nat)
        BY <2>2, <2>3 DEF IsRecursion
      <3>2. f[m + 1] = PutAt(f[m], m, Place(f[m], m + 1))
        BY <2>4, <3>1
      <3> QED
        BY <1>0, <2>4, <3>2
    <2> DEFINE T == {m \in Nat : m <= length => IsOrder(index, m, f[m])}
    <2>5. 0 \in T
      BY <1>b, <2>3
    <2>6. \A m \in Nat : m \in T => m + 1 \in T
      BY <2>4
    <2>7. Nat \subseteq T
      <3> HIDE DEF T
      <3> QED
        BY <2>5, <2>6, NatInd
    <2> DEFINE F == [m \in 0..length |-> f[m]]
    <2>8. ASSUME NEW m \in 0..length
          PROVE  f[m] = IF m = 0 THEN <<>> ELSE Inserted(F[m - 1], m)
      <3>1. CASE m = 0
        BY <2>3, <3>1
      <3>2. CASE m # 0
        <4>1. m - 1 \in Nat /\ m - 1 < length /\ m - 1 <= length /\ m - 1 \in 0..length
                  /\ (m - 1) + 1 = m
          BY <3>2
        <4>2. IsOrder(index, m - 1, f[m - 1])
          BY <2>7, <4>1
        <4>3. f[m] = Inserted(f[m - 1], m)
          BY <2>4, <4>1, <4>2
        <4> QED
          BY <3>2, <4>1, <4>3
      <3> QED
        BY <3>1, <3>2
    <2>9. F = [m \in 0..length |-> IF m = 0 THEN <<>> ELSE Inserted(F[m - 1], m)]
      <3>1. \A m \in 0..length : F[m] = f[m]
        OBVIOUS
      <3>2. F = [m \in 0..length |-> F[m]]
        OBVIOUS
      <3> HIDE DEF F
      <3> QED
        BY <2>8, <3>1, <3>2
    <2>10. IsSorting(F)
      BY <2>9
    <2> HIDE DEF F, IsSorting
    <2> QED
      BY <2>10
  <1>2. IsSorting(Order)
    <2> HIDE DEF IsSorting
    <2> QED
      BY <1>1
  <1>3. InsertionSort = Order[length]
    BY DEF InsertionSort
  <1> HIDE DEF Order
  <1>4. \A m \in 0..length : Order[m] = IF m = 0 THEN <<>> ELSE Inserted(Order[m - 1], m)
    BY <1>2
  <1> HIDE DEF IsSorting, turn
  <1> DEFINE T == {m \in Nat : m <= length => IsOrder(index, m, Order[m])}
  <1>5. 0 \in T
    BY <1>4, <1>b
  <1>6. ASSUME NEW m \in Nat, m \in T
        PROVE  m + 1 \in T
    <2> SUFFICES ASSUME m + 1 <= length
                 PROVE  IsOrder(index, m + 1, Order[m + 1])
      OBVIOUS
    <2>1. m < length /\ IsOrder(index, m, Order[m])
      BY <1>6
    <2>2. m + 1 \in 0..length /\ m + 1 # 0 /\ (m + 1) - 1 = m
      OBVIOUS
    <2>3. Order[m + 1] = Inserted(Order[m], m + 1)
      BY <1>4, <2>2
    <2> QED
      BY <1>0, <2>1, <2>3
  <1>7. Nat \subseteq T
    <2> HIDE DEF T
    <2> QED
      BY <1>5, <1>6, NatInd
  <1>8. IsOrder(index, length, Order[length])
    BY <1>7
  <1> QED
    BY <1>3, <1>8

(* The variables have their types.                                         *)
LEMMA VectorInitTypes == VectorInit => VectorTypeOK
  <1> SUFFICES ASSUME VectorInit
               PROVE  VectorTypeOK
    OBVIOUS
  <1>1. Zeros(InitialCapacity) \in Slots(Items, InitialCapacity)
            /\ Zeros(InitialCapacity) \in Slots(Indices, InitialCapacity)
    BY ZerosTypes, ItemsAssumption, IndicesAssumption
  <1>2. /\ items \in Slots(Items, capacity)
        /\ index \in Slots(Indices, IF soa THEN capacity ELSE 0)
    BY <1>1, NoSlots DEF VectorInit
  <1>3. capacity \in Nat /\ length \in 0..capacity
    <2>1. capacity = InitialCapacity /\ length = 0
      BY DEF VectorInit
    <2> QED
      BY <2>1, CapacityAssumption
  <1>4. soa \in BOOLEAN /\ blank \in BOOLEAN
    BY DEF VectorInit
  <1> QED
    BY <1>2, <1>3, <1>4 DEF VectorTypeOK, Slots

TypesNext ==
  /\ capacity' \in Nat /\ length' \in Nat /\ length' <= capacity' /\ blank' \in BOOLEAN
  /\ soa' = soa
  /\ items' \in Slots(Items, capacity')
  /\ soa => index' \in Slots(Indices, capacity')
  /\ ~soa => index' \in Slots(Indices, 0)

LEMMA TypesThen == soa \in BOOLEAN /\ TypesNext => VectorTypeOK'
  BY DEF TypesNext, VectorTypeOK, Slots

LEMMA ReleaseTypes == VectorTypeOK /\ Release => TypesNext
  <1> SUFFICES ASSUME VectorTypeOK, Release
               PROVE  TypesNext
    OBVIOUS
  <1>1. /\ items' = <<>> /\ index' = <<>> /\ capacity' = 0 /\ length' = 0
        /\ blank' = FALSE /\ soa' = soa
    BY DEF Release
  <1>2. items' \in Slots(Items, capacity') /\ index' \in Slots(Indices, capacity')
            /\ index' \in Slots(Indices, 0)
    BY <1>1, NoSlots
  <1>3. capacity' \in Nat /\ length' \in Nat /\ length' <= capacity'
    BY <1>1
  <1> QED
    BY <1>1, <1>2, <1>3 DEF TypesNext

LEMMA ResizeTypes ==
  ASSUME VectorTypeOK, NEW hint \in Nat, Resize(hint)
  PROVE  TypesNext
  <1>1. \A i \in 1..length : items[i] \in Items /\ (soa => index[i] \in Indices)
    BY VectorParts
  <1>2. Resized(items, hint) \in Slots(Items, hint)
    BY <1>1, VectorParts, ResizedTypes, ItemsAssumption
  <1>3. soa => Resized(index, hint) \in Slots(Indices, hint)
    BY <1>1, VectorParts, ResizedTypes, IndicesAssumption
  <1>4. items' = Resized(items, hint) /\ capacity' = hint /\ length' = length
        /\ soa' = soa /\ blank' = FALSE /\ hint > length
        /\ index' = IF soa THEN Resized(index, hint) ELSE <<>>
    BY DEF Resize
  <1>5. length' <= capacity' /\ length' \in Nat
    BY <1>4, VectorParts
  <1> QED
    BY <1>2, <1>3, <1>4, <1>5, NoSlots DEF TypesNext

LEMMA PushTypes ==
  ASSUME VectorTypeOK, NEW k \in Indices \cup {None}, NEW x \in Items \cup {None}, Push(k, x)
  PROVE  TypesNext
  <1>1. items \in Slots(Items, capacity) /\ (soa => index \in Slots(Indices, capacity))
    BY VectorParts
  <1>2. Stored(items, x) \in Slots(Items, Grown)
    BY <1>1, StoredTypes, ItemsAssumption
  <1>3. soa => Stored(index, k) \in Slots(Indices, Grown)
    BY <1>1, StoredTypes, IndicesAssumption
  <1>4. Grown \in Nat /\ length + 1 \in 1..Grown
    BY GrownRoom
  <1>5. items' = Stored(items, x) /\ capacity' = Grown /\ length' = length + 1
        /\ soa' = soa /\ blank' \in BOOLEAN
        /\ index' = IF soa THEN Stored(index, k) ELSE <<>>
    BY DEF Push
  <1>6. length' <= capacity' /\ length' \in Nat
    BY <1>4, <1>5, VectorParts
  <1> QED
    BY <1>2, <1>3, <1>4, <1>5, <1>6, NoSlots DEF TypesNext

LEMMA PopTypes == VectorTypeOK /\ Pop => TypesNext
  <1> SUFFICES ASSUME VectorTypeOK, Pop
               PROVE  TypesNext
    OBVIOUS
  <1>1. /\ items' = items /\ index' = index /\ capacity' = capacity
        /\ blank' = FALSE /\ soa' = soa /\ length' = length - 1 /\ length > 0
    BY DEF Pop
  <1>2. length' \in Nat /\ length' <= capacity' /\ capacity' \in Nat
    BY <1>1, VectorParts
  <1> QED
    BY <1>1, <1>2, VectorParts DEF TypesNext

LEMMA SetAtTypes ==
  ASSUME VectorTypeOK, NEW i \in 1..length, NEW x \in Items, SetAt(i, x)
  PROVE  TypesNext
  BY VectorParts DEF SetAt, TypesNext, Slots

LEMMA IndexWrittenTypes ==
  ASSUME VectorTypeOK, NEW i \in 1..length, NEW k \in Indices, IndexWritten(i, k)
  PROVE  TypesNext
  BY VectorParts DEF IndexWritten, TypesNext, Slots

LEMMA DeleteAtTypes ==
  ASSUME VectorTypeOK, NEW i \in 1..length, DeleteAt(i)
  PROVE  TypesNext
  <1>1. items \in Slots(Items, capacity) /\ (soa => index \in Slots(Indices, capacity))
    BY VectorParts
  <1>2. MovedDown(items, i) \in Slots(Items, capacity)
    BY <1>1, MovedDownTypes
  <1>3. soa => MovedDown(index, i) \in Slots(Indices, capacity)
    BY <1>1, MovedDownTypes
  <1>4. length - 1 \in Nat /\ length - 1 <= capacity
    BY VectorParts
  <1> QED
    BY <1>2, <1>3, <1>4, NoSlots, VectorParts DEF DeleteAt, TypesNext

LEMMA ReorderedTypes ==
  ASSUME NEW S, NEW c \in Nat, NEW slots \in Slots(S, c), length \in Nat, length <= c,
         NEW o \in [1..length -> 1..length]
  PROVE  /\ Reordered(slots, o) \in Slots(S, c)
         /\ \A i \in 1..length : Reordered(slots, o)[i] = slots[o[i]]
  <1>1. DOMAIN slots = 1..c /\ slots = [i \in 1..c |-> slots[i]]
    BY DEF Slots
  <1>2. ASSUME NEW i \in 1..c
        PROVE  (IF i <= length THEN slots[o[i]] ELSE slots[i]) \in S
    <2>1. slots[i] \in S
      BY DEF Slots
    <2>2. CASE i <= length
      <3>1. o[i] \in 1..length
        BY <2>2
      <3>2. o[i] \in 1..c
        BY <3>1
      <3> QED
        BY <2>2, <3>2 DEF Slots
    <2> QED
      BY <2>1, <2>2
  <1>3. Reordered(slots, o) = [i \in 1..c |-> IF i <= length THEN slots[o[i]] ELSE slots[i]]
    BY <1>1 DEF Reordered
  <1>4. Reordered(slots, o) \in Slots(S, c)
    BY <1>2, <1>3 DEF Slots
  <1>5. \A i \in 1..length : i \in 1..c /\ i <= length
    OBVIOUS
  <1>6. \A i \in 1..length : Reordered(slots, o)[i] = slots[o[i]]
    BY <1>3, <1>5
  <1> QED
    BY <1>4, <1>6

(* Either form sorts by a permutation of the entries.                      *)
Orders == IF soa THEN {InsertionSort} ELSE {o \in [1..length -> 1..length] : Sorts(o)}

LEMMA NatSlots ==
  ASSUME VectorTypeOK
  PROVE  items \in [1..capacity -> Nat] /\ (soa => index \in [1..capacity -> Nat])
  <1>1. items \in Slots(Items, capacity) /\ (soa => index \in Slots(Indices, capacity))
    BY VectorParts
  <1> QED
    BY <1>1, IndicesAssumption, ItemsAssumption DEF Slots

LEMMA OrdersTypes ==
  ASSUME VectorTypeOK, NEW o \in Orders
  PROVE  /\ o \in [1..length -> 1..length]
         /\ soa => IsOrder(index, length, o)
  <1>1. CASE soa
    <2>1. IsOrder(index, length, InsertionSort)
      BY <1>1, VectorParts, NatSlots, InsertionSortIsOrder
    <2>2. o = InsertionSort
      BY <1>1 DEF Orders
    <2> QED
      BY <2>1, <2>2 DEF IsOrder
  <1>2. CASE ~soa
    BY <1>2 DEF Orders
  <1> QED
    BY <1>1, <1>2, VectorParts

LEMMA SortParts ==
  ASSUME VectorTypeOK, Sort
  PROVE  \E o \in Orders :
           /\ items' = Reordered(items, o) /\ index' = Reordered(index, o)
           /\ length' = length /\ capacity' = capacity /\ soa' = soa /\ blank' = FALSE
  BY DEF Sort, Orders

LEMMA SortTypes == VectorTypeOK /\ Sort => TypesNext
  <1> SUFFICES ASSUME VectorTypeOK, Sort
               PROVE  TypesNext
    OBVIOUS
  <1>1. PICK o \in Orders :
           /\ items' = Reordered(items, o) /\ index' = Reordered(index, o)
           /\ length' = length /\ capacity' = capacity /\ soa' = soa /\ blank' = FALSE
    BY SortParts
  <1>2. o \in [1..length -> 1..length]
    BY OrdersTypes
  <1>3. items' \in Slots(Items, capacity)
    BY <1>1, <1>2, VectorParts, ReorderedTypes
  <1>4. soa => index' \in Slots(Indices, capacity)
    BY <1>1, <1>2, VectorParts, ReorderedTypes
  <1>5. ~soa => index' \in Slots(Indices, 0)
    <2> SUFFICES ASSUME ~soa
                 PROVE  index' \in Slots(Indices, 0)
      OBVIOUS
    <2>1. DOMAIN index = 1..0
      BY VectorParts DEF Slots
    <2>2. DOMAIN index = {}
      BY <2>1
    <2> QED
      BY <1>1, <2>2 DEF Reordered, Slots
  <1> QED
    BY <1>1, <1>3, <1>4, <1>5, VectorParts DEF TypesNext

LEMMA ClearTypes == VectorTypeOK /\ Clear => TypesNext
  <1> SUFFICES ASSUME VectorTypeOK, Clear
               PROVE  TypesNext
    OBVIOUS
  <1>1. Zeros(capacity) \in Slots(Items, capacity)
            /\ Zeros(capacity) \in Slots(Indices, capacity)
    BY ZerosTypes, ItemsAssumption, IndicesAssumption
  <1>2. /\ items' = Zeros(capacity) /\ capacity' = capacity /\ length' = 0
        /\ index' = (IF soa THEN Zeros(capacity) ELSE <<>>) /\ blank' = FALSE /\ soa' = soa
    BY DEF Clear
  <1>3. capacity' \in Nat /\ length' \in Nat /\ length' <= capacity'
    BY <1>2, VectorParts
  <1> QED
    BY <1>1, <1>2, <1>3, NoSlots DEF TypesNext

LEMMA VectorNextTypes == VectorTypeOK /\ [VectorNext]_vectorVars => VectorTypeOK'
  <1> SUFFICES ASSUME VectorTypeOK, [VectorNext]_vectorVars
               PROVE  VectorTypeOK'
    OBVIOUS
  <1> USE VectorParts, TypesThen
  <1>1. CASE Release
    BY <1>1, ReleaseTypes
  <1>2. ASSUME NEW hint \in 1..MaxCapacity, Resize(hint)
        PROVE  VectorTypeOK'
    BY <1>2, ResizeTypes
  <1>3. ASSUME NEW k \in Indices \cup {None}, NEW x \in Items \cup {None}, Push(k, x)
        PROVE  VectorTypeOK'
    BY <1>3, PushTypes
  <1>4. CASE Pop
    BY <1>4, PopTypes
  <1>5. ASSUME NEW i \in 1..MaxCapacity, NEW x \in Items, SetAt(i, x)
        PROVE  VectorTypeOK'
    <2>1. i \in 1..length
      BY <1>5 DEF SetAt
    <2> QED
      BY <1>5, <2>1, SetAtTypes
  <1>6. ASSUME NEW i \in 1..MaxCapacity, NEW k \in Indices, IndexWritten(i, k)
        PROVE  VectorTypeOK'
    <2>1. i \in 1..length
      BY <1>6 DEF IndexWritten
    <2> QED
      BY <1>6, <2>1, IndexWrittenTypes
  <1>7. ASSUME NEW i \in 1..MaxCapacity, DeleteAt(i)
        PROVE  VectorTypeOK'
    <2>1. i \in 1..length
      BY <1>7 DEF DeleteAt
    <2> QED
      BY <1>7, <2>1, DeleteAtTypes
  <1>8. CASE Sort
    BY <1>8, SortTypes
  <1>9. CASE Clear
    BY <1>9, ClearTypes
  <1>10. CASE UNCHANGED vectorVars
    BY <1>10 DEF vectorVars, VectorTypeOK
  <1> QED
    BY <1>1, <1>2, <1>3, <1>4, <1>5, <1>6, <1>7, <1>8, <1>9, <1>10 DEF VectorNext

THEOREM VectorTypesHold == VectorSpec => []VectorTypeOK
  BY VectorInitTypes, VectorNextTypes, PTL DEF VectorSpec

-----------------------------------------------------------------------------
(* What is sorted in steps is sorted.                                      *)
LEMMA StepwiseSorted ==
  ASSUME NEW from \in Nat, NEW m \in Nat, NEW v,
         \A i \in from..m : v[i] \in Nat,
         \A i \in from + 1..m : v[i - 1] <= v[i]
  PROVE  \A i, j \in from..m : i <= j => v[i] <= v[j]
  <1> SUFFICES ASSUME NEW i \in from..m
               PROVE  \A j \in from..m : i <= j => v[i] <= v[j]
    OBVIOUS
  <1> DEFINE T == {k \in Nat : i + k <= m => v[i] <= v[i + k]}
  <1>1. 0 \in T
    BY i + 0 = i
  <1>2. ASSUME NEW k \in Nat, k \in T
        PROVE  k + 1 \in T
    <2> SUFFICES ASSUME i + (k + 1) <= m
                 PROVE  v[i] <= v[i + (k + 1)]
      OBVIOUS
    <2>1. i + k <= m /\ i + k \in from..m /\ i + (k + 1) \in from + 1..m
              /\ (i + (k + 1)) - 1 = i + k
          /\ i + (k + 1) \in from..m
      OBVIOUS
    <2>2. v[i + k] <= v[i + (k + 1)]
      BY <2>1
    <2>3. v[i] <= v[i + k]
      BY <1>2, <2>1
    <2>4. v[i] \in Nat /\ v[i + k] \in Nat /\ v[i + (k + 1)] \in Nat
      BY <2>1
    <2> QED
      BY <2>2, <2>3, <2>4
  <1>3. Nat \subseteq T
    <2> HIDE DEF T
    <2> QED
      BY <1>1, <1>2, NatInd
  <1>4. ASSUME NEW j \in from..m, i <= j
        PROVE  v[i] <= v[j]
    <2>1. j - i \in Nat /\ i + (j - i) = j /\ j <= m
      BY <1>4
    <2> QED
      BY <1>3, <2>1
  <1> QED
    BY <1>4

(* Of two sorted orders neither has the larger key at a place: the entries *)
(* up to there of the one would lie before it in the other.                *)
Permutes(m, o) ==
  o \in [1..m -> 1..m] /\ \A i, j \in 1..m : i # j => o[i] # o[j]
KeysRise(keys, m, o) == \A i, j \in 1..m : i <= j => keys[o[i]] <= keys[o[j]]

LEMMA SortedNotAbove ==
  ASSUME NEW c \in Nat, NEW keys \in [1..c -> Nat], NEW m \in Nat, m <= c,
         NEW p, NEW q, Permutes(m, p), Permutes(m, q), KeysRise(keys, m, p), KeysRise(keys, m, q),
         NEW i \in 1..m
  PROVE  keys[p[i]] <= keys[q[i]]
  <1>a. ASSUME NEW o, Permutes(m, o), NEW k \in 1..m
        PROVE  o[k] \in 1..m /\ keys[o[k]] \in Nat
    <2>1. o[k] \in 1..m
      BY <1>a DEF Permutes
    <2>2. o[k] \in 1..c
      BY <2>1
    <2> QED
      BY <2>1, <2>2
  <1> SUFFICES ASSUME keys[q[i]] < keys[p[i]]
               PROVE  FALSE
    BY <1>a
  <1>1. p \in Surjection(1..m, 1..m)
    <2>1. p \in Injection(1..m, 1..m)
      BY DEF Permutes, Injection, IsInjective
    <2>2. IsFiniteSet(1..m)
      BY FS_Interval
    <2> QED
      BY <2>1, <2>2, FS_Injection
  <1>2. \A y \in 1..m : \E k \in 1..m : p[k] = y
    BY <1>1 DEF Surjection
  <1> DEFINE at(j) == CHOOSE k \in 1..m : p[k] = q[j]
             g == [j \in 1..i |-> at(j)]
  <1>3. ASSUME NEW j \in 1..i
        PROVE  at(j) \in 1..m /\ p[at(j)] = q[j]
    <2>1. j \in 1..m
      OBVIOUS
    <2>2. q[j] \in 1..m
      BY <1>a, <2>1
    <2> QED
      BY <1>2, <2>2
  <1> HIDE DEF at
  <1>4. ASSUME NEW j \in 1..i
        PROVE  at(j) \in 1..i - 1
    <2>1. j \in 1..m /\ j <= i
      OBVIOUS
    <2>2. keys[q[j]] <= keys[q[i]]
      BY <2>1 DEF KeysRise
    <2>3. keys[q[j]] \in Nat /\ keys[q[i]] \in Nat /\ keys[p[i]] \in Nat
              /\ keys[p[at(j)]] \in Nat
      <3>1. at(j) \in 1..m
        BY <1>3
      <3> QED
        BY <1>a, <2>1, <3>1
    <2>4. keys[p[at(j)]] < keys[p[i]]
      <3>1. p[at(j)] = q[j]
        BY <1>3
      <3>2. keys[p[at(j)]] = keys[q[j]]
        BY <3>1
      <3> QED
        BY <2>2, <2>3, <3>2, SMTT(30)
    <2>5. ~(i <= at(j))
      <3> SUFFICES ASSUME i <= at(j)
                   PROVE  FALSE
        OBVIOUS
      <3>1. keys[p[i]] <= keys[p[at(j)]]
        BY <1>3 DEF KeysRise
      <3> QED
        BY <2>3, <2>4, <3>1
    <2> QED
      BY <1>3, <2>5
  <1>5. g \in [1..i -> 1..i - 1]
    BY <1>4
  <1>6. IsFiniteSet(1..i) /\ IsFiniteSet(1..i - 1) /\ Cardinality(1..i - 1) < Cardinality(1..i)
    <2>1. Cardinality(1..i) = i /\ IsFiniteSet(1..i)
      <3>1. 1 \in Int /\ i \in Int
        OBVIOUS
      <3>2. Cardinality(1..i) = (IF 1 > i THEN 0 ELSE i - 1 + 1) /\ IsFiniteSet(1..i)
        BY <3>1, FS_Interval
      <3> QED
        BY <3>2
    <2>2. Cardinality(1..i - 1) = i - 1 /\ IsFiniteSet(1..i - 1)
      <3>1. 1 \in Int /\ i - 1 \in Int
        OBVIOUS
      <3>2. Cardinality(1..i - 1) = (IF 1 > i - 1 THEN 0 ELSE (i - 1) - 1 + 1)
                /\ IsFiniteSet(1..i - 1)
        BY <3>1, FS_Interval
      <3> QED
        BY <3>2
    <2> QED
      BY <2>1, <2>2
  <1>7. PICK x \in 1..i, y \in 1..i : x # y /\ g[x] = g[y]
    <2> HIDE DEF g
    <2> QED
      BY <1>5, <1>6, FS_PigeonHole
  <1>8. q[x] = q[y]
    BY <1>3, <1>7
  <1>9. x \in 1..m /\ y \in 1..m
    OBVIOUS
  <1> QED
    BY <1>7, <1>8, <1>9 DEF Permutes

LEMMA OrderPermutes ==
  ASSUME NEW c \in Nat, NEW keys \in [1..c -> Nat], NEW m \in Nat, m <= c,
         NEW o, IsOrder(keys, m, o)
  PROVE  Permutes(m, o) /\ KeysRise(keys, m, o)
  <1>1. \A k \in 1..m : o[k] \in 1..m /\ o[k] \in Nat /\ keys[o[k]] \in Nat
    <2> SUFFICES ASSUME NEW k \in 1..m
                 PROVE  o[k] \in 1..m /\ o[k] \in Nat /\ keys[o[k]] \in Nat
      OBVIOUS
    <2>1. o[k] \in 1..m
      BY DEF IsOrder
    <2>2. o[k] \in 1..c
      BY <2>1
    <2> QED
      BY <2>1, <2>2
  <1>2. ASSUME NEW i \in 1..m, NEW j \in 1..m, i < j
        PROVE  o[i] # o[j] /\ keys[o[i]] <= keys[o[j]]
    <2>1. keys[o[i]] < keys[o[j]] \/ (keys[o[i]] = keys[o[j]] /\ o[i] < o[j])
      BY <1>2 DEF IsOrder
    <2> QED
      BY <1>1, <2>1
  <1>3. ASSUME NEW i \in 1..m, NEW j \in 1..m, i # j
        PROVE  o[i] # o[j]
    <2>1. i < j \/ j < i
      BY <1>3
    <2> QED
      BY <1>2, <2>1
  <1>4. ASSUME NEW i \in 1..m, NEW j \in 1..m, i <= j
        PROVE  keys[o[i]] <= keys[o[j]]
    <2>1. i < j \/ j = i
      BY <1>4
    <2> QED
      BY <1>1, <1>2, <2>1
  <1> QED
    BY <1>3, <1>4 DEF Permutes, KeysRise, IsOrder

(* Either form puts the entries where a stable sort does; equal items that *)
(* qsort exchanges cannot be told apart.                                   *)
LEMMA OrdersAreStable ==
  ASSUME VectorTypeOK, NEW o \in Orders
  PROVE  \E p : /\ IsOrder(IF soa THEN index ELSE items, length, p)
                /\ \A i \in 1..length : /\ items[o[i]] = items[p[i]]
                                        /\ soa => index[o[i]] = index[p[i]]
  <1>1. o \in [1..length -> 1..length] /\ (soa => IsOrder(index, length, o))
    BY OrdersTypes
  <1>2. CASE soa
    BY <1>1, <1>2
  <1>3. CASE ~soa
    <2>1. /\ items \in [1..capacity -> Nat]
          /\ capacity \in Nat /\ length \in Nat /\ length <= capacity
      BY VectorParts, NatSlots
    <2>2. PICK p : IsOrder(items, length, p)
      BY <2>1, OrderExists
    <2>3. Permutes(length, p) /\ KeysRise(items, length, p)
      BY <2>1, <2>2, OrderPermutes
    <2>4. /\ \A i, j \in 1..length : i # j => o[i] # o[j]
          /\ \A i \in 2..length : items[o[i - 1]] <= items[o[i]]
      BY <1>3 DEF Orders, Sorts
    <2>5. Permutes(length, o)
      BY <1>1, <2>4 DEF Permutes
    <2> DEFINE v == [i \in 1..length |-> items[o[i]]]
    <2>6. ASSUME NEW i \in 1..length
          PROVE  v[i] = items[o[i]] /\ v[i] \in Nat
      <3>1. o[i] \in 1..length
        BY <1>1
      <3>2. o[i] \in 1..capacity
        BY <2>1, <3>1
      <3> QED
        BY <2>1, <3>2
    <2> HIDE DEF v
    <2>7. \A i \in 1 + 1..length : v[i - 1] <= v[i]
      <3> SUFFICES ASSUME NEW i \in 1 + 1..length
                   PROVE  v[i - 1] <= v[i]
        OBVIOUS
      <3>1. i \in 2..length /\ i \in 1..length /\ i - 1 \in 1..length
        BY <2>1
      <3> QED
        BY <2>4, <2>6, <3>1
    <2>8. \A i, j \in 1..length : i <= j => v[i] <= v[j]
      BY <2>1, <2>6, <2>7, StepwiseSorted
    <2>9. KeysRise(items, length, o)
      BY <2>6, <2>8 DEF KeysRise
    <2>10. ASSUME NEW i \in 1..length
           PROVE  items[o[i]] = items[p[i]]
      <3>1. items[o[i]] <= items[p[i]] /\ items[p[i]] <= items[o[i]]
        BY <2>1, <2>3, <2>5, <2>9, SortedNotAbove
      <3>2. p[i] \in 1..length
        BY <2>3 DEF Permutes
      <3>3. p[i] \in 1..capacity
        BY <2>1, <3>2
      <3>4. items[o[i]] \in Nat /\ items[p[i]] \in Nat
        BY <2>1, <2>6, <3>3
      <3> QED
        BY <3>1, <3>4
    <2> QED
      BY <1>3, <2>2, <2>10
  <1> QED
    BY <1>2, <1>3

-----------------------------------------------------------------------------
(* A vector implements the sequence of its entries.                        *)

KeysAll == Indices \cup Items
AEntry == [key : KeysAll, item : Items]

LEMMA EntriesAre ==
  ASSUME VectorTypeOK
  PROVE  /\ ForeachSoa = [i \in 1..length |-> [key |-> Key(i), item |-> items[i]]]
         /\ ForeachSoa \in Seq(AEntry) /\ Len(ForeachSoa) = length
                /\ DOMAIN ForeachSoa = 1..length
         /\ \A i \in 1..length : ForeachSoa[i] = [key |-> Key(i), item |-> items[i]]
         /\ \A i \in 1..length : [key |-> Key(i), item |-> items[i]] \in AEntry
  <1>1. ForeachSoa = [i \in 1..length |-> [key |-> Key(i), item |-> items[i]]]
    <2>1. \A i \in 1..length : Foreach[i] = items[i]
      BY DEF Foreach
    <2> QED
      BY <2>1 DEF ForeachSoa
  <1>2. \A i \in 1..length : [key |-> Key(i), item |-> items[i]] \in AEntry
    BY VectorParts DEF AEntry, KeysAll
  <1>3. length \in Nat
    BY VectorParts
  <1> HIDE DEF AEntry
  <1>4. ForeachSoa \in Seq(AEntry) /\ Len(ForeachSoa) = length /\ DOMAIN ForeachSoa = 1..length
    BY <1>1, <1>2, <1>3
  <1>5. \A i \in 1..length : ForeachSoa[i] = [key |-> Key(i), item |-> items[i]]
    BY <1>1
  <1> QED
    BY <1>1, <1>2, <1>4, <1>5

LEMMA EntriesNext ==
  ASSUME VectorTypeOK'
  PROVE  /\ ForeachSoa' = [i \in 1..length' |-> [key |-> Key(i)', item |-> items'[i]]]
         /\ \A i \in 1..length' : [key |-> Key(i)', item |-> items'[i]] \in AEntry
  <1>1. /\ capacity' \in Nat /\ length' \in 0..capacity' /\ soa' \in BOOLEAN
        /\ items' \in [1..capacity' -> Items]
        /\ soa' => index' \in [1..capacity' -> Indices]
    BY DEF VectorTypeOK
  <1>2. ASSUME NEW i \in 1..length'
        PROVE  Key(i)' \in KeysAll /\ items'[i] \in Items
    <2>1. i \in 1..capacity'
      BY <1>1
    <2> QED
      BY <1>1, <2>1 DEF Key, KeysAll
  <1>3. ForeachSoa' = [i \in 1..length' |-> [key |-> Key(i)', item |-> items'[i]]]
    <2>1. Foreach' = [i \in 1..length' |-> items'[i]]
      BY DEF Foreach
    <2>2. ForeachSoa' = [i \in 1..length' |-> [key |-> Key(i)', item |-> Foreach'[i]]]
      BY DEF ForeachSoa
    <2>3. \A i \in 1..length' : Foreach'[i] = items'[i]
      BY <2>1
    <2> QED
      BY <2>2, <2>3
  <1> QED
    BY <1>2, <1>3 DEF AEntry

LEMMA KeyNext == \A i : Key(i)' = IF soa' THEN index'[i] ELSE items'[i]
  BY DEF Key

LEMMA ReleaseClears == VectorTypeOK' /\ Release => Abstract!Clear
  <1> SUFFICES ASSUME VectorTypeOK', Release
               PROVE  ForeachSoa' = <<>>
    BY DEF Abstract!Clear
  <1>1. length' = 0
    BY DEF Release
  <1> QED
    BY <1>1, EntriesNext

LEMMA ClearClears == VectorTypeOK' /\ Clear => Abstract!Clear
  <1> SUFFICES ASSUME VectorTypeOK', Clear
               PROVE  ForeachSoa' = <<>>
    BY DEF Abstract!Clear
  <1>1. length' = 0
    BY DEF Clear
  <1> QED
    BY <1>1, EntriesNext

LEMMA ResizeKeeps ==
  ASSUME VectorTypeOK, VectorTypeOK', NEW hint \in Nat, Resize(hint)
  PROVE  ForeachSoa' = ForeachSoa
  <1>1. /\ hint > length /\ length' = length /\ soa' = soa
        /\ items' = Resized(items, hint) /\ (soa => index' = Resized(index, hint))
    BY DEF Resize
  <1>2. ASSUME NEW i \in 1..length
        PROVE  items'[i] = items[i] /\ Key(i)' = Key(i)
    <2>1. i \in 1..hint /\ i <= length
      BY <1>1, VectorParts
    <2>2. Resized(items, hint)[i] = items[i] /\ Resized(index, hint)[i] = index[i]
      BY <2>1 DEF Resized
    <2> QED
      BY <1>1, <2>2 DEF Key
  <1> QED
    BY <1>1, <1>2, EntriesAre, EntriesNext

LEMMA PushAppends ==
  ASSUME VectorTypeOK, VectorTypeOK', NEW k \in Indices \cup {None},
         NEW x \in Items \cup {None},
         Push(k, x)
  PROVE  \E e \in AEntry : Abstract!Push(e)
  <1>1. /\ length' = length + 1 /\ soa' = soa
        /\ items' = Stored(items, x) /\ (soa => index' = Stored(index, k))
    BY DEF Push
  <1>2. items \in Slots(Items, capacity) /\ (soa => index \in Slots(Indices, capacity))
            /\ length \in Nat
    BY VectorParts
  <1>3. ASSUME NEW i \in 1..length
        PROVE  items'[i] = items[i] /\ Key(i)' = Key(i)
    <2>1. Stored(items, x)[i] = items[i]
      BY <1>2, StoredTypes, ItemsAssumption
    <2>2. soa => Stored(index, k)[i] = index[i]
      BY <1>2, StoredTypes, IndicesAssumption
    <2> QED
      BY <1>1, <2>1, <2>2 DEF Key
  <1>m. PICK m \in Nat : m = length + 1
    BY <1>2
  <1> DEFINE e == [key |-> Key(m)', item |-> items'[m]]
  <1>4. e \in AEntry
    <2>1. m \in 1..length'
      BY <1>1, <1>2, <1>m
    <2> QED
      BY <2>1, EntriesNext
  <1>5. ForeachSoa' = Append(ForeachSoa, e)
    <2> DEFINE E(i) == [key |-> Key(i), item |-> items[i]]
               F(i) == [key |-> Key(i)', item |-> items'[i]]
    <2>1. \A i \in 1..length : F(i) = E(i)
      BY <1>3
    <2>2. F(m) = e
      OBVIOUS
    <2>3. ForeachSoa = [i \in 1..length |-> E(i)] /\ ForeachSoa \in Seq(AEntry)
              /\ Len(ForeachSoa) = length
          /\ \A i \in 1..length : ForeachSoa[i] = E(i)
      BY EntriesAre
    <2>4. ForeachSoa' = [i \in 1..length + 1 |-> F(i)]
      BY <1>1, EntriesNext
    <2> HIDE DEF E, F, e
    <2> DEFINE old == ForeachSoa
    <2>5. /\ old \in Seq(AEntry) /\ Len(old) = length
          /\ \A i \in 1..length : old[i] = F(i)
      BY <2>1, <2>3
    <2> HIDE DEF old
    <2> DEFINE new == Append(old, e)
    <2>a. /\ new \in Seq(AEntry) /\ Len(new) = length + 1
          /\ \A i \in 1..length : new[i] = old[i]
          /\ new[length + 1] = e
      BY <1>4, <2>5, AppendProperties
    <2> HIDE DEF new
    <2>6. new = [i \in 1..length + 1 |-> new[i]]
      BY <1>2, <2>a
    <2>7. \A i \in 1..length + 1 : new[i] = F(i)
      <3>1. \A i \in 1..length + 1 : i \in 1..length \/ i = m
        BY <1>2, <1>m
      <3> QED
        BY <1>m, <2>2, <2>5, <2>a, <3>1
    <2>8. ForeachSoa' = new
      BY <2>4, <2>6, <2>7
    <2> QED
      BY <2>8 DEF old, new
  <1> HIDE DEF e
  <1> QED
    BY <1>4, <1>5 DEF Abstract!Push

LEMMA PopPops ==
  ASSUME VectorTypeOK, VectorTypeOK', Pop
  PROVE  Abstract!Pop
  <1>1. /\ length > 0 /\ length' = length - 1 /\ soa' = soa /\ items' = items /\ index' = index
    BY DEF Pop
  <1>2. \A i \in 1..length : items'[i] = items[i] /\ Key(i)' = Key(i)
    BY <1>1 DEF Key
  <1>3. length \in Nat
    BY VectorParts
  <1> DEFINE E(i) == [key |-> Key(i), item |-> items[i]]
             F(i) == [key |-> Key(i)', item |-> items'[i]]
  <1>4. \A i \in 1..length : F(i) = E(i)
    BY <1>2
  <1>5. ForeachSoa \in Seq(AEntry) /\ Len(ForeachSoa) = length
        /\ \A i \in 1..length : ForeachSoa[i] = E(i)
    BY EntriesAre
  <1>6. ForeachSoa' = [i \in 1..length - 1 |-> F(i)]
    BY <1>1, EntriesNext
  <1> HIDE DEF E, F
  <1> DEFINE old == ForeachSoa
             sub == SubSeq(old, 1, length - 1)
  <1>7. \A i \in 1..length - 1 : old[i] \in AEntry /\ old[i] = F(i)
    <2>1. \A i \in 1..length - 1 : i \in 1..length
      BY <1>3
    <2> QED
      BY <1>3, <1>4, <1>5, <2>1
  <1>8. old # <<>>
    BY <1>1, <1>3, <1>5
  <1>9. Len(old) = length
    BY <1>5
  <1> HIDE DEF old
  <1>10. /\ sub \in Seq(AEntry) /\ Len(sub) = length - 1
         /\ \A i \in 1..length - 1 : sub[i] = old[i]
    <2>1. 1 \in Int /\ length - 1 \in Int
      BY <1>3
    <2>2. /\ sub \in Seq(AEntry)
          /\ Len(sub) = IF 1 <= length - 1 THEN (length - 1) - 1 + 1 ELSE 0
          /\ \A i \in 1..(length - 1) - 1 + 1 : sub[i] = old[1 + i - 1]
      BY <1>7, <2>1, SubSeqProperties
    <2>3. /\ (length - 1) - 1 + 1 = length - 1 /\ \A i \in 1..length - 1 : 1 + i - 1 = i
          /\ Len(sub) = length - 1
      BY <1>1, <1>3, <2>2
    <2> QED
      BY <2>2, <2>3
  <1> HIDE DEF sub
  <1>11. sub = [i \in 1..length - 1 |-> sub[i]]
    BY <1>10
  <1>12. ForeachSoa' = sub
    BY <1>6, <1>7, <1>10, <1>11
  <1> QED
    BY <1>8, <1>9, <1>12 DEF Abstract!Pop, old, sub

(* Writing one entry.                                                      *)
LEMMA WriteSets ==
  ASSUME VectorTypeOK, VectorTypeOK', NEW at \in 1..length, length' = length,
         \A i \in 1..length : i # at => items'[i] = items[i] /\ Key(i)' = Key(i)
  PROVE  \E i \in DOMAIN ForeachSoa, e \in AEntry : Abstract!Set(i, e)
  <1> DEFINE E(i) == [key |-> Key(i), item |-> items[i]]
             F(i) == [key |-> Key(i)', item |-> items'[i]]
             old == ForeachSoa
  <1>1. /\ old = [i \in 1..length |-> E(i)] /\ DOMAIN old = 1..length
        /\ \A i \in 1..length : old[i] = E(i)
    BY EntriesAre
  <1>2. ForeachSoa' = [i \in 1..length |-> F(i)] /\ \A i \in 1..length : F(i) \in AEntry
    BY EntriesNext
  <1>3. \A i \in 1..length : i # at => F(i) = E(i)
    OBVIOUS
  <1> HIDE DEF E, F, old
  <1>4. ForeachSoa' = [old EXCEPT ![at] = F(at)]
    <2> DEFINE new == [old EXCEPT ![at] = F(at)]
    <2>1. new = [i \in 1..length |-> new[i]] /\ \A i \in 1..length : new[i] = F(i)
      BY <1>1, <1>3
    <2> HIDE DEF new
    <2>2. ForeachSoa' = new
      BY <1>2, <2>1
    <2> QED
      BY <2>2 DEF new
  <1>5. Abstract!Set(at, F(at))
    BY <1>4 DEF Abstract!Set, old
  <1>6. at \in DOMAIN ForeachSoa /\ F(at) \in AEntry
    BY <1>1, <1>2 DEF old
  <1> QED
    BY <1>5, <1>6

LEMMA SetAtSets ==
  ASSUME VectorTypeOK, VectorTypeOK', NEW at \in 1..length, NEW x \in Items, SetAt(at, x)
  PROVE  \E i \in DOMAIN ForeachSoa, e \in AEntry : Abstract!Set(i, e)
  <1>1. /\ length' = length /\ soa' = soa /\ index' = index
        /\ items' = [items EXCEPT ![at] = x]
    BY DEF SetAt
  <1>2. \A i \in 1..length : i \in 1..capacity
    BY VectorParts
  <1>3. items \in Slots(Items, capacity)
    BY VectorParts
  <1>4. \A i \in 1..length : i # at => items'[i] = items[i] /\ Key(i)' = Key(i)
    BY <1>1, <1>2, <1>3 DEF Key, Slots
  <1> QED
    BY <1>1, <1>4, WriteSets

LEMMA IndexWrittenSets ==
  ASSUME VectorTypeOK, VectorTypeOK', NEW at \in 1..length,
         NEW k \in Indices, IndexWritten(at, k)
  PROVE  \E i \in DOMAIN ForeachSoa, e \in AEntry : Abstract!Set(i, e)
  <1>1. /\ length' = length /\ soa' = soa /\ items' = items /\ soa
        /\ index' = [index EXCEPT ![at] = k]
    BY DEF IndexWritten
  <1>2. \A i \in 1..length : i \in 1..capacity
    BY VectorParts
  <1>3. index \in Slots(Indices, capacity)
    BY <1>1, VectorParts
  <1>4. \A i \in 1..length : i # at => items'[i] = items[i] /\ Key(i)' = Key(i)
    BY <1>1, <1>2, <1>3 DEF Key, Slots
  <1> QED
    BY <1>1, <1>4, WriteSets

LEMMA DeleteAtDeletes ==
  ASSUME VectorTypeOK, VectorTypeOK', NEW at \in 1..length, DeleteAt(at)
  PROVE  \E i \in DOMAIN ForeachSoa : Abstract!DeleteAt(i)
  <1> DEFINE from(i) == IF i < at THEN i ELSE i + 1
             E(i) == [key |-> Key(i), item |-> items[i]]
             F(i) == [key |-> Key(i)', item |-> items'[i]]
             old == ForeachSoa
  <1>1. /\ length' = length - 1 /\ soa' = soa
        /\ items' = MovedDown(items, at) /\ (soa => index' = MovedDown(index, at))
    BY DEF DeleteAt
  <1>2. items \in Slots(Items, capacity) /\ (soa => index \in Slots(Indices, capacity))
            /\ length \in Nat
    BY VectorParts
  <1>3. ASSUME NEW i \in 1..length - 1
        PROVE  items'[i] = items[from(i)] /\ Key(i)' = Key(from(i)) /\ from(i) \in 1..length
    <2>1. MovedDown(items, at)[i] = items[from(i)]
      BY <1>2, MovedDownTypes
    <2>2. soa => MovedDown(index, at)[i] = index[from(i)]
      BY <1>2, MovedDownTypes
    <2>3. from(i) \in 1..length
      BY <1>2
    <2> HIDE DEF from
    <2> QED
      BY <1>1, <2>1, <2>2, <2>3 DEF Key
  <1>4. /\ Len(old) = length /\ DOMAIN old = 1..length
        /\ \A i \in 1..length : old[i] = E(i)
    BY EntriesAre
  <1>5. ForeachSoa' = [i \in 1..length - 1 |-> F(i)]
    BY <1>1, EntriesNext
  <1>6. \A i \in 1..length - 1 : F(i) = E(from(i)) /\ from(i) \in 1..length
    <2> HIDE DEF from
    <2> QED
      BY <1>3
  <1> HIDE DEF E, F, old
  <1>7. ForeachSoa' = [i \in 1..Len(old) - 1 |-> old[from(i)]]
    <2> HIDE DEF from
    <2> QED
      BY <1>4, <1>5, <1>6
  <1>8. Abstract!DeleteAt(at)
    BY <1>7 DEF Abstract!DeleteAt, old
  <1> QED
    BY <1>4, <1>8 DEF old

LEMMA SortSorts ==
  ASSUME VectorTypeOK, VectorTypeOK', Sort
  PROVE  Abstract!Sort
  <1>1. PICK o \in Orders :
           /\ items' = Reordered(items, o) /\ index' = Reordered(index, o)
           /\ length' = length /\ capacity' = capacity /\ soa' = soa /\ blank' = FALSE
    BY SortParts
  <1> DEFINE keys == IF soa THEN index ELSE items
  <1>2. PICK p : /\ IsOrder(keys, length, p)
                 /\ \A i \in 1..length : /\ items[o[i]] = items[p[i]]
                                         /\ soa => index[o[i]] = index[p[i]]
    BY OrdersAreStable
  <1>3. p \in [1..length -> 1..length] /\ o \in [1..length -> 1..length]
    BY <1>2, OrdersTypes DEF IsOrder
  <1>4. \A i \in 1..length : items'[i] = items[o[i]] /\ (soa => index'[i] = index[o[i]])
    BY <1>1, <1>3, ReorderedTypes, VectorParts
  <1> DEFINE E(i) == [key |-> Key(i), item |-> items[i]]
             F(i) == [key |-> Key(i)', item |-> items'[i]]
             old == ForeachSoa
  <1>5. ASSUME NEW i \in 1..length
        PROVE  p[i] \in 1..length /\ F(i) = E(p[i])
    <2>1. items'[i] = items[p[i]] /\ (soa => index'[i] = index[p[i]])
      BY <1>2, <1>4
    <2>2. Key(i)' = Key(p[i])
      BY <1>1, <2>1 DEF Key
    <2> QED
      BY <1>3, <2>1, <2>2
  <1>6. /\ DOMAIN old = 1..length
        /\ \A i \in 1..length : old[i] = E(i) /\ E(i).key = keys[i]
    BY EntriesAre DEF Key
  <1>7. ForeachSoa' = [i \in 1..length |-> F(i)]
    BY <1>1, EntriesNext
  <1>8. \A i \in 1..length : old[p[i]] = F(i) /\ old[p[i]].key = keys[p[i]]
    <2> SUFFICES ASSUME NEW i \in 1..length
                 PROVE  old[p[i]] = F(i) /\ old[p[i]].key = keys[p[i]]
      OBVIOUS
    <2> HIDE DEF E, F, old, keys
    <2>1. old[p[i]] = E(p[i]) /\ E(p[i]).key = keys[p[i]]
      BY <1>5, <1>6
    <2>2. F(i) = E(p[i])
      BY <1>5
    <2> QED
      BY <2>1, <2>2
  <1> HIDE DEF E, F, old, keys
  <1>9. \A i, j \in 1..length : i < j =>
          keys[p[i]] < keys[p[j]] \/ (keys[p[i]] = keys[p[j]] /\ p[i] < p[j])
    BY <1>2 DEF IsOrder
  <1>10. p \in [DOMAIN old -> DOMAIN old] /\ DOMAIN p = 1..length
    BY <1>3, <1>6
  <1>11. \A i \in DOMAIN p, j \in DOMAIN p : i < j =>
           \/ old[p[i]].key < old[p[j]].key
           \/ old[p[i]].key = old[p[j]].key /\ p[i] < p[j]
    BY <1>8, <1>9, <1>10
  <1>12. ForeachSoa' = [i \in DOMAIN p |-> old[p[i]]]
    BY <1>7, <1>8, <1>10
  <1> QED
    BY <1>10, <1>11, <1>12 DEF Abstract!Sort, old

LEMMA VectorInitEntries == VectorInit => Abstract!Init
  <1> SUFFICES ASSUME VectorInit
               PROVE  ForeachSoa = <<>>
    BY DEF Abstract!Init
  <1>1. length = 0 /\ VectorTypeOK
    BY VectorInitTypes DEF VectorInit
  <1> QED
    BY <1>1, EntriesAre

LEMMA VectorNextEntries ==
  VectorTypeOK /\ VectorTypeOK' /\ [VectorNext]_vectorVars => [Abstract!Next]_ForeachSoa
  <1> SUFFICES ASSUME VectorTypeOK, VectorTypeOK', [VectorNext]_vectorVars
               PROVE  Abstract!Next \/ ForeachSoa' = ForeachSoa
    OBVIOUS
  <1>0. AEntry = Abstract!Entry
    BY DEF AEntry, KeysAll, Abstract!Entry
  <1>1. CASE Release
    BY <1>1, ReleaseClears DEF Abstract!Next
  <1>2. ASSUME NEW hint \in 1..MaxCapacity, Resize(hint)
        PROVE  ForeachSoa' = ForeachSoa
    BY <1>2, ResizeKeeps
  <1>3. ASSUME NEW k \in Indices \cup {None}, NEW x \in Items \cup {None}, Push(k, x)
        PROVE  Abstract!Next
    BY <1>0, <1>3, PushAppends DEF Abstract!Next
  <1>4. CASE Pop
    BY <1>4, PopPops DEF Abstract!Next
  <1>5. ASSUME NEW i \in 1..MaxCapacity, NEW x \in Items, SetAt(i, x)
        PROVE  Abstract!Next
    <2>1. i \in 1..length
      BY <1>5, VectorParts DEF SetAt
    <2> QED
      BY <1>0, <1>5, <2>1, SetAtSets DEF Abstract!Next
  <1>6. ASSUME NEW i \in 1..MaxCapacity, NEW k \in Indices, IndexWritten(i, k)
        PROVE  Abstract!Next
    <2>1. i \in 1..length
      BY <1>6, VectorParts DEF IndexWritten
    <2> QED
      BY <1>0, <1>6, <2>1, IndexWrittenSets DEF Abstract!Next
  <1>7. ASSUME NEW i \in 1..MaxCapacity, DeleteAt(i)
        PROVE  Abstract!Next
    <2>1. i \in 1..length
      BY <1>7, VectorParts DEF DeleteAt
    <2> QED
      BY <1>7, <2>1, DeleteAtDeletes DEF Abstract!Next
  <1>8. CASE Sort
    BY <1>8, SortSorts DEF Abstract!Next
  <1>9. CASE Clear
    BY <1>9, ClearClears DEF Abstract!Next
  <1>10. CASE UNCHANGED vectorVars
    BY <1>10 DEF vectorVars, ForeachSoa, Foreach, Key
  <1> QED
    BY <1>1, <1>2, <1>3, <1>4, <1>5, <1>6, <1>7, <1>8, <1>9, <1>10 DEF VectorNext

THEOREM VectorIsEntries == VectorSpec => ImplementsEntries
  <1>1. VectorInit => Abstract!Init
    BY VectorInitEntries
  <1>2. VectorTypeOK /\ VectorTypeOK' /\ [VectorNext]_vectorVars => [Abstract!Next]_ForeachSoa
    BY VectorNextEntries
  <1>3. VectorSpec => []VectorTypeOK
    BY VectorTypesHold
  <1> QED
    BY <1>1, <1>2, <1>3, PTL DEF VectorSpec, ImplementsEntries, Abstract!Spec

-----------------------------------------------------------------------------
(* Searching.                                                              *)

(* Both parts that bsearch goes on in are smaller.                         *)
LEMMA Halves ==
  ASSUME NEW left \in Nat, left # 0
  PROVE  /\ left \div 2 \in Nat /\ left \div 2 < left
         /\ left - (left \div 2) - 1 \in Nat /\ left - (left \div 2) - 1 < left
  OBVIOUS

Halving(W, key, left, low) ==
  IF left = 0 THEN 0
  ELSE IF key = Key(low + (left \div 2)) THEN low + (left \div 2)
  ELSE IF key < Key(low + (left \div 2)) THEN W[left \div 2][low]
  ELSE W[left - (left \div 2) - 1][low + (left \div 2) + 1]

IsHalving(W, key) ==
  W = [left \in Nat |-> [low \in Nat |->
         LET half == left \div 2
             middle == low + half
         IN IF left = 0 THEN 0
            ELSE IF key = Key(middle) THEN middle
            ELSE IF key < Key(middle) THEN W[half][low]
            ELSE W[left - half - 1][middle + 1]]]

LEMMA HalvingExists ==
  ASSUME NEW key
  PROVE  \E W : IsHalving(W, key)
  <1> DEFINE V == [Nat -> Nat]
             F == [Nat -> V]
             turn == [left \in Nat |-> [W \in F |-> [low \in Nat |-> Halving(W, key, left, low)]]]
  <1>1. ASSUME NEW W \in F, NEW left \in Nat, NEW low \in Nat
        PROVE  Halving(W, key, left, low) \in Nat
    <2>1. CASE left = 0
      BY <2>1 DEF Halving
    <2>2. CASE left # 0
      <3>1. /\ left \div 2 \in Nat /\ left - (left \div 2) - 1 \in Nat
            /\ low + (left \div 2) \in Nat /\ low + (left \div 2) + 1 \in Nat
        BY <2>2, Halves
      <3>2. W[left \div 2] \in V /\ W[left - (left \div 2) - 1] \in V
        BY <3>1
      <3>3. /\ W[left \div 2][low] \in Nat
            /\ W[left - (left \div 2) - 1][low + (left \div 2) + 1] \in Nat
        BY <3>1, <3>2
      <3> QED
        BY <2>2, <3>1, <3>3 DEF Halving
    <2> QED
      BY <2>1, <2>2
  <1>2. turn \in [Nat -> [F -> V]]
    BY <1>1
  <1>3. ReadsBelow(V, turn)
    <2> SUFFICES ASSUME NEW left \in Nat, NEW f \in F, NEW g \in F,
                        \A m \in Nat : m < left => f[m] = g[m]
                 PROVE  turn[left][f] = turn[left][g]
      BY DEF ReadsBelow
    <2>1. ASSUME NEW low \in Nat
          PROVE  Halving(f, key, left, low) = Halving(g, key, left, low)
      <3>1. CASE left = 0
        BY <3>1 DEF Halving
      <3>2. CASE left # 0
        <4>1. f[left \div 2] = g[left \div 2]
                  /\ f[left - (left \div 2) - 1] = g[left - (left \div 2) - 1]
          BY <3>2, Halves
        <4> QED
          BY <4>1 DEF Halving
      <3> QED
        BY <3>1, <3>2
    <2> QED
      BY <2>1
  <1>4. [low \in Nat |-> 0] \in V
    OBVIOUS
  <1>5. PICK W : IsRecursionBelow(W, V, turn)
    <2> HIDE DEF V, F, turn
    <2>1. turn \in [Nat -> [[Nat -> V] -> V]]
      BY <1>2 DEF F
    <2> QED
      BY <1>3, <1>4, <2>1, NatRecBelow, Zenon
  <1>6. W \in F /\ \A left \in Nat : W[left] = turn[left][W]
    BY <1>5 DEF IsRecursionBelow
  <1>7. \A left \in Nat : W[left] = [low \in Nat |-> Halving(W, key, left, low)]
    BY <1>6
  <1>8. W = [left \in Nat |-> [low \in Nat |-> Halving(W, key, left, low)]]
    <2>1. W = [left \in Nat |-> W[left]]
      BY <1>6
    <2> QED
      BY <1>7, <2>1
  <1>9. IsHalving(W, key)
    BY <1>8 DEF IsHalving, Halving
  <1> QED
    BY <1>9

(* It finds an entry with the key if there is one.                         *)
Finds(r, key, low, left) ==
  /\ r \in Nat
  /\ r = 0 => \A i \in low..low + left - 1 : Key(i) # key
  /\ r # 0 => r \in low..low + left - 1 /\ Key(r) = key

LEMMA HalvingFinds ==
  ASSUME NEW from \in Nat \ {0}, NEW m \in Nat, NEW key \in Nat, NEW W, IsHalving(W, key),
         \A i \in from..m : Key(i) \in Nat,
         \A i, j \in from..m : i <= j => Key(i) <= Key(j)
  PROVE  \A left \in Nat, low \in Nat :
           from <= low /\ low + left <= m + 1 => Finds(W[left][low], key, low, left)
  <1>0. ASSUME NEW left \in Nat, NEW low \in Nat
        PROVE  W[left][low] = Halving(W, key, left, low)
    <2>1. W = [l \in Nat |-> [k \in Nat |-> Halving(W, key, l, k)]]
      BY DEF IsHalving, Halving
    <2>2. W[left] = [k \in Nat |-> Halving(W, key, left, k)]
      BY <2>1
    <2> QED
      BY <2>2
  <1> DEFINE T == {left \in Nat : \A low \in Nat :
                     from <= low /\ low + left <= m + 1 => Finds(W[left][low], key, low, left)}
  <1>1. ASSUME NEW left \in Nat, \A k \in Nat : k < left => k \in T
        PROVE  left \in T
    <2> SUFFICES ASSUME NEW low \in Nat, from <= low, low + left <= m + 1
                 PROVE  Finds(Halving(W, key, left, low), key, low, left)
      BY <1>0
    <2>1. CASE left = 0
      <3>1. \A i \in low..low + left - 1 : FALSE
        BY <2>1
      <3> QED
        BY <2>1, <3>1 DEF Halving, Finds
    <2>2. CASE left # 0
      <3>1. PICK half \in Nat : half = left \div 2
        BY <2>2, Halves
      <3>2. PICK rest \in Nat : rest = left - half - 1
        BY <2>2, <3>1, Halves
      <3>3. half < left /\ rest < left /\ left = half + 1 + rest
        BY <2>2, <3>1, <3>2, Halves
      <3>4. PICK middle \in Nat : middle = low + half
        OBVIOUS
      <3>5. /\ middle \in from..m /\ low \in from..m /\ low <= middle
            /\ low + half = middle /\ low + half <= m + 1
            /\ middle + 1 + rest = low + left /\ middle + 1 + rest <= m + 1
                   /\ from <= middle + 1
            /\ middle + 1 \in Nat
        BY <3>3, <3>4
      <3>6. Halving(W, key, left, low) =
              IF key = Key(middle) THEN middle
              ELSE IF key < Key(middle) THEN W[half][low] ELSE W[rest][middle + 1]
        BY <2>2, <3>1, <3>2, <3>4 DEF Halving
      <3>7. Key(middle) \in Nat
        BY <3>5
      <3>8. CASE key = Key(middle)
        <4>1. Halving(W, key, left, low) = middle
          BY <3>6, <3>8
        <4>2. middle \in low..low + left - 1
          BY <3>3, <3>5
        <4>a. middle # 0 /\ middle \in Nat
          BY <3>5
        <4>3. Finds(middle, key, low, left)
          BY <3>8, <4>2, <4>a DEF Finds
        <4> QED
          BY <4>1, <4>3
      <3>9. CASE key < Key(middle)
        <4> DEFINE r == W[half][low]
        <4>1. Halving(W, key, left, low) = r
          BY <3>6, <3>7, <3>9
        <4>2. Finds(r, key, low, half)
          BY <1>1, <3>3, <3>5
        <4> HIDE DEF r
        <4>3. ASSUME NEW i \in middle..low + left - 1
              PROVE  Key(i) # key
          <5>1. i \in from..m /\ middle <= i
            BY <3>5
          <5>2. Key(middle) <= Key(i) /\ Key(i) \in Nat
            BY <3>5, <5>1
          <5> QED
            BY <3>7, <3>9, <5>2
        <4>4. \A i \in low..low + left - 1 : i \in low..low + half - 1
                                                 \/ i \in middle..low + left - 1
          BY <3>3, <3>4
        <4>5. \A i \in low..low + half - 1 : i \in low..low + left - 1
          BY <3>3
        <4>6. Finds(r, key, low, left)
          BY <4>2, <4>3, <4>4, <4>5 DEF Finds
        <4> QED
          BY <4>1, <4>6
      <3>10. CASE key > Key(middle)
        <4> DEFINE r == W[rest][middle + 1]
        <4>1. Halving(W, key, left, low) = r
          BY <3>6, <3>7, <3>10
        <4>2. Finds(r, key, middle + 1, rest)
          BY <1>1, <3>3, <3>5
        <4> HIDE DEF r
        <4>3. ASSUME NEW i \in low..middle
              PROVE  Key(i) # key
          <5>1. i \in from..m /\ i <= middle
            BY <3>5
          <5>2. Key(i) <= Key(middle) /\ Key(i) \in Nat
            BY <3>5, <5>1
          <5> QED
            BY <3>7, <3>10, <5>2
        <4>4. \A i \in low..low + left - 1 : i \in low..middle
                                                 \/ i \in middle + 1..(middle + 1) + rest - 1
          BY <3>5
        <4>5. \A i \in middle + 1..(middle + 1) + rest - 1 : i \in low..low + left - 1
          BY <3>5
        <4>6. Finds(r, key, low, left)
          BY <4>2, <4>3, <4>4, <4>5 DEF Finds
        <4> QED
          BY <4>1, <4>6
      <3> QED
        BY <3>7, <3>8, <3>9, <3>10
    <2> QED
      BY <2>1, <2>2
  <1>2. Nat \subseteq T
    <2> HIDE DEF T
    <2> QED
      BY <1>1, NatIndBelow
  <1> QED
    BY <1>2

LEMMA BsearchFinds ==
  ASSUME NEW from \in Nat \ {0}, length \in Nat, NEW key \in Nat, from <= length + 1,
         \A i \in from..length : Key(i) \in Nat,
         \A i, j \in from..length : i <= j => Key(i) <= Key(j)
  PROVE  /\ Bsearch(from, key) \in Nat
         /\ Bsearch(from, key) = 0 => \A i \in from..length : Key(i) # key
         /\ Bsearch(from, key) # 0 => Bsearch(from, key) \in from..length
                /\ Key(Bsearch(from, key)) = key
  <1> DEFINE W == CHOOSE f : IsHalving(f, key)
             r == W[length + 1 - from][from]
  <1>1. IsHalving(W, key)
    BY HalvingExists
  <1>2. Bsearch(from, key) = r
    BY DEF Bsearch, IsHalving
  <1> HIDE DEF W
  <1>3. length + 1 - from \in Nat /\ from + (length + 1 - from) = length + 1
    OBVIOUS
  <1>4. Finds(r, key, from, length + 1 - from)
    <2>1. \A left \in Nat, low \in Nat :
            from <= low /\ low + left <= length + 1 => Finds(W[left][low], key, low, left)
      BY <1>1, HalvingFinds
    <2>2. PICK left \in Nat : left = length + 1 - from
      BY <1>3
    <2>3. from <= from /\ from + left <= length + 1
      BY <2>2
    <2>4. Finds(W[left][from], key, from, left)
      BY <2>1, <2>3
    <2> QED
      BY <2>2, <2>4
  <1> HIDE DEF r
  <1>5. from + (length + 1 - from) - 1 = length
    OBVIOUS
  <1> QED
    BY <1>2, <1>4, <1>5 DEF Finds

(* vector_range chooses the entries between its limits.                    *)
IsChosen(C, low, high) ==
  C = [k \in 0..length |->
         IF k = 0 THEN <<>>
         ELSE IF Key(k) < low \/ Key(k) > high THEN C[k - 1] ELSE Append(C[k - 1], k)]

LEMMA ChosenExists ==
  ASSUME length \in Nat, NEW low, NEW high
  PROVE  \E C : IsChosen(C, low, high)
  <1> DEFINE out(k) == Key(k) < low \/ Key(k) > high
             turn == [k \in Nat |-> [s \in Seq(Nat) |-> IF out(k + 1) THEN s
                 ELSE Append(s, k + 1)]]
  <1> HIDE DEF out
  <1>1. turn \in [Nat -> [Seq(Nat) -> Seq(Nat)]]
    OBVIOUS
  <1>2. PICK f : IsRecursion(f, Seq(Nat), <<>>, turn)
    <2>1. <<>> \in Seq(Nat)
      OBVIOUS
    <2> HIDE DEF turn
    <2> QED
      BY <1>1, <2>1, NatRec, Zenon
  <1>3. /\ f \in [Nat -> Seq(Nat)] /\ f[0] = <<>>
        /\ \A k \in Nat : f[k + 1] = IF out(k + 1) THEN f[k] ELSE Append(f[k], k + 1)
    BY <1>2 DEF IsRecursion
  <1> DEFINE C == [k \in 0..length |-> f[k]]
  <1>4. ASSUME NEW k \in 0..length
        PROVE  f[k] = IF k = 0 THEN <<>> ELSE IF out(k) THEN C[k - 1] ELSE Append(C[k - 1], k)
    <2>1. CASE k = 0
      BY <1>3, <2>1
    <2>2. CASE k # 0
      <3>1. PICK j \in Nat : j = k - 1
        BY <2>2
      <3>2. k = j + 1 /\ j \in 0..length
        BY <3>1
      <3>3. f[k] = IF out(k) THEN f[j] ELSE Append(f[j], k)
        BY <1>3, <3>2
      <3>4. C[k - 1] = f[j]
        BY <3>1, <3>2
      <3> HIDE DEF C
      <3> QED
        BY <2>2, <3>3, <3>4
    <2> QED
      BY <2>1, <2>2
  <1>5. C = [k \in 0..length |-> IF k = 0 THEN <<>> ELSE IF out(k) THEN C[k - 1]
            ELSE Append(C[k - 1], k)]
    <2>1. C = [k \in 0..length |-> C[k]] /\ \A k \in 0..length : C[k] = f[k]
      OBVIOUS
    <2> HIDE DEF C
    <2> QED
      BY <1>4, <2>1
  <1> HIDE DEF C
  <1>6. IsChosen(C, low, high)
    BY <1>5 DEF IsChosen, out
  <1> QED
    BY <1>6

LEMMA RangeOfAppend ==
  ASSUME NEW S, NEW s \in Seq(S), NEW e \in S
  PROVE  Range(Append(s, e)) = Range(s) \cup {e}
  <1> DEFINE t == Append(s, e)
  <1>1. /\ t \in Seq(S) /\ Len(t) = Len(s) + 1
        /\ \A i \in 1..Len(s) : t[i] = s[i]
        /\ t[Len(s) + 1] = e
    BY AppendProperties
  <1>2. DOMAIN t = 1..Len(s) + 1 /\ DOMAIN s = 1..Len(s) /\ Len(s) \in Nat
    BY <1>1, LenProperties
  <1> HIDE DEF t
  <1>3. ASSUME NEW x \in Range(t)
        PROVE  x \in Range(s) \cup {e}
    <2>1. PICK i \in DOMAIN t : x = t[i]
      BY DEF Range
    <2>2. i \in 1..Len(s) \/ i = Len(s) + 1
      BY <1>2, <2>1
    <2> QED
      BY <1>1, <1>2, <2>1, <2>2 DEF Range
  <1>4. ASSUME NEW x \in Range(s)
        PROVE  x \in Range(t)
    <2>1. PICK i \in DOMAIN s : x = s[i]
      BY DEF Range
    <2>2. i \in DOMAIN t /\ t[i] = x
      BY <1>1, <1>2, <2>1
    <2> QED
      BY <2>2 DEF Range
  <1>5. e \in Range(t)
    <2>1. Len(s) + 1 \in DOMAIN t
      BY <1>2
    <2> QED
      BY <1>1, <2>1 DEF Range
  <1> QED
    BY <1>3, <1>4, <1>5 DEF t

LEMMA InRangeIs ==
  ASSUME length \in Nat, NEW low, NEW high
  PROVE  Range(InRange(low, high)) = {i \in 1..length : ~(Key(i) < low \/ Key(i) > high)}
  <1> DEFINE C == CHOOSE f : IsChosen(f, low, high)
             out(k) == Key(k) < low \/ Key(k) > high
  <1>1. IsChosen(C, low, high)
    BY ChosenExists
  <1>2. InRange(low, high) = C[length]
    BY DEF InRange, IsChosen
  <1> HIDE DEF C
  <1>3. \A k \in 0..length :
          C[k] = IF k = 0 THEN <<>> ELSE IF out(k) THEN C[k - 1] ELSE Append(C[k - 1], k)
    BY <1>1 DEF IsChosen
  <1> HIDE DEF out
  <1> DEFINE T == {k \in Nat : k <= length =>
                     C[k] \in Seq(Nat) /\ Range(C[k]) = {i \in 1..k : ~out(i)}}
  <1>4. 0 \in T
    <2>1. C[0] = <<>>
      BY <1>3
    <2>2. Range(<<>>) = {}
      BY DEF Range
    <2>3. {i \in 1..0 : ~out(i)} = {}
      OBVIOUS
    <2>4. C[0] \in Seq(Nat) /\ Range(C[0]) = {i \in 1..0 : ~out(i)}
      BY <2>1, <2>2, <2>3
    <2> QED
      BY <2>4
  <1>5. ASSUME NEW k \in Nat, k \in T
        PROVE  k + 1 \in T
    <2> SUFFICES ASSUME k + 1 <= length
                 PROVE  C[k + 1] \in Seq(Nat) /\ Range(C[k + 1]) = {i \in 1..k + 1 : ~out(i)}
      OBVIOUS
    <2>1. C[k] \in Seq(Nat) /\ Range(C[k]) = {i \in 1..k : ~out(i)}
      BY <1>5
    <2>2. k + 1 \in 0..length /\ k + 1 # 0 /\ (k + 1) - 1 = k
      OBVIOUS
    <2>3. C[k + 1] = IF out(k + 1) THEN C[k] ELSE Append(C[k], k + 1)
      BY <1>3, <2>2
    <2>4. \A i : i \in 1..k + 1 <=> i \in 1..k \/ i = k + 1
      OBVIOUS
    <2>5. CASE out(k + 1)
      <3>1. {i \in 1..k + 1 : ~out(i)} = {i \in 1..k : ~out(i)}
        BY <2>4, <2>5
      <3> QED
        BY <2>1, <2>3, <2>5, <3>1
    <2>6. CASE ~out(k + 1)
      <3>1. {i \in 1..k + 1 : ~out(i)} = {i \in 1..k : ~out(i)} \cup {k + 1}
        BY <2>4, <2>6
      <3>2. Append(C[k], k + 1) \in Seq(Nat)
                /\ Range(Append(C[k], k + 1)) = Range(C[k]) \cup {k + 1}
        <4>1. k + 1 \in Nat
          OBVIOUS
        <4> QED
          BY <2>1, <4>1, RangeOfAppend, AppendProperties
      <3> QED
        BY <2>1, <2>3, <2>6, <3>1, <3>2
    <2> QED
      BY <2>5, <2>6
  <1>6. Nat \subseteq T
    <2> HIDE DEF T
    <2> QED
      BY <1>4, <1>5, NatInd
  <1>7. Range(C[length]) = {i \in 1..length : ~out(i)}
    BY <1>6
  <1> QED
    BY <1>2, <1>7 DEF out

LEMMA TypesFindKey == VectorTypeOK => FindsKey
  <1> SUFFICES ASSUME VectorTypeOK, NEW first \in 1..length,
                      \A i \in first + 1..length : Key(i - 1) <= Key(i),
                      NEW key \in IF soa THEN Indices ELSE Items
               PROVE  LET matches == {i \in Range(InRange(key, key)) : i >= first}
                      IN /\ first = 1 => (Has(key) <=> matches # {})
                         /\ IF matches = {} THEN Find(key, first) = 0
                                ELSE Find(key, first) \in matches
    BY DEF FindsKey
  <1> DEFINE matches == {i \in Range(InRange(key, key)) : i >= first}
             r == Bsearch(first, key)
  <1>1. length \in Nat /\ first \in Nat \ {0} /\ first <= length /\ first <= length + 1
            /\ key \in Nat
    BY VectorParts, IndicesAssumption, ItemsAssumption
  <1>2. \A i \in 1..length : Key(i) \in Nat
    BY VectorParts
  <1>3. \A i \in first..length : i \in 1..length /\ Key(i) \in Nat
    BY <1>1, <1>2
  <1>4. \A i, j \in first..length : i <= j => Key(i) <= Key(j)
    <2> DEFINE v == [i \in first..length |-> Key(i)]
    <2>1. \A i \in first..length : v[i] = Key(i) /\ v[i] \in Nat
      BY <1>3
    <2> HIDE DEF v
    <2>2. ASSUME NEW i \in first + 1..length
          PROVE  v[i - 1] <= v[i]
      <3>1. i \in first..length /\ i - 1 \in first..length
        BY <1>1
      <3>2. Key(i - 1) <= Key(i)
        OBVIOUS
      <3> QED
        BY <2>1, <3>1, <3>2
    <2>3. \A i, j \in first..length : i <= j => v[i] <= v[j]
      BY <1>1, <2>1, <2>2, StepwiseSorted
    <2> QED
      BY <2>1, <2>3
  <1>5. /\ r = 0 => \A i \in first..length : Key(i) # key
        /\ r # 0 => r \in first..length /\ Key(r) = key
    BY <1>1, <1>3, <1>4, BsearchFinds
  <1>6. \A i : i \in matches <=> i \in first..length /\ Key(i) = key
    <2>1. Range(InRange(key, key)) = {i \in 1..length : ~(Key(i) < key \/ Key(i) > key)}
      BY <1>1, InRangeIs
    <2>2. \A i \in 1..length : ~(Key(i) < key \/ Key(i) > key) <=> Key(i) = key
      BY <1>1, <1>2
    <2>3. \A i : i \in first..length <=> i \in 1..length /\ i >= first
      BY <1>1
    <2> QED
      BY <2>1, <2>2, <2>3
  <1>7. Find(key, first) = r
    BY <1>1 DEF Find
  <1>8. first = 1 => (Has(key) <=> r # 0)
    BY DEF Has
  <1> HIDE DEF matches, r
  <1>9. IF matches = {} THEN r = 0 ELSE r \in matches
    BY <1>5, <1>6
  <1>10. r # 0 <=> matches # {}
    BY <1>1, <1>5, <1>6
  <1> QED
    BY <1>7, <1>8, <1>9, <1>10 DEF matches

THEOREM VectorFindsKeys == VectorSpec => []FindsKey
  <1>1. VectorSpec => []VectorTypeOK
    BY VectorTypesHold
  <1>2. VectorTypeOK => FindsKey
    BY TypesFindKey
  <1> QED
    BY <1>1, <1>2, PTL

-----------------------------------------------------------------------------
(* Queues.                                                                 *)

LEMMA AppendAt ==
  ASSUME NEW S, NEW s \in Seq(S), NEW x \in S
  PROVE  /\ Append(s, x) \in Seq(S) /\ Len(Append(s, x)) = Len(s) + 1
         /\ DOMAIN Append(s, x) = 1..Len(s) + 1
         /\ \A i \in 1..Len(s) : Append(s, x)[i] = s[i]
         /\ Append(s, x)[Len(s) + 1] = x
  OBVIOUS

LEMMA TailAt ==
  ASSUME NEW S, NEW s \in Seq(S), s # <<>>
  PROVE  /\ Tail(s) \in Seq(S) /\ Len(Tail(s)) = Len(s) - 1
         /\ DOMAIN Tail(s) = 1..Len(s) - 1
         /\ \A i \in 1..Len(s) - 1 : Tail(s)[i] = s[i + 1]
  OBVIOUS

LEMMA SeqAt ==
  ASSUME NEW S, NEW s \in Seq(S), NEW i \in 1..Len(s)
  PROVE  s[i] \in S
  OBVIOUS

(* The shape of the chain, and the node at a place of it.                  *)
LEMMA Shape ==
  ASSUME FirstInFirstOut
  PROVE  /\ Len(order) \in Nat /\ DOMAIN order = 1..Len(order)
         /\ DOMAIN queued = 1..Len(order) /\ Len(queued) = Len(order)
         /\ \A i \in 1..Len(order) :
              /\ order[i] \in NodeIds /\ order[i] # NoId
              /\ node[order[i]] \in Nodes /\ node[order[i]] # FreeNode
         /\ \A i \in Nat : IdAt(i) = IF i \in 1..Len(order) THEN order[i] ELSE NoId
  <1>1. /\ Len(order) \in Nat /\ DOMAIN order = 1..Len(order)
        /\ DOMAIN queued = 1..Len(order) /\ Len(queued) = Len(order)
    BY DEF FirstInFirstOut, QueueTypeOK, NoneLost
  <1>2. ASSUME NEW i \in 1..Len(order)
        PROVE  /\ order[i] \in NodeIds /\ order[i] # NoId
               /\ node[order[i]] \in Nodes /\ node[order[i]] # FreeNode
    <2>1. order[i] \in NodeIds
      BY SeqAt DEF FirstInFirstOut, QueueTypeOK
    <2>2. node[order[i]] # FreeNode
      BY <1>1, <2>1 DEF FirstInFirstOut, NoneLost
    <2> QED
      BY <2>1, <2>2, NodeAssumption DEF FirstInFirstOut, QueueTypeOK
  <1> QED
    BY <1>1, <1>2 DEF IdAt

-----------------------------------------------------------------------------
(* The steps.                                                              *)

LEMMA PushKeeps ==
  ASSUME FirstInFirstOut, NEW id \in NodeIds, NEW x \in Data, QPush(id, x)
  PROVE  FirstInFirstOut'
  <1> DEFINE len == Len(order)
             new == [data |-> x, next |-> NoId, prev |-> IF elms = 0 THEN NoId ELSE tail]
  <1>1. /\ ~freeing /\ ~freeing' /\ elms = len /\ head = IdAt(1) /\ tail = IdAt(len)
        /\ QueueTypeOK /\ NoneLost /\ ChainHolds
    BY DEF FirstInFirstOut, QPush
  <1>2. /\ len \in Nat /\ len = Len(queued)
        /\ \A i \in 1..len : order[i] # id /\ node[order[i]] \in Nodes
    BY <1>1, Shape DEF QPush
  <1>3. /\ order' \in Seq(NodeIds) /\ Len(order') = len + 1 /\ DOMAIN order' = 1..len + 1
        /\ \A i \in 1..len : order'[i] = order[i]
        /\ order'[len + 1] = id
    BY <1>1, AppendAt DEF QPush, QueueTypeOK
  <1>4. /\ queued' \in Seq(Data) /\ Len(queued') = len + 1
        /\ \A i \in 1..len : queued'[i] = queued[i]
        /\ queued'[len + 1] = x
    BY <1>1, <1>2, AppendAt DEF QPush, QueueTypeOK
  <1>5. /\ new \in Nodes /\ node'[id] = new
        /\ \A i \in NodeIds \ {id} :
             node'[i] = IF elms # 0 /\ i = tail THEN [node[i] EXCEPT !.next = id] ELSE node[i]
    BY <1>1 DEF QPush, QueueTypeOK, Links, Nodes
  <1>6. elms # 0 => tail = order[len] /\ len \in 1..len /\ node[tail] \in Nodes
    BY <1>1, <1>2, Shape
  <1>7. \A i \in 1..len + 1 : IdAt(i)' = order'[i]
    BY <1>3 DEF IdAt
  <1>8. QueueTypeOK'
    <2>1. ASSUME NEW i \in NodeIds PROVE node'[i] \in Nodes \cup {FreeNode}
      <3>1. CASE elms # 0 /\ i = tail /\ i # id
        BY <1>5, <1>6, <3>1 DEF Nodes, Links
      <3> QED
        BY <1>1, <1>5, <3>1 DEF QueueTypeOK
    <2>2. node' \in [NodeIds -> Nodes \cup {FreeNode}]
      BY <2>1 DEF QPush
    <2> QED
      BY <1>1, <1>3, <1>4, <2>2 DEF QueueTypeOK, QPush, Links
  <1>9. NoneLost'
    <2>1. \A i, j \in DOMAIN order' : order'[i] = order'[j] => i = j
      BY <1>1, <1>2, <1>3, Shape DEF NoneLost
    <2>2. ASSUME NEW other \in NodeIds
          PROVE  node'[other] # FreeNode <=> \E i \in DOMAIN order' : order'[i] = other
      <3>1. node'[other] # FreeNode <=> other = id \/ node[other] # FreeNode
        <4>1. CASE other = id
          BY <1>5, <4>1, NodeAssumption
        <4>2. CASE other # id /\ elms # 0 /\ other = tail
          <5>1. node'[other] = [node[other] EXCEPT !.next = id]
            BY <1>5, <4>2
          <5>2. node[other] \in Nodes /\ node'[other] \in Nodes
            BY <1>6, <4>2, <5>1 DEF Nodes, Links
          <5> QED
            BY <5>2, NodeAssumption
        <4>3. CASE other # id /\ ~(elms # 0 /\ other = tail)
          BY <1>5, <4>3
        <4> QED
          BY <4>1, <4>2, <4>3
      <3>2. (\E i \in DOMAIN order' : order'[i] = other)
              <=> other = id \/ \E i \in 1..len : order[i] = other
        BY <1>2, <1>3
      <3> QED
        BY <1>1, <3>1, <3>2, Shape DEF NoneLost
    <2> QED
      BY <1>3, <1>4, <2>1, <2>2 DEF NoneLost
  <1>10. ChainHolds'
    <2> SUFFICES ASSUME NEW i \in 1..len + 1
                 PROVE  /\ node'[order'[i]].data = queued'[i]
                        /\ node'[order'[i]].next = IdAt(i + 1)'
                        /\ node'[order'[i]].prev = IdAt(i - 1)'
      BY <1>3 DEF ChainHolds
    <2>1. CASE i = len + 1
      <3>1. IdAt(i + 1)' = NoId
        BY <1>2, <1>3, <2>1 DEF IdAt
      <3>2. IdAt(i - 1)' = IF elms = 0 THEN NoId ELSE tail
        BY <1>1, <1>2, <1>3, <1>6, <2>1 DEF IdAt
      <3> QED
        BY <1>3, <1>4, <1>5, <2>1, <3>1, <3>2
    <2>2. CASE i \in 1..len
      <3>1. /\ order'[i] = order[i] /\ order[i] \in NodeIds \ {id}
            /\ node[order[i]] \in Nodes
        BY <1>2, <1>3, <2>2, Shape
      <3>2. /\ node[order[i]].data = queued[i]
            /\ node[order[i]].next = IdAt(i + 1) /\ node[order[i]].prev = IdAt(i - 1)
        BY <1>1, <2>2, Shape DEF ChainHolds
      <3>3. IdAt(i - 1)' = IdAt(i - 1)
        BY <1>2, <1>3, <2>2, Shape DEF IdAt
      <3>4. CASE i = len
        <4>1. order[i] = tail /\ elms # 0
          BY <1>1, <1>6, <2>2, <3>4
        <4>2. node'[order[i]] = [node[order[i]] EXCEPT !.next = id]
          BY <1>5, <3>1, <4>1
        <4>3. IdAt(i + 1)' = id
          BY <1>3, <1>7, <3>4
        <4> QED
          BY <1>4, <2>2, <3>1, <3>2, <3>3, <4>2, <4>3 DEF Nodes
      <3>5. CASE i # len
        <4>1. order[i] # tail
          BY <1>1, <1>2, <1>6, <2>2, <3>5, Shape DEF NoneLost
        <4>2. node'[order[i]] = node[order[i]]
          BY <1>5, <3>1, <4>1
        <4>3. IdAt(i + 1)' = IdAt(i + 1)
          <5>1. i + 1 \in 1..len
            BY <1>2, <2>2, <3>5
          <5>2. IdAt(i + 1)' = order'[i + 1]
            BY <1>2, <1>7, <5>1
          <5>3. IdAt(i + 1) = order[i + 1]
            BY <5>1, Shape DEF IdAt
          <5> QED
            BY <1>3, <5>1, <5>2, <5>3
        <4> QED
          BY <1>4, <2>2, <3>1, <3>2, <3>3, <4>2, <4>3
      <3> QED
        BY <3>4, <3>5
    <2> QED
      BY <1>2, <2>1, <2>2
  <1>11. head' = IdAt(1)' /\ tail' = IdAt(Len(order))' /\ elms' = Len(order)'
    BY <1>1, <1>2, <1>3, <1>7, Shape DEF QPush
  <1> QED
    BY <1>1, <1>8, <1>9, <1>10, <1>11 DEF FirstInFirstOut

(* The first node goes and the second, if there is one, may lose its prev  *)
(* link.                                                                   *)
FrontFreed ==
  /\ order' = Tail(order) /\ queued' = Tail(queued)
  /\ node' \in [NodeIds -> Nodes \cup {FreeNode}]
  /\ node'[order[1]] = FreeNode
  /\ \A id \in NodeIds \ {order[1], IdAt(2)} : node'[id] = node[id]
  /\ Len(order) > 1 =>
       /\ node'[order[2]] \in Nodes
       /\ node'[order[2]].data = node[order[2]].data
       /\ node'[order[2]].next = node[order[2]].next
       /\ freeing' \/ node'[order[2]].prev = NoId

LEMMA FrontGoes ==
  ASSUME FirstInFirstOut, order # <<>>, FrontFreed, freeing => freeing'
  PROVE  /\ order' \in Seq(NodeIds) /\ queued' \in Seq(Data)
         /\ NoneLost' /\ ChainHolds'
         /\ Len(order') = Len(order) - 1 /\ IdAt(1)' = IdAt(2)
         /\ Len(order) = 1 => IdAt(1)' = NoId
  <1> DEFINE len == Len(order)
  <1>1. QueueTypeOK /\ NoneLost /\ ChainHolds
    BY DEF FirstInFirstOut
  <1>2. len \in Nat \ {0} /\ len = Len(queued) /\ queued # <<>>
    BY <1>1, Shape DEF QueueTypeOK
  <1>3. /\ order' \in Seq(NodeIds) /\ Len(order') = len - 1 /\ DOMAIN order' = 1..len - 1
        /\ \A i \in 1..len - 1 : order'[i] = order[i + 1]
    BY <1>1, TailAt DEF FrontFreed, QueueTypeOK
  <1>4. /\ queued' \in Seq(Data) /\ Len(queued') = len - 1
        /\ \A i \in 1..len - 1 : queued'[i] = queued[i + 1]
    BY <1>1, <1>2, TailAt DEF FrontFreed, QueueTypeOK
  <1>5. \A i \in Nat \ {0} : IdAt(i)' = IdAt(i + 1)
    BY <1>2, <1>3, Shape DEF IdAt
  <1>6. \A i, j \in 1..len : order[i] = order[j] => i = j
    BY <1>1, Shape DEF NoneLost
  <1>7. ASSUME NEW i \in 3..len
        PROVE  node'[order[i]] = node[order[i]]
    <2>1. i \in 1..len /\ 1 \in 1..len /\ 2 \in 1..len /\ i # 1 /\ i # 2
      BY <1>2
    <2>2. order[i] # order[1] /\ order[i] # order[2]
      BY <1>6, <2>1
    <2>3. IdAt(2) = order[2] /\ order[i] \in NodeIds
      BY <2>1, Shape
    <2> QED
      BY <2>2, <2>3 DEF FrontFreed
  <1>8. NoneLost'
    <2>1. \A i, j \in DOMAIN order' : order'[i] = order'[j] => i = j
      <3> SUFFICES ASSUME NEW i \in 1..len - 1, NEW j \in 1..len - 1, order'[i] = order'[j]
                   PROVE  i = j
        BY <1>3
      <3>1. i + 1 \in 1..len /\ j + 1 \in 1..len /\ order[i + 1] = order[j + 1]
        BY <1>2, <1>3
      <3> QED
        BY <1>2, <1>6, <3>1
    <2>2. ASSUME NEW id \in NodeIds
          PROVE  node'[id] # FreeNode <=> \E i \in DOMAIN order' : order'[i] = id
      <3>1. (\E i \in DOMAIN order' : order'[i] = id) <=> \E i \in 2..len : order[i] = id
        <4>1. ASSUME NEW i \in 1..len - 1, order'[i] = id
              PROVE  i + 1 \in 2..len /\ order[i + 1] = id
          BY <1>2, <1>3, <4>1
        <4>2. ASSUME NEW i \in 2..len, order[i] = id
              PROVE  i - 1 \in 1..len - 1 /\ order'[i - 1] = id
          <5>1. i - 1 \in 1..len - 1 /\ (i - 1) + 1 = i
            BY <1>2
          <5>2. order'[i - 1] = order[(i - 1) + 1]
            BY <1>3, <5>1
          <5> QED
            BY <4>2, <5>1, <5>2
        <4> QED
          BY <1>3, <4>1, <4>2
      <3>2. CASE id = order[1]
        <4>1. \A i \in 2..len : i \in 1..len /\ 1 \in 1..len /\ i # 1
          BY <1>2
        <4>2. ~\E i \in 2..len : order[i] = id
          BY <1>6, <3>2, <4>1
        <4> QED
          BY <3>1, <3>2, <4>2 DEF FrontFreed
      <3>3. CASE len > 1 /\ id = order[2]
        <4>1. node'[id] # FreeNode
          BY <3>3, NodeAssumption DEF FrontFreed
        <4>2. 2 \in 2..len
          BY <1>2, <3>3
        <4> QED
          BY <3>1, <3>3, <4>1, <4>2
      <3>4. CASE id # order[1] /\ ~(len > 1 /\ id = order[2])
        <4>1. id # IdAt(2)
          BY <1>2, <3>4, Shape, NodeAssumption DEF IdAt
        <4>2. node'[id] = node[id]
          BY <3>4, <4>1 DEF FrontFreed
        <4>3. node[id] # FreeNode <=> \E i \in 1..len : order[i] = id
          BY <1>1, Shape DEF NoneLost
        <4>4. (\E i \in 1..len : order[i] = id) <=> \E i \in 2..len : order[i] = id
          BY <1>2, <3>4
        <4> QED
          BY <3>1, <4>2, <4>3, <4>4
      <3> QED
        BY <3>2, <3>3, <3>4
    <2> QED
      BY <1>3, <1>4, <2>1, <2>2 DEF NoneLost
  <1>9. ChainHolds'
    <2> SUFFICES ASSUME NEW i \in 1..len - 1
                 PROVE  /\ node'[order'[i]].data = queued'[i]
                        /\ node'[order'[i]].next = IdAt(i + 1)'
                        /\ (i > 1 \/ ~freeing') => node'[order'[i]].prev = IdAt(i - 1)'
      BY <1>3 DEF ChainHolds
    <2>1. i + 1 \in 1..len /\ i + 1 > 1 /\ (i + 1) + 1 = i + 2 /\ (i + 1) - 1 = i
      BY <1>2
    <2>2. order'[i] = order[i + 1] /\ queued'[i] = queued[i + 1]
      BY <1>3, <1>4
    <2>3. /\ node[order[i + 1]].data = queued[i + 1]
          /\ node[order[i + 1]].next = IdAt(i + 2)
          /\ node[order[i + 1]].prev = IdAt(i)
      BY <1>1, <2>1, Shape DEF ChainHolds
    <2>4. IdAt(i + 1)' = IdAt(i + 2)
      <3>1. i + 1 \in Nat \ {0} /\ (i + 1) + 1 = i + 2
        BY <1>2
      <3> QED
        BY <1>5, <3>1
    <2>5. CASE i = 1
      <3>1. len > 1
        BY <1>2, <2>1, <2>5
      <3>2. IdAt(i - 1)' = NoId
        BY <1>3, <2>5 DEF IdAt
      <3> QED
        <4>1. order'[i] = order[2] /\ queued'[i] = queued[2] /\ order[i + 1] = order[2]
          BY <2>2, <2>5
        <4>2. /\ node'[order[2]].data = queued[2]
              /\ node'[order[2]].next = IdAt(i + 2)
              /\ freeing' \/ node'[order[2]].prev = NoId
          BY <2>3, <2>5, <3>1, <4>1 DEF FrontFreed
        <4> QED
          BY <2>4, <2>5, <3>2, <4>1, <4>2
    <2>6. CASE i > 1
      <3>1. node'[order[i + 1]] = node[order[i + 1]]
        <4>1. i + 1 \in 3..len
          BY <1>2, <2>6
        <4> QED
          BY <1>7, <4>1
      <3>2. IdAt(i - 1)' = IdAt(i)
        <4>1. i - 1 \in Nat \ {0} /\ (i - 1) + 1 = i
          BY <1>2, <2>6
        <4> QED
          BY <1>5, <4>1
      <3> QED
        BY <2>2, <2>3, <2>4, <3>1, <3>2
    <2> QED
      BY <1>2, <2>5, <2>6
  <1>10. IdAt(1)' = IdAt(2)
    BY <1>5
  <1>11. len = 1 => IdAt(1)' = NoId
    BY <1>3 DEF IdAt
  <1> QED
    BY <1>2, <1>3, <1>4, <1>8, <1>9, <1>10, <1>11

LEMMA PopKeeps ==
  ASSUME FirstInFirstOut, QPopLast \/ QPopFirst
  PROVE  FirstInFirstOut'
  <1> DEFINE len == Len(order)
  <1>1. /\ ~freeing /\ ~freeing' /\ elms = len /\ head = IdAt(1) /\ tail = IdAt(len)
        /\ QueueTypeOK /\ NoneLost /\ ChainHolds /\ n' = n
        /\ order' = Tail(order) /\ queued' = Tail(queued)
    BY DEF FirstInFirstOut, QPopLast, QPopFirst
  <1>2. len \in Nat \ {0} /\ order # <<>> /\ 1 \in 1..len
    BY <1>1, Shape DEF QPopLast, QPopFirst
  <1>3. head = order[1] /\ head \in NodeIds
    BY <1>1, <1>2, Shape
  <1>4. CASE QPopLast
    <2>1. len = 1 /\ IdAt(2) = NoId
      BY <1>1, <1>4, Shape DEF QPopLast, IdAt
    <2>2. FrontFreed
      BY <1>1, <1>3, <1>4, <2>1 DEF FrontFreed, QPopLast, QueueTypeOK
    <2>3. /\ order' \in Seq(NodeIds) /\ queued' \in Seq(Data)
          /\ NoneLost' /\ ChainHolds' /\ Len(order') = 0 /\ IdAt(1)' = NoId
      BY <1>1, <1>2, <2>1, <2>2, FrontGoes
    <2>4. IdAt(Len(order))' = NoId
      BY <2>3 DEF IdAt
    <2>5. QueueTypeOK'
      BY <1>1, <1>4, <2>2, <2>3 DEF QueueTypeOK, QPopLast, FrontFreed, Links
    <2> QED
      BY <1>1, <1>4, <2>3, <2>4, <2>5 DEF FirstInFirstOut, QPopLast
  <1>5. CASE QPopFirst
    <2>1. len > 1 /\ 2 \in 1..len
      BY <1>1, <1>2, <1>5 DEF QPopFirst
    <2>2. /\ node[head].next = order[2] /\ IdAt(2) = order[2] /\ order[2] \in NodeIds
          /\ node[order[2]] \in Nodes /\ order[2] # order[1]
      <3>1. IdAt(2) = order[2] /\ order[2] \in NodeIds /\ node[order[2]] \in Nodes
        BY <2>1, Shape
      <3>2. order[2] # order[1]
        BY <1>1, <1>2, <2>1, Shape DEF NoneLost
      <3>3. node[order[1]].next = IdAt(1 + 1)
        BY <1>1, <1>2, Shape DEF ChainHolds
      <3> QED
        BY <1>3, <3>1, <3>2, <3>3
    <2>3. node' = [node EXCEPT ![head] = FreeNode, ![order[2]].prev = NoId]
      BY <1>5, <2>2 DEF QPopFirst
    <2>4. /\ node'[order[1]] = FreeNode
          /\ node'[order[2]] = [node[order[2]] EXCEPT !.prev = NoId]
          /\ \A id \in NodeIds \ {order[1], order[2]} : node'[id] = node[id]
          /\ DOMAIN node' = NodeIds
      BY <1>1, <1>3, <2>2, <2>3 DEF QueueTypeOK
    <2>5. /\ node'[order[2]] \in Nodes
          /\ node'[order[2]].data = node[order[2]].data
          /\ node'[order[2]].next = node[order[2]].next
          /\ node'[order[2]].prev = NoId
      BY <2>2, <2>4 DEF Nodes, Links
    <2>6. node' \in [NodeIds -> Nodes \cup {FreeNode}]
      <3>1. \A id \in NodeIds : node'[id] \in Nodes \cup {FreeNode}
        BY <1>1, <2>4, <2>5 DEF QueueTypeOK
      <3>2. node' = [id \in NodeIds |-> node'[id]]
        BY <1>1, <2>3 DEF QueueTypeOK
      <3> QED
        BY <3>1, <3>2
    <2>7. FrontFreed
      BY <1>1, <2>2, <2>4, <2>5, <2>6 DEF FrontFreed
    <2>8. /\ order' \in Seq(NodeIds) /\ queued' \in Seq(Data)
          /\ NoneLost' /\ ChainHolds' /\ Len(order') = len - 1 /\ IdAt(1)' = order[2]
      BY <1>1, <1>2, <2>2, <2>7, FrontGoes
    <2>9. IdAt(Len(order))' = tail
      <3>1. IdAt(Len(order))' = order'[len - 1] /\ len - 1 \in 1..len - 1
        BY <1>2, <2>1, <2>8 DEF IdAt
      <3>2. order'[len - 1] = order[(len - 1) + 1]
        BY <1>1, <1>2, <3>1, TailAt DEF QueueTypeOK
      <3>3. order[len] = tail /\ (len - 1) + 1 = len
        BY <1>1, <1>2, Shape
      <3> QED
        BY <3>1, <3>2, <3>3
    <2>10. QueueTypeOK'
      BY <1>1, <1>2, <1>5, <2>2, <2>6, <2>8 DEF QueueTypeOK, QPopFirst, Links
    <2> QED
      BY <1>1, <1>5, <2>2, <2>8, <2>9, <2>10 DEF FirstInFirstOut, QPopFirst
  <1> QED
    BY <1>4, <1>5

LEMMA FreeKeeps ==
  ASSUME FirstInFirstOut, QFree \/ QFreeNode \/ QFreed
  PROVE  FirstInFirstOut'
  <1>1. CASE QFree
    <2>1. ChainHolds'
      BY <1>1 DEF FirstInFirstOut, ChainHolds, QFree, IdAt
    <2> QED
      BY <1>1, <2>1 DEF FirstInFirstOut, QueueTypeOK, NoneLost, QFree, IdAt
  <1>2. CASE QFreeNode
    <2>1. /\ freeing /\ freeing' /\ n = IdAt(1) /\ n # NoId
          /\ QueueTypeOK /\ NoneLost /\ ChainHolds
      BY <1>2 DEF FirstInFirstOut, QFreeNode
    <2>2. 1 \in 1..Len(order) /\ n = order[1] /\ n \in NodeIds /\ order # <<>>
      BY <2>1, Shape DEF IdAt
    <2>3. n' = IdAt(2) /\ IdAt(2) \in Links
      BY <1>2, <2>1, <2>2, Shape DEF QFreeNode, ChainHolds, Links
    <2>4. ASSUME Len(order) > 1
          PROVE  node'[order[2]] = node[order[2]] /\ node[order[2]] \in Nodes
      <3>1. 2 \in 1..Len(order) /\ order[2] # order[1] /\ order[2] \in NodeIds
        BY <2>1, <2>2, <2>4, Shape DEF NoneLost
      <3> QED
        BY <1>2, <2>1, <2>2, <3>1, Shape DEF QFreeNode, QueueTypeOK
    <2>5. FrontFreed
      BY <1>2, <2>1, <2>2, <2>4 DEF FrontFreed, QFreeNode, QueueTypeOK
    <2>6. /\ order' \in Seq(NodeIds) /\ queued' \in Seq(Data)
          /\ NoneLost' /\ ChainHolds' /\ IdAt(1)' = IdAt(2)
      BY <2>1, <2>2, <2>5, FrontGoes
    <2>7. QueueTypeOK'
      BY <1>2, <2>1, <2>3, <2>5, <2>6 DEF QueueTypeOK, FrontFreed, QFreeNode
    <2> QED
      BY <2>1, <2>3, <2>6, <2>7 DEF FirstInFirstOut
  <1>3. CASE QFreed
    <2>1. QueueTypeOK /\ NoneLost /\ IdAt(1) = NoId
      BY <1>3 DEF FirstInFirstOut, QFreed
    <2>2. Len(order) = 0
      BY <2>1, Shape
    <2>3. \A id \in NodeIds : node[id] = FreeNode
      <3>1. DOMAIN order = {}
        BY <2>2, Shape
      <3> QED
        BY <2>1, <3>1 DEF NoneLost
    <2>4. order' = <<>> /\ queued' = <<>> /\ node' = node /\ DOMAIN order' = {}
          /\ Len(order') = 0
      BY <1>3 DEF QFreed
    <2>5. NoneLost' /\ ChainHolds' /\ IdAt(1)' = NoId /\ IdAt(Len(order))' = NoId
      BY <1>3, <2>3, <2>4 DEF NoneLost, ChainHolds, IdAt, QFreed
    <2>6. QueueTypeOK'
      <3>1. order' \in Seq(NodeIds) /\ queued' \in Seq(Data)
        BY <2>4
      <3> QED
        BY <1>3, <2>1, <3>1 DEF QueueTypeOK, QFreed, Links
    <2> QED
      BY <1>3, <2>4, <2>5, <2>6 DEF FirstInFirstOut, QFreed
  <1> QED
    BY <1>1, <1>2, <1>3

-----------------------------------------------------------------------------
(* A queue hands its data on in order; its links lead through all nodes in *)
(* either direction and to none that was freed; freeing it frees each once *)
(* (q_push, q_pop and q_free_alt of queue.c).                              *)
THEOREM QueueIsFirstInFirstOut == QueueSpec => []FirstInFirstOut
  <1>1. QueueInit => FirstInFirstOut
    <2> SUFFICES ASSUME QueueInit PROVE FirstInFirstOut
      OBVIOUS
    <2>1. DOMAIN order = {} /\ Len(order) = 0 /\ Len(queued) = 0
      BY DEF QueueInit
    <2>2. QueueTypeOK
      <3>1. order \in Seq(NodeIds) /\ queued \in Seq(Data)
        BY DEF QueueInit
      <3>2. node \in [NodeIds -> Nodes \cup {FreeNode}]
        BY DEF QueueInit
      <3> QED
        BY <3>1, <3>2 DEF QueueInit, QueueTypeOK, Links
    <2> QED
      BY <2>1, <2>2 DEF FirstInFirstOut, QueueInit, NoneLost, ChainHolds, IdAt
  <1>2. FirstInFirstOut /\ [QueueNext]_queueVars => FirstInFirstOut'
    <2> SUFFICES ASSUME FirstInFirstOut, [QueueNext]_queueVars
                 PROVE  FirstInFirstOut'
      OBVIOUS
    <2>1. CASE UNCHANGED queueVars
      BY <2>1 DEF queueVars, FirstInFirstOut, QueueTypeOK, NoneLost, ChainHolds, IdAt
    <2>2. CASE QueueNext
      BY <2>2, PushKeeps, PopKeeps, FreeKeeps DEF QueueNext
    <2> QED
      BY <2>1, <2>2
  <1> QED
    BY <1>1, <1>2, PTL DEF QueueSpec


-----------------------------------------------------------------------------
(* Functions mapped over a container.                                      *)

Kinds == {"none", "block", "whole"}
Objects == [value : Nat, by : Nat, blockFreed : Nat, contentFreed : Nat]
Starts == [container : {"array", "ntlist", "hashlist"}, values : Seq(Nat),
           funcs : Seq(Functions), fold : {"none", "array", "ntlist"}]

(* What objs holds under the places of entries.                            *)
ValuesIn(objs, entries) == [i \in DOMAIN entries |-> objs[entries[i]].value]

(* Sequences that are joined, and one with a part appended.                *)
LEMMA Joined ==
  ASSUME NEW S, NEW s \in Seq(S), NEW m \in Nat, NEW add \in [1..m -> S]
  PROVE  /\ s \o add \in Seq(S) /\ Len(s \o add) = Len(s) + m
         /\ \A i \in 1..Len(s) : (s \o add)[i] = s[i]
         /\ \A i \in 1..m : (s \o add)[Len(s) + i] = add[i]
  OBVIOUS

(* The same element m times.                                               *)
LEMMA Repeated ==
  ASSUME NEW S, NEW x \in S, NEW m \in Nat
  PROVE  /\ [i \in 1..m |-> x] \in [1..m -> S]
         /\ [i \in 1..m |-> x] \in Seq(S) /\ Len([i \in 1..m |-> x]) = m
         /\ m = 0 => [i \in 1..m |-> x] = <<>>
  <1>1. [i \in 1..m |-> x] \in Seq(S)
    OBVIOUS
  <1>2. Len([i \in 1..m |-> x]) = m
    BY <1>1, LenProperties
  <1>3. m = 0 => [i \in 1..m |-> x] = <<>>
    BY <1>1, <1>2, EmptySeq
  <1> QED
    BY <1>1, <1>2, <1>3

-----------------------------------------------------------------------------
(* What the functions mean.                                                *)

(* What a function makes of a value.                                       *)
Block(func, v) ==
  IF v \in func.drops THEN <<>>
  ELSE [c \in 1..func.copies |-> IF func.makes THEN v + 1 ELSE v]

LEMMA FunctionParts ==
  ASSUME NEW f \in Functions
  PROVE  /\ f.makes \in BOOLEAN /\ f.list \in BOOLEAN /\ f.copies \in Nat
         /\ f.destroy \in Kinds
         /\ ~f.makes => f.destroy = "none"
         /\ ~f.list => f.copies = 1
  BY FunctionsAssumption DEF Kinds

LEMMA BlockTypes ==
  ASSUME NEW f \in Functions, NEW v \in Nat
  PROVE  Block(f, v) \in Seq(Nat)
  <1>1. f.copies \in Nat
    BY FunctionParts
  <1>2. PICK w \in Nat : w = IF f.makes THEN v + 1 ELSE v
    OBVIOUS
  <1>3. [c \in 1..f.copies |-> w] \in Seq(Nat)
    BY <1>1, Repeated
  <1>4. <<>> \in Seq(Nat)
    BY EmptySeq
  <1> QED
    BY <1>2, <1>3, <1>4 DEF Block

(* Value by value.                                                         *)
LEMMA MeantByStep ==
  ASSUME NEW f \in Functions, NEW values \in Seq(Nat), NEW many \in Nat, many < Len(values)
  PROVE  /\ MeantBy(f, [i \in 1..many |-> values[i]]) \in Seq(Nat)
         /\ MeantBy(f, [i \in 1..many + 1 |-> values[i]]) =
              MeantBy(f, [i \in 1..many |-> values[i]]) \o Block(f, values[many + 1])
  <1> DEFINE r == [i \in 1..many + 1 |-> Block(f, values[i])]
             s == [i \in 1..many |-> r[i]]
  <1>1. \A i \in 1..many + 1 : values[i] \in Nat /\ Block(f, values[i]) \in Seq(Nat)
    <2> SUFFICES ASSUME NEW i \in 1..many + 1
                 PROVE  values[i] \in Nat /\ Block(f, values[i]) \in Seq(Nat)
      OBVIOUS
    <2>1. i \in 1..Len(values)
      BY LenProperties
    <2>2. values[i] \in Nat
      BY <2>1, ElementOfSeq
    <2> QED
      BY <2>2, BlockTypes
  <1>2. r \in [1..many + 1 -> Seq(Nat)]
    BY <1>1
  <1>3. MeantBy(f, [i \in 1..many + 1 |-> values[i]]) = FlattenSeq(r)
    BY DEF MeantBy, Block
  <1>4. MeantBy(f, [i \in 1..many |-> values[i]]) = FlattenSeq(s)
    <2>1. s = [i \in 1..many |-> Block(f, values[i])]
      OBVIOUS
    <2>2. MeantBy(f, [i \in 1..many |-> values[i]])
            = FlattenSeq([i \in 1..many |-> Block(f, values[i])])
      BY DEF MeantBy, Block
    <2> HIDE DEF s
    <2> QED
      BY <2>1, <2>2
  <1>5. r[many + 1] = Block(f, values[many + 1])
    OBVIOUS
  <1> HIDE DEF r
  <1>6. /\ FlattenSeq(s) \in Seq(Nat)
        /\ FlattenSeq(r) = FlattenSeq(s) \o r[many + 1]
    BY <1>2, FlattenStep
  <1> QED
    BY <1>3, <1>4, <1>5, <1>6

LEMMA MeantByNone ==
  ASSUME NEW f, NEW values
  PROVE  MeantBy(f, [i \in 1..0 |-> values[i]]) = <<>>
  <1>1. 1..0 = {}
    OBVIOUS
  <1> DEFINE none == [i \in 1..0 |-> values[i]]
             r == [c \in DOMAIN none |-> Block(f, none[c])]
  <1>2. r \in [1..0 -> Nat]
    BY <1>1
  <1>3. r \in Seq(Nat) /\ Len(r) = 0 /\ r = <<>>
    <2>1. r \in Seq(Nat)
      BY <1>2
    <2> HIDE DEF r
    <2> QED
      BY <1>2, <2>1, LenProperties, EmptySeq
  <1>4. MeantBy(f, [i \in 1..0 |-> values[i]]) = FlattenSeq(r)
    BY DEF MeantBy, Block
  <1> HIDE DEF r
  <1> QED
    BY <1>3, <1>4 DEF FlattenSeq

LEMMA MeantByTypes ==
  ASSUME NEW f \in Functions, NEW values \in Seq(Nat)
  PROVE  MeantBy(f, values) \in Seq(Nat)
  <1>1. Len(values) \in Nat /\ values = [i \in 1..Len(values) |-> values[i]]
    BY LenProperties
  <1>2. CASE Len(values) = 0
    <2>1. MeantBy(f, [i \in 1..0 |-> values[i]]) = <<>>
      BY MeantByNone
    <2> QED
      BY <1>1, <1>2, <2>1, EmptySeq
  <1>3. CASE Len(values) # 0
    <2>1. PICK many \in Nat : many + 1 = Len(values) /\ many < Len(values)
      <3>1. Len(values) - 1 \in Nat /\ (Len(values) - 1) + 1 = Len(values)
            /\ Len(values) - 1 < Len(values)
        BY <1>1, <1>3
      <3> QED
        BY <3>1
    <2>2. values[many + 1] \in Nat
      <3>1. many + 1 \in 1..Len(values)
        BY <2>1
      <3> QED
        BY <3>1, ElementOfSeq
    <2>3. PICK a \in Seq(Nat) :
            MeantBy(f, [i \in 1..many + 1 |-> values[i]]) = a \o Block(f, values[many + 1])
      BY <2>1, MeantByStep
    <2>4. Block(f, values[many + 1]) \in Seq(Nat)
      BY <2>2, BlockTypes
    <2>5. a \o Block(f, values[many + 1]) \in Seq(Nat)
      BY <2>4, ConcatProperties
    <2> QED
      BY <1>1, <2>1, <2>3, <2>5
  <1> QED
    BY <1>2, <1>3

(* Function by function.                                                   *)
LEMMA AfterIs ==
  ASSUME NEW values \in Seq(Nat), NEW funcs \in Seq(Functions)
  PROVE  /\ After(values, funcs)[0] = values
         /\ \A i \in 0..Len(funcs) : After(values, funcs)[i] \in Seq(Nat)
         /\ \A i \in 0..Len(funcs) - 1 :
              After(values, funcs)[i + 1] = MeantBy(funcs[i + 1], After(values, funcs)[i])
  <1>0. PICK many \in Nat : many = Len(funcs)
    BY LenProperties
  <1> DEFINE V == Seq(Nat)
             Next1(d, v) == MeantBy(funcs[d + 1], v)
             step1 == [d \in Nat |-> [v \in V |-> IF d < many THEN Next1(d, v) ELSE v]]
             Is(f) == f = [d \in 0..many |-> IF d = 0 THEN values ELSE Next1(d - 1, f[d - 1])]
  <1>1. values \in V
    OBVIOUS
  <1>2. ASSUME NEW d \in Nat, d < many, NEW v \in V
        PROVE  Next1(d, v) \in V
    <2>1. d + 1 \in 1..Len(funcs)
      BY <1>0, <1>2
    <2>2. funcs[d + 1] \in Functions
      BY <2>1, ElementOfSeq
    <2> QED
      BY <2>2, MeantByTypes
  <1> HIDE DEF Next1, V
  <1>3. step1 \in [Nat -> [V -> V]]
    BY <1>2
  <1>4. PICK f : IsRecursion(f, V, values, step1)
    <2> HIDE DEF step1
    <2> QED
      BY <1>1, <1>3, NatRec, Zenon
  <1>5. /\ f \in [Nat -> V] /\ f[0] = values
        /\ \A d \in Nat : d < many => f[d + 1] = Next1(d, f[d])
    BY <1>4 DEF IsRecursion
  <1> DEFINE g == [d \in 0..many |-> f[d]]
  <1>6. Is(g)
    <2>1. ASSUME NEW d \in 0..many
          PROVE  f[d] = IF d = 0 THEN values ELSE Next1(d - 1, g[d - 1])
      <3>1. CASE d = 0
        BY <1>5, <3>1
      <3>2. CASE d # 0
        <4>1. PICK c \in Nat : c = d - 1
          BY <3>2
        <4>2. d = c + 1 /\ c \in 0..many /\ c < many
          BY <4>1
        <4>3. f[d] = Next1(c, f[c]) /\ g[c] = f[c]
          BY <1>5, <4>2
        <4> HIDE DEF g
        <4> QED
          BY <3>2, <4>1, <4>3
      <3> QED
        BY <3>1, <3>2
    <2>2. g = [d \in 0..many |-> g[d]] /\ \A d \in 0..many : g[d] = f[d]
      OBVIOUS
    <2> HIDE DEF g
    <2> QED
      BY <2>1, <2>2
  <1> HIDE DEF g, step1
  <1> DEFINE after == CHOOSE h : Is(h)
  <1>7. Is(after)
    BY <1>6
  <1>8. After(values, funcs) = after
    <2>1. \A d \in Nat : d # 0 => (d - 1) + 1 = d
      OBVIOUS
    <2>2. \A h : Is(h) <=>
            h = [d \in 0..Len(funcs) |-> IF d = 0 THEN values ELSE MeantBy(funcs[d], h[d - 1])]
      BY <1>0, <2>1 DEF Next1
    <2> QED
      BY <2>2 DEF After
  <1> HIDE DEF after
  <1>9. after[0] = values
    BY <1>7
  <1>10. \A d \in 0..many - 1 : after[d + 1] = Next1(d, after[d])
    <2> SUFFICES ASSUME NEW d \in 0..many - 1 PROVE after[d + 1] = Next1(d, after[d])
      OBVIOUS
    <2>1. d + 1 \in 0..many /\ d + 1 # 0 /\ (d + 1) - 1 = d
      OBVIOUS
    <2>2. after[d + 1] = IF d + 1 = 0 THEN values ELSE Next1((d + 1) - 1, after[(d + 1) - 1])
      BY <1>7, <2>1
    <2> QED
      BY <2>1, <2>2
  <1>11. \A d \in 0..many : after[d] \in V
    <2> DEFINE T == {d \in Nat : d <= many => after[d] \in V}
    <2>1. 0 \in T
      BY <1>1, <1>9
    <2>2. ASSUME NEW d \in Nat, d \in T PROVE d + 1 \in T
      <3> SUFFICES ASSUME d + 1 <= many PROVE after[d + 1] \in V
        BY <2>2
      <3>1. d \in 0..many - 1 /\ d < many
        OBVIOUS
      <3> QED
        BY <1>2, <1>10, <2>2, <3>1
    <2> HIDE DEF T
    <2>3. Nat \subseteq T
      BY <2>1, <2>2, NatInd
    <2> QED
      BY <2>3 DEF T
  <1> QED
    BY <1>0, <1>8, <1>9, <1>10, <1>11 DEF V, Next1

-----------------------------------------------------------------------------
(* What operation() keeps: in the middle of map number pass the functor is *)
(* what the function before has passed on, and mapped what this one has so *)
(* far.                                                                    *)

Count == Len(start.funcs)
Folded == step = "done" /\ start.fold # "none"
DestroyOf(o) == IF object[o].by = 0 THEN "none" ELSE start.funcs[object[o].by].destroy

FunctionalTypes ==
  /\ start \in Starts /\ Count > 0
  /\ pass \in 1..Count + 1
  /\ step = IF pass <= Count THEN "map" ELSE IF start.fold = "none" \/ Folded
         THEN "done" ELSE "fold"
  /\ object \in Seq(Objects)
  /\ functor.entries \in Seq(DOMAIN object) /\ functor.destroy \in Kinds
  /\ mapped \in Seq(DOMAIN object) /\ destroyFunc \in Kinds
  /\ place \in 0..Len(functor.entries)
  /\ step # "map" => mapped = <<>> /\ place = 0
  /\ pass = 1 \/ Folded => functor.destroy = "none"
  /\ pass > 1 /\ ~Folded => functor.count = 0
  /\ lists = IF pass = 1 \/ Folded THEN 0 ELSE 1

(* A list of what function b has passed on has the objects that b has      *)
(* made, each once, and knows how they are destroyed; if b makes none, it  *)
(* destroys none.                                                          *)
Owned(entries, destroy, b) ==
  IF start.funcs[b].makes
  THEN /\ \A i, j \in DOMAIN entries : entries[i] = entries[j] => i = j
       /\ \A i \in DOMAIN entries : object[entries[i]].by = b
       /\ \A o \in DOMAIN object : object[o].by = b => \E i \in DOMAIN entries : entries[i] = o
       /\ entries # <<>> => destroy = start.funcs[b].destroy
       /\ destroy \in {"none", start.funcs[b].destroy}
  ELSE /\ destroy = "none"
       /\ \A o \in DOMAIN object : object[o].by # b
FunctorOwns == pass > 1 /\ ~Folded => Owned(functor.entries, functor.destroy, pass - 1)
MappedOwns == pass <= Count => Owned(mapped, destroyFunc, pass)
MadeBefore == \A o \in DOMAIN object : object[o].by <= pass /\ object[o].by <= Count

(* What was made two functions ago is destroyed, and when the last         *)
(* function's objects have been folded their blocks are.                   *)
Freed ==
  \A o \in DOMAIN object :
    /\ object[o].blockFreed =
         IF DestroyOf(o) # "none" /\ (object[o].by < pass - 1 \/ Folded) THEN 1 ELSE 0
    /\ object[o].contentFreed =
         IF DestroyOf(o) = "whole" /\ object[o].by < pass - 1 THEN 1 ELSE 0

(* The lists have objects that are not destroyed when this map ends, unless *)
(* a function borrows.                                                     *)
Stays(o, b) == object[o].by >= b \/ DestroyOf(o) = "none"
Alive ==
  ~Borrows => /\ \A i \in DOMAIN functor.entries : Stays(functor.entries[i], pass - 1)
              /\ \A i \in DOMAIN mapped : Stays(mapped[i], pass)

(* And they have the values that are meant.                                *)
Means ==
  /\ ~Folded => ValuesIn(object, functor.entries) = After(start.values, start.funcs)[pass - 1]
  /\ pass <= Count =>
       ValuesIn(object, mapped) =
         MeantBy(start.funcs[pass],
                 [i \in 1..place |-> ValuesIn(object, functor.entries)[i]])

(* The array has what the last function has passed on, in its order.       *)
FoldedIs ==
  Folded =>
    /\ functor.entries = <<>> /\ DOMAIN folded \subseteq Nat
    /\ [i \in 1..functor.count |-> folded[i].value] = After(start.values, start.funcs)[Count]
    /\ start.fold = "ntlist" => Last(folded) = End
    /\ ~Borrows => \A i \in DOMAIN folded : folded[i].of \in DOMAIN object
           => Stays(folded[i].of, Count)
    /\ \A o \in DOMAIN object : object[o].by = Count
           => \E i \in DOMAIN folded : folded[i].of = o
NotFolded == ~Folded => folded = <<>>

FunctionalInv ==
  /\ FunctionalTypes /\ FunctorOwns /\ MappedOwns /\ MadeBefore /\ Freed /\ Alive
  /\ Means /\ FoldedIs /\ NotFolded

-----------------------------------------------------------------------------
(* One entry of a map.                                                     *)

LEMMA SeqWider ==
  ASSUME NEW S, NEW T, S \subseteq T, NEW s \in Seq(S)
  PROVE  s \in Seq(T)
  OBVIOUS

(* The values under the places of a list.                                  *)
LEMMA ValuesTypes ==
  ASSUME NEW objs \in Seq(Objects), NEW entries \in Seq(DOMAIN objs)
  PROVE  /\ ValuesIn(objs, entries) \in Seq(Nat)
         /\ Len(ValuesIn(objs, entries)) = Len(entries)
         /\ DOMAIN ValuesIn(objs, entries) = 1..Len(entries)
         /\ \A i \in 1..Len(entries) : ValuesIn(objs, entries)[i] = objs[entries[i]].value
  <1>1. Len(entries) \in Nat /\ DOMAIN entries = 1..Len(entries)
    BY LenProperties
  <1>2. \A i \in 1..Len(entries) : objs[entries[i]].value \in Nat
    <2> SUFFICES ASSUME NEW i \in 1..Len(entries) PROVE objs[entries[i]].value \in Nat
      OBVIOUS
    <2>1. entries[i] \in DOMAIN objs
      BY ElementOfSeq
    <2>2. entries[i] \in 1..Len(objs)
      BY <2>1, LenProperties
    <2>3. objs[entries[i]] \in Objects
      BY <2>2, ElementOfSeq
    <2> QED
      BY <2>3 DEF Objects
  <1>3. /\ ValuesIn(objs, entries) \in [1..Len(entries) -> Nat]
        /\ \A i \in 1..Len(entries) : ValuesIn(objs, entries)[i] = objs[entries[i]].value
    BY <1>1, <1>2 DEF ValuesIn
  <1>4. ValuesIn(objs, entries) \in Seq(Nat)
    BY <1>1, <1>3
  <1>5. Len(ValuesIn(objs, entries)) = Len(entries)
    BY <1>1, <1>3, <1>4, LenProperties
  <1> QED
    BY <1>3, <1>4, <1>5

(* What the entry o becomes: m objects are appended.                       *)
Appends(o, m) ==
  /\ object' \in Seq(Objects)
  /\ Len(object') = Len(object) + (IF Func.makes THEN m ELSE 0)
  /\ \A i \in 1..Len(object) : object'[i] = object[i]
  /\ Func.makes => \A i \in 1..m : object'[Len(object) + i] = Object(object[o].value + 1, pass)
  /\ mapped' \in Seq(DOMAIN object') /\ Len(mapped') = Len(mapped) + m
  /\ \A i \in 1..Len(mapped) : mapped'[i] = mapped[i]
  /\ \A i \in 1..m : mapped'[Len(mapped) + i] = IF Func.makes THEN Len(object) + i ELSE o
  /\ destroyFunc' = IF m = 0 /\ ~Func.list THEN destroyFunc ELSE Func.destroy

LEMMA FunctionalParts ==
  ASSUME FunctionalTypes
  PROVE  /\ Count \in Nat /\ start.funcs \in Seq(Functions) /\ start.values \in Seq(Nat)
         /\ Len(object) \in Nat /\ DOMAIN object = 1..Len(object)
         /\ Len(mapped) \in Nat /\ DOMAIN mapped = 1..Len(mapped)
         /\ Len(functor.entries) \in Nat /\ DOMAIN functor.entries = 1..Len(functor.entries)
         /\ \A b \in 1..Count : start.funcs[b] \in Functions
         /\ \A o \in 1..Len(object) : object[o] \in Objects
         /\ \A i \in DOMAIN mapped : mapped[i] \in DOMAIN object
         /\ \A i \in DOMAIN functor.entries : functor.entries[i] \in DOMAIN object
  <1>1. /\ start.funcs \in Seq(Functions) /\ start.values \in Seq(Nat)
               /\ object \in Seq(Objects)
        /\ mapped \in Seq(DOMAIN object) /\ functor.entries \in Seq(DOMAIN object)
    BY DEF FunctionalTypes, Starts
  <1>2. Count \in Nat /\ \A b \in 1..Count : start.funcs[b] \in Functions
    BY <1>1, LenProperties, ElementOfSeq DEF Count
  <1>3. Len(object) \in Nat /\ DOMAIN object = 1..Len(object)
    BY <1>1, LenProperties
  <1>4. Len(mapped) \in Nat /\ DOMAIN mapped = 1..Len(mapped)
    BY <1>1, LenProperties
  <1>5. Len(functor.entries) \in Nat /\ DOMAIN functor.entries = 1..Len(functor.entries)
    BY <1>1, LenProperties
  <1>6. \A o \in 1..Len(object) : object[o] \in Objects
    BY <1>1, ElementOfSeq
  <1>7. \A i \in DOMAIN mapped : mapped[i] \in DOMAIN object
    BY <1>1, <1>4, ElementOfSeq
  <1>8. \A i \in DOMAIN functor.entries : functor.entries[i] \in DOMAIN object
    BY <1>1, <1>5, ElementOfSeq
  <1> QED
    BY <1>1, <1>2, <1>3, <1>4, <1>5, <1>6, <1>7, <1>8

LEMMA MapsEntry ==
  ASSUME FunctionalTypes, MapEntry
  PROVE  /\ step = "map" /\ pass \in 1..Count /\ Func \in Functions
         /\ place + 1 \in DOMAIN functor.entries /\ place' = place + 1
         /\ functor.entries[place + 1] \in DOMAIN object
         /\ \E m \in Nat :
              /\ Appends(functor.entries[place + 1], m)
              /\ m = Len(Block(Func, object[functor.entries[place + 1]].value))
  <1>0. /\ Count \in Nat /\ Len(object) \in Nat /\ DOMAIN object = 1..Len(object)
        /\ Len(functor.entries) \in Nat /\ DOMAIN functor.entries = 1..Len(functor.entries)
        /\ \A b \in 1..Count : start.funcs[b] \in Functions
        /\ \A o \in 1..Len(object) : object[o] \in Objects
        /\ \A i \in DOMAIN functor.entries : functor.entries[i] \in DOMAIN object
    BY FunctionalParts
  <1>1. step = "map" /\ pass \in 1..Count /\ Func \in Functions
    <2>1. step = "map"
      BY DEF MapEntry
    <2>2. /\ pass \in 1..Count + 1
          /\ step = IF pass <= Count THEN "map"
                    ELSE IF start.fold = "none" \/ Folded THEN "done" ELSE "fold"
      BY DEF FunctionalTypes
    <2>3. pass \in 1..Count
      BY <1>0, <2>1, <2>2
    <2> QED
      BY <1>0, <2>1, <2>3 DEF Func
  <1>2. place + 1 \in DOMAIN functor.entries /\ place' = place + 1
    <2>1. place < Len(functor.entries) /\ place' = place + 1
      BY DEF MapEntry
    <2>2. place \in 0..Len(functor.entries)
      BY DEF FunctionalTypes
    <2>3. place + 1 \in 1..Len(functor.entries)
      BY <1>0, <2>1, <2>2
    <2> QED
      BY <1>0, <2>1, <2>3
  <1>3. PICK o \in DOMAIN object : o = functor.entries[place + 1]
    BY <1>0, <1>2
  <1>4. PICK v \in Nat : v = object[o].value
    BY <1>0 DEF Objects
  <1>5. PICK m \in Nat : m = IF v \in Func.drops THEN 0 ELSE Func.copies
    <2>1. Func.copies \in Nat
      BY <1>1, FunctionParts
    <2> QED
      BY <2>1
  <1>6. m = Len(Block(Func, v))
    <2>1. PICK w \in Nat : w = IF Func.makes THEN v + 1 ELSE v
      OBVIOUS
    <2>2. [c \in 1..m |-> w] \in Seq(Nat) /\ Len([c \in 1..m |-> w]) = m
      BY Repeated
    <2>3. Len(<<>>) = 0
      OBVIOUS
    <2>4. CASE v \in Func.drops
      BY <1>5, <2>3, <2>4 DEF Block
    <2>5. CASE v \notin Func.drops
      <3>1. Block(Func, v) = [c \in 1..m |-> w]
        BY <1>5, <2>1, <2>5 DEF Block
      <3> QED
        BY <2>2, <3>1
    <2> QED
      BY <2>4, <2>5
  <1>7. /\ object' = IF Func.makes THEN object \o [i \in 1..m |-> Object(v + 1, pass)]
               ELSE object
        /\ mapped' = mapped \o (IF Func.makes THEN [i \in 1..m |-> Len(object) + i]
                                ELSE [i \in 1..m |-> o])
        /\ destroyFunc' = IF m = 0 /\ ~Func.list THEN destroyFunc ELSE Func.destroy
    BY <1>3, <1>4, <1>5 DEF MapEntry
  <1>8. /\ object' \in Seq(Objects)
        /\ Len(object') = Len(object) + (IF Func.makes THEN m ELSE 0)
        /\ \A i \in 1..Len(object) : object'[i] = object[i]
        /\ Func.makes => \A i \in 1..m : object'[Len(object) + i] = Object(v + 1, pass)
    <2>1. object \in Seq(Objects)
      BY DEF FunctionalTypes
    <2>2. CASE Func.makes
      <3>1. PICK new \in Objects : new = Object(v + 1, pass)
        <4>1. Object(v + 1, pass) \in Objects
          BY <1>1 DEF Object, Objects
        <4> QED
          BY <4>1
      <3> DEFINE add == [i \in 1..m |-> new]
      <3>2. add \in [1..m -> Objects] /\ \A i \in 1..m : add[i] = new
        OBVIOUS
      <3>3. object' = object \o add
        BY <1>7, <2>2, <3>1
      <3> HIDE DEF add
      <3>4. /\ object' \in Seq(Objects) /\ Len(object') = Len(object) + m
            /\ \A i \in 1..Len(object) : object'[i] = object[i]
            /\ \A i \in 1..m : object'[Len(object) + i] = add[i]
        <4>1. /\ object \o add \in Seq(Objects) /\ Len(object \o add) = Len(object) + m
              /\ \A i \in 1..Len(object) : (object \o add)[i] = object[i]
              /\ \A i \in 1..m : (object \o add)[Len(object) + i] = add[i]
          BY <2>1, <3>2, Joined
        <4> QED
          BY <3>3, <4>1
      <3>5. \A i \in 1..m : object'[Len(object) + i] = Object(v + 1, pass)
        BY <3>1, <3>2, <3>4
      <3> QED
        BY <2>2, <3>4, <3>5
    <2>3. CASE ~Func.makes
      BY <1>7, <2>1, <2>3
    <2> QED
      BY <2>2, <2>3
  <1>9. DOMAIN object' = 1..Len(object') /\ Len(object') \in Nat
            /\ DOMAIN object \subseteq DOMAIN object'
    <2>1. DOMAIN object' = 1..Len(object')
      BY <1>8, LenProperties
    <2> QED
      BY <1>0, <1>8, <2>1
  <1>10. /\ mapped' \in Seq(DOMAIN object') /\ Len(mapped') = Len(mapped) + m
         /\ \A i \in 1..Len(mapped) : mapped'[i] = mapped[i]
         /\ \A i \in 1..m : mapped'[Len(mapped) + i] = IF Func.makes THEN Len(object) + i ELSE o
    <2>1. mapped \in Seq(DOMAIN object')
      <3>1. mapped \in Seq(DOMAIN object)
        BY DEF FunctionalTypes
      <3> QED
        BY <1>9, <3>1, SeqWider
    <2> DEFINE add == IF Func.makes THEN [i \in 1..m |-> Len(object) + i]
                   ELSE [i \in 1..m |-> o]
    <2>2. mapped' = mapped \o add
      BY <1>7
    <2>3. add \in [1..m -> DOMAIN object']
      <3>1. CASE Func.makes
        <4>1. \A i \in 1..m : Len(object) + i \in 1..Len(object')
          BY <1>0, <1>8, <1>9, <3>1
        <4> QED
          BY <1>9, <3>1, <4>1
      <3>2. CASE ~Func.makes
        BY <1>9, <3>2
      <3> QED
        BY <3>1, <3>2
    <2>4. \A i \in 1..m : add[i] = IF Func.makes THEN Len(object) + i ELSE o
      OBVIOUS
    <2> HIDE DEF add
    <2>5. /\ mapped' \in Seq(DOMAIN object') /\ Len(mapped') = Len(mapped) + m
          /\ \A i \in 1..Len(mapped) : mapped'[i] = mapped[i]
          /\ \A i \in 1..m : mapped'[Len(mapped) + i] = add[i]
      <3>1. /\ mapped \o add \in Seq(DOMAIN object') /\ Len(mapped \o add) = Len(mapped) + m
            /\ \A i \in 1..Len(mapped) : (mapped \o add)[i] = mapped[i]
            /\ \A i \in 1..m : (mapped \o add)[Len(mapped) + i] = add[i]
        BY <2>1, <2>3, Joined
      <3> QED
        BY <2>2, <3>1
    <2> QED
      BY <2>4, <2>5
  <1>11. Appends(o, m)
    BY <1>4, <1>7, <1>8, <1>10 DEF Appends
  <1> QED
    BY <1>1, <1>2, <1>3, <1>4, <1>6, <1>11

LEMMA ValuesStay ==
  ASSUME NEW objs, NEW objs2, NEW entries \in Seq(DOMAIN objs),
         \A o \in DOMAIN objs : objs2[o].value = objs[o].value
  PROVE  ValuesIn(objs2, entries) = ValuesIn(objs, entries)
  <1>1. DOMAIN entries = 1..Len(entries)
    BY LenProperties
  <1>2. \A i \in 1..Len(entries) : objs2[entries[i]].value = objs[entries[i]].value
    BY ElementOfSeq
  <1> QED
    BY <1>1, <1>2 DEF ValuesIn

(* A map leaves everything else, and the objects that there are, alone.    *)
LEMMA EntryLeaves ==
  ASSUME FunctionalTypes, MapEntry
  PROVE  /\ UNCHANGED <<start, step, pass, functor, lists, folded>>
         /\ Count' = Count /\ Borrows' = Borrows /\ ~Folded /\ ~Folded'
         /\ DOMAIN object' = 1..Len(object') /\ Len(object') \in Nat
         /\ Len(object) \in Nat /\ Len(object) <= Len(object')
         /\ \A o \in DOMAIN object :
              /\ o \in DOMAIN object' /\ object'[o] = object[o] /\ DestroyOf(o)' = DestroyOf(o)
         /\ \A o \in DOMAIN object' : o \notin DOMAIN object =>
              object'[o].by = pass /\ object'[o].blockFreed = 0 /\ object'[o].contentFreed = 0
  <1>0. Len(object) \in Nat /\ DOMAIN object = 1..Len(object)
    BY FunctionalParts
  <1>1. UNCHANGED <<start, step, pass, functor, lists, folded>> /\ step = "map"
    BY DEF MapEntry
  <1>2. Count' = Count /\ Borrows' = Borrows /\ ~Folded /\ ~Folded'
    BY <1>1 DEF Count, Borrows, Folded
  <1>3. PICK m \in Nat : Appends(functor.entries[place + 1], m)
    BY MapsEntry
  <1>4. /\ object' \in Seq(Objects)
        /\ Len(object') = Len(object) + (IF Func.makes THEN m ELSE 0)
        /\ \A o \in 1..Len(object) : object'[o] = object[o]
        /\ Func.makes => \A i \in 1..m :
             object'[Len(object) + i] = Object(object[functor.entries[place + 1]].value + 1, pass)
    BY <1>3 DEF Appends
  <1>5. DOMAIN object' = 1..Len(object') /\ Len(object') \in Nat /\ Len(object) <= Len(object')
    <2>1. DOMAIN object' = 1..Len(object') /\ Len(object') \in Nat
      BY <1>4, LenProperties
    <2>2. Len(object) <= Len(object')
      BY <1>0, <1>4
    <2> QED
      BY <2>1, <2>2
  <1>6. ASSUME NEW o \in DOMAIN object
        PROVE  o \in DOMAIN object' /\ object'[o] = object[o] /\ DestroyOf(o)' = DestroyOf(o)
    <2>1. o \in DOMAIN object' /\ object'[o] = object[o]
      BY <1>0, <1>4, <1>5
    <2> QED
      BY <1>1, <2>1 DEF DestroyOf
  <1>7. ASSUME NEW o \in DOMAIN object', o \notin DOMAIN object
        PROVE  object'[o].by = pass /\ object'[o].blockFreed = 0 /\ object'[o].contentFreed = 0
    <2>1. o > Len(object) /\ o <= Len(object') /\ o \in Nat
      BY <1>0, <1>5, <1>7
    <2>2. Func.makes /\ o <= Len(object) + m
      BY <1>0, <1>4, <2>1
    <2>3. PICK i \in 1..m : o = Len(object) + i
      <3>1. o - Len(object) \in 1..m /\ o = Len(object) + (o - Len(object))
        BY <1>0, <2>1, <2>2
      <3> QED
        BY <3>1
    <2>4. object'[o] = Object(object[functor.entries[place + 1]].value + 1, pass)
      BY <1>4, <2>2, <2>3
    <2> QED
      BY <2>4 DEF Object
  <1> QED
    BY <1>0, <1>1, <1>2, <1>5, <1>6, <1>7

LEMMA EntryTypes ==
  ASSUME FunctionalTypes, MapEntry
  PROVE  FunctionalTypes'
  <1>0. /\ Len(functor.entries) \in Nat /\ DOMAIN functor.entries = 1..Len(functor.entries)
        /\ step = "map" /\ pass \in 1..Count /\ Func \in Functions
        /\ place + 1 \in DOMAIN functor.entries /\ place' = place + 1
    BY FunctionalParts, MapsEntry
  <1>1. /\ UNCHANGED <<start, step, pass, functor, lists, folded>>
        /\ Count' = Count /\ ~Folded /\ ~Folded'
        /\ \A o \in DOMAIN object : o \in DOMAIN object'
    BY EntryLeaves
  <1>2. PICK m \in Nat : Appends(functor.entries[place + 1], m)
    BY MapsEntry
  <1>3. object' \in Seq(Objects) /\ mapped' \in Seq(DOMAIN object')
    BY <1>2 DEF Appends
  <1>4. functor'.entries \in Seq(DOMAIN object')
    <2>1. functor.entries \in Seq(DOMAIN object) /\ DOMAIN object \subseteq DOMAIN object'
      BY <1>1 DEF FunctionalTypes
    <2> QED
      BY <1>1, <2>1, SeqWider
  <1>5. destroyFunc' \in Kinds
    <2>1. destroyFunc \in Kinds
      BY DEF FunctionalTypes
    <2>2. Func.destroy \in Kinds
      BY <1>0, FunctionParts
    <2>3. destroyFunc' = destroyFunc \/ destroyFunc' = Func.destroy
      BY <1>2 DEF Appends
    <2> QED
      BY <2>1, <2>2, <2>3
  <1>6. place' \in 0..Len(functor'.entries)
    BY <1>0, <1>1
  <1>7. /\ start' \in Starts /\ Count' > 0 /\ pass' \in 1..Count' + 1
        /\ step' = IF pass' <= Count' THEN "map"
                   ELSE IF start'.fold = "none" \/ Folded' THEN "done" ELSE "fold"
    BY <1>1 DEF FunctionalTypes
  <1>8. /\ functor'.destroy \in Kinds /\ step' = "map"
        /\ pass' = 1 \/ Folded' => functor'.destroy = "none"
        /\ pass' > 1 /\ ~Folded' => functor'.count = 0
        /\ lists' = IF pass' = 1 \/ Folded' THEN 0 ELSE 1
    BY <1>0, <1>1 DEF FunctionalTypes
  <1> QED
    BY <1>3, <1>4, <1>5, <1>6, <1>7, <1>8 DEF FunctionalTypes

LEMMA EntryOwns ==
  ASSUME FunctionalTypes, FunctorOwns, MappedOwns, MadeBefore, MapEntry
  PROVE  FunctorOwns' /\ MappedOwns' /\ MadeBefore'
  <1>0. /\ step = "map" /\ pass \in 1..Count /\ Func \in Functions /\ Count \in Nat
        /\ Len(mapped) \in Nat /\ DOMAIN mapped = 1..Len(mapped)
        /\ DOMAIN object = 1..Len(object)
        /\ \A i \in DOMAIN mapped : mapped[i] \in DOMAIN object
        /\ \A i \in DOMAIN functor.entries : functor.entries[i] \in DOMAIN object
    BY FunctionalParts, MapsEntry
  <1>1. /\ UNCHANGED <<start, pass, functor>> /\ Count' = Count /\ ~Folded /\ ~Folded'
        /\ DOMAIN object' = 1..Len(object') /\ Len(object') \in Nat
        /\ Len(object) \in Nat /\ Len(object) <= Len(object')
        /\ \A o \in DOMAIN object : o \in DOMAIN object' /\ object'[o] = object[o]
        /\ \A o \in DOMAIN object' : o \notin DOMAIN object => object'[o].by = pass
    BY EntryLeaves
  <1>2. MadeBefore'
    <2> SUFFICES ASSUME NEW o \in DOMAIN object'
                 PROVE  object'[o].by <= pass /\ object'[o].by <= Count
      BY <1>1 DEF MadeBefore
    <2>1. CASE o \in DOMAIN object
      BY <1>1, <2>1 DEF MadeBefore
    <2>2. CASE o \notin DOMAIN object
      BY <1>0, <1>1, <2>2
    <2> QED
      BY <2>1, <2>2
  <1>3. FunctorOwns'
    <2> SUFFICES ASSUME pass > 1 PROVE Owned(functor.entries, functor.destroy, pass - 1)'
      BY <1>1 DEF FunctorOwns
    <2>1. Owned(functor.entries, functor.destroy, pass - 1)
      BY <1>1 DEF FunctorOwns
    <2>2. \A o \in DOMAIN object' :
            \/ o \in DOMAIN object /\ object'[o].by = object[o].by
            \/ object'[o].by # pass - 1
      BY <1>0, <1>1
    <2>3. CASE start.funcs[pass - 1].makes
      <3>1. \A i \in DOMAIN functor.entries : object'[functor.entries[i]].by = pass - 1
        BY <1>0, <1>1, <2>1, <2>3 DEF Owned
      <3>2. \A o \in DOMAIN object' : object'[o].by = pass - 1 =>
              \E i \in DOMAIN functor.entries : functor.entries[i] = o
        BY <2>1, <2>2, <2>3 DEF Owned
      <3> QED
        BY <1>1, <2>1, <2>3, <3>1, <3>2 DEF Owned
    <2>4. CASE ~start.funcs[pass - 1].makes
      BY <1>1, <2>1, <2>2, <2>4 DEF Owned
    <2> QED
      BY <2>3, <2>4
  <1>4. MappedOwns'
    <2> SUFFICES Owned(mapped, destroyFunc, pass)'
      BY <1>1 DEF MappedOwns
    <2>1. Owned(mapped, destroyFunc, pass)
      BY <1>0 DEF MappedOwns
    <2>2. PICK m \in Nat : Appends(functor.entries[place + 1], m)
      BY MapsEntry
    <2>3. /\ Len(object') = Len(object) + (IF Func.makes THEN m ELSE 0)
          /\ mapped' \in Seq(DOMAIN object') /\ Len(mapped') = Len(mapped) + m
          /\ \A i \in 1..Len(mapped) : mapped'[i] = mapped[i]
          /\ Func.makes => \A i \in 1..m : mapped'[Len(mapped) + i] = Len(object) + i
          /\ destroyFunc' = IF m = 0 /\ ~Func.list THEN destroyFunc ELSE Func.destroy
      BY <2>2 DEF Appends
    <2>4. DOMAIN mapped' = 1..Len(mapped')
      BY <2>3, LenProperties
    <2>5. CASE Func.makes
      <3>0. start.funcs[pass].makes
        BY <2>5 DEF Func
      <3>1. /\ \A i, j \in 1..Len(mapped) : mapped[i] = mapped[j] => i = j
            /\ \A i \in 1..Len(mapped) : object[mapped[i]].by = pass
            /\ \A o \in DOMAIN object : object[o].by = pass =>
                 \E i \in 1..Len(mapped) : mapped[i] = o
            /\ mapped # <<>> => destroyFunc = Func.destroy
            /\ destroyFunc \in {"none", Func.destroy}
        BY <1>0, <2>1, <3>0 DEF Owned, Func
      <3>2. \A i \in 1..Len(mapped') :
              \/ i \in 1..Len(mapped) /\ mapped'[i] = mapped[i] /\ mapped'[i] \in 1..Len(object)
              \/ i > Len(mapped) /\ mapped'[i] = Len(object) + (i - Len(mapped))
        <4> SUFFICES ASSUME NEW i \in 1..Len(mapped'), i > Len(mapped)
                     PROVE  mapped'[i] = Len(object) + (i - Len(mapped))
          <5>1. \A i \in 1..Len(mapped) : mapped'[i] = mapped[i] /\ mapped[i] \in 1..Len(object)
            BY <1>0, <2>3
          <5>2. \A i \in 1..Len(mapped') : i \in 1..Len(mapped) \/ i > Len(mapped)
            BY <1>0
          <5> QED
            BY <5>1, <5>2
        <4>1. i - Len(mapped) \in 1..m /\ Len(mapped) + (i - Len(mapped)) = i
          BY <1>0, <2>3
        <4>2. mapped'[Len(mapped) + (i - Len(mapped))] = Len(object) + (i - Len(mapped))
          BY <2>3, <2>5, <4>1
        <4> QED
          BY <4>1, <4>2
      <3>3. \A i, j \in 1..Len(mapped') : mapped'[i] = mapped'[j] => i = j
        BY <1>0, <1>1, <3>1, <3>2
      <3>4. ASSUME NEW i \in 1..Len(mapped')
            PROVE  object'[mapped'[i]].by = pass
        <4>1. CASE i \in 1..Len(mapped) /\ mapped'[i] = mapped[i]
          <5>1. mapped[i] \in DOMAIN object
            BY <1>0, <4>1
          <5> QED
            BY <1>1, <3>1, <4>1, <5>1
        <4>2. CASE i > Len(mapped) /\ mapped'[i] = Len(object) + (i - Len(mapped))
          <5>1. mapped'[i] \in DOMAIN object'
            BY <2>3, <2>4, ElementOfSeq
          <5>2. mapped'[i] \notin DOMAIN object
            BY <1>0, <1>1, <4>2
          <5> QED
            BY <1>1, <5>1, <5>2
        <4> QED
          BY <3>2, <4>1, <4>2
      <3>5. ASSUME NEW o \in DOMAIN object', object'[o].by = pass
            PROVE  \E i \in 1..Len(mapped') : mapped'[i] = o
        <4>1. CASE o \in DOMAIN object
          <5>1. PICK i \in 1..Len(mapped) : mapped[i] = o
            BY <1>1, <3>1, <3>5, <4>1
          <5>2. i \in 1..Len(mapped') /\ mapped'[i] = o
            BY <1>0, <2>3, <5>1
          <5> QED
            BY <5>2
        <4>2. CASE o \notin DOMAIN object
          <5>1. o \in Nat /\ o > Len(object) /\ o <= Len(object) + m
            BY <1>0, <1>1, <2>3, <2>5, <4>2
          <5>2. PICK i \in 1..m : Len(object) + i = o
            <6>1. o - Len(object) \in 1..m /\ Len(object) + (o - Len(object)) = o
              BY <1>1, <5>1
            <6> QED
              BY <6>1
          <5>3. Len(mapped) + i \in 1..Len(mapped') /\ mapped'[Len(mapped) + i] = o
            BY <1>0, <2>3, <2>5, <5>2
          <5> QED
            BY <5>3
        <4> QED
          BY <4>1, <4>2
      <3>6. mapped' # <<>> => destroyFunc' = Func.destroy
        <4>1. CASE m = 0 /\ ~Func.list
          <5>1. Len(mapped') = Len(mapped) /\ destroyFunc' = destroyFunc
            BY <1>0, <2>3, <4>1
          <5>2. mapped = <<>> => Len(mapped) = 0
            OBVIOUS
          <5>3. Len(mapped') = 0 => mapped' = <<>>
            BY <2>3, EmptySeq
          <5> QED
            BY <3>1, <5>1, <5>2, <5>3
        <4>2. CASE ~(m = 0 /\ ~Func.list)
          BY <2>3, <4>2
        <4> QED
          BY <4>1, <4>2
      <3>7. destroyFunc' \in {"none", Func.destroy}
        BY <2>3, <3>1
      <3>8. Func' = Func /\ start'.funcs[pass].makes
        BY <1>1, <3>0 DEF Func
      <3> QED
        BY <1>1, <2>4, <3>3, <3>4, <3>5, <3>6, <3>7, <3>8 DEF Owned, Func
    <2>6. CASE ~Func.makes
      <3>1. destroyFunc = "none" /\ \A o \in DOMAIN object : object[o].by # pass
        BY <2>1, <2>6 DEF Owned, Func
      <3>2. Func.destroy = "none"
        BY <1>0, <2>6, FunctionParts
      <3>3. destroyFunc' = "none"
        BY <2>3, <3>1, <3>2
      <3>4. DOMAIN object' = DOMAIN object
        BY <1>0, <1>1, <2>3, <2>6
      <3>5. \A o \in DOMAIN object' : object'[o].by # pass
        BY <1>1, <3>1, <3>4
      <3>6. ~start'.funcs[pass].makes
        BY <1>1, <2>6 DEF Func
      <3> QED
        BY <1>1, <3>3, <3>5, <3>6 DEF Owned
    <2> QED
      BY <2>5, <2>6
  <1> QED
    BY <1>2, <1>3, <1>4

LEMMA EntryFreed ==
  ASSUME FunctionalTypes, Freed, MapEntry
  PROVE  Freed'
  <1>0. pass \in 1..Count /\ Count \in Nat
    BY FunctionalParts, MapsEntry
  <1>1. /\ UNCHANGED pass /\ ~Folded /\ ~Folded'
        /\ \A o \in DOMAIN object : object'[o] = object[o] /\ DestroyOf(o)' = DestroyOf(o)
        /\ \A o \in DOMAIN object' : o \notin DOMAIN object =>
             object'[o].by = pass /\ object'[o].blockFreed = 0 /\ object'[o].contentFreed = 0
    BY EntryLeaves
  <1> SUFFICES ASSUME NEW o \in DOMAIN object'
               PROVE  /\ object'[o].blockFreed =
                           IF DestroyOf(o)' # "none" /\ object'[o].by < pass - 1 THEN 1 ELSE 0
                      /\ object'[o].contentFreed =
                           IF DestroyOf(o)' = "whole" /\ object'[o].by < pass - 1 THEN 1 ELSE 0
    BY <1>1 DEF Freed
  <1>2. CASE o \in DOMAIN object
    BY <1>1, <1>2 DEF Freed
  <1>3. CASE o \notin DOMAIN object
    <2>1. ~(pass < pass - 1)
      BY <1>0
    <2> QED
      BY <1>1, <1>3, <2>1
  <1> QED
    BY <1>2, <1>3

LEMMA EntryAlive ==
  ASSUME FunctionalTypes, Alive, MapEntry
  PROVE  Alive'
  <1>0. /\ pass \in 1..Count /\ Func \in Functions /\ Count \in Nat
        /\ place + 1 \in DOMAIN functor.entries
        /\ Len(mapped) \in Nat /\ DOMAIN mapped = 1..Len(mapped)
        /\ DOMAIN object = 1..Len(object)
        /\ \A o \in 1..Len(object) : object[o] \in Objects
        /\ \A i \in DOMAIN mapped : mapped[i] \in DOMAIN object
        /\ \A i \in DOMAIN functor.entries : functor.entries[i] \in DOMAIN object
    BY FunctionalParts, MapsEntry
  <1>1. /\ UNCHANGED <<start, pass, functor>> /\ Borrows' = Borrows
        /\ DOMAIN object' = 1..Len(object') /\ Len(object') \in Nat
        /\ Len(object) \in Nat /\ Len(object) <= Len(object')
        /\ \A o \in DOMAIN object : object'[o] = object[o] /\ DestroyOf(o)' = DestroyOf(o)
        /\ \A o \in DOMAIN object' : o \notin DOMAIN object => object'[o].by = pass
    BY EntryLeaves
  <1> SUFFICES ASSUME ~Borrows
               PROVE  /\ \A i \in DOMAIN functor.entries : Stays(functor.entries[i], pass - 1)'
                      /\ \A i \in DOMAIN mapped' : Stays(mapped[i], pass)'
    BY <1>1 DEF Alive
  <1>2. \A o \in DOMAIN object, b \in Nat : Stays(o, b) => Stays(o, b)'
    BY <1>1 DEF Stays
  <1>3. ASSUME NEW i \in DOMAIN functor.entries
        PROVE  Stays(functor.entries[i], pass - 1)'
    <2>1. Stays(functor.entries[i], pass - 1) /\ functor.entries[i] \in DOMAIN object
      BY <1>0 DEF Alive
    <2> QED
      BY <1>1, <2>1 DEF Stays
  <1>4. ASSUME NEW i \in DOMAIN mapped'
        PROVE  Stays(mapped[i], pass)'
    <2>1. PICK m \in Nat : Appends(functor.entries[place + 1], m)
      BY MapsEntry
    <2>2. PICK o \in DOMAIN object : o = functor.entries[place + 1]
      BY <1>0
    <2>3. /\ mapped' \in Seq(DOMAIN object') /\ Len(mapped') = Len(mapped) + m
          /\ \A j \in 1..Len(mapped) : mapped'[j] = mapped[j]
          /\ \A j \in 1..m : mapped'[Len(mapped) + j] = IF Func.makes
                 THEN Len(object) + j ELSE o
      BY <2>1, <2>2 DEF Appends
    <2>4. i \in 1..Len(mapped') /\ mapped'[i] \in DOMAIN object'
      BY <2>3, LenProperties, ElementOfSeq
    <2>5. CASE i \in 1..Len(mapped)
      <3>1. Stays(mapped[i], pass) /\ mapped[i] \in DOMAIN object /\ mapped'[i] = mapped[i]
        BY <1>0, <2>3, <2>5 DEF Alive
      <3> QED
        BY <1>1, <3>1 DEF Stays
    <2>6. CASE i \notin 1..Len(mapped)
      <3>1. PICK j \in 1..m : i = Len(mapped) + j
        <4>1. i - Len(mapped) \in 1..m /\ i = Len(mapped) + (i - Len(mapped))
          BY <1>0, <2>3, <2>4, <2>6
        <4> QED
          BY <4>1
      <3>2. mapped'[i] = IF Func.makes THEN Len(object) + j ELSE o
        BY <2>3, <3>1
      <3>3. CASE Func.makes
        <4>1. mapped'[i] \notin DOMAIN object
          BY <1>0, <1>1, <3>2, <3>3
        <4>2. object'[mapped'[i]].by = pass
          BY <1>1, <2>4, <4>1
        <4> QED
          BY <1>0, <1>1, <4>2 DEF Stays
      <3>4. CASE ~Func.makes
        <4>1. mapped'[i] = o
          BY <3>2, <3>4
        <4>2. Stays(o, pass - 1) /\ object[o].by \in Nat
          BY <1>0, <2>2 DEF Alive, Objects
        <4>3. Stays(o, pass)
          <5>1. CASE object[o].by = 0
            BY <5>1 DEF Stays, DestroyOf
          <5>2. CASE object[o].by >= pass \/ DestroyOf(o) = "none"
            BY <5>2 DEF Stays
          <5>3. CASE object[o].by = pass - 1 /\ object[o].by # 0
            <6>1. pass \in 2..Len(start.funcs)
              BY <1>0, <4>2, <5>3 DEF Count
            <6>2. start.funcs[pass - 1].destroy = "none"
              BY <3>4, <6>1 DEF Borrows, Func
            <6> QED
              BY <5>3, <6>2 DEF Stays, DestroyOf
          <5> QED
            BY <1>0, <4>2, <5>1, <5>2, <5>3 DEF Stays
        <4> QED
          BY <1>1, <4>1, <4>3 DEF Stays
      <3> QED
        BY <3>3, <3>4
    <2> QED
      BY <2>5, <2>6
  <1> QED
    BY <1>3, <1>4

LEMMA EntryMeans ==
  ASSUME FunctionalTypes, Means, MapEntry
  PROVE  Means'
  <1>0. /\ pass \in 1..Count /\ Func \in Functions /\ Count \in Nat
        /\ place + 1 \in DOMAIN functor.entries /\ place' = place + 1
        /\ Len(mapped) \in Nat /\ Len(object) \in Nat
        /\ Len(functor.entries) \in Nat /\ DOMAIN functor.entries = 1..Len(functor.entries)
        /\ DOMAIN object = 1..Len(object)
        /\ \A i \in DOMAIN functor.entries : functor.entries[i] \in DOMAIN object
    BY FunctionalParts, MapsEntry
  <1>1. /\ UNCHANGED <<start, pass, functor>> /\ Count' = Count /\ ~Folded /\ ~Folded'
        /\ \A o \in DOMAIN object : object'[o] = object[o]
    BY EntryLeaves
  <1>2. /\ object \in Seq(Objects) /\ functor.entries \in Seq(DOMAIN object)
        /\ mapped \in Seq(DOMAIN object) /\ place \in 0..Len(functor.entries)
    BY DEF FunctionalTypes
  <1>3. PICK values \in Seq(Nat) :
          /\ values = ValuesIn(object, functor.entries) /\ Len(values) = Len(functor.entries)
          /\ \A i \in 1..Len(functor.entries) : values[i] = object[functor.entries[i]].value
    BY <1>2, ValuesTypes
  <1>4. ValuesIn(object', functor.entries) = values
    BY <1>1, <1>2, <1>3, ValuesStay
  <1>5. PICK o \in DOMAIN object : o = functor.entries[place + 1]
    BY <1>0
  <1>6. PICK v \in Nat : v = object[o].value /\ v = values[place + 1]
    <2>1. place + 1 \in 1..Len(values) /\ values[place + 1] = object[o].value
      BY <1>0, <1>3, <1>5
    <2>2. values[place + 1] \in Nat
      BY <2>1, ElementOfSeq
    <2> QED
      BY <2>1, <2>2
  <1>7. PICK m \in Nat : Appends(o, m) /\ m = Len(Block(Func, v))
    BY <1>5, <1>6, MapsEntry
  <1>8. PICK block \in [1..m -> Nat] :
          /\ block = Block(Func, v)
          /\ \A i \in 1..m : block[i] = IF Func.makes THEN v + 1 ELSE v
    <2>1. Block(Func, v) \in Seq(Nat)
      BY <1>0, BlockTypes
    <2>2. Block(Func, v) \in [1..m -> Nat]
      BY <1>7, <2>1, LenProperties
    <2>3. m # 0 => v \notin Func.drops
      BY <1>7 DEF Block
    <2>4. ASSUME NEW i \in 1..m PROVE Block(Func, v)[i] = IF Func.makes THEN v + 1 ELSE v
      <3>1. PICK w : w = IF Func.makes THEN v + 1 ELSE v
        OBVIOUS
      <3>2. Block(Func, v) = [c \in 1..Func.copies |-> w]
        BY <2>3, <3>1 DEF Block
      <3>3. i \in 1..Func.copies
        BY <2>2, <3>2
      <3> QED
        BY <3>1, <3>2, <3>3
    <2> QED
      BY <2>2, <2>4
  <1>9. PICK before \in Seq(Nat) : before = ValuesIn(object, mapped)
            /\ Len(before) = Len(mapped)
          /\ \A i \in 1..Len(mapped) : before[i] = object[mapped[i]].value
    BY <1>2, ValuesTypes
  <1>10. ValuesIn(object', mapped') = before \o block
    <2>1. /\ object' \in Seq(Objects) /\ Len(object') = Len(object) + (IF Func.makes
                 THEN m ELSE 0)
          /\ Func.makes => \A i \in 1..m : object'[Len(object) + i] = Object(v + 1, pass)
          /\ mapped' \in Seq(DOMAIN object') /\ Len(mapped') = Len(mapped) + m
          /\ \A i \in 1..Len(mapped) : mapped'[i] = mapped[i]
          /\ \A i \in 1..m : mapped'[Len(mapped) + i] = IF Func.makes
                 THEN Len(object) + i ELSE o
      BY <1>6, <1>7 DEF Appends
    <2>2. PICK after \in Seq(Nat) :
            /\ after = ValuesIn(object', mapped') /\ Len(after) = Len(mapped) + m
            /\ \A i \in 1..Len(mapped) + m : after[i] = object'[mapped'[i]].value
      BY <2>1, ValuesTypes
    <2>3. /\ before \o block \in Seq(Nat) /\ Len(before \o block) = Len(mapped) + m
          /\ \A i \in 1..Len(mapped) : (before \o block)[i] = before[i]
          /\ \A i \in 1..m : (before \o block)[Len(mapped) + i] = block[i]
      <3>1. /\ before \o block \in Seq(Nat) /\ Len(before \o block) = Len(before) + m
            /\ \A i \in 1..Len(before) : (before \o block)[i] = before[i]
            /\ \A i \in 1..m : (before \o block)[Len(before) + i] = block[i]
        BY Joined
      <3> QED
        BY <1>9, <3>1
    <2>4. ASSUME NEW i \in 1..Len(mapped) + m
          PROVE  after[i] = (before \o block)[i]
      <3>1. CASE i <= Len(mapped)
        <4>1. i \in 1..Len(mapped) /\ mapped'[i] = mapped[i]
          <5>1. Len(mapped) \in Nat /\ i \in 1..Len(mapped)
            BY <1>0, <3>1
          <5> QED
            BY <2>1, <5>1
        <4>2. mapped[i] \in DOMAIN object
          BY <1>2, <4>1, ElementOfSeq
        <4>3. after[i] = object[mapped[i]].value
          BY <1>1, <2>2, <4>1, <4>2
        <4> QED
          BY <1>9, <2>3, <4>1, <4>3
      <3>2. CASE ~(i <= Len(mapped))
        <4>1. PICK j \in 1..m : i = Len(mapped) + j
          <5>1. i - Len(mapped) \in 1..m /\ i = Len(mapped) + (i - Len(mapped))
            BY <1>0, <3>2
          <5> QED
            BY <5>1
        <4>2. after[i] = object'[IF Func.makes THEN Len(object) + j ELSE o].value
          BY <2>1, <2>2, <4>1
        <4>3. after[i] = IF Func.makes THEN v + 1 ELSE v
          <5>1. CASE Func.makes
            <6>1. object'[Len(object) + j] = Object(v + 1, pass)
              BY <2>1, <4>1, <5>1
            <6>2. after[i] = object'[Len(object) + j].value
              BY <4>2, <5>1
            <6> QED
              BY <5>1, <6>1, <6>2 DEF Object
          <5>2. CASE ~Func.makes
            BY <1>1, <1>6, <4>2, <5>2
          <5> QED
            BY <5>1, <5>2
        <4>4. (before \o block)[i] = block[j]
          BY <2>3, <4>1
        <4> QED
          BY <1>8, <4>3, <4>4
      <3> QED
        BY <3>1, <3>2
    <2>5. after = before \o block
      BY <1>0, <2>2, <2>3, <2>4, SeqEqual
    <2> QED
      BY <2>2, <2>5
  <1>11. before = MeantBy(Func, [i \in 1..place |-> values[i]])
    BY <1>0, <1>3, <1>9 DEF Means, Func
  <1>12. MeantBy(Func, [i \in 1..place + 1 |-> values[i]])
           = MeantBy(Func, [i \in 1..place |-> values[i]]) \o Block(Func, values[place + 1])
    <2>1. place \in Nat /\ place < Len(values)
      BY <1>0, <1>2, <1>3
    <2> QED
      BY <1>0, <2>1, MeantByStep
  <1>13. ValuesIn(object', mapped') = MeantBy(Func, [i \in 1..place + 1 |-> values[i]])
    BY <1>6, <1>8, <1>10, <1>11, <1>12
  <1>14. values = After(start.values, start.funcs)[pass - 1]
    BY <1>1, <1>3 DEF Means
  <1> QED
    BY <1>0, <1>1, <1>4, <1>13, <1>14 DEF Means, Func

LEMMA EntryKeeps ==
  ASSUME FunctionalInv, MapEntry
  PROVE  FunctionalInv'
  <1>1. FunctionalTypes' /\ FunctorOwns' /\ MappedOwns' /\ MadeBefore'
    BY EntryTypes, EntryOwns DEF FunctionalInv
  <1>2. Freed' /\ Alive' /\ Means'
    BY EntryFreed, EntryAlive, EntryMeans DEF FunctionalInv
  <1>3. FoldedIs' /\ NotFolded'
    <2>1. UNCHANGED folded /\ ~Folded /\ ~Folded'
      BY EntryLeaves DEF FunctionalInv
    <2> QED
      BY <2>1 DEF FunctionalInv, FoldedIs, NotFolded
  <1> QED
    BY <1>1, <1>2, <1>3 DEF FunctionalInv

-----------------------------------------------------------------------------
(* The end of a map.                                                       *)

LEMMA TimesIs ==
  ASSUME NEW entries, NEW o,
         \A i, j \in DOMAIN entries : entries[i] = entries[j] => i = j
  PROVE  Times(entries, o) = IF \E i \in DOMAIN entries : entries[i] = o THEN 1 ELSE 0
  <1>1. CASE \E i \in DOMAIN entries : entries[i] = o
    <2>1. PICK i \in DOMAIN entries : entries[i] = o
      BY <1>1
    <2>2. {j \in DOMAIN entries : entries[j] = o} = {i}
      BY <2>1
    <2> QED
      BY <1>1, <2>2, FS_Singleton DEF Times
  <1>2. CASE ~ \E i \in DOMAIN entries : entries[i] = o
    <2>1. {j \in DOMAIN entries : entries[j] = o} = {}
      BY <1>2
    <2> QED
      BY <1>2, <2>1, FS_EmptySet DEF Times
  <1> QED
    BY <1>1, <1>2

(* A list that destroys has the objects of its function, each once.        *)
Destroys(o, b) ==
  \/ /\ functor.destroy # "none"
     /\ Times(functor.entries, o) = IF object[o].by = b THEN 1 ELSE 0
     /\ object[o].by = b => DestroyOf(o) = functor.destroy
  \/ functor.destroy = "none" /\ (object[o].by = b => DestroyOf(o) = "none")

LEMMA DestroysOnce ==
  ASSUME FunctionalTypes, FunctorOwns, pass > 1, ~Folded, NEW o \in DOMAIN object
  PROVE  Destroys(o, pass - 1)
  <1>1. Owned(functor.entries, functor.destroy, pass - 1)
    BY DEF FunctorOwns
  <1>2. pass - 1 # 0
    BY DEF FunctionalTypes
  <1>3. object[o].by = pass - 1 => DestroyOf(o) = start.funcs[pass - 1].destroy
    BY <1>2 DEF DestroyOf
  <1>4. CASE start.funcs[pass - 1].makes
    <2>1. /\ \A i, j \in DOMAIN functor.entries : functor.entries[i] = functor.entries[j] => i = j
          /\ \A i \in DOMAIN functor.entries : object[functor.entries[i]].by = pass - 1
          /\ object[o].by = pass - 1 => \E i \in DOMAIN functor.entries : functor.entries[i] = o
          /\ functor.entries # <<>> => functor.destroy = start.funcs[pass - 1].destroy
          /\ functor.destroy \in {"none", start.funcs[pass - 1].destroy}
      BY <1>1, <1>4 DEF Owned
    <2>2. CASE functor.destroy # "none"
      <3>1. Times(functor.entries, o)
              = IF \E i \in DOMAIN functor.entries : functor.entries[i] = o THEN 1 ELSE 0
        BY <2>1, TimesIs
      <3>2. Times(functor.entries, o) = IF object[o].by = pass - 1 THEN 1 ELSE 0
        BY <2>1, <3>1
      <3> QED
        BY <1>3, <2>1, <2>2, <3>2 DEF Destroys
    <2>3. CASE functor.destroy = "none"
      <3>1. object[o].by = pass - 1 => functor.entries # <<>>
        BY <2>1
      <3> QED
        BY <1>3, <2>1, <2>3, <3>1 DEF Destroys
    <2> QED
      BY <2>2, <2>3
  <1>5. CASE ~start.funcs[pass - 1].makes
    BY <1>1, <1>5 DEF Owned, Destroys
  <1> QED
    BY <1>4, <1>5

(* What the end of map b frees.                                            *)
Frees(o, b) ==
  /\ object'[o].blockFreed =
       object[o].blockFreed + IF object[o].by = b /\ DestroyOf(o) # "none" THEN 1 ELSE 0
  /\ object'[o].contentFreed =
       object[o].contentFreed + IF object[o].by = b /\ DestroyOf(o) = "whole" THEN 1 ELSE 0

LEMMA DoneLeaves ==
  ASSUME FunctionalTypes, FunctorOwns, MapDone
  PROVE  /\ step = "map" /\ pass \in 1..Count /\ place = Len(functor.entries)
         /\ UNCHANGED <<start, folded>> /\ Count' = Count /\ Borrows' = Borrows
         /\ ~Folded /\ ~Folded' /\ pass' = pass + 1 /\ mapped' = <<>> /\ place' = 0
         /\ functor'.entries = mapped /\ functor'.destroy = destroyFunc /\ functor'.count = 0
         /\ destroyFunc' = "none" /\ lists' = 1
         /\ step' = IF pass + 1 <= Count THEN "map"
                    ELSE IF start.fold # "none" THEN "fold" ELSE "done"
         /\ object' \in Seq(Objects) /\ DOMAIN object' = DOMAIN object
         /\ \A o \in DOMAIN object :
              /\ object'[o].value = object[o].value /\ object'[o].by = object[o].by
              /\ DestroyOf(o)' = DestroyOf(o) /\ Frees(o, pass - 1)
  <1>0. /\ Count \in Nat /\ Len(object) \in Nat /\ DOMAIN object = 1..Len(object)
        /\ \A o \in 1..Len(object) : object[o] \in Objects
    BY FunctionalParts
  <1>1. /\ step = "map" /\ place = Len(functor.entries) /\ UNCHANGED <<start, folded>>
        /\ pass' = pass + 1 /\ mapped' = <<>> /\ place' = 0 /\ destroyFunc' = "none"
        /\ functor' = [entries |-> mapped, count |-> 0, destroy |-> destroyFunc]
    BY DEF MapDone
  <1>2. pass \in 1..Count
    <2>1. /\ pass \in 1..Count + 1
          /\ step = IF pass <= Count THEN "map"
                    ELSE IF start.fold = "none" \/ Folded THEN "done" ELSE "fold"
      BY DEF FunctionalTypes
    <2> QED
      BY <1>0, <1>1, <2>1
  <1>3. functor'.entries = mapped /\ functor'.destroy = destroyFunc /\ functor'.count = 0
    BY <1>1
  <1>4. ~Folded /\ Count' = Count /\ Borrows' = Borrows
    BY <1>1 DEF Folded, Count, Borrows
  <1>5. step' = IF pass + 1 <= Count THEN "map"
                ELSE IF start.fold # "none" THEN "fold" ELSE "done"
    <2>1. step' = IF pass # Count THEN "map" ELSE IF start.fold # "none" THEN "fold" ELSE "done"
      BY DEF MapDone, Count
    <2>2. pass # Count <=> pass + 1 <= Count
      BY <1>0, <1>2
    <2> QED
      BY <2>1, <2>2
  <1>6. ~Folded'
    BY <1>1, <1>5 DEF Folded
  <1>7. IsOurs <=> pass > 1
    BY <1>4 DEF IsOurs, FunctionalTypes
  <1>8. lists' = 1
    <2>1. lists' = IF IsOurs THEN lists ELSE lists + 1
      BY DEF MapDone
    <2>2. lists = IF pass = 1 THEN 0 ELSE 1
      BY <1>4 DEF FunctionalTypes
    <2> QED
      BY <1>2, <1>7, <2>1, <2>2
  <1>9. object' \in Seq(Objects) /\ DOMAIN object' = DOMAIN object
        /\ \A o \in DOMAIN object :
             /\ object'[o].value = object[o].value /\ object'[o].by = object[o].by
             /\ Frees(o, pass - 1)
    <2>1. CASE pass > 1
      <3>1. object' = Destroyed(functor.entries, functor.destroy)
        BY <1>7, <2>1 DEF MapDone
      <3>2. DOMAIN object' = DOMAIN object
        BY <3>1 DEF Destroyed
      <3>3. ASSUME NEW o \in DOMAIN object
            PROVE  /\ object'[o] \in Objects
                   /\ object'[o].value = object[o].value /\ object'[o].by = object[o].by
                   /\ Frees(o, pass - 1)
        <4>1. PICK r \in Objects : r = object[o]
          BY <1>0
        <4>2. PICK x : x = Times(functor.entries, o)
          OBVIOUS
        <4>3. PICK y : y = functor.destroy
          OBVIOUS
        <4>4. object'[o] = [r EXCEPT !.blockFreed = IF y = "none" THEN @ ELSE @ + x,
                                     !.contentFreed = IF y = "whole" THEN @ + x ELSE @]
          BY <3>1, <4>1, <4>2, <4>3 DEF Destroyed
        <4>5. object'[o] =
                [value |-> r.value, by |-> r.by,
                 blockFreed |-> IF y = "none" THEN r.blockFreed ELSE r.blockFreed + x,
                 contentFreed |-> IF y = "whole" THEN r.contentFreed + x ELSE r.contentFreed]
          BY <4>4 DEF Objects
        <4>6. Destroys(o, pass - 1)
          BY <1>4, <2>1, DestroysOnce
        <4>7. r.value \in Nat /\ r.by \in Nat /\ r.blockFreed \in Nat /\ r.contentFreed \in Nat
          BY DEF Objects
        <4>8. /\ object'[o].value = r.value /\ object'[o].by = r.by
              /\ object'[o].blockFreed = IF y = "none" THEN r.blockFreed ELSE r.blockFreed + x
              /\ object'[o].contentFreed = IF y = "whole" THEN r.contentFreed + x
                     ELSE r.contentFreed
          BY <4>5
        <4>9. /\ y # "none" => x = IF r.by = pass - 1 THEN 1 ELSE 0
              /\ r.by = pass - 1 => DestroyOf(o) = y
          BY <4>1, <4>2, <4>3, <4>6 DEF Destroys
        <4>10. Frees(o, pass - 1)
          <5>1. CASE r.by = pass - 1
            BY <4>1, <4>7, <4>8, <4>9, <5>1 DEF Frees
          <5>2. CASE r.by # pass - 1
            BY <4>1, <4>7, <4>8, <4>9, <5>2 DEF Frees
          <5> QED
            BY <5>1, <5>2
        <4>11. object'[o] \in Objects
          <5>1. /\ (IF y = "none" THEN r.blockFreed ELSE r.blockFreed + x) \in Nat
                /\ (IF y = "whole" THEN r.contentFreed + x ELSE r.contentFreed) \in Nat
            BY <4>7, <4>9
          <5> QED
            BY <4>5, <4>7, <5>1 DEF Objects
        <4> QED
          BY <4>1, <4>8, <4>10, <4>11
      <3>4. object' \in Seq(Objects)
        <4>1. object' = [o \in 1..Len(object) |-> object'[o]]
          BY <1>0, <3>1 DEF Destroyed
        <4>2. object' \in [1..Len(object) -> Objects]
          BY <1>0, <3>3, <4>1
        <4> QED
          BY <1>0, <4>2
      <3> QED
        BY <3>2, <3>3, <3>4
    <2>2. CASE pass = 1
      <3>1. object' = object /\ object \in Seq(Objects)
        BY <1>7, <2>2 DEF MapDone, FunctionalTypes
      <3>2. ASSUME NEW o \in DOMAIN object PROVE Frees(o, pass - 1)
        <4>1. object[o].by = pass - 1 => DestroyOf(o) = "none"
          BY <2>2 DEF DestroyOf
        <4>2. object[o].blockFreed \in Nat /\ object[o].contentFreed \in Nat
          BY <1>0 DEF Objects
        <4> QED
          BY <3>1, <4>1, <4>2 DEF Frees
      <3> QED
        BY <3>1, <3>2
    <2> QED
      BY <1>2, <2>1, <2>2
  <1>10. \A o \in DOMAIN object : DestroyOf(o)' = DestroyOf(o)
    BY <1>1, <1>9 DEF DestroyOf
  <1> QED
    BY <1>1, <1>2, <1>3, <1>4, <1>5, <1>6, <1>8, <1>9, <1>10

LEMMA DoneTypes ==
  ASSUME FunctionalTypes, FunctorOwns, MapDone
  PROVE  FunctionalTypes'
  <1>0. Count \in Nat
    BY FunctionalParts
  <1>1. /\ pass \in 1..Count
        /\ UNCHANGED <<start, folded>> /\ Count' = Count
        /\ ~Folded' /\ pass' = pass + 1 /\ mapped' = <<>> /\ place' = 0
        /\ functor'.entries = mapped /\ functor'.destroy = destroyFunc /\ functor'.count = 0
        /\ destroyFunc' = "none" /\ lists' = 1
        /\ step' = IF pass + 1 <= Count THEN "map"
                   ELSE IF start.fold # "none" THEN "fold" ELSE "done"
        /\ object' \in Seq(Objects) /\ DOMAIN object' = DOMAIN object
    BY DoneLeaves
  <1>2. /\ start' \in Starts /\ Count' > 0 /\ pass' \in 1..Count' + 1 /\ pass' # 1
    BY <1>0, <1>1 DEF FunctionalTypes
  <1>3. step' = IF pass' <= Count' THEN "map"
                ELSE IF start'.fold = "none" \/ Folded' THEN "done" ELSE "fold"
    BY <1>1
  <1>4. functor'.entries \in Seq(DOMAIN object') /\ functor'.destroy \in Kinds
    BY <1>1 DEF FunctionalTypes
  <1>5. mapped' \in Seq(DOMAIN object') /\ destroyFunc' \in Kinds
    BY <1>1, EmptySeq DEF Kinds
  <1>6. place' \in 0..Len(functor'.entries)
    <2>1. Len(mapped) \in Nat
      BY FunctionalParts
    <2> QED
      BY <1>1, <2>1
  <1> QED
    BY <1>1, <1>2, <1>3, <1>4, <1>5, <1>6 DEF FunctionalTypes

LEMMA DoneOwns ==
  ASSUME FunctionalTypes, FunctorOwns, MappedOwns, MadeBefore, MapDone
  PROVE  FunctorOwns' /\ MappedOwns' /\ MadeBefore'
  <1>0. /\ Count \in Nat /\ Len(object) \in Nat /\ DOMAIN object = 1..Len(object)
        /\ \A o \in 1..Len(object) : object[o] \in Objects
        /\ \A i \in DOMAIN mapped : mapped[i] \in DOMAIN object
    BY FunctionalParts
  <1>1. /\ pass \in 1..Count /\ UNCHANGED start /\ Count' = Count
        /\ pass' = pass + 1 /\ mapped' = <<>>
        /\ functor'.entries = mapped /\ functor'.destroy = destroyFunc
        /\ destroyFunc' = "none" /\ DOMAIN object' = DOMAIN object
        /\ \A o \in DOMAIN object : object'[o].by = object[o].by
    BY DoneLeaves
  <1>2. pass' - 1 = pass
    BY <1>1
  <1>3. \A o \in DOMAIN object : object[o].by \in Nat /\ object[o].by <= pass
    BY <1>0 DEF MadeBefore, Objects
  <1>4. FunctorOwns'
    <2> SUFFICES Owned(functor.entries, functor.destroy, pass - 1)'
      BY DEF FunctorOwns
    <2>1. Owned(mapped, destroyFunc, pass)
      BY <1>1 DEF MappedOwns
    <2>2. CASE start.funcs[pass].makes
      BY <1>0, <1>1, <1>2, <2>1, <2>2 DEF Owned
    <2>3. CASE ~start.funcs[pass].makes
      BY <1>1, <1>2, <2>1, <2>3 DEF Owned
    <2> QED
      BY <2>2, <2>3
  <1>5. MappedOwns'
    <2> SUFFICES Owned(mapped, destroyFunc, pass)'
      BY DEF MappedOwns
    <2>1. \A o \in DOMAIN object' : object'[o].by # pass'
      BY <1>1, <1>3
    <2>2. DOMAIN mapped' = {}
      BY <1>1
    <2>3. CASE start'.funcs[pass'].makes
      BY <1>1, <2>1, <2>2, <2>3 DEF Owned
    <2>4. CASE ~start'.funcs[pass'].makes
      BY <1>1, <2>1, <2>4 DEF Owned
    <2> QED
      BY <2>3, <2>4
  <1>6. MadeBefore'
    BY <1>0, <1>1, <1>3 DEF MadeBefore
  <1> QED
    BY <1>4, <1>5, <1>6

LEMMA DoneFreed ==
  ASSUME FunctionalTypes, FunctorOwns, Freed, MapDone
  PROVE  Freed'
  <1>0. /\ Count \in Nat /\ DOMAIN object = 1..Len(object)
        /\ \A o \in 1..Len(object) : object[o] \in Objects
    BY FunctionalParts
  <1>1. /\ pass \in 1..Count /\ pass' = pass + 1 /\ ~Folded /\ ~Folded'
        /\ DOMAIN object' = DOMAIN object
        /\ \A o \in DOMAIN object :
             /\ object'[o].by = object[o].by /\ DestroyOf(o)' = DestroyOf(o)
             /\ Frees(o, pass - 1)
    BY DoneLeaves
  <1> SUFFICES ASSUME NEW o \in DOMAIN object
               PROVE  /\ object'[o].blockFreed =
                           IF DestroyOf(o) # "none" /\ object[o].by < pass THEN 1 ELSE 0
                      /\ object'[o].contentFreed =
                           IF DestroyOf(o) = "whole" /\ object[o].by < pass THEN 1 ELSE 0
    <2>1. pass' - 1 = pass
      BY <1>1
    <2> QED
      BY <1>1, <2>1 DEF Freed
  <1>2. object[o].by \in Nat
    BY <1>0 DEF Objects
  <1>3. /\ object[o].blockFreed =
             IF DestroyOf(o) # "none" /\ object[o].by < pass - 1 THEN 1 ELSE 0
        /\ object[o].contentFreed =
             IF DestroyOf(o) = "whole" /\ object[o].by < pass - 1 THEN 1 ELSE 0
    BY <1>1 DEF Freed
  <1>4. /\ object'[o].blockFreed =
             object[o].blockFreed + IF object[o].by = pass - 1
                 /\ DestroyOf(o) # "none" THEN 1 ELSE 0
        /\ object'[o].contentFreed =
             object[o].contentFreed + IF object[o].by = pass - 1
                 /\ DestroyOf(o) = "whole" THEN 1 ELSE 0
    BY <1>1 DEF Frees
  <1> QED
    BY <1>1, <1>2, <1>3, <1>4

LEMMA DoneAlive ==
  ASSUME FunctionalTypes, FunctorOwns, Alive, MapDone
  PROVE  Alive'
  <1>0. \A i \in DOMAIN mapped : mapped[i] \in DOMAIN object
    BY FunctionalParts
  <1>1. /\ pass \in 1..Count /\ pass' = pass + 1 /\ Borrows' = Borrows
        /\ mapped' = <<>> /\ functor'.entries = mapped
        /\ \A o \in DOMAIN object :
             object'[o].by = object[o].by /\ DestroyOf(o)' = DestroyOf(o)
    BY DoneLeaves
  <1>2. Count \in Nat /\ pass' - 1 = pass
    BY <1>1, FunctionalParts
  <1> SUFFICES ASSUME ~Borrows, NEW i \in DOMAIN mapped
               PROVE  Stays(functor.entries[i], pass - 1)'
    BY <1>1 DEF Alive
  <1>3. Stays(mapped[i], pass) /\ mapped[i] \in DOMAIN object
    BY <1>0 DEF Alive
  <1> QED
    BY <1>1, <1>2, <1>3 DEF Stays

LEMMA ValuesNone ==
  ASSUME NEW objs
  PROVE  ValuesIn(objs, <<>>) = <<>>
  <1>1. DOMAIN <<>> = 1..0
    OBVIOUS
  <1>2. ValuesIn(objs, <<>>) \in [1..0 -> Nat]
    BY <1>1 DEF ValuesIn
  <1>3. ValuesIn(objs, <<>>) \in Seq(Nat) /\ Len(ValuesIn(objs, <<>>)) = 0
    <2>1. ValuesIn(objs, <<>>) \in Seq(Nat)
      BY <1>2
    <2> QED
      BY <1>2, <2>1, LenProperties
  <1> QED
    BY <1>3, EmptySeq

LEMMA DoneMeans ==
  ASSUME FunctionalTypes, FunctorOwns, Means, MapDone
  PROVE  Means'
  <1>0. Count \in Nat /\ start.funcs \in Seq(Functions) /\ start.values \in Seq(Nat)
    BY FunctionalParts
  <1>1. /\ pass \in 1..Count /\ place = Len(functor.entries) /\ UNCHANGED start
        /\ Count' = Count /\ ~Folded /\ pass' = pass + 1 /\ mapped' = <<>> /\ place' = 0
        /\ functor'.entries = mapped
        /\ \A o \in DOMAIN object : object'[o].value = object[o].value
    BY DoneLeaves
  <1>2. /\ object \in Seq(Objects) /\ functor.entries \in Seq(DOMAIN object)
        /\ mapped \in Seq(DOMAIN object)
    BY DEF FunctionalTypes
  <1>3. PICK values \in Seq(Nat) :
          values = ValuesIn(object, functor.entries) /\ Len(values) = Len(functor.entries)
    BY <1>2, ValuesTypes
  <1>4. values = After(start.values, start.funcs)[pass - 1]
    BY <1>1, <1>3 DEF Means
  <1>5. ValuesIn(object', mapped) = ValuesIn(object, mapped)
    BY <1>1, <1>2, ValuesStay
  <1>6. ValuesIn(object, mapped) = MeantBy(start.funcs[pass], [i \in 1..Len(values) |-> values[i]])
    BY <1>1, <1>3 DEF Means
  <1>7. values = [i \in 1..Len(values) |-> values[i]]
    BY LenProperties
  <1>8. After(start.values, start.funcs)[pass] = MeantBy(start.funcs[pass], values)
    <2>1. PICK p \in 0..Len(start.funcs) - 1 : p + 1 = pass /\ p = pass - 1
      <3>1. pass - 1 \in 0..Len(start.funcs) - 1 /\ (pass - 1) + 1 = pass
        BY <1>0, <1>1 DEF Count
      <3> QED
        BY <3>1
    <2>2. After(start.values, start.funcs)[p + 1]
            = MeantBy(start.funcs[p + 1], After(start.values, start.funcs)[p])
      BY <1>0, AfterIs
    <2> QED
      BY <1>4, <2>1, <2>2
  <1>9. ValuesIn(object', mapped) = After(start.values, start.funcs)[pass]
    BY <1>5, <1>6, <1>7, <1>8
  <1>10. ValuesIn(object', mapped') = <<>>
    BY <1>1, ValuesNone
  <1>11. \A f, s : MeantBy(f, [i \in 1..0 |-> s[i]]) = <<>>
    BY MeantByNone
  <1>12. pass' - 1 = pass
    BY <1>0, <1>1
  <1> QED
    BY <1>1, <1>9, <1>10, <1>11, <1>12 DEF Means

LEMMA DoneKeeps ==
  ASSUME FunctionalInv, MapDone
  PROVE  FunctionalInv'
  <1>1. FunctionalTypes' /\ FunctorOwns' /\ MappedOwns' /\ MadeBefore'
    BY DoneTypes, DoneOwns DEF FunctionalInv
  <1>2. Freed' /\ Alive' /\ Means'
    BY DoneFreed, DoneAlive, DoneMeans DEF FunctionalInv
  <1>3. FoldedIs' /\ NotFolded'
    <2>1. UNCHANGED folded /\ ~Folded /\ ~Folded'
      BY DoneLeaves DEF FunctionalInv
    <2> QED
      BY <2>1 DEF FunctionalInv, FoldedIs, NotFolded
  <1> QED
    BY <1>1, <1>2, <1>3 DEF FunctionalInv

-----------------------------------------------------------------------------
(* The fold.                                                               *)

LEMMA FoldLeaves ==
  ASSUME FunctionalTypes, FunctorOwns, NEW array, NEW count, Fold(array, count)
  PROVE  /\ step = "fold" /\ pass = Count + 1 /\ start.fold # "none" /\ mapped = <<>>
                /\ place = 0
         /\ UNCHANGED <<start, pass, mapped, destroyFunc, place>>
         /\ Count' = Count /\ Borrows' = Borrows /\ ~Folded /\ Folded' /\ step' = "done"
         /\ functor'.entries = <<>> /\ functor'.destroy = "none" /\ functor'.count = count
         /\ lists' = 0 /\ folded' = array
         /\ object' \in Seq(Objects) /\ DOMAIN object' = DOMAIN object
         /\ \A o \in DOMAIN object :
              /\ object'[o].value = object[o].value /\ object'[o].by = object[o].by
              /\ object'[o].contentFreed = object[o].contentFreed
              /\ object'[o].blockFreed = object[o].blockFreed
                   + IF object[o].by = Count /\ DestroyOf(o) # "none" THEN 1 ELSE 0
              /\ DestroyOf(o)' = DestroyOf(o)
  <1>0. /\ Count \in Nat /\ Len(object) \in Nat /\ DOMAIN object = 1..Len(object)
        /\ \A o \in 1..Len(object) : object[o] \in Objects
    BY FunctionalParts
  <1>1. /\ step = "fold" /\ step' = "done" /\ folded' = array
        /\ UNCHANGED <<start, pass, mapped, destroyFunc, place>>
        /\ functor' = [entries |-> <<>>, count |-> count, destroy |-> "none"]
        /\ lists' = lists - 1
        /\ object' = IF functor.destroy # "none" THEN BlocksFreed(functor.entries) ELSE object
    BY DEF Fold
  <1>2. pass = Count + 1 /\ start.fold # "none" /\ mapped = <<>> /\ place = 0
    <2>1. /\ pass \in 1..Count + 1
          /\ step = IF pass <= Count THEN "map"
                    ELSE IF start.fold = "none" \/ Folded THEN "done" ELSE "fold"
          /\ step # "map" => mapped = <<>> /\ place = 0
      BY DEF FunctionalTypes
    <2>2. ~(pass <= Count) /\ start.fold # "none" /\ mapped = <<>> /\ place = 0
      BY <1>1, <2>1
    <2> QED
      BY <1>0, <2>1, <2>2
  <1>3. ~Folded /\ Folded' /\ Count' = Count /\ Borrows' = Borrows
    BY <1>1, <1>2 DEF Folded, Count, Borrows
  <1>4. lists' = 0
    <2>1. Count > 0
      BY DEF FunctionalTypes
    <2>2. lists = 1
      BY <1>0, <1>2, <1>3, <2>1 DEF FunctionalTypes
    <2> QED
      BY <1>1, <2>2
  <1>5. ASSUME NEW o \in DOMAIN object
        PROVE  /\ object'[o] \in Objects
               /\ object'[o].value = object[o].value /\ object'[o].by = object[o].by
               /\ object'[o].contentFreed = object[o].contentFreed
               /\ object'[o].blockFreed = object[o].blockFreed
                    + IF object[o].by = Count /\ DestroyOf(o) # "none" THEN 1 ELSE 0
    <2>1. PICK r \in Objects : r = object[o]
      BY <1>0
    <2>2. r.value \in Nat /\ r.by \in Nat /\ r.blockFreed \in Nat /\ r.contentFreed \in Nat
      BY DEF Objects
    <2>3. pass > 1 /\ pass - 1 = Count
      BY <1>0, <1>2 DEF FunctionalTypes
    <2>4. Destroys(o, Count)
      BY <1>3, <2>3, DestroysOnce
    <2>5. CASE functor.destroy # "none"
      <3>1. PICK x : x = Times(functor.entries, o)
        OBVIOUS
      <3>2. object'[o] = [r EXCEPT !.blockFreed = @ + x]
        BY <1>1, <2>1, <2>5, <3>1 DEF BlocksFreed
      <3>3. /\ x = IF r.by = Count THEN 1 ELSE 0
            /\ r.by = Count => DestroyOf(o) # "none"
        BY <2>1, <2>4, <2>5, <3>1 DEF Destroys
      <3>4. r.blockFreed + x \in Nat
        BY <2>2, <3>3
      <3>5. /\ object'[o] \in Objects
            /\ object'[o].value = r.value /\ object'[o].by = r.by
            /\ object'[o].contentFreed = r.contentFreed
                   /\ object'[o].blockFreed = r.blockFreed + x
        BY <3>2, <3>4 DEF Objects
      <3> QED
        BY <2>1, <2>2, <3>3, <3>5
    <2>6. CASE functor.destroy = "none"
      <3>1. object'[o] = r
        BY <1>1, <2>1, <2>6
      <3>2. r.by = Count => DestroyOf(o) = "none"
        BY <2>1, <2>4, <2>6 DEF Destroys
      <3> QED
        BY <2>1, <2>2, <3>1, <3>2
    <2> QED
      BY <2>5, <2>6
  <1>6. object' \in Seq(Objects) /\ DOMAIN object' = DOMAIN object
    <2>1. CASE functor.destroy # "none"
      <3>1. object' = [o \in 1..Len(object) |-> object'[o]]
        BY <1>0, <1>1, <2>1 DEF BlocksFreed
      <3>2. object' \in [1..Len(object) -> Objects]
        BY <1>0, <1>5, <3>1
      <3> QED
        BY <1>0, <3>2
    <2>2. CASE functor.destroy = "none"
      BY <1>1, <2>2 DEF FunctionalTypes
    <2> QED
      BY <2>1, <2>2
  <1>7. \A o \in DOMAIN object : DestroyOf(o)' = DestroyOf(o)
    BY <1>1, <1>5 DEF DestroyOf
  <1>8. functor'.entries = <<>> /\ functor'.destroy = "none" /\ functor'.count = count
    BY <1>1
  <1> QED
    BY <1>1, <1>2, <1>3, <1>4, <1>5, <1>6, <1>7, <1>8

LEMMA FoldKeeps ==
  ASSUME FunctionalInv, NEW array, NEW count, Fold(array, count)
  PROVE  /\ FunctionalTypes' /\ FunctorOwns' /\ MappedOwns' /\ MadeBefore' /\ Freed' /\ Alive'
         /\ Means' /\ NotFolded'
  <1>0. /\ Count \in Nat /\ Count > 0 /\ DOMAIN object = 1..Len(object)
        /\ \A o \in 1..Len(object) : object[o] \in Objects
    BY FunctionalParts DEF FunctionalInv, FunctionalTypes
  <1>1. /\ pass = Count + 1 /\ start.fold # "none" /\ mapped = <<>> /\ place = 0
        /\ UNCHANGED <<start, pass, mapped, destroyFunc, place>>
        /\ Count' = Count /\ Borrows' = Borrows /\ ~Folded /\ Folded' /\ step' = "done"
        /\ functor'.entries = <<>> /\ functor'.destroy = "none"
        /\ lists' = 0 /\ object' \in Seq(Objects) /\ DOMAIN object' = DOMAIN object
    BY FoldLeaves DEF FunctionalInv
  <1>2. \A o \in DOMAIN object :
          /\ object'[o].by = object[o].by
          /\ object'[o].contentFreed = object[o].contentFreed
          /\ object'[o].blockFreed = object[o].blockFreed
               + IF object[o].by = Count /\ DestroyOf(o) # "none" THEN 1 ELSE 0
          /\ DestroyOf(o)' = DestroyOf(o)
    BY FoldLeaves DEF FunctionalInv
  <1>3. FunctionalTypes'
    <2>1. <<>> \in Seq(DOMAIN object') /\ Len(<<>>) = 0
      BY EmptySeq
    <2>2. start' \in Starts /\ Count' > 0 /\ pass' \in 1..Count' + 1 /\ destroyFunc' \in Kinds
      BY <1>1 DEF FunctionalInv, FunctionalTypes
    <2>3. ~(pass' <= Count') /\ pass' # 1
      BY <1>0, <1>1
    <2>4. mapped' = <<>> /\ place' = 0 /\ functor'.entries = <<>> /\ "none" \in Kinds
      BY <1>1 DEF Kinds
    <2>5. step' = IF pass' <= Count' THEN "map"
                  ELSE IF start'.fold = "none" \/ Folded' THEN "done" ELSE "fold"
      BY <1>1, <2>3
    <2>6. place' \in 0..Len(functor'.entries)
      BY <2>1, <2>4
    <2>7. /\ functor'.entries \in Seq(DOMAIN object') /\ mapped' \in Seq(DOMAIN object')
          /\ functor'.destroy \in Kinds
      BY <1>1, <2>1, <2>4
    <2> QED
      BY <1>1, <2>2, <2>3, <2>4, <2>5, <2>6, <2>7 DEF FunctionalTypes
  <1>4. FunctorOwns' /\ MappedOwns' /\ Means' /\ NotFolded'
    <2>1. ~(pass' <= Count')
      BY <1>0, <1>1
    <2> QED
      BY <1>1, <2>1 DEF FunctorOwns, MappedOwns, Means, NotFolded
  <1>5. MadeBefore'
    BY <1>1, <1>2 DEF FunctionalInv, MadeBefore
  <1>6. Freed'
    <2> SUFFICES ASSUME NEW o \in DOMAIN object
                 PROVE  /\ object'[o].blockFreed = IF DestroyOf(o) # "none" THEN 1 ELSE 0
                        /\ object'[o].contentFreed =
                             IF DestroyOf(o) = "whole" /\ object[o].by < Count THEN 1 ELSE 0
      <3>1. pass' - 1 = Count
        BY <1>0, <1>1
      <3> QED
        BY <1>1, <1>2, <3>1 DEF Freed
    <2>1. object[o].by \in Nat /\ object[o].by <= Count /\ pass - 1 = Count
      <3>1. object[o].by \in Nat
        BY <1>0 DEF Objects
      <3>2. object[o].by <= Count
        BY DEF FunctionalInv, MadeBefore
      <3> QED
        BY <1>0, <1>1, <3>1, <3>2
    <2>2. /\ object[o].blockFreed =
               IF DestroyOf(o) # "none" /\ object[o].by < Count THEN 1 ELSE 0
          /\ object[o].contentFreed =
               IF DestroyOf(o) = "whole" /\ object[o].by < Count THEN 1 ELSE 0
      BY <1>1, <2>1 DEF FunctionalInv, Freed
    <2>3. /\ object'[o].contentFreed = object[o].contentFreed
          /\ object'[o].blockFreed = object[o].blockFreed
               + IF object[o].by = Count /\ DestroyOf(o) # "none" THEN 1 ELSE 0
      BY <1>2
    <2> QED
      BY <1>0, <2>1, <2>2, <2>3
  <1>7. Alive'
    <2>1. DOMAIN mapped' = {} /\ DOMAIN functor'.entries = {}
      BY <1>1
    <2> QED
      BY <2>1 DEF Alive
  <1> QED
    BY <1>3, <1>4, <1>5, <1>6, <1>7

(* The array of a fold: the copies of the last list, perhaps with an end.  *)
LEMMA FoldedKeeps ==
  ASSUME FunctionalInv, FoldArray \/ FoldNtlist
  PROVE  FunctionalInv'
  <1> DEFINE Copies == [value : Nat, of : DOMAIN object]
  <1>0. /\ Count \in Nat /\ Count > 0 /\ start.funcs \in Seq(Functions)
        /\ Len(functor.entries) \in Nat /\ DOMAIN functor.entries = 1..Len(functor.entries)
        /\ DOMAIN object = 1..Len(object)
        /\ \A i \in DOMAIN functor.entries : functor.entries[i] \in DOMAIN object
        /\ object \in Seq(Objects) /\ functor.entries \in Seq(DOMAIN object)
    BY FunctionalParts DEF FunctionalInv, FunctionalTypes
  <1>1. PICK many \in Nat : many = Len(functor.entries)
    BY <1>0
  <1>2. PICK values \in Seq(Nat) :
          /\ values = ValuesIn(object, functor.entries) /\ Len(values) = many
          /\ \A i \in 1..many : values[i] = object[functor.entries[i]].value
    BY <1>0, <1>1, ValuesTypes
  <1>3. PICK copied \in Seq(Copies) :
          /\ copied = Copied /\ Len(copied) = many
          /\ \A i \in 1..many : copied[i].value = values[i] /\ copied[i].of = functor.entries[i]
    <2>1. \A i \in 1..many : [value |-> object[functor.entries[i]].value, of |-> functor.entries[i]]
                            \in Copies
      <3> SUFFICES ASSUME NEW i \in 1..many
                   PROVE  object[functor.entries[i]].value \in Nat
                              /\ functor.entries[i] \in DOMAIN object
        OBVIOUS
      <3>1. functor.entries[i] \in DOMAIN object
        BY <1>0, <1>1
      <3>2. values[i] \in Nat
        BY <1>2, ElementOfSeq
      <3> QED
        BY <1>2, <3>1, <3>2
    <2>2. Copied = [i \in 1..many |->
            [value |-> object[functor.entries[i]].value, of |-> functor.entries[i]]]
      BY <1>0, <1>1 DEF Copied
    <2>3. Copied \in [1..many -> Copies]
      BY <2>1, <2>2
    <2> HIDE DEF Copies
    <2>4. Copied \in Seq(Copies) /\ Len(Copied) = many
      <3>1. Copied \in Seq(Copies)
        BY <2>3
      <3> QED
        BY <2>3, <3>1, LenProperties
    <2>5. \A i \in 1..many : Copied[i].value = values[i] /\ Copied[i].of = functor.entries[i]
      BY <1>2, <2>2
    <2> QED
      BY <2>4, <2>5
  <1>4. PICK array :
          /\ Fold(array, many)
          /\ \/ start.fold = "array" /\ array = copied
             \/ start.fold = "ntlist" /\ array = Append(copied, End)
    BY <1>3 DEF FoldArray, FoldNtlist
  <1>5. /\ DOMAIN array \subseteq Nat
        /\ \A i \in 1..many : i \in DOMAIN array /\ array[i] = copied[i]
        /\ \A i \in DOMAIN array : i \in 1..many \/ array[i].of = 0
        /\ start.fold = "ntlist" => Last(array) = End
    <2>1. DOMAIN copied = 1..many
      BY <1>3, LenProperties
    <2>2. CASE start.fold = "array" /\ array = copied
      BY <2>1, <2>2
    <2>3. CASE array = Append(copied, End)
      <3>1. PICK S : copied \in Seq(S) /\ End \in S
        <4>1. copied \in Seq(Copies \cup {End}) /\ End \in Copies \cup {End}
          BY SeqWider
        <4> QED
          BY <4>1
      <3>2. /\ array \in Seq(S) /\ Len(array) = many + 1 /\ array[many + 1] = End
            /\ \A i \in 1..many : array[i] = copied[i]
        BY <1>3, <2>3, <3>1, AppendProperties
      <3>3. DOMAIN array = 1..many + 1
        BY <3>2, LenProperties
      <3>4. Last(array) = End
        BY <3>2 DEF Last
      <3>5. End.of = 0
        BY DEF End
      <3> QED
        BY <3>2, <3>3, <3>4, <3>5
    <2> QED
      BY <1>4, <2>2, <2>3
  <1>6. /\ FunctionalTypes' /\ FunctorOwns' /\ MappedOwns' /\ MadeBefore' /\ Freed' /\ Alive'
        /\ Means' /\ NotFolded'
    BY <1>4, FoldKeeps
  <1>7. /\ pass = Count + 1 /\ UNCHANGED start /\ ~Folded
        /\ Count' = Count /\ Borrows' = Borrows
        /\ functor'.entries = <<>> /\ functor'.count = many /\ folded' = array
        /\ DOMAIN object' = DOMAIN object
        /\ \A o \in DOMAIN object :
             object'[o].by = object[o].by /\ DestroyOf(o)' = DestroyOf(o)
    BY <1>4, FoldLeaves DEF FunctionalInv
  <1>8. FoldedIs'
    <2>1. [i \in 1..many |-> array[i].value] = After(start.values, start.funcs)[Count]
      <3>1. values = After(start.values, start.funcs)[Count]
        <4>1. pass - 1 = Count
          BY <1>0, <1>7
        <4> QED
          BY <1>2, <1>7, <4>1 DEF FunctionalInv, Means
      <3>2. \A i \in 1..many : array[i].value = values[i]
        BY <1>3, <1>5
      <3>3. values = [i \in 1..many |-> values[i]]
        BY <1>2, LenProperties
      <3> QED
        BY <3>1, <3>2, <3>3
    <2>2. ASSUME ~Borrows, NEW i \in DOMAIN array, array[i].of \in DOMAIN object
          PROVE  Stays(array[i].of, Count)'
      <3>1. i \in 1..many
        <4>1. array[i].of # 0
          BY <1>0, <2>2
        <4> QED
          BY <1>5, <4>1
      <3>2. array[i].of = functor.entries[i]
        BY <1>3, <1>5, <3>1
      <3>3. Stays(functor.entries[i], Count)
        <4>1. pass - 1 = Count
          BY <1>0, <1>7
        <4> QED
          BY <1>0, <1>1, <2>2, <3>1, <4>1 DEF FunctionalInv, Alive
      <3> QED
        BY <1>7, <2>2, <3>2, <3>3 DEF Stays
    <2>3. ASSUME NEW o \in DOMAIN object, object[o].by = Count
          PROVE  \E i \in DOMAIN array : array[i].of = o
      <3>1. Owned(functor.entries, functor.destroy, Count)
        <4>1. pass - 1 = Count /\ pass > 1
          BY <1>0, <1>7
        <4> QED
          BY <1>7, <4>1 DEF FunctionalInv, FunctorOwns
      <3>2. PICK i \in 1..many : functor.entries[i] = o
        <4>1. CASE start.funcs[Count].makes
          BY <1>0, <1>1, <2>3, <3>1, <4>1 DEF Owned
        <4>2. CASE ~start.funcs[Count].makes
          BY <2>3, <3>1, <4>2 DEF Owned
        <4> QED
          BY <4>1, <4>2
      <3>3. i \in DOMAIN array /\ array[i].of = o
        BY <1>3, <1>5, <3>2
      <3> QED
        BY <3>3
    <2> QED
      BY <1>5, <1>7, <2>1, <2>2, <2>3 DEF FoldedIs
  <1> QED
    BY <1>6, <1>8 DEF FunctionalInv

-----------------------------------------------------------------------------
(* The whole of it.                                                        *)

LEMMA FunctionalInitInv ==
  ASSUME FunctionalInit
  PROVE  FunctionalInv
  <1>1. PICK container \in {"array", "ntlist", "hashlist"}, fold \in {"none", "array", "ntlist"},
             values \in Inputs, many \in 1..MaxFuncs : \E funcs \in [1..many -> Functions] :
          /\ Usable(container, funcs)
          /\ start = [container |-> container, values |-> values, funcs |-> funcs, fold |-> fold]
          /\ object = [i \in DOMAIN values |-> Object(values[i], 0)]
          /\ functor = [entries |-> [i \in DOMAIN values |-> i], destroy |-> "none",
                        count |-> StartCount(container, values)]
          /\ step = "map" /\ pass = 1
          /\ mapped = <<>> /\ destroyFunc = "none" /\ place = 0
          /\ lists = 0 /\ folded = <<>>
    BY Zenon DEF FunctionalInit
  <1>2. PICK funcs \in [1..many -> Functions] :
          /\ start = [container |-> container, values |-> values, funcs |-> funcs, fold |-> fold]
          /\ object = [i \in DOMAIN values |-> Object(values[i], 0)]
          /\ functor = [entries |-> [i \in DOMAIN values |-> i], destroy |-> "none",
                        count |-> StartCount(container, values)]
          /\ step = "map" /\ pass = 1
          /\ mapped = <<>> /\ destroyFunc = "none" /\ place = 0
          /\ lists = 0 /\ folded = <<>>
    BY <1>1
  <1>3. PICK vs \in Seq(Nat) : vs = values
    BY InputsAssumption
  <1>4. many \in Nat /\ many > 0
    OBVIOUS
  <1>5. funcs \in Seq(Functions) /\ Len(funcs) = many
    <2>1. funcs \in Seq(Functions)
      BY <1>4
    <2> QED
      BY <1>4, <2>1, LenProperties
  <1>6. start \in Starts /\ start.funcs = funcs /\ start.values = vs /\ Count = many
    <2>1. start \in Starts
      BY <1>2, <1>3, <1>5 DEF Starts
    <2>2. start.funcs = funcs /\ start.values = vs
      BY <1>2, <1>3
    <2> QED
      BY <1>5, <2>1, <2>2 DEF Count
  <1>7. PICK k \in Nat : k = Len(vs) /\ DOMAIN vs = 1..k /\ \A i \in 1..k : vs[i] \in Nat
    BY LenProperties, ElementOfSeq
  <1>8. object = [i \in 1..k |-> [value |-> vs[i], by |-> 0, blockFreed |-> 0, contentFreed |-> 0]]
    BY <1>2, <1>3, <1>7 DEF Object
  <1>9. object \in Seq(Objects) /\ DOMAIN object = 1..k
        /\ \A o \in 1..k : /\ object[o].value = vs[o] /\ object[o].by = 0
                           /\ object[o].blockFreed = 0 /\ object[o].contentFreed = 0
    <2>1. \A i \in 1..k :
            [value |-> vs[i], by |-> 0, blockFreed |-> 0, contentFreed |-> 0] \in Objects
      BY <1>7 DEF Objects
    <2>2. object \in [1..k -> Objects]
      BY <1>8, <2>1
    <2>3. object \in Seq(Objects)
      BY <2>2
    <2> QED
      BY <1>8, <2>2, <2>3
  <1>10. functor.entries = [i \in 1..k |-> i] /\ functor.destroy = "none"
    BY <1>2, <1>3, <1>7
  <1>11. functor.entries \in Seq(DOMAIN object) /\ Len(functor.entries) = k
         /\ DOMAIN functor.entries = 1..k
    <2> DEFINE e == [i \in 1..k |-> i]
    <2>1. e \in [1..k -> 1..k]
      OBVIOUS
    <2>2. e \in Seq(1..k)
      BY <2>1
    <2> HIDE DEF e
    <2>3. Len(e) = k
      BY <2>1, <2>2, LenProperties
    <2> QED
      BY <1>9, <1>10, <2>1, <2>2, <2>3 DEF e
  <1>12. step = "map" /\ pass = 1 /\ mapped = <<>> /\ destroyFunc = "none" /\ place = 0
         /\ lists = 0 /\ folded = <<>>
    BY <1>2
  <1>13. ~Folded
    BY <1>12 DEF Folded
  <1>14. \A o \in DOMAIN object : DestroyOf(o) = "none"
    BY <1>9 DEF DestroyOf
  <1>15. FunctionalTypes
    <2>1. <<>> \in Seq(DOMAIN object) /\ "none" \in Kinds
      BY EmptySeq DEF Kinds
    <2>2. pass \in 1..Count + 1 /\ pass <= Count /\ Count > 0
              /\ place \in 0..Len(functor.entries)
      BY <1>4, <1>6, <1>11, <1>12
    <2> QED
      BY <1>6, <1>9, <1>10, <1>11, <1>12, <1>13, <2>1, <2>2 DEF FunctionalTypes
  <1>16. FunctorOwns
    BY <1>12 DEF FunctorOwns
  <1>17. MappedOwns
    <2>1. \A o \in DOMAIN object : object[o].by # 1
      BY <1>9
    <2>2. DOMAIN mapped = {}
      BY <1>12
    <2>3. Owned(mapped, destroyFunc, 1)
      BY <1>12, <2>1, <2>2 DEF Owned
    <2> QED
      BY <1>12, <2>3 DEF MappedOwns
  <1>18. MadeBefore
    BY <1>4, <1>6, <1>9, <1>12 DEF MadeBefore
  <1>19. Freed
    BY <1>9, <1>14 DEF Freed
  <1>20. Alive
    <2>1. DOMAIN mapped = {}
      BY <1>12
    <2>2. \A i \in DOMAIN functor.entries : functor.entries[i] \in DOMAIN object
      BY <1>9, <1>10, <1>11
    <2> QED
      BY <1>14, <2>1, <2>2 DEF Alive, Stays
  <1>21. Means
    <2>1. ValuesIn(object, functor.entries) = vs
      <3>1. ValuesIn(object, functor.entries) = [i \in 1..k |-> vs[i]]
        BY <1>9, <1>10 DEF ValuesIn
      <3> QED
        BY <1>7, <3>1
    <2>2. After(start.values, start.funcs)[0] = vs
      BY <1>5, <1>6, AfterIs
    <2>3. ValuesIn(object, mapped) = <<>>
      BY <1>12, ValuesNone
    <2>4. \A f, s : MeantBy(f, [i \in 1..0 |-> s[i]]) = <<>>
      BY MeantByNone
    <2>5. pass - 1 = 0
      BY <1>12
    <2> QED
      BY <1>12, <2>1, <2>2, <2>3, <2>4, <2>5 DEF Means
  <1>22. FoldedIs /\ NotFolded
    BY <1>12, <1>13 DEF FoldedIs, NotFolded
  <1> QED
    BY <1>15, <1>16, <1>17, <1>18, <1>19, <1>20, <1>21, <1>22 DEF FunctionalInv

LEMMA FunctionalNextInv ==
  ASSUME FunctionalInv, [FunctionalNext]_functionalVars
  PROVE  FunctionalInv'
  <1>1. CASE MapArray \/ MapNtlist \/ MapHashlist
    <2>1. MapEntry
      BY <1>1 DEF MapArray, MapNtlist, MapHashlist
    <2> QED
      BY <2>1, EntryKeeps
  <1>2. CASE MapDone
    BY <1>2, DoneKeeps
  <1>3. CASE FoldArray \/ FoldNtlist
    BY <1>3, FoldedKeeps
  <1>4. CASE UNCHANGED functionalVars
    <2>1. /\ UNCHANGED <<start, step, pass, functor, mapped, destroyFunc, place, object,
                         lists, folded>>
          /\ Folded' = Folded /\ Count' = Count /\ Borrows' = Borrows
      BY <1>4 DEF functionalVars, Folded, Count, Borrows
    <2>2. FunctionalTypes'
      BY <2>1 DEF FunctionalInv, FunctionalTypes
    <2>3. FunctorOwns' /\ MappedOwns' /\ MadeBefore'
      BY <2>1 DEF FunctionalInv, FunctorOwns, MappedOwns, MadeBefore, Owned
    <2>4. Freed'
      BY <2>1 DEF FunctionalInv, Freed, DestroyOf
    <2>5. Alive'
      BY <2>1 DEF FunctionalInv, Alive, Stays, DestroyOf
    <2>6. Means'
      BY <2>1 DEF FunctionalInv, Means
    <2>7. FoldedIs' /\ NotFolded'
      BY <2>1 DEF FunctionalInv, FoldedIs, NotFolded, Stays, DestroyOf
    <2> QED
      BY <2>2, <2>3, <2>4, <2>5, <2>6, <2>7 DEF FunctionalInv
  <1> QED
    BY <1>1, <1>2, <1>3, <1>4 DEF FunctionalNext, Returned

(* The lists have nothing that is gone.                                    *)
LEMMA HeldIsAlive ==
  ASSUME FunctionalInv, ~Borrows
  PROVE  /\ \A i \in DOMAIN functor.entries : object[functor.entries[i]].blockFreed = 0
         /\ \A i \in DOMAIN mapped : object[mapped[i]].blockFreed = 0
  <1>0. /\ Count \in Nat /\ pass \in 1..Count + 1 /\ DOMAIN object = 1..Len(object)
        /\ \A o \in 1..Len(object) : object[o] \in Objects
        /\ \A i \in DOMAIN mapped : mapped[i] \in DOMAIN object
        /\ \A i \in DOMAIN functor.entries : functor.entries[i] \in DOMAIN object
    BY FunctionalParts DEF FunctionalInv, FunctionalTypes
  <1>1. ASSUME NEW o \in DOMAIN object, ~Folded, Stays(o, pass - 1)
        PROVE  object[o].blockFreed = 0
    <2>1. ~(DestroyOf(o) # "none" /\ object[o].by < pass - 1)
      <3>1. object[o].by \in Nat /\ pass - 1 \in Nat
        BY <1>0 DEF Objects
      <3> QED
        BY <1>1, <3>1 DEF Stays
    <2> QED
      BY <1>1, <2>1 DEF FunctionalInv, Freed
  <1>2. ASSUME NEW i \in DOMAIN functor.entries
        PROVE  object[functor.entries[i]].blockFreed = 0
    <2>1. ~Folded
      BY DEF FunctionalInv, FoldedIs
    <2>2. Stays(functor.entries[i], pass - 1) /\ functor.entries[i] \in DOMAIN object
      BY <1>0 DEF FunctionalInv, Alive
    <2> QED
      BY <1>1, <2>1, <2>2
  <1>3. ASSUME NEW i \in DOMAIN mapped
        PROVE  object[mapped[i]].blockFreed = 0
    <2>1. step = "map"
      BY DEF FunctionalInv, FunctionalTypes
    <2>2. ~Folded
      BY <2>1 DEF Folded
    <2>3. Stays(mapped[i], pass) /\ mapped[i] \in DOMAIN object
      BY <1>0 DEF FunctionalInv, Alive
    <2>4. Stays(mapped[i], pass - 1)
      <3>1. object[mapped[i]].by \in Nat /\ pass \in Nat
        BY <1>0, <2>3 DEF Objects
      <3> QED
        BY <2>3, <3>1 DEF Stays
    <2> QED
      BY <1>1, <2>2, <2>3, <2>4
  <1> QED
    BY <1>2, <1>3

LEMMA InvPassesOwn ==
  ASSUME FunctionalInv
  PROVE  PassesOwn
  <1> DEFINE held == Range(functor.entries) \cup Range(mapped)
             kept == {o \in DOMAIN object : \E i \in DOMAIN folded : folded[i].of = o}
             result == IF start.fold = "none"
                       THEN [i \in DOMAIN functor.entries |-> object[functor.entries[i]].value]
                       ELSE [i \in 1..functor.count |-> folded[i].value]
  <1>0. /\ Count \in Nat /\ Count > 0 /\ pass \in 1..Count + 1 /\ DOMAIN object = 1..Len(object)
        /\ \A o \in 1..Len(object) : object[o] \in Objects
        /\ \A b \in 1..Count : start.funcs[b] \in Functions
    BY FunctionalParts DEF FunctionalInv, FunctionalTypes
  <1>1. ASSUME NEW o \in DOMAIN object
        PROVE  /\ object[o].by \in Nat /\ object[o].by <= Count
               /\ object[o].blockFreed =
                    IF DestroyOf(o) # "none" /\ (object[o].by < pass - 1 \/ Folded)
                        THEN 1 ELSE 0
               /\ object[o].contentFreed =
                    IF DestroyOf(o) = "whole" /\ object[o].by < pass - 1 THEN 1 ELSE 0
    BY <1>0 DEF FunctionalInv, MadeBefore, Freed, Objects
  <1>2. ASSUME NEW o \in DOMAIN object
        PROVE  /\ object[o].contentFreed <= object[o].blockFreed
               /\ object[o].blockFreed <= IF object[o].by = 0 THEN 0 ELSE 1
    <2>1. object[o].by = 0 => DestroyOf(o) = "none"
      BY DEF DestroyOf
    <2> QED
      BY <1>1, <2>1
  <1>3. ASSUME ~Borrows, NEW o \in held
        PROVE  object[o].blockFreed = 0
    BY <1>3, HeldIsAlive DEF Range
  <1>4. ASSUME ~Borrows, NEW o \in kept
        PROVE  object[o].contentFreed = 0
    <2>1. PICK i \in DOMAIN folded : folded[i].of = o
      OBVIOUS
    <2>2. Folded
      <3>1. folded # <<>>
        BY <2>1
      <3> QED
        BY <3>1 DEF FunctionalInv, NotFolded
    <2>3. Stays(o, Count)
      BY <1>4, <2>1, <2>2 DEF FunctionalInv, FoldedIs
    <2>4. pass - 1 <= Count /\ pass - 1 \in Int
      BY <1>0
    <2> QED
      BY <1>0, <1>1, <2>3, <2>4 DEF Stays
  <1>5. ASSUME step = "done"
        PROVE  /\ pass = Count + 1 /\ (Folded <=> start.fold # "none")
               /\ lists = IF start.fold = "none" THEN 1 ELSE 0
    <2>1. Folded <=> start.fold # "none"
      BY <1>5 DEF Folded
    <2>2. pass = Count + 1
      BY <1>0, <1>5 DEF FunctionalInv, FunctionalTypes
    <2> QED
      BY <1>0, <2>1, <2>2 DEF FunctionalInv, FunctionalTypes
  <1>6. ASSUME step = "done"
        PROVE  result = Meant /\ (start.fold = "ntlist" => Last(folded) = End)
    <2>1. pass - 1 = Count
      BY <1>0, <1>5, <1>6
    <2>2. CASE start.fold = "none"
      <3>1. result = ValuesIn(object, functor.entries)
        BY <2>2 DEF ValuesIn
      <3>2. ValuesIn(object, functor.entries) = After(start.values, start.funcs)[Count]
        BY <1>5, <1>6, <2>1, <2>2 DEF FunctionalInv, Means
      <3> QED
        BY <2>2, <3>1, <3>2 DEF Meant, Count
    <2>3. CASE start.fold # "none"
      <3>1. result = After(start.values, start.funcs)[Count]
        BY <1>5, <1>6, <2>3 DEF FunctionalInv, FoldedIs
      <3>2. start.fold = "ntlist" => Last(folded) = End
        BY <1>5, <1>6, <2>3 DEF FunctionalInv, FoldedIs
      <3> HIDE DEF result
      <3> QED
        BY <3>1, <3>2 DEF Meant, Count
    <2> QED
      BY <2>2, <2>3
  <1>7. ASSUME step = "done", NEW o \in DOMAIN object \ held
        PROVE  /\ DestroyOf(o) # "none" => object[o].blockFreed = 1
               /\ DestroyOf(o) = "whole" /\ o \notin kept => object[o].contentFreed = 1
    <2>1. pass - 1 = Count /\ pass > 1
      BY <1>0, <1>5, <1>7
    <2>2. CASE start.fold = "none"
      <3>1. Owned(functor.entries, functor.destroy, Count)
        BY <1>5, <1>7, <2>1, <2>2 DEF FunctionalInv, FunctorOwns
      <3>2. object[o].by # Count
        <4>1. CASE start.funcs[Count].makes
          BY <3>1, <4>1 DEF Owned, Range
        <4>2. CASE ~start.funcs[Count].makes
          BY <3>1, <4>2 DEF Owned
        <4> QED
          BY <4>1, <4>2
      <3>3. object[o].by < pass - 1
        BY <1>0, <1>1, <2>1, <3>2
      <3> QED
        BY <1>1, <3>3
    <2>3. CASE start.fold # "none"
      <3>1. Folded /\ DestroyOf(o) # "none" => object[o].blockFreed = 1
        BY <1>1
      <3>2. object[o].by = Count => o \in kept
        BY <1>5, <1>7, <2>3 DEF FunctionalInv, FoldedIs
      <3>3. o \notin kept => object[o].by < pass - 1
        BY <1>0, <1>1, <2>1, <3>2
      <3> HIDE DEF kept, held
      <3> QED
        BY <1>1, <1>5, <1>7, <2>3, <3>1, <3>3
    <2> QED
      BY <2>2, <2>3
  <1>8. ~Borrows =>
          /\ \A o \in held : object[o].blockFreed = 0
          /\ \A o \in kept : object[o].contentFreed = 0
          /\ step = "done" =>
               /\ lists = IF start.fold = "none" THEN 1 ELSE 0
               /\ result = Meant
               /\ start.fold = "ntlist" => Last(folded) = End
               /\ \A o \in DOMAIN object \ held :
                    /\ DestroyOf(o) # "none" => object[o].blockFreed = 1
                    /\ DestroyOf(o) = "whole" /\ o \notin kept => object[o].contentFreed = 1
    <2> HIDE DEF held, kept, result
    <2> QED
      BY <1>3, <1>4, <1>5, <1>6, <1>7
  <1> QED
    BY <1>2, <1>8 DEF PassesOwn, DestroyOf

(* However the functions of a call follow each other, nothing that they    *)
(* made is freed twice or while a list has it, the caller's objects never; *)
(* and the call returns what the functions mean, with everything else      *)
(* destroyed.                                                              *)
THEOREM FunctionsPassWhatTheyOwn ==
  FunctionalInit /\ [][FunctionalNext]_functionalVars => []PassesOwn
  <1>1. FunctionalInit => FunctionalInv
    BY FunctionalInitInv
  <1>2. FunctionalInv /\ [FunctionalNext]_functionalVars => FunctionalInv'
    BY FunctionalNextInv
  <1>3. FunctionalInv => PassesOwn
    BY InvPassesOwn
  <1> QED
    BY <1>1, <1>2, <1>3, PTL


=============================================================================
