----------------------------- MODULE SetProofs -----------------------------
(***************************************************************************)
(* What holds of SimpleSet for every set of keys, every hash function and  *)
(* every size of the tables.  The tables are laid out as those of HashMap, *)
(* with keys for nodes; the lemmas up to FirstPassVisit are those of       *)
(* HashMapProofs, of tables of any size n, as two sets and a result have   *)
(* tables of their own.                                                    *)
(***************************************************************************)
EXTENDS SimpleSet, Induction

(* The hash function is one.                                               *)
Hashed == hash \in [Keys -> Hashes]

(* The slots a probe for k passes before slot j.                           *)
Before(n, k, j) ==
  IF Probe(n, k, 0) <= j THEN Probe(n, k, 0)..j - 1
  ELSE (Probe(n, k, 0)..n - 1) \cup (0..j - 1)

(* A probe for k stops at an empty slot and at the key; where it ends, and *)
(* whether it has been all the way round.                                  *)
StopsAt(tbl, k, i) == tbl[i] = NoKey \/ tbl[i] = k
Slot(n, tbl, k) == GetIndex(tbl, n, k).index
IsFull(n, tbl, k) == GetIndex(tbl, n, k).rc = "circular"

(* A key has one node; every node is found where it is.                    *)
UniqueIn(tbl) == \A i, j \in Occupied(tbl) : tbl[i] = tbl[j] => i = j
LaidIn(n, tbl) ==
  \A j \in Occupied(tbl) : \A i \in Before(n, tbl[j], j) : tbl[i] # NoKey

Table(n) == [0..n - 1 -> Keys \cup {NoKey}]

(* A set of naturals that is not empty has its minimum.                    *)
LEMMA MinOfNats ==
  ASSUME NEW S \in SUBSET Nat, S # {}
  PROVE  Min(S) \in S /\ \A x \in S : Min(S) <= x
  BY LeastNat DEF Min

-----------------------------------------------------------------------------
(* The probe.                                                              *)

(* The slot a probe visits d slots after its home.                         *)
LEMMA ProbeSlots ==
  ASSUME Hashed, NEW n \in Nat \ {0}, NEW k \in Keys
  PROVE  /\ Probe(n, k, 0) \in 0..n - 1
         /\ \A d \in 0..n - 1 :
              Probe(n, k, d) = IF Probe(n, k, 0) + d < n
                            THEN Probe(n, k, 0) + d
                            ELSE Probe(n, k, 0) + d - n
  <1>1. hash[k] \in Nat /\ n \in Nat \ {0}
    <2>1. hash \in [Keys -> Hashes] /\ n \in Nat
      BY DEF Hashed
    <2>2. hash[k] \in Hashes
      BY <2>1
    <2>3. hash[k] \in Nat
      BY <2>2, HashesAssumption, Zenon
    <2> QED
      BY <2>1, <2>3
  <1>2. hash[k] + 0 = hash[k]
    BY <1>1
  <1>3. Probe(n, k, 0) = hash[k] % n
    BY <1>2 DEF Probe
  <1>4. Probe(n, k, 0) \in 0..n - 1
    BY <1>1, <1>3, Division
  <1>5. ASSUME NEW d \in 0..n - 1
        PROVE  Probe(n, k, d) = IF Probe(n, k, 0) + d < n
                             THEN Probe(n, k, 0) + d
                             ELSE Probe(n, k, 0) + d - n
    <2>1. PICK a \in Nat : a = hash[k]
      BY <1>1
    <2>2. (a + d) % n = IF (a % n) + d < n THEN (a % n) + d ELSE (a % n) + d - n
      BY <1>1, ModStep
    <2>3. Probe(n, k, d) = (a + d) % n /\ Probe(n, k, 0) = a % n
      BY <1>3, <2>1 DEF Probe
    <2> QED
      BY <2>2, <2>3
  <1> QED
    BY <1>4, <1>5

(* Every slot is visited, after those before it.                           *)
LEMMA SlotIsVisited ==
  ASSUME Hashed, NEW n \in Nat \ {0}, NEW k \in Keys, NEW j \in 0..n - 1
  PROVE  \E d \in 0..n - 1 :
           /\ Probe(n, k, d) = j
           /\ \A i : i \in Before(n, k, j) <=> \E e \in 0..d - 1 : Probe(n, k, e) = i
  <1> DEFINE h == Probe(n, k, 0)
  <1> DEFINE d == IF h <= j THEN j - h ELSE j - h + n
  <1>1. n \in Nat \ {0} /\ h \in 0..n - 1
    BY ProbeSlots
  <1>2. \A e \in 0..n - 1 : Probe(n, k, e) = IF h + e < n THEN h + e ELSE h + e - n
    BY ProbeSlots
  <1>3. Before(n, k, j) = IF h <= j THEN h..j - 1 ELSE (h..n - 1) \cup (0..j - 1)
    BY DEF Before
  <1> HIDE DEF h
  <1>4. d \in 0..n - 1
    BY <1>1
  <1>5. Probe(n, k, d) = j
    BY <1>1, <1>2, <1>4
  <1>6. ASSUME NEW e \in 0..d - 1
        PROVE  Probe(n, k, e) \in Before(n, k, j)
    <2>1. e \in 0..n - 1 /\ e < d
      BY <1>1, <1>4
    <2>2. CASE h <= j
      BY <1>1, <1>2, <1>3, <2>1, <2>2
    <2>3. CASE ~(h <= j)
      BY <1>1, <1>2, <1>3, <2>1, <2>3
    <2> QED
      BY <2>2, <2>3
  <1>7. ASSUME NEW i \in Before(n, k, j)
        PROVE  \E e \in 0..d - 1 : Probe(n, k, e) = i
    <2> DEFINE e == IF h <= i THEN i - h ELSE i - h + n
    <2>1. i \in 0..n - 1 /\ e \in 0..d - 1 /\ e \in 0..n - 1
      BY <1>1, <1>3, <1>7
    <2>2. Probe(n, k, e) = i
      <3>1. CASE h <= i
        BY <1>1, <1>2, <2>1, <3>1
      <3>2. CASE ~(h <= i)
        BY <1>1, <1>2, <2>1, <3>2
      <3> QED
        BY <3>1, <3>2
    <2> QED
      BY <2>1, <2>2
  <1> QED
    BY <1>4, <1>5, <1>6, <1>7

(* The slots before a slot, in the order a probe visits them.              *)
LEMMA BeforeOrder ==
  ASSUME Hashed, NEW n \in Nat \ {0}, NEW k \in Keys,
         NEW i \in 0..n - 1, NEW j \in 0..n - 1
  PROVE  /\ Before(n, k, j) \subseteq 0..n - 1
         /\ j \notin Before(n, k, j)
         /\ i = j \/ i \in Before(n, k, j) \/ j \in Before(n, k, i)
         /\ ~(i \in Before(n, k, j) /\ j \in Before(n, k, i))
  <1>1. n \in Nat /\ Probe(n, k, 0) \in 0..n - 1
    BY ProbeSlots
  <1> QED
    BY <1>1 DEF Before

(* hashmap_get_node ends at the first slot where it may stop, or has seen  *)
(* that there is none.                                                     *)
LEMMA ProbeEnds ==
  ASSUME Hashed, NEW n \in Nat \ {0}, NEW k \in Keys, NEW tbl
  PROVE  /\ Slot(n, tbl, k) \in 0..n - 1
         /\ IsFull(n, tbl, k) => \A i \in 0..n - 1 : ~StopsAt(tbl, k, i)
         /\ ~IsFull(n, tbl, k) =>
              /\ StopsAt(tbl, k, Slot(n, tbl, k))
              /\ \A i \in Before(n, k, Slot(n, tbl, k)) : ~StopsAt(tbl, k, i)
  <1> DEFINE S == Stops(tbl, n, k)
             last == n - 1
             slot == Slot(n, tbl, k)
  <1>1. n \in Nat /\ \A d \in 0..last : Probe(n, k, d) \in 0..last
    <2>1. n \in Nat
      OBVIOUS
    <2> QED
      BY <2>1, ProbeSlots
  <1>2. \A d : d \in S <=> d \in 0..last /\ StopsAt(tbl, k, Probe(n, k, d))
    BY DEF Stops, StopsAt
  <1>3. IsFull(n, tbl, k) <=> S = {}
    BY DEF IsFull, GetIndex
  <1>4. slot = IF S = {} THEN Probe(n, k, 0) ELSE Probe(n, k, Min(S))
    BY DEF Slot, GetIndex
  <1> HIDE DEF S, slot
  <1>5. CASE S = {}
    <2>1. slot \in 0..last
      BY <1>1, <1>4, <1>5
    <2>2. ASSUME NEW i \in 0..last
          PROVE  ~StopsAt(tbl, k, i)
      <3>1. \E d \in 0..last : Probe(n, k, d) = i
        BY SlotIsVisited
      <3> QED
        BY <1>2, <1>5, <3>1
    <2> QED
      BY <1>3, <1>5, <2>1, <2>2 DEF slot
  <1>6. CASE S # {}
    <2>1. S \in SUBSET Nat
      BY <1>1, <1>2
    <2> DEFINE m == Min(S)
    <2>2. m \in S /\ \A d \in S : m <= d
      BY <1>6, <2>1, MinOfNats
    <2>3. m \in 0..last /\ slot = Probe(n, k, m) /\ StopsAt(tbl, k, slot)
      BY <1>2, <1>4, <1>6, <2>2
    <2> HIDE DEF m
    <2>4. slot \in 0..last
      BY <1>1, <2>3
    <2>5. ASSUME NEW i \in Before(n, k, slot)
          PROVE  ~StopsAt(tbl, k, i)
      <3>1. PICK d \in 0..last :
              /\ Probe(n, k, d) = slot
              /\ \E e \in 0..d - 1 : Probe(n, k, e) = i
        BY <2>4, <2>5, SlotIsVisited
      <3>2. PICK e \in 0..d - 1 : Probe(n, k, e) = i
        BY <3>1
      <3>3. d = m
        <4>1. \A x \in 0..last : Probe(n, k, x) = IF Probe(n, k, 0) + x < n
                                THEN Probe(n, k, 0) + x
                                ELSE Probe(n, k, 0) + x - n
          BY ProbeSlots
        <4>2. Probe(n, k, 0) \in 0..last
          BY ProbeSlots
        <4> QED
          BY <1>1, <2>3, <3>1, <4>1, <4>2
      <3>4. e \in 0..last /\ e < m
        BY <1>1, <2>3, <3>2, <3>3
      <3>5. e \notin S
        BY <1>1, <2>2, <2>3, <3>4
      <3> QED
        BY <1>2, <3>2, <3>4, <3>5
    <2> QED
      BY <1>3, <1>6, <2>3, <2>4, <2>5 DEF slot
  <1> QED
    BY <1>5, <1>6

(* And it ends nowhere else.                                               *)
LEMMA ProbeEndsAt ==
  ASSUME Hashed, NEW n \in Nat \ {0}, NEW k \in Keys, NEW tbl,
         NEW slot \in 0..n - 1,
         StopsAt(tbl, k, slot),
         \A i \in Before(n, k, slot) : ~StopsAt(tbl, k, i)
  PROVE  Slot(n, tbl, k) = slot /\ ~IsFull(n, tbl, k)
  <1>1. ~IsFull(n, tbl, k) /\ Slot(n, tbl, k) \in 0..n - 1
    BY ProbeEnds
  <1>2. /\ StopsAt(tbl, k, Slot(n, tbl, k))
        /\ \A i \in Before(n, k, Slot(n, tbl, k)) : ~StopsAt(tbl, k, i)
    BY <1>1, ProbeEnds
  <1>3. /\ slot \notin Before(n, k, Slot(n, tbl, k))
        /\ Slot(n, tbl, k) \notin Before(n, k, slot)
    BY <1>2
  <1> QED
    BY <1>1, <1>3, BeforeOrder

(* An empty slot is told from a node.                                      *)
LEMMA NodeIsNode == NoKey \notin Keys
  BY NoKeyAssumption

(* The slots of a table are finitely many.                                 *)
LEMMA OccupiedFinite ==
  ASSUME NEW n \in Nat, NEW tbl \in Table(n)
  PROVE  /\ Occupied(tbl) \subseteq 0..n - 1
         /\ IsFiniteSet(Occupied(tbl))
         /\ Cardinality(Occupied(tbl)) \in Nat
  <1>1. Occupied(tbl) \subseteq 0..n - 1
    BY DEF Occupied, Table
  <1>2. IsFiniteSet(0..n - 1)
    BY FS_Interval
  <1> QED
    BY <1>1, <1>2, FS_Subset, FS_CardinalityType

(* Writing a node to a slot.                                               *)
LEMMA SetSlot ==
  ASSUME NEW n \in Nat, NEW tbl \in Table(n), NEW i \in 0..n - 1, NEW x \in Keys
  PROVE  /\ [tbl EXCEPT ![i] = x] \in Table(n)
         /\ Occupied([tbl EXCEPT ![i] = x]) = Occupied(tbl) \cup {i}
         /\ Cardinality(Occupied(tbl) \cup {i}) =
              IF tbl[i] = NoKey THEN Cardinality(Occupied(tbl)) + 1
              ELSE Cardinality(Occupied(tbl))
  <1>1. [tbl EXCEPT ![i] = x] \in Table(n)
    BY DEF Table
  <1>2. Occupied([tbl EXCEPT ![i] = x]) = Occupied(tbl) \cup {i}
    BY NodeIsNode DEF Table, Occupied
  <1>3. i \in Occupied(tbl) <=> tbl[i] # NoKey
    BY DEF Table, Occupied
  <1> QED
    BY <1>1, <1>2, <1>3, OccupiedFinite, FS_AddElement

(* A table that a slot is taken from.                                      *)
Cleared(tbl, s) == [tbl EXCEPT ![s] = NoKey]

(* Emptying a slot.                                                        *)
LEMMA ClearSlot ==
  ASSUME NEW n \in Nat, NEW tbl \in Table(n), NEW i \in 0..n - 1
  PROVE  /\ [tbl EXCEPT ![i] = NoKey] \in Table(n)
         /\ Occupied([tbl EXCEPT ![i] = NoKey]) = Occupied(tbl) \ {i}
         /\ Cardinality(Occupied(tbl) \ {i}) =
              IF tbl[i] = NoKey THEN Cardinality(Occupied(tbl))
              ELSE Cardinality(Occupied(tbl)) - 1
  <1>1. [tbl EXCEPT ![i] = NoKey] \in Table(n)
    BY DEF Table
  <1>2. Occupied([tbl EXCEPT ![i] = NoKey]) = Occupied(tbl) \ {i}
    BY DEF Table, Occupied
  <1>3. i \in Occupied(tbl) <=> tbl[i] # NoKey
    BY DEF Table, Occupied
  <1> QED
    BY <1>1, <1>2, <1>3, OccupiedFinite, FS_RemoveElement

(* A relayout moves one node, or none, and loses none but a duplicate of   *)
(* the node it moves.                                                      *)
LEMMA RelayoutMoves ==
  ASSUME Hashed, NEW n \in Nat \ {0}, NEW tbl \in Table(n),
         NEW i \in Occupied(tbl), NEW new, new = Move(tbl, n, i)
  PROVE  LET id == Slot(n, tbl, tbl[i]) IN
         /\ new \in Table(n)
         /\ id \in 0..n - 1
         /\ id = i => new = tbl
         /\ id # i =>
              /\ new = [tbl EXCEPT ![id] = tbl[i], ![i] = NoKey]
              /\ Occupied(new) = (Occupied(tbl) \cup {id}) \ {i}
              /\ tbl[id] = NoKey =>
                   Cardinality(Occupied(new)) = Cardinality(Occupied(tbl))
         /\ Cardinality(Occupied(new)) <= Cardinality(Occupied(tbl))
  <1> DEFINE id == Slot(n, tbl, tbl[i])
  <1>1. n \in Nat
    OBVIOUS
  <1>2. i \in 0..n - 1 /\ tbl[i] \in Keys
    BY <1>1 DEF Occupied, Table
  <1>3. tbl[i] \in Keys
    BY <1>2
  <1>4. id \in 0..n - 1
    BY <1>3, ProbeEnds
  <1>5. Cardinality(Occupied(tbl)) \in Nat
    BY <1>1, OccupiedFinite
  <1>6. CASE id = i
    BY <1>4, <1>5, <1>6 DEF Move, Slot
  <1>7. CASE id # i
    <2> DEFINE mid == [tbl EXCEPT ![id] = tbl[i]]
               occ == Occupied(tbl)
    <2>1. new = [mid EXCEPT ![i] = NoKey]
      BY <1>7 DEF Move, Slot
    <2>2. new = [tbl EXCEPT ![id] = tbl[i], ![i] = NoKey]
      BY <1>7 DEF Move, Slot
    <2> HIDE DEF id
    <2>3. /\ mid \in Table(n)
          /\ Occupied(mid) = occ \cup {id}
          /\ Cardinality(occ \cup {id}) =
               IF tbl[id] = NoKey THEN Cardinality(occ) + 1 ELSE Cardinality(occ)
      BY <1>1, <1>2, <1>4, SetSlot
    <2>4. mid[i] # NoKey
      BY <1>2, <1>4, <1>7, NodeIsNode DEF Table
    <2> HIDE DEF mid
    <2>5. /\ [mid EXCEPT ![i] = NoKey] \in Table(n)
          /\ Occupied([mid EXCEPT ![i] = NoKey]) = Occupied(mid) \ {i}
          /\ Cardinality(Occupied(mid) \ {i}) =
               IF mid[i] = NoKey THEN Cardinality(Occupied(mid))
               ELSE Cardinality(Occupied(mid)) - 1
      <3>1. mid \in Table(n)
        BY <2>3
      <3> QED
        BY <1>1, <1>2, <3>1, ClearSlot
    <2>6. Occupied(new) = (occ \cup {id}) \ {i}
      BY <2>1, <2>3, <2>5
    <2>7. Cardinality(Occupied(new)) =
            IF tbl[id] = NoKey THEN Cardinality(occ) ELSE Cardinality(occ) - 1
      <3>1. Cardinality(Occupied(new)) = Cardinality(Occupied(mid) \ {i})
        BY <2>1, <2>5
      <3>2. Cardinality(Occupied(mid) \ {i}) = Cardinality(Occupied(mid)) - 1
        BY <2>4, <2>5
      <3>3. Cardinality(Occupied(mid)) =
              IF tbl[id] = NoKey THEN Cardinality(occ) + 1 ELSE Cardinality(occ)
        BY <2>3
      <3> QED
        BY <1>5, <3>1, <3>2, <3>3
    <2> HIDE DEF occ
    <2>8. /\ Cardinality(Occupied(new)) <= Cardinality(occ)
          /\ tbl[id] = NoKey => Cardinality(Occupied(new)) = Cardinality(occ)
      BY <1>5, <2>7 DEF occ
    <2> QED
      BY <1>4, <1>7, <2>1, <2>2, <2>5, <2>6, <2>8 DEF id, occ
  <1> QED
    BY <1>6, <1>7

(* A node of a table has its fields, at a slot of the table.               *)
LEMMA NodeTypes ==
  ASSUME NEW n \in Nat, NEW tbl \in Table(n), NEW j \in Occupied(tbl)
  PROVE  /\ j \in 0..n - 1
         /\ tbl[j] \in Keys /\ tbl[j] # NoKey
         /\ tbl[j] \in Keys
  BY DEF Table, Occupied

(* In a table that is laid out a probe finds every node where it is.       *)
LEMMA FindsNode ==
  ASSUME Hashed, NEW n \in Nat \ {0}, NEW tbl \in Table(n),
         UniqueIn(tbl), LaidIn(n, tbl), NEW j \in Occupied(tbl)
  PROVE  Slot(n, tbl, tbl[j]) = j /\ ~IsFull(n, tbl, tbl[j])
  <1> DEFINE k == tbl[j]
  <1>1. n \in Nat
    OBVIOUS
  <1>2. j \in 0..n - 1 /\ k \in Keys
    BY <1>1, NodeTypes
  <1>3. ASSUME NEW i \in Before(n, k, j)
        PROVE  ~StopsAt(tbl, k, i)
    <2>1. i \in 0..n - 1 /\ i # j
      BY <1>2, BeforeOrder
    <2>2. tbl[i] # NoKey
      BY DEF LaidIn
    <2>3. i \in Occupied(tbl)
      BY <2>1, <2>2 DEF Occupied, Table
    <2>4. tbl[i] # k
      BY <2>1, <2>3 DEF UniqueIn
    <2> QED
      BY <2>2, <2>4 DEF StopsAt
  <1>4. StopsAt(tbl, k, j)
    BY DEF StopsAt
  <1> QED
    BY <1>2, <1>3, <1>4, ProbeEndsAt

(* What a relayout of unique keys does, slot by slot.                      *)
LEMMA RelayoutSlots ==
  ASSUME Hashed, NEW n \in Nat \ {0}, NEW tbl \in Table(n),
         UniqueIn(tbl), NEW i \in Occupied(tbl), NEW new, new = Move(tbl, n, i),
         Slot(n, tbl, tbl[i]) # i
  PROVE  LET id == Slot(n, tbl, tbl[i]) IN
         /\ id \in 0..n - 1
         /\ tbl[id] = NoKey
         /\ \A j \in Before(n, tbl[i], id) : tbl[j] # NoKey
         /\ i \notin Before(n, tbl[i], id)
         /\ Occupied(new) = (Occupied(tbl) \cup {id}) \ {i}
         /\ new[id] = tbl[i] /\ new[i] = NoKey
         /\ \A j \in 0..n - 1 : j # id /\ j # i => new[j] = tbl[j]
         /\ Cardinality(Occupied(new)) = Cardinality(Occupied(tbl))
  <1> DEFINE k == tbl[i]
             id == Slot(n, tbl, k)
  <1>1. /\ n \in Nat /\ i \in 0..n - 1 /\ k \in Keys
        /\ tbl[i] \in Keys /\ tbl[i] # NoKey
    <2>1. n \in Nat
      OBVIOUS
    <2> QED
      BY <2>1, NodeTypes
  <1>2. ~IsFull(n, tbl, k)
    BY <1>1, ProbeEnds DEF StopsAt
  <1>3. /\ id \in 0..n - 1
        /\ tbl[id] = NoKey \/ tbl[id] = k
        /\ \A j \in Before(n, k, id) : tbl[j] # NoKey /\ tbl[j] # k
    BY <1>1, <1>2, ProbeEnds DEF StopsAt
  <1>4. tbl[id] = NoKey
    BY <1>3 DEF UniqueIn, Occupied, Table
  <1>5. /\ new = [tbl EXCEPT ![id] = tbl[i], ![i] = NoKey]
        /\ Occupied(new) = (Occupied(tbl) \cup {id}) \ {i}
        /\ Cardinality(Occupied(new)) = Cardinality(Occupied(tbl))
    BY <1>4, RelayoutMoves
  <1>6. i \notin Before(n, k, id)
    BY <1>3
  <1> HIDE DEF id, k
  <1>7. /\ new[id] = tbl[i] /\ new[i] = NoKey
        /\ \A j \in 0..n - 1 : j # id /\ j # i => new[j] = tbl[j]
    BY <1>1, <1>3, <1>4, <1>5 DEF Table
  <1> QED
    BY <1>3, <1>4, <1>5, <1>6, <1>7 DEF id, k

(* HoleIn, of a loop that has visited the slots below a.                   *)
HoleBelow(n, tbl, h, a) ==
  /\ tbl[h] = NoKey
  /\ \A i \in h + 1..a - 1 : tbl[i] # NoKey
  /\ \A j \in Occupied(tbl) : \A i \in Before(n, tbl[j], j) :
       tbl[i] = NoKey => i = h /\ j \notin h + 1..a - 1

HoleUpTo(n, tbl, a) == \E h \in 0..a - 1 : HoleBelow(n, tbl, h, a)

(* A remove empties one slot of a table that was laid out.                 *)
LEMMA RemoveMakesHole ==
  ASSUME Hashed, NEW n \in Nat \ {0}, NEW tbl \in Table(n),
         UniqueIn(tbl), LaidIn(n, tbl), NEW s \in Occupied(tbl)
  PROVE  LET new == [tbl EXCEPT ![s] = NoKey] IN
         /\ HoleBelow(n, new, s, s + 1)
         /\ UniqueIn(new)
         /\ KeysIn(new) = KeysIn(tbl) \ {tbl[s]}
  <1> DEFINE new == [tbl EXCEPT ![s] = NoKey]
             k == tbl[s]
  <1>1. n \in Nat
    OBVIOUS
  <1>2. /\ s \in 0..n - 1 /\ tbl[s] # NoKey /\ k \in Keys
    BY <1>1, NodeTypes
  <1>3. /\ Occupied(new) = Occupied(tbl) \ {s}
        /\ Cardinality(Occupied(tbl) \ {s}) = Cardinality(Occupied(tbl)) - 1
    BY <1>1, <1>2, ClearSlot
  <1>4. /\ new[s] = NoKey
        /\ \A j \in 0..n - 1 : j # s => new[j] = tbl[j]
    BY <1>2 DEF Table
  <1>5. \A j \in Occupied(new) :
          /\ j \in 0..n - 1 /\ j # s /\ j \in Occupied(tbl)
          /\ new[j] = tbl[j] /\ tbl[j] \in Keys
    BY <1>1, <1>3, <1>4, NodeTypes
  <1> HIDE DEF new
  <1>6. HoleBelow(n, new, s, s + 1)
    <2>1. ASSUME NEW j \in Occupied(new), NEW i \in Before(n, new[j], j),
                 new[i] = NoKey
          PROVE  i = s
      <3>1. i \in Before(n, tbl[j], j) /\ i \in 0..n - 1
        BY <1>5, <2>1, BeforeOrder
      <3>2. tbl[i] # NoKey
        BY <1>5, <3>1 DEF LaidIn
      <3> QED
        BY <1>4, <2>1, <3>1, <3>2
    <2>2. s + 1..(s + 1) - 1 = {}
      BY <1>2
    <2> QED
      BY <1>4, <2>1, <2>2 DEF HoleBelow
  <1>7. UniqueIn(new)
    BY <1>5 DEF UniqueIn
  <1>8. KeysIn(new) = KeysIn(tbl) \ {k}
    <2>1. \A j \in Occupied(tbl) : j # s => tbl[j] # k
      BY <1>2 DEF UniqueIn
    <2> QED
      BY <1>3, <1>5, <2>1 DEF KeysIn
  <1> QED
    BY <1>3, <1>6, <1>7, <1>8 DEF new

(* The loop that shifts nodes fills the hole and leaves the next, or       *)
(* passes a node that is found where it is.                                *)
LEMMA ShiftKeepsHole ==
  ASSUME Hashed, NEW n \in Nat \ {0}, NEW tbl \in Table(n),
         UniqueIn(tbl), NEW a \in 0..n - 1, tbl[a] # NoKey,
         NEW h \in 0..a - 1, HoleBelow(n, tbl, h, a),
         NEW new, new = Move(tbl, n, a)
  PROVE  \E g \in 0..a : HoleBelow(n, new, g, a + 1)
  <1> DEFINE k == tbl[a]
             id == Slot(n, tbl, k)
  <1>1. n \in Nat
    OBVIOUS
  <1>2. a \in Occupied(tbl) /\ h \in 0..n - 1
    BY <1>1 DEF Occupied, Table
  <1>3. k \in Keys /\ \A j \in Occupied(tbl) :
                        j \in 0..n - 1 /\ tbl[j] \in Keys
    BY <1>1, <1>2, NodeTypes
  <1>4. ~IsFull(n, tbl, k)
    BY <1>1, <1>3, ProbeEnds DEF StopsAt
  <1>5. /\ id \in 0..n - 1
        /\ \A i \in Before(n, k, id) : tbl[i] # NoKey
    BY <1>3, <1>4, ProbeEnds DEF StopsAt
  <1>6. CASE id = a
    <2>1. new = tbl
      BY <1>6 DEF Move, Slot
    <2>2. \A i \in Before(n, k, a) : tbl[i] # NoKey
      BY <1>5, <1>6
    <2> HIDE DEF id
    <2>3. \A i \in h + 1..(a + 1) - 1 : tbl[i] # NoKey
      BY <1>1 DEF HoleBelow
    <2>4. ASSUME NEW j \in Occupied(tbl), NEW i \in Before(n, tbl[j], j),
                 tbl[i] = NoKey
          PROVE  i = h /\ j \notin h + 1..(a + 1) - 1
      <3>1. i = h /\ j \notin h + 1..a - 1
        BY <2>4 DEF HoleBelow
      <3>2. j # a
        BY <2>2, <2>4
      <3> QED
        BY <1>1, <1>3, <3>1, <3>2
    <2>5. HoleBelow(n, tbl, h, a + 1)
      BY <2>3, <2>4 DEF HoleBelow
    <2> QED
      BY <1>1, <2>1, <2>5
  <1>7. CASE id # a
    <2>1. /\ tbl[id] = NoKey
          /\ a \notin Before(n, k, id)
          /\ Occupied(new) = (Occupied(tbl) \cup {id}) \ {a}
          /\ new[id] = tbl[a] /\ new[a] = NoKey
          /\ \A j \in 0..n - 1 : j # id /\ j # a => new[j] = tbl[j]
      BY <1>2, <1>7, RelayoutSlots
    <2> HIDE DEF id
    <2>2. id \in Before(n, k, a)
      BY <1>3, <1>5, <1>7, <2>1, BeforeOrder
    <2>3. id = h
      BY <1>2, <2>1, <2>2 DEF HoleBelow
    <2>4. ASSUME NEW j \in Occupied(new), NEW i \in Before(n, new[j], j),
                 new[i] = NoKey
          PROVE  i = a
      <3>1. CASE j = id
        <4>1. i \in Before(n, k, id) /\ i \in 0..n - 1 /\ i # id
          BY <1>3, <1>5, <2>1, <2>4, <3>1, BeforeOrder
        <4>2. tbl[i] # NoKey
          BY <1>5, <4>1
        <4> QED
          BY <2>1, <2>4, <4>1, <4>2
      <3>2. CASE j # id
        <4>1. j \in Occupied(tbl) /\ j # a /\ new[j] = tbl[j]
          BY <1>3, <2>1, <2>4, <3>2
        <4>2. i \in 0..n - 1 /\ i \in Before(n, tbl[j], j)
          BY <1>3, <2>4, <4>1, BeforeOrder
        <4>3. i # id
          BY <2>1, <2>4
        <4>4. ASSUME i # a
              PROVE  FALSE
          <5>1. tbl[i] = NoKey
            BY <2>1, <2>4, <4>2, <4>3, <4>4
          <5> QED
            BY <2>3, <4>1, <4>2, <4>3, <5>1 DEF HoleBelow
        <4> QED
          BY <4>4
      <3> QED
        BY <3>1, <3>2
    <2>5. a + 1..(a + 1) - 1 = {}
      BY <1>1
    <2>6. HoleBelow(n, new, a, a + 1)
      BY <2>1, <2>4, <2>5 DEF HoleBelow
    <2> QED
      BY <1>1, <2>6
  <1> QED
    BY <1>6, <1>7

(* At an empty slot the hole separates no node from its home; at the end   *)
(* of the table only if the run of nodes does not continue at slot 0.      *)
LEMMA HoleCloses ==
  ASSUME Hashed, NEW n \in Nat \ {0}, NEW tbl \in Table(n),
         NEW a \in 0..n, NEW h \in 0..a - 1, HoleBelow(n, tbl, h, a),
         a < n => tbl[a] = NoKey,
         a = n => tbl[0] = NoKey
  PROVE  LaidIn(n, tbl)
  <1> SUFFICES ASSUME NEW j \in Occupied(tbl), NEW i \in Before(n, tbl[j], j),
                      tbl[i] = NoKey
               PROVE  FALSE
    BY DEF LaidIn
  <1> DEFINE k == tbl[j]
             end == IF a < n THEN a ELSE 0
  <1>1. n \in Nat
    OBVIOUS
  <1>2. j \in 0..n - 1 /\ tbl[j] # NoKey /\ k \in Keys
    BY <1>1, NodeTypes
  <1>3. Probe(n, k, 0) \in 0..n - 1
    BY <1>2, ProbeSlots
  <1>4. i = h /\ j \notin h + 1..a - 1
    BY DEF HoleBelow
  <1>5. j # h /\ j # end
    BY <1>1, <1>2, <1>4
  <1>6. end \in Before(n, k, j) \/ end = h
    BY <1>1, <1>2, <1>3, <1>4, <1>5 DEF Before
  <1>7. tbl[end] = NoKey
    BY <1>1
  <1>8. end = h
    BY <1>6, <1>7 DEF HoleBelow
  <1> QED
    BY <1>1, <1>2, <1>3, <1>4, <1>5, <1>8 DEF Before

(* A pass of the growth that moved nothing leaves a table laid out.        *)
LEMMA FoundIsLaid ==
  ASSUME Hashed, NEW n \in Nat \ {0}, NEW tbl \in Table(n),
         \A j \in Occupied(tbl) : Slot(n, tbl, tbl[j]) = j
  PROVE  LaidIn(n, tbl)
  <1>1. n \in Nat
    OBVIOUS
  <1>2. ASSUME NEW j \in Occupied(tbl), NEW i \in Before(n, tbl[j], j)
        PROVE  tbl[i] # NoKey
    <2>1. j \in 0..n - 1 /\ tbl[j] \in Keys
      BY <1>1, NodeTypes
    <2>2. ~IsFull(n, tbl, tbl[j])
      BY <2>1, ProbeEnds DEF StopsAt
    <2> QED
      BY <1>2, <2>1, <2>2, ProbeEnds DEF StopsAt
  <1> QED
    BY <1>2 DEF LaidIn

-----------------------------------------------------------------------------
(* A growth finds a place for every node in one pass.                      *)

(* Where a probe for the key of a node begins; and that it ends at the     *)
(* node.                                                                   *)
Home(n, tbl, j) == Probe(n, tbl[j], 0)
FoundAt(n, tbl, j) == \A i \in Before(n, tbl[j], j) : ~StopsAt(tbl, tbl[j], i)

(* A probe wraps if it goes on at slot 0.                                  *)
Wraps(n, tbl, j) == Home(n, tbl, j) > j

(* The first pass in the lower half of the table: the nodes behind it are  *)
(* found, those that wrap come from the upper half; and in the upper half, *)
(* which was empty, nodes lie without gaps.                                *)
InLower(n, half, tbl, i0) ==
  /\ \A j \in Occupied(tbl) : j < i0 =>
       /\ FoundAt(n, tbl, j)
       /\ Wraps(n, tbl, j) => Home(n, tbl, j) >= half
  /\ \A j \in Occupied(tbl) : j >= half =>
       /\ ~Wraps(n, tbl, j)
       /\ \A i \in half..j - 1 : Home(n, tbl, j) <= i => ~StopsAt(tbl, tbl[j], i)

(* In the upper half: if a node wraps, the pass comes to an empty slot g,  *)
(* behind which everything is found, and where everything that wraps has   *)
(* its home.                                                               *)
Beyond(n, tbl, g) ==
  /\ tbl[g] = NoKey
  /\ \A j \in Occupied(tbl) : Wraps(n, tbl, j) => Home(n, tbl, j) > g
  /\ \A j \in Occupied(tbl) : j > g => Home(n, tbl, j) > g /\ FoundAt(n, tbl, j)
InUpper(n, half, tbl, i0) ==
  /\ \A j \in Occupied(tbl) : j < i0 => FoundAt(n, tbl, j)
  /\ \A j \in Occupied(tbl) : j >= half => ~Wraps(n, tbl, j)
  /\ (\E j \in Occupied(tbl) : Wraps(n, tbl, j)) =>
       \E g \in half..2 * half - 1 : Beyond(n, tbl, g)

(* The first pass is at slot i0 of a table of twice half slots.            *)
FirstPass(n, half, tbl, i0) ==
  /\ Cardinality(Occupied(tbl)) <= half
  /\ i0 <= half => InLower(n, half, tbl, i0)
  /\ i0 >= half => InUpper(n, half, tbl, i0)

(* No more than half of the slots are used: not all of the upper half and  *)
(* another.                                                                *)
LEMMA NotCrowded ==
  ASSUME NEW half \in Nat \ {0}, NEW tbl \in Table(2 * half),
         Cardinality(Occupied(tbl)) <= half, NEW i \in Occupied(tbl), i < half
  PROVE  \E g \in half..2 * half - 1 : tbl[g] = NoKey
  <1> SUFFICES ASSUME \A g \in half..2 * half - 1 : tbl[g] # NoKey
               PROVE  FALSE
    OBVIOUS
  <1>1. 2 * half \in Nat /\ half \in Int /\ 2 * half - 1 \in Int
    OBVIOUS
  <1>2. IsFiniteSet(Occupied(tbl)) /\ Cardinality(Occupied(tbl)) \in Nat
    BY <1>1, OccupiedFinite
  <1>3. half..2 * half - 1 \subseteq Occupied(tbl)
    BY DEF Occupied, Table
  <1>4. IsFiniteSet(half..2 * half - 1) /\ Cardinality(half..2 * half - 1) = half
    <2>1. Cardinality(half..2 * half - 1) =
            IF half > 2 * half - 1 THEN 0 ELSE 2 * half - 1 - half + 1
      BY <1>1, FS_Interval
    <2> QED
      BY <1>1, <2>1, FS_Interval
  <1>5. i \notin half..2 * half - 1
    <2>1. i \in 0..2 * half - 1
      BY <1>1, OccupiedFinite
    <2> QED
      BY <2>1
  <1>6. Cardinality((half..2 * half - 1) \cup {i}) = half + 1
    BY <1>4, <1>5, FS_AddElement
  <1>7. (half..2 * half - 1) \cup {i} \subseteq Occupied(tbl)
    BY <1>3
  <1>8. Cardinality((half..2 * half - 1) \cup {i}) <= Cardinality(Occupied(tbl))
    BY <1>2, <1>7, FS_Subset
  <1> QED
    BY <1>2, <1>6, <1>8

(* The slots before one, by where the home is.                             *)
LEMMA BeforeSlots ==
  ASSUME Hashed, NEW n \in Nat \ {0}, NEW tbl \in Table(n),
         NEW j \in Occupied(tbl)
  PROVE  /\ j \in 0..n - 1 /\ tbl[j] \in Keys /\ n \in Nat
         /\ Home(n, tbl, j) \in 0..n - 1
         /\ ~Wraps(n, tbl, j) => Before(n, tbl[j], j) = Home(n, tbl, j)..j - 1
         /\ Wraps(n, tbl, j) => Before(n, tbl[j], j) =
                               (Home(n, tbl, j)..n - 1) \cup (0..j - 1)
  <1>1. n \in Nat
    OBVIOUS
  <1>2. j \in 0..n - 1 /\ tbl[j] \in Keys
    BY <1>1, NodeTypes
  <1>3. Probe(n, tbl[j], 0) \in 0..n - 1
    BY <1>2, ProbeSlots
  <1>4. Wraps(n, tbl, j) <=> ~(Probe(n, tbl[j], 0) <= j)
    BY <1>2, <1>3 DEF Wraps, Home
  <1> QED
    BY <1>1, <1>2, <1>3, <1>4 DEF Before, Home

(* Where a relayout puts a node: no later than where the node was, and     *)
(* where it is found; and no key is lost from a slot but that of the node. *)
Moves(n, tbl, new, i, id) ==
  /\ id # i /\ id \in Before(n, tbl[i], i) /\ StopsAt(tbl, tbl[i], id)
  /\ Occupied(new) = (Occupied(tbl) \cup {id}) \ {i}
  /\ new[id] = tbl[i]
  /\ \A j \in Occupied(tbl) : j # i /\ j # id => new[j] = tbl[j]
  /\ \A j \in 0..n - 1 : j # i /\ j # id => new[j] = tbl[j]
  /\ \A q, m : m \in 0..n - 1 /\ m # i /\ ~StopsAt(tbl, q, m) => ~StopsAt(new, q, m)
  /\ \A m \in Before(n, tbl[i], id) : m # i /\ ~StopsAt(tbl, tbl[i], m)
  /\ FoundAt(n, new, id)

LEMMA RelayoutFinds ==
  ASSUME Hashed, NEW n \in Nat \ {0}, NEW tbl \in Table(n),
         NEW i \in Occupied(tbl), NEW new, new = Move(tbl, n, i)
  PROVE  \/ new = tbl /\ FoundAt(n, tbl, i)
         \/ \E id : Moves(n, tbl, new, i, id)
  <1>1. PICK k : k = tbl[i]
    OBVIOUS
  <1>2. PICK id : id = Slot(n, tbl, k)
    OBVIOUS
  <1>3. /\ n \in Nat /\ i \in 0..n - 1 /\ k \in Keys
        /\ tbl[i] \in Keys /\ tbl[i] # NoKey
    <2>1. n \in Nat
      OBVIOUS
    <2> QED
      BY <1>1, <2>1, NodeTypes
  <1>4. ~IsFull(n, tbl, k)
    BY <1>1, <1>3, ProbeEnds DEF StopsAt
  <1>5. /\ id \in 0..n - 1 /\ StopsAt(tbl, k, id)
        /\ \A m \in Before(n, k, id) : ~StopsAt(tbl, k, m)
    BY <1>2, <1>3, <1>4, ProbeEnds
  <1>6. i \notin Before(n, k, id)
    BY <1>1, <1>5 DEF StopsAt
  <1>7. CASE id = i
    <2>1. new = tbl
      BY <1>1, <1>2, <1>7 DEF Move, Slot
    <2> QED
      BY <1>1, <1>5, <1>7, <2>1 DEF FoundAt
  <1>8. CASE id # i
    <2>1. id \in Before(n, k, i)
      BY <1>3, <1>5, <1>6, <1>8, BeforeOrder
    <2>2. /\ new = [tbl EXCEPT ![id] = tbl[i], ![i] = NoKey]
          /\ Occupied(new) = (Occupied(tbl) \cup {id}) \ {i}
      BY <1>1, <1>2, <1>8, RelayoutMoves
    <2>3. /\ new[id] = tbl[i]
          /\ \A j \in 0..n - 1 : j # i /\ j # id => new[j] = tbl[j]
      BY <1>3, <1>5, <1>8, <2>2 DEF Table
    <2>4. ASSUME NEW q, NEW m \in 0..n - 1, m # i, ~StopsAt(tbl, q, m)
          PROVE  ~StopsAt(new, q, m)
      <3>1. CASE m = id
        <4>1. k # q /\ new[id] = k
          BY <1>1, <1>5, <2>3, <2>4, <3>1 DEF StopsAt
        <4> QED
          BY <1>3, <2>3, <3>1, <4>1 DEF StopsAt
      <3>2. CASE m # id
        BY <2>3, <2>4, <3>2 DEF StopsAt
      <3> QED
        BY <3>1, <3>2
    <2>5. Before(n, k, id) \subseteq 0..n - 1
      BY <1>3, <1>5, BeforeOrder
    <2>6. \A m \in Before(n, k, id) : ~StopsAt(new, k, m)
      BY <1>5, <1>6, <2>4, <2>5
    <2>7. FoundAt(n, new, id)
      BY <1>1, <2>3, <2>6 DEF FoundAt
    <2>8. Occupied(tbl) \subseteq 0..n - 1
      BY <1>3, OccupiedFinite
    <2>9. \A m \in Before(n, k, id) : m # i /\ ~StopsAt(tbl, k, m)
      BY <1>5, <1>6
    <2>10. Moves(n, tbl, new, i, id)
      BY <1>1, <1>5, <1>8, <2>1, <2>2, <2>3, <2>4, <2>7, <2>8, <2>9 DEF Moves
    <2> QED
      BY <2>10
  <1> QED
    BY <1>7, <1>8

(* A node that was found stays so unless the slot that is emptied is       *)
(* before it.                                                              *)
LEMMA StaysFound ==
  ASSUME Hashed, NEW n \in Nat \ {0}, NEW tbl \in Table(n),
         NEW i \in Occupied(tbl), NEW new, NEW id, Moves(n, tbl, new, i, id),
         NEW j \in Occupied(tbl), j # i, j # id, FoundAt(n, tbl, j),
         i \notin Before(n, tbl[j], j)
  PROVE  FoundAt(n, new, j)
  <1>1. new[j] = tbl[j]
    BY DEF Moves
  <1>2. Before(n, tbl[j], j) \subseteq 0..n - 1
    <2>1. j \in 0..n - 1 /\ tbl[j] \in Keys
      BY BeforeSlots
    <2> QED
      BY <2>1, BeforeOrder
  <1>3. PICK k : k = tbl[j]
    OBVIOUS
  <1>4. ASSUME NEW m \in Before(n, k, j) PROVE ~StopsAt(new, k, m)
    <2>1. m \in 0..n - 1 /\ m # i /\ ~StopsAt(tbl, k, m)
      BY <1>2, <1>3, <1>4 DEF FoundAt
    <2> QED
      BY <2>1 DEF Moves
  <1> QED
    BY <1>1, <1>3, <1>4 DEF FoundAt

(* The new home of the node that was moved.                                *)
LEMMA MovedHome ==
  ASSUME Hashed, NEW n \in Nat \ {0}, NEW tbl \in Table(n),
         NEW i \in Occupied(tbl), NEW new \in Table(n), NEW id, Moves(n, tbl, new, i, id)
  PROVE  /\ id \in Occupied(new) /\ id \in 0..n - 1
         /\ Home(n, new, id) = Home(n, tbl, i) /\ new[id] = tbl[i]
         /\ \A j \in Occupied(new) : j # id =>
              /\ j \in Occupied(tbl) /\ j # i /\ new[j] = tbl[j]
              /\ Home(n, new, j) = Home(n, tbl, j) /\ (Wraps(n, new, j) <=> Wraps(n, tbl, j))
  <1>1. id \in Occupied(new) /\ new[id] = tbl[i]
    BY DEF Moves
  <1>2. id \in 0..n - 1
    BY <1>1, BeforeSlots
  <1>3. ASSUME NEW j \in Occupied(new), j # id
        PROVE  j \in Occupied(tbl) /\ j # i /\ new[j] = tbl[j]
    BY <1>3 DEF Moves
  <1> QED
    BY <1>1, <1>2, <1>3 DEF Home, Wraps

(* A visit in the lower half.                                              *)
LEMMA LowerVisit ==
  ASSUME Hashed, NEW half \in Nat \ {0}, NEW n \in Nat, n = 2 * half,
         NEW tbl \in Table(n), Cardinality(Occupied(tbl)) <= half,
         NEW i \in Occupied(tbl), i < half, InLower(n, half, tbl, i),
         NEW new \in Table(n), new = Move(tbl, n, i)
  PROVE  InLower(n, half, new, i + 1)
  <1>1. n > 0 /\ n \in Nat /\ i \in 0..n - 1
    <2>1. n > 0
      OBVIOUS
    <2> QED
      BY <2>1, BeforeSlots
  <1>2. PICK g \in half..2 * half - 1 : tbl[g] = NoKey
    BY NotCrowded
  <1>3. /\ tbl[i] \in Keys /\ Home(n, tbl, i) \in 0..n - 1
        /\ ~Wraps(n, tbl, i) => Before(n, tbl[i], i) = Home(n, tbl, i)..i - 1
        /\ Wraps(n, tbl, i) => Before(n, tbl[i], i) =
                              (Home(n, tbl, i)..n - 1) \cup (0..i - 1)
    BY <1>1, BeforeSlots
  <1>4. CASE new = tbl /\ FoundAt(n, tbl, i)
    <2>1. Wraps(n, tbl, i) => Home(n, tbl, i) >= half
      <3>1. SUFFICES ASSUME Wraps(n, tbl, i), Home(n, tbl, i) < half PROVE FALSE
        BY <1>3
      <3>2. g \in Before(n, tbl[i], i)
        BY <1>1, <1>3, <3>1
      <3> QED
        BY <1>2, <1>4, <3>2 DEF FoundAt, StopsAt
    <2>2. ASSUME NEW j \in Occupied(tbl), j < i + 1
          PROVE  FoundAt(n, tbl, j) /\ (Wraps(n, tbl, j) => Home(n, tbl, j) >= half)
      <3>1. j \in 0..n - 1
        BY <1>1, BeforeSlots
      <3>2. j = i \/ j < i
        BY <1>1, <2>2, <3>1
      <3> QED
        BY <1>4, <2>1, <3>2 DEF InLower
    <2> QED
      BY <1>4, <2>2 DEF InLower
  <1>5. ASSUME NEW id, Moves(n, tbl, new, i, id)
        PROVE  InLower(n, half, new, i + 1)
    <2>1. /\ id \in Occupied(new) /\ id \in 0..n - 1
          /\ Home(n, new, id) = Home(n, tbl, i) /\ new[id] = tbl[i]
          /\ \A j \in Occupied(new) : j # id =>
               /\ j \in Occupied(tbl) /\ j # i /\ new[j] = tbl[j]
               /\ Home(n, new, j) = Home(n, tbl, j) /\ (Wraps(n, new, j) <=> Wraps(n, tbl, j))
      BY <1>1, <1>5, MovedHome
    <2>2. /\ ~Wraps(n, new, id) => Before(n, tbl[i], id) = Home(n, tbl, i)..id - 1
          /\ Wraps(n, new, id) => Before(n, tbl[i], id) =
                                 (Home(n, tbl, i)..n - 1) \cup (0..id - 1)
      BY <1>1, <2>1, BeforeSlots
    <2>3. /\ id \in Before(n, tbl[i], i) /\ id # i /\ FoundAt(n, new, id)
          /\ \A m \in Before(n, tbl[i], id) : m # i /\ ~StopsAt(tbl, tbl[i], m)
          /\ \A q, m : m \in 0..n - 1 /\ m # i /\ ~StopsAt(tbl, q, m)
                         => ~StopsAt(new, q, m)
      BY <1>5 DEF Moves
    <2>4. Wraps(n, new, id) => Home(n, new, id) >= half
      <3>1. SUFFICES ASSUME Wraps(n, new, id), Home(n, tbl, i) < half PROVE FALSE
        BY <1>3, <2>1
      <3>2. g \in Before(n, tbl[i], id)
        BY <1>1, <1>3, <2>2, <3>1
      <3> QED
        BY <1>2, <2>3, <3>2 DEF StopsAt
    <2>5. ASSUME NEW j \in Occupied(new), j < i + 1
          PROVE  FoundAt(n, new, j) /\ (Wraps(n, new, j) => Home(n, new, j) >= half)
      <3>1. CASE j = id
        BY <2>3, <2>4, <3>1
      <3>2. CASE j # id
        <4>1. /\ j \in Occupied(tbl) /\ j # i /\ Home(n, new, j) = Home(n, tbl, j)
              /\ (Wraps(n, new, j) <=> Wraps(n, tbl, j))
          BY <2>1, <3>2
        <4>2. /\ j \in 0..n - 1 /\ Home(n, tbl, j) \in 0..n - 1
              /\ ~Wraps(n, tbl, j) => Before(n, tbl[j], j) = Home(n, tbl, j)..j - 1
              /\ Wraps(n, tbl, j) => Before(n, tbl[j], j) =
                                    (Home(n, tbl, j)..n - 1) \cup (0..j - 1)
          BY <1>1, <4>1, BeforeSlots
        <4>3. j < i
          BY <1>1, <2>5, <4>1, <4>2
        <4>4. FoundAt(n, tbl, j) /\ (Wraps(n, tbl, j) => Home(n, tbl, j) >= half)
          BY <4>1, <4>3 DEF InLower
        <4>5. i \notin Before(n, tbl[j], j)
          BY <1>1, <4>2, <4>3, <4>4
        <4>6. FoundAt(n, new, j)
          BY <1>1, <1>5, <3>2, <4>1, <4>4, <4>5, StaysFound
        <4> QED
          BY <4>1, <4>4, <4>6
      <3> QED
        BY <3>1, <3>2
    <2>6. ASSUME NEW j \in Occupied(new), j >= half
          PROVE  /\ ~Wraps(n, new, j)
                 /\ \A m \in half..j - 1 : Home(n, new, j) <= m => ~StopsAt(new, new[j], m)
      <3>1. CASE j = id
        <4>1. Wraps(n, tbl, i) /\ id \in Home(n, tbl, i)..n - 1
          BY <1>1, <1>3, <2>1, <2>3, <2>6, <3>1
        <4>2. ~Wraps(n, new, id)
          BY <1>1, <1>3, <2>1, <4>1 DEF Wraps
        <4>3. ASSUME NEW m \in half..id - 1, Home(n, tbl, i) <= m
              PROVE  ~StopsAt(new, tbl[i], m)
          <5>1. m \in Before(n, tbl[i], id) /\ m \in 0..n - 1
            BY <1>1, <1>3, <2>1, <2>2, <4>2, <4>3
          <5> QED
            BY <2>3, <5>1
        <4> QED
          BY <2>1, <3>1, <4>2, <4>3
      <3>2. CASE j # id
        <4>1. /\ j \in Occupied(tbl) /\ new[j] = tbl[j] /\ Home(n, new, j) = Home(n, tbl, j)
              /\ (Wraps(n, new, j) <=> Wraps(n, tbl, j))
          BY <2>1, <3>2
        <4>2. j \in 0..n - 1
          BY <1>1, <4>1, BeforeSlots
        <4>3. ASSUME NEW m \in half..j - 1, Home(n, tbl, j) <= m
              PROVE  ~StopsAt(new, tbl[j], m)
          <5>1. m \in 0..n - 1 /\ m # i
            BY <1>1, <4>2
          <5>2. ~StopsAt(tbl, tbl[j], m)
            BY <2>6, <4>1, <4>3 DEF InLower
          <5> QED
            BY <2>3, <5>1, <5>2
        <4> QED
          BY <2>6, <4>1, <4>3 DEF InLower
      <3> QED
        BY <3>1, <3>2
    <2> QED
      BY <2>5, <2>6 DEF InLower
  <1> QED
    BY <1>1, <1>4, <1>5, RelayoutFinds

(* The pass goes on to the upper half.                                     *)
LEMMA HalfWay ==
  ASSUME Hashed, NEW half \in Nat \ {0}, NEW n \in Nat, n = 2 * half,
         NEW tbl \in Table(n), Cardinality(Occupied(tbl)) <= half,
         InLower(n, half, tbl, half)
  PROVE  InUpper(n, half, tbl, half)
  <1>1. n > 0 /\ n \in Nat
    OBVIOUS
  <1>2. ASSUME NEW w \in Occupied(tbl), Wraps(n, tbl, w)
        PROVE  \E g \in half..2 * half - 1 : Beyond(n, tbl, g)
    <2>1. w \in 0..n - 1
      BY <1>1, BeforeSlots
    <2>2. w < half
      BY <1>1, <1>2, <2>1 DEF InLower
    <2>3. PICK g \in half..2 * half - 1 : tbl[g] = NoKey
      BY <2>2, NotCrowded
    <2>4. ASSUME NEW j \in Occupied(tbl)
          PROVE  /\ j \in 0..n - 1 /\ Home(n, tbl, j) \in 0..n - 1
                 /\ ~Wraps(n, tbl, j) => Before(n, tbl[j], j) = Home(n, tbl, j)..j - 1
                 /\ Wraps(n, tbl, j) => Before(n, tbl[j], j) =
                                       (Home(n, tbl, j)..n - 1) \cup (0..j - 1)
      BY <1>1, BeforeSlots
    <2>5. ASSUME NEW j \in Occupied(tbl), Wraps(n, tbl, j)
          PROVE  Home(n, tbl, j) > g
      <3>1. j < half
        BY <1>1, <2>4, <2>5 DEF InLower
      <3>2. FoundAt(n, tbl, j) /\ Home(n, tbl, j) >= half
        BY <2>5, <3>1 DEF InLower
      <3>3. g \notin Before(n, tbl[j], j)
        BY <2>3, <3>2 DEF FoundAt, StopsAt
      <3>4. /\ Home(n, tbl, j) \in 0..n - 1
            /\ Before(n, tbl[j], j) = (Home(n, tbl, j)..n - 1) \cup (0..j - 1)
        BY <2>4, <2>5
      <3>5. g \in 0..n - 1
        BY <1>1, <2>3
      <3> QED
        BY <3>3, <3>4, <3>5
    <2>6. ASSUME NEW j \in Occupied(tbl), j > g
          PROVE  Home(n, tbl, j) > g /\ FoundAt(n, tbl, j)
      <3>1. j >= half
        BY <2>4, <2>6
      <3>2. /\ ~Wraps(n, tbl, j)
            /\ \A i \in half..j - 1 : Home(n, tbl, j) <= i => ~StopsAt(tbl, tbl[j], i)
        BY <3>1 DEF InLower
      <3>3. Home(n, tbl, j) > g
        <4>1. g \in half..j - 1
          BY <2>4, <2>6
        <4>2. ~(Home(n, tbl, j) <= g)
          BY <2>3, <3>2, <4>1 DEF StopsAt
        <4> QED
          BY <2>4, <4>2
      <3>4. ASSUME NEW m \in Before(n, tbl[j], j) PROVE ~StopsAt(tbl, tbl[j], m)
        <4>1. m \in half..j - 1 /\ Home(n, tbl, j) <= m
          BY <2>4, <3>2, <3>3, <3>4
        <4> QED
          BY <3>2, <4>1
      <3> QED
        BY <3>3, <3>4 DEF FoundAt
    <2>7. Beyond(n, tbl, g)
      BY <2>3, <2>5, <2>6 DEF Beyond
    <2> QED
      BY <2>7
  <1> QED
    BY <1>2 DEF InLower, InUpper

(* A visit in the upper half.                                              *)
LEMMA UpperVisit ==
  ASSUME Hashed, NEW half \in Nat \ {0}, NEW n \in Nat, n = 2 * half,
         NEW tbl \in Table(n),
         NEW i \in Occupied(tbl), i >= half, InUpper(n, half, tbl, i),
         NEW new \in Table(n), new = Move(tbl, n, i)
  PROVE  InUpper(n, half, new, i + 1)
  <1>1. n > 0 /\ n \in Nat /\ i \in 0..n - 1
    <2>1. n > 0
      OBVIOUS
    <2> QED
      BY <2>1, BeforeSlots
  <1>2. ~Wraps(n, tbl, i)
    BY DEF InUpper
  <1>3. /\ tbl[i] \in Keys /\ Home(n, tbl, i) \in 0..n - 1
        /\ Before(n, tbl[i], i) = Home(n, tbl, i)..i - 1
    BY <1>1, <1>2, BeforeSlots
  <1>4. CASE new = tbl /\ FoundAt(n, tbl, i)
    <2>1. ASSUME NEW j \in Occupied(tbl), j < i + 1 PROVE FoundAt(n, tbl, j)
      <3>1. j \in 0..n - 1
        BY <1>1, BeforeSlots
      <3>2. j = i \/ j < i
        BY <1>1, <2>1, <3>1
      <3> QED
        BY <1>4, <3>2 DEF InUpper
    <2> QED
      BY <1>4, <2>1 DEF InUpper
  <1>5. ASSUME NEW id, Moves(n, tbl, new, i, id)
        PROVE  InUpper(n, half, new, i + 1)
    <2>1. /\ id \in Occupied(new) /\ id \in 0..n - 1
          /\ Home(n, new, id) = Home(n, tbl, i) /\ new[id] = tbl[i]
          /\ \A j \in Occupied(new) : j # id =>
               /\ j \in Occupied(tbl) /\ j # i /\ new[j] = tbl[j]
               /\ Home(n, new, j) = Home(n, tbl, j) /\ (Wraps(n, new, j) <=> Wraps(n, tbl, j))
      BY <1>1, <1>5, MovedHome
    <2>2. id \in Before(n, tbl[i], i) /\ id # i /\ FoundAt(n, new, id)
      BY <1>5 DEF Moves
    <2>3. id < i /\ ~Wraps(n, new, id)
      BY <1>1, <1>3, <2>1, <2>2 DEF Wraps
    <2>4. ~FoundAt(n, tbl, i)
      BY <1>5, <2>2 DEF Moves, FoundAt
    <2>5. ASSUME NEW j \in Occupied(tbl)
          PROVE  /\ j \in 0..n - 1 /\ Home(n, tbl, j) \in 0..n - 1
                 /\ ~Wraps(n, tbl, j) => Before(n, tbl[j], j) = Home(n, tbl, j)..j - 1
                 /\ Wraps(n, tbl, j) => Before(n, tbl[j], j) =
                                       (Home(n, tbl, j)..n - 1) \cup (0..j - 1)
      BY <1>1, BeforeSlots
    <2>6. ASSUME NEW g \in half..2 * half - 1, Beyond(n, tbl, g) PROVE i < g
      <3>1. i # g
        BY <1>1, <2>6, NodeTypes DEF Beyond
      <3>2. ~(i > g)
        BY <2>4, <2>6 DEF Beyond
      <3> QED
        BY <1>1, <3>1, <3>2
    <2>7. ASSUME NEW j \in Occupied(new), j < i + 1
          PROVE  FoundAt(n, new, j)
      <3>1. CASE j = id
        BY <2>2, <3>1
      <3>2. CASE j # id
        <4>1. j \in Occupied(tbl) /\ j # i /\ (Wraps(n, new, j) <=> Wraps(n, tbl, j))
          BY <2>1, <3>2
        <4>2. j < i
          BY <1>1, <2>5, <2>7, <4>1
        <4>3. FoundAt(n, tbl, j)
          BY <4>1, <4>2 DEF InUpper
        <4>4. i \notin Before(n, tbl[j], j)
          <5>1. CASE ~Wraps(n, tbl, j)
            BY <1>1, <2>5, <4>1, <4>2, <5>1
          <5>2. CASE Wraps(n, tbl, j)
            <6>1. PICK g \in half..2 * half - 1 : Beyond(n, tbl, g)
              BY <4>1, <5>2 DEF InUpper
            <6>2. i < g /\ Home(n, tbl, j) > g
              BY <2>6, <4>1, <5>2, <6>1 DEF Beyond
            <6>3. /\ j \in 0..n - 1 /\ Home(n, tbl, j) \in 0..n - 1
                  /\ Before(n, tbl[j], j) = (Home(n, tbl, j)..n - 1) \cup (0..j - 1)
              BY <2>5, <4>1, <5>2
            <6>4. i \notin Home(n, tbl, j)..n - 1 /\ i \notin 0..j - 1
              BY <1>1, <4>2, <6>2, <6>3
            <6> QED
              BY <6>3, <6>4
          <5> QED
            BY <5>1, <5>2
        <4> QED
          BY <1>1, <1>5, <3>2, <4>1, <4>3, <4>4, StaysFound
      <3> QED
        BY <3>1, <3>2
    <2>8. \A j \in Occupied(new) : j >= half => ~Wraps(n, new, j)
      BY <2>1, <2>3 DEF InUpper
    <2>9. ASSUME NEW w \in Occupied(new), Wraps(n, new, w)
          PROVE  \E g \in half..2 * half - 1 : Beyond(n, new, g)
      <3>1. w \in Occupied(tbl) /\ Wraps(n, tbl, w)
        BY <2>1, <2>3, <2>9
      <3>2. PICK g \in half..2 * half - 1 : Beyond(n, tbl, g)
        BY <3>1 DEF InUpper
      <3>3. i < g /\ g \in 0..n - 1
        BY <1>1, <2>6, <3>2
      <3>4. new[g] = NoKey
        <4>1. g # i /\ g # id
          BY <1>1, <2>1, <2>3, <3>3
        <4> QED
          BY <1>5, <3>2, <3>3, <4>1 DEF Moves, Beyond
      <3>5. \A j \in Occupied(new) : Wraps(n, new, j) => Home(n, new, j) > g
        BY <2>1, <2>3, <3>2 DEF Beyond
      <3>6. ASSUME NEW j \in Occupied(new), j > g
            PROVE  Home(n, new, j) > g /\ FoundAt(n, new, j)
        <4>1. j # id
          BY <1>1, <2>1, <2>3, <3>3, <3>6
        <4>2. j \in Occupied(tbl) /\ j # i /\ Home(n, new, j) = Home(n, tbl, j)
          BY <2>1, <4>1
        <4>3. Home(n, tbl, j) > g /\ FoundAt(n, tbl, j)
          BY <3>2, <3>6, <4>2 DEF Beyond
        <4>4. ~Wraps(n, tbl, j)
          BY <2>5, <3>6, <4>2 DEF InUpper
        <4>5. i \notin Before(n, tbl[j], j)
          BY <1>1, <2>5, <3>3, <4>2, <4>3, <4>4
        <4>6. FoundAt(n, new, j)
          BY <1>1, <1>5, <4>1, <4>2, <4>3, <4>5, StaysFound
        <4> QED
          BY <4>2, <4>3, <4>6
      <3>7. Beyond(n, new, g)
        BY <3>4, <3>5, <3>6 DEF Beyond
      <3> QED
        BY <3>7
    <2> QED
      BY <2>7, <2>8, <2>9 DEF InUpper
  <1> QED
    BY <1>1, <1>4, <1>5, RelayoutFinds

(* A visit of the first pass, whatever is in the slot.                     *)
LEMMA FirstPassVisit ==
  ASSUME Hashed, NEW half \in Nat \ {0}, NEW n \in Nat, n = 2 * half,
         NEW tbl \in Table(n), NEW i \in 0..n - 1,
         FirstPass(n, half, tbl, i), NEW new,
         new = IF tbl[i] = NoKey THEN tbl ELSE Move(tbl, n, i)
  PROVE  FirstPass(n, half, new, i + 1)
  <1>1. n > 0 /\ n \in Nat /\ Cardinality(Occupied(tbl)) <= half
    BY DEF FirstPass
  <1>2. /\ i < half => InLower(n, half, tbl, i)
        /\ i >= half => InUpper(n, half, tbl, i)
    BY <1>1 DEF FirstPass
  <1>3. /\ new \in Table(n) /\ Cardinality(Occupied(new)) <= half
        /\ i < half => InLower(n, half, new, i + 1)
        /\ i >= half => InUpper(n, half, new, i + 1)
    <2>1. CASE tbl[i] = NoKey
      <3>1. new = tbl
        BY <2>1
      <3>2. \A j \in Occupied(tbl) : j < i + 1 => j < i
        <4>1. i \notin Occupied(tbl) /\ Occupied(tbl) \subseteq 0..n - 1
          BY <1>1, <2>1, OccupiedFinite DEF Occupied
        <4> QED
          BY <1>1, <4>1
      <3>3. InLower(n, half, tbl, i) => InLower(n, half, tbl, i + 1)
        BY <3>2 DEF InLower
      <3>4. InUpper(n, half, tbl, i) => InUpper(n, half, tbl, i + 1)
        BY <3>2 DEF InUpper
      <3> QED
        BY <1>1, <1>2, <3>1, <3>3, <3>4
    <2>2. CASE tbl[i] # NoKey
      <3>1. i \in Occupied(tbl) /\ new = Move(tbl, n, i)
        BY <1>1, <2>2 DEF Occupied, Table
      <3>2. /\ new \in Table(n)
            /\ Cardinality(Occupied(new)) <= Cardinality(Occupied(tbl))
        BY <1>1, <3>1, RelayoutMoves
      <3>3. Cardinality(Occupied(new)) \in Nat /\ Cardinality(Occupied(tbl)) \in Nat
        BY <1>1, <3>2, OccupiedFinite
      <3>4. Cardinality(Occupied(new)) <= half
        BY <1>1, <3>2, <3>3
      <3>5. i < half => InLower(n, half, new, i + 1)
        BY <1>1, <1>2, <3>1, <3>2, LowerVisit
      <3>6. i >= half => InUpper(n, half, new, i + 1)
        BY <1>1, <1>2, <3>1, <3>2, UpperVisit
      <3> QED
        BY <3>2, <3>4, <3>5, <3>6
    <2> QED
      BY <2>1, <2>2
  <1>4. i + 1 = half => InUpper(n, half, new, i + 1)
    <2> SUFFICES ASSUME i + 1 = half PROVE InUpper(n, half, new, half)
      OBVIOUS
    <2>1. InLower(n, half, new, half)
      BY <1>3
    <2> QED
      BY <1>3, <2>1, HalfWay
  <1> QED
    BY <1>1, <1>3, <1>4 DEF FirstPass

-----------------------------------------------------------------------------
(* Tables where every node is found.                                       *)

Finds(n, tbl) == \A j \in Occupied(tbl) : FoundAt(n, tbl, j)

(* There a key has one node.                                               *)
LEMMA FoundOnce ==
  ASSUME Hashed, NEW n \in Nat \ {0}, NEW tbl \in Table(n), Finds(n, tbl)
  PROVE  UniqueIn(tbl) /\ LaidIn(n, tbl)
  <1>1. ASSUME NEW j \in Occupied(tbl)
        PROVE  j \in 0..n - 1 /\ tbl[j] \in Keys
    BY BeforeSlots
  <1>2. LaidIn(n, tbl)
    BY DEF Finds, FoundAt, StopsAt, LaidIn
  <1>3. ASSUME NEW i \in Occupied(tbl), NEW j \in Occupied(tbl), tbl[i] = tbl[j]
        PROVE  i = j
    <2>1. i \notin Before(n, tbl[j], j) /\ j \notin Before(n, tbl[i], i)
      BY <1>3 DEF Finds, FoundAt, StopsAt
    <2> QED
      BY <1>1, <1>3, <2>1, BeforeOrder
  <1> QED
    BY <1>2, <1>3 DEF UniqueIn

(* And the reverse.                                                        *)
LEMMA LaidFinds ==
  ASSUME Hashed, NEW n \in Nat \ {0}, NEW tbl \in Table(n), UniqueIn(tbl), LaidIn(n, tbl)
  PROVE  Finds(n, tbl)
  <1> SUFFICES ASSUME NEW j \in Occupied(tbl), NEW i \in Before(n, tbl[j], j)
               PROVE  ~StopsAt(tbl, tbl[j], i)
    BY DEF Finds, FoundAt
  <1>1. j \in 0..n - 1 /\ tbl[j] \in Keys
    BY BeforeSlots
  <1>2. i \in 0..n - 1 /\ i # j
    BY <1>1, BeforeOrder
  <1>3. tbl[i] # NoKey
    BY DEF LaidIn
  <1>4. i \in Occupied(tbl)
    BY <1>2, <1>3 DEF Occupied, Table
  <1> QED
    BY <1>2, <1>3, <1>4 DEF UniqueIn, StopsAt

(* As many nodes as keys.                                                  *)
LEMMA NodesAreKeys ==
  ASSUME NEW n \in Nat, NEW tbl \in Table(n), UniqueIn(tbl)
  PROVE  Cardinality(Occupied(tbl)) = Cardinality(KeysIn(tbl))
  <1> DEFINE f == [j \in Occupied(tbl) |-> tbl[j]]
  <1>1. f \in Bijection(Occupied(tbl), KeysIn(tbl))
    <2>1. f \in [Occupied(tbl) -> KeysIn(tbl)]
      BY DEF KeysIn
    <2>2. \A i, j \in Occupied(tbl) : f[i] = f[j] => i = j
      BY DEF UniqueIn
    <2>3. \A k \in KeysIn(tbl) : \E j \in Occupied(tbl) : f[j] = k
      BY DEF KeysIn
    <2> HIDE DEF f
    <2> QED
      BY <2>1, <2>2, <2>3 DEF Bijection, Injection, Surjection, IsInjective
  <1>2. ExistsBijection(Occupied(tbl), KeysIn(tbl))
    BY <1>1 DEF ExistsBijection
  <1>3. IsFiniteSet(Occupied(tbl))
    BY OccupiedFinite
  <1> QED
    BY <1>2, <1>3, FS_Bijection

(* What set_contains says of a key.                                        *)
LEMMA ContainsSays ==
  ASSUME Hashed, NEW n \in Nat \ {0}, NEW tbl \in Table(n), NEW k \in Keys
  PROVE  LET found == GetIndex(tbl, n, k) IN
         /\ found.rc \in {"true", "false", "circular"}
         /\ found.index \in 0..n - 1
         /\ found.rc = "true" => found.index \in Occupied(tbl) /\ tbl[found.index] = k
         /\ found.rc = "false" => /\ tbl[found.index] = NoKey
                                  /\ \A i \in Before(n, k, found.index) : ~StopsAt(tbl, k, i)
         /\ found.rc = "circular" => Occupied(tbl) = 0..n - 1
         /\ found.rc = "true" => k \in KeysIn(tbl)
         /\ Finds(n, tbl) => (found.rc = "true" <=> k \in KeysIn(tbl))
  <1> DEFINE found == GetIndex(tbl, n, k)
  <1>1. /\ found.index \in 0..n - 1
        /\ found.rc = "circular" => \A i \in 0..n - 1 : ~StopsAt(tbl, k, i)
        /\ found.rc # "circular" =>
             /\ StopsAt(tbl, k, found.index)
             /\ \A i \in Before(n, k, found.index) : ~StopsAt(tbl, k, i)
    BY ProbeEnds DEF Slot, IsFull
  <1>2. /\ found.rc \in {"true", "false", "circular"}
        /\ found.rc # "circular" => (found.rc = "true" <=> tbl[found.index] = k)
    BY DEF GetIndex
  <1> HIDE DEF found
  <1>3. \A i \in 0..n - 1 : i \in Occupied(tbl) <=> tbl[i] # NoKey
    BY DEF Occupied, Table
  <1>4. k # NoKey
    BY NodeIsNode
  <1>5. found.rc = "true" => found.index \in Occupied(tbl) /\ tbl[found.index] = k
    BY <1>1, <1>2, <1>3, <1>4
  <1>6. found.rc = "circular" => Occupied(tbl) = 0..n - 1
    BY <1>1, <1>3, OccupiedFinite DEF StopsAt
  <1>7. found.rc = "true" => k \in KeysIn(tbl)
    BY <1>5 DEF KeysIn
  <1>8. ASSUME Finds(n, tbl), k \in KeysIn(tbl)
        PROVE  found.rc = "true"
    <2>1. PICK j \in Occupied(tbl) : tbl[j] = k
      BY <1>8 DEF KeysIn
    <2>2. j \in 0..n - 1
      BY BeforeSlots
    <2>3. \A i \in Before(n, k, j) : ~StopsAt(tbl, k, i)
      BY <1>8, <2>1 DEF Finds, FoundAt
    <2>4. StopsAt(tbl, k, j)
      BY <2>1 DEF StopsAt
    <2>5. found.index = j /\ found.rc # "circular"
      BY <2>2, <2>3, <2>4, ProbeEndsAt DEF Slot, IsFull, found
    <2> QED
      BY <1>2, <2>1, <2>5
  <1> QED
    BY <1>1, <1>2, <1>5, <1>6, <1>7, <1>8 DEF found, StopsAt

(* A move keeps the keys.                                                  *)
LEMMA MoveKeeps ==
  ASSUME Hashed, NEW n \in Nat \ {0}, NEW tbl \in Table(n),
         NEW i \in Occupied(tbl), NEW new, new = Move(tbl, n, i)
  PROVE  KeysIn(new) = KeysIn(tbl)
  <1>1. CASE new = tbl
    BY <1>1
  <1>2. ASSUME NEW id, Moves(n, tbl, new, i, id) PROVE KeysIn(new) = KeysIn(tbl)
    <2>1. /\ id # i /\ StopsAt(tbl, tbl[i], id)
          /\ Occupied(new) = (Occupied(tbl) \cup {id}) \ {i}
          /\ new[id] = tbl[i]
          /\ \A j \in Occupied(tbl) : j # i /\ j # id => new[j] = tbl[j]
      BY <1>2 DEF Moves
    <2>2. id \in Occupied(tbl) => tbl[id] = tbl[i]
      BY <2>1 DEF StopsAt, Occupied
    <2>3. \A j \in Occupied(new) : \E m \in Occupied(tbl) : tbl[m] = new[j]
      BY <2>1
    <2>4. \A m \in Occupied(tbl) : \E j \in Occupied(new) : tbl[m] = new[j]
      BY <2>1, <2>2
    <2> QED
      BY <2>3, <2>4 DEF KeysIn
  <1> QED
    BY <1>1, <1>2, RelayoutFinds

(* And if each key has one node, that is still so.                         *)
LEMMA UniqueKept ==
  ASSUME Hashed, NEW n \in Nat \ {0}, NEW tbl \in Table(n), UniqueIn(tbl),
         NEW i \in Occupied(tbl), NEW new, new = Move(tbl, n, i)
  PROVE  UniqueIn(new)
  <1>1. CASE new = tbl
    BY <1>1
  <1>2. ASSUME NEW id, Moves(n, tbl, new, i, id) PROVE UniqueIn(new)
    BY <1>2 DEF Moves, UniqueIn, StopsAt, Occupied
  <1> QED
    BY <1>1, <1>2, RelayoutFinds

-----------------------------------------------------------------------------
(* The loop of a relayout.                                                 *)

Passes(n) == [nodes : Table(n), done : BOOLEAN]

LEMMA VisitTypes ==
  ASSUME Hashed, NEW n \in Nat \ {0}, NEW pass \in Passes(n), NEW i \in 0..n - 1,
         NEW start, NEW endOnNull \in BOOLEAN
  PROVE  Visit(pass, n, i, start, endOnNull) \in Passes(n)
  <1>1. pass.nodes \in Table(n) /\ pass.done \in BOOLEAN
    BY DEF Passes
  <1>2. CASE ~pass.done /\ pass.nodes[i] # NoKey
    <2>1. i \in Occupied(pass.nodes)
      BY <1>1, <1>2 DEF Occupied, Table
    <2>2. Move(pass.nodes, n, i) \in Table(n)
      BY <1>1, <2>1, RelayoutMoves
    <2> QED
      BY <1>2, <2>2 DEF Visit, Passes
  <1>3. CASE pass.done
    BY <1>3 DEF Visit
  <1>4. CASE ~pass.done /\ pass.nodes[i] = NoKey
    BY <1>4 DEF Visit, Passes
  <1> QED
    BY <1>2, <1>3, <1>4

(* What it is after each of its visits.                                    *)
IsPass(pass, tbl, n, start, endOnNull) ==
  /\ pass \in [0..n - start -> Passes(n)]
  /\ pass[0] = [nodes |-> tbl, done |-> FALSE]
  /\ \A d \in 0..n - start - 1 :
       pass[d + 1] = Visit(pass[d], n, start + d, start, endOnNull)

LEMMA RelayoutPasses ==
  ASSUME Hashed, NEW n \in Nat \ {0}, NEW tbl \in Table(n), NEW start \in 0..n,
         NEW endOnNull \in BOOLEAN
  PROVE  \E pass : /\ IsPass(pass, tbl, n, start, endOnNull)
                   /\ RelayoutNodes(tbl, n, start, endOnNull) = pass[n - start]
  <1> DEFINE V == Passes(n)
             a == [nodes |-> tbl, done |-> FALSE]
             Next1(d, v) == Visit(v, n, start + d, start, endOnNull)
             step == [d \in Nat |-> [v \in V |-> IF d < n - start THEN Next1(d, v) ELSE v]]
             Is(f) == f = [d \in 0..n - start |-> IF d = 0 THEN a ELSE Next1(d - 1, f[d - 1])]
  <1>1. a \in V
    BY DEF Passes
  <1>2. ASSUME NEW d \in Nat, d < n - start, NEW v \in V
        PROVE  Next1(d, v) \in V
    <2>1. start + d \in 0..n - 1
      BY <1>2
    <2> QED
      BY <2>1, VisitTypes
  <1> HIDE DEF Next1, V, a
  <1>3. step \in [Nat -> [V -> V]]
    BY <1>2
  <1>4. PICK f : IsRecursion(f, V, a, step)
    <2> HIDE DEF step
    <2> QED
      BY <1>1, <1>3, NatRec, Zenon
  <1>5. /\ f \in [Nat -> V] /\ f[0] = a
        /\ \A d \in Nat : d < n - start => f[d + 1] = Next1(d, f[d])
    BY <1>4 DEF IsRecursion
  <1> DEFINE g == [d \in 0..n - start |-> f[d]]
  <1>6. Is(g)
    <2>1. ASSUME NEW d \in 0..n - start
          PROVE  f[d] = IF d = 0 THEN a ELSE Next1(d - 1, g[d - 1])
      <3>1. CASE d = 0
        BY <1>5, <3>1
      <3>2. CASE d # 0
        <4>1. PICK c \in Nat : c = d - 1
          BY <3>2
        <4>2. d = c + 1 /\ c \in 0..n - start /\ c < n - start
          BY <4>1
        <4>3. f[d] = Next1(c, f[c]) /\ g[c] = f[c]
          BY <1>5, <4>2
        <4> HIDE DEF g
        <4> QED
          BY <3>2, <4>1, <4>3
      <3> QED
        BY <3>1, <3>2
    <2>2. g = [d \in 0..n - start |-> g[d]] /\ \A d \in 0..n - start : g[d] = f[d]
      OBVIOUS
    <2> HIDE DEF g
    <2> QED
      BY <2>1, <2>2
  <1> HIDE DEF g, step
  <1> DEFINE pass == CHOOSE h : Is(h)
  <1>7. Is(pass)
    BY <1>6
  <1>8. RelayoutNodes(tbl, n, start, endOnNull) = pass[n - start]
    BY DEF RelayoutNodes, a, Next1
  <1> HIDE DEF pass
  <1>9. pass[0] = a
    BY <1>7
  <1>10. \A d \in 0..n - start - 1 : pass[d + 1] = Next1(d, pass[d])
    <2> SUFFICES ASSUME NEW d \in 0..n - start - 1 PROVE pass[d + 1] = Next1(d, pass[d])
      OBVIOUS
    <2>1. d + 1 \in 0..n - start /\ d + 1 # 0 /\ (d + 1) - 1 = d
      OBVIOUS
    <2>2. pass[d + 1] = IF d + 1 = 0 THEN a ELSE Next1((d + 1) - 1, pass[(d + 1) - 1])
      BY <1>7, <2>1
    <2> QED
      BY <2>1, <2>2
  <1>11. \A d \in 0..n - start : pass[d] \in V
    <2> DEFINE T == {d \in Nat : d <= n - start => pass[d] \in V}
    <2>1. 0 \in T
      BY <1>1, <1>9
    <2>2. ASSUME NEW d \in Nat, d \in T PROVE d + 1 \in T
      <3> SUFFICES ASSUME d + 1 <= n - start PROVE pass[d + 1] \in V
        BY <2>2
      <3>1. d \in 0..n - start - 1 /\ d < n - start
        OBVIOUS
      <3> QED
        BY <1>2, <1>10, <2>2, <3>1
    <2> HIDE DEF T
    <2>3. Nat \subseteq T
      BY <2>1, <2>2, NatInd
    <2> QED
      BY <2>3 DEF T
  <1>12. pass \in [0..n - start -> V]
    BY <1>7, <1>11
  <1> QED
    BY <1>8, <1>9, <1>10, <1>12 DEF IsPass, a, Next1, V

(* The table of a growth has the nodes of the one before.                  *)
LEMMA WideHas ==
  ASSUME NEW half \in Nat \ {0}, NEW tbl \in Table(half), NEW wide, wide = Wide(tbl, half)
  PROVE  /\ wide \in Table(2 * half)
         /\ Occupied(wide) = Occupied(tbl) /\ KeysIn(wide) = KeysIn(tbl)
         /\ \A j \in Occupied(wide) : j \in 0..half - 1
         /\ Cardinality(Occupied(wide)) <= half
  <1>1. wide = [i \in 0..2 * half - 1 |-> IF i < half THEN tbl[i] ELSE NoKey]
    BY DEF Wide
  <1>2. wide \in Table(2 * half)
    BY <1>1 DEF Table
  <1>3. ASSUME NEW j PROVE j \in Occupied(wide) <=> j \in Occupied(tbl)
    BY <1>1 DEF Occupied, Table
  <1>4. Occupied(wide) = Occupied(tbl)
    BY <1>3
  <1>5. \A j \in Occupied(wide) : j \in 0..half - 1 /\ wide[j] = tbl[j]
    BY <1>1, <1>4, OccupiedFinite
  <1>6. KeysIn(wide) = KeysIn(tbl)
    BY <1>4, <1>5 DEF KeysIn
  <1>7. Cardinality(Occupied(wide)) <= half
    <2>1. 0 \in Int /\ half - 1 \in Int /\ 0 <= half - 1
      OBVIOUS
    <2>2. IsFiniteSet(0..half - 1) /\ Cardinality(0..half - 1) = half - 1 - 0 + 1
      BY <2>1, FS_Interval
    <2>3. Occupied(wide) \subseteq 0..half - 1
      BY <1>5
    <2>4. Cardinality(Occupied(wide)) <= Cardinality(0..half - 1)
      BY <2>2, <2>3, FS_Subset
    <2> QED
      BY <2>2, <2>4
  <1> QED
    BY <1>2, <1>4, <1>5, <1>6, <1>7

(* A growth finds a place for every node, whatever the table was like.     *)
LEMMA GrowthFinds ==
  ASSUME Hashed, NEW half \in Nat \ {0}, NEW tbl \in Table(half), NEW new,
         new = RelayoutNodes(Wide(tbl, half), 2 * half, 0, FALSE).nodes
  PROVE  /\ new \in Table(2 * half) /\ Finds(2 * half, new)
         /\ KeysIn(new) = KeysIn(tbl)
         /\ Cardinality(Occupied(new)) <= Cardinality(Occupied(tbl))
  <1>1. PICK n : n = 2 * half
    OBVIOUS
  <1>2. PICK wide : wide = Wide(tbl, half)
    OBVIOUS
  <1>3. /\ wide \in Table(n) /\ Occupied(wide) = Occupied(tbl) /\ KeysIn(wide) = KeysIn(tbl)
        /\ \A j \in Occupied(wide) : j \in 0..half - 1
        /\ Cardinality(Occupied(wide)) <= half
    BY <1>1, <1>2, WideHas
  <1>4. n \in Nat \ {0} /\ 0 \in 0..n /\ FALSE \in BOOLEAN /\ n >= half
    BY <1>1
  <1>5. PICK pass : /\ IsPass(pass, wide, n, 0, FALSE)
                    /\ RelayoutNodes(wide, n, 0, FALSE) = pass[n - 0]
    BY <1>3, <1>4, RelayoutPasses
  <1>6. n - 0 = n /\ \A d \in 0..n - 1 : 0 + d = d
    BY <1>4
  <1>7. new = pass[n].nodes
    BY <1>1, <1>2, <1>5, <1>6
  <1>8. /\ pass \in [0..n -> Passes(n)] /\ pass[0] = [nodes |-> wide, done |-> FALSE]
        /\ \A d \in 0..n - 1 : pass[d + 1] = Visit(pass[d], n, d, 0, FALSE)
    <2>1. /\ pass \in [0..n - 0 -> Passes(n)] /\ pass[0] = [nodes |-> wide, done |-> FALSE]
          /\ \A d \in 0..n - 0 - 1 : pass[d + 1] = Visit(pass[d], n, 0 + d, 0, FALSE)
      BY <1>5 DEF IsPass
    <2> QED
      BY <1>6, <2>1, Zenon
  <1> DEFINE Here(d) == /\ ~pass[d].done /\ pass[d].nodes \in Table(n)
                        /\ FirstPass(n, half, pass[d].nodes, d)
                        /\ KeysIn(pass[d].nodes) = KeysIn(tbl)
                        /\ Cardinality(Occupied(pass[d].nodes)) <= Cardinality(Occupied(tbl))
             T == {d \in Nat : d <= n => Here(d)}
  <1>9. Here(0)
    <2>1. pass[0].nodes = wide /\ ~pass[0].done
      BY <1>8
    <2>2. InLower(n, half, wide, 0)
      BY <1>3 DEF InLower
    <2>3. FirstPass(n, half, wide, 0)
      BY <1>3, <2>2 DEF FirstPass
    <2>4. Cardinality(Occupied(wide)) = Cardinality(Occupied(tbl))
          /\ Cardinality(Occupied(tbl)) \in Nat
      BY <1>3, OccupiedFinite
    <2> QED
      BY <1>3, <2>1, <2>3, <2>4
  <1>10. ASSUME NEW d \in 0..n - 1, Here(d)
        PROVE  Here(d + 1)
    <2>1. PICK t : t = pass[d].nodes
      OBVIOUS
    <2>2. PICK u : u = IF t[d] = NoKey THEN t ELSE Move(t, n, d)
      OBVIOUS
    <2>3. pass[d] \in Passes(n) /\ pass[d + 1] \in Passes(n)
      <3>1. d \in 0..n /\ d + 1 \in 0..n
        BY <1>4
      <3> QED
        BY <1>8, <3>1
    <2>4. pass[d + 1].nodes = u /\ ~pass[d + 1].done
      <3>1. pass[d + 1] = IF t[d] # NoKey THEN [pass[d] EXCEPT !.nodes = Move(t, n, d)]
                          ELSE [pass[d] EXCEPT !.done = FALSE]
        BY <1>8, <1>10, <2>1 DEF Visit
      <3> QED
        BY <1>10, <2>1, <2>2, <2>3, <3>1 DEF Passes
    <2>5. t \in Table(n) /\ FirstPass(n, half, t, d)
      BY <1>10, <2>1
    <2>6. FirstPass(n, half, u, d + 1)
      BY <1>1, <1>4, <2>2, <2>5, FirstPassVisit
    <2>7. u \in Table(n)
      BY <2>3, <2>4 DEF Passes
    <2>8. KeysIn(u) = KeysIn(t) /\ Cardinality(Occupied(u)) <= Cardinality(Occupied(t))
      <3>1. CASE t[d] = NoKey
        BY <1>4, <2>2, <2>5, <3>1, OccupiedFinite
      <3>2. CASE t[d] # NoKey
        <4>1. d \in Occupied(t)
          BY <2>5, <3>2 DEF Occupied, Table
        <4>2. u = Move(t, n, d)
          BY <2>2, <3>2
        <4> QED
          BY <1>4, <2>5, <4>1, <4>2, MoveKeeps, RelayoutMoves
      <3> QED
        BY <3>1, <3>2
    <2>9. /\ Cardinality(Occupied(u)) \in Nat /\ Cardinality(Occupied(t)) \in Nat
          /\ Cardinality(Occupied(tbl)) \in Nat
      BY <1>4, <2>5, <2>7, OccupiedFinite
    <2>10. /\ KeysIn(u) = KeysIn(tbl)
           /\ Cardinality(Occupied(u)) <= Cardinality(Occupied(tbl))
      BY <1>10, <2>1, <2>8, <2>9
    <2> QED
      BY <2>4, <2>6, <2>7, <2>10
  <1> HIDE DEF Here
  <1>11. \A d \in Nat : d \in T => d + 1 \in T
    BY <1>4, <1>10
  <1>12. Nat \subseteq T
    <2>1. 0 \in T
      BY <1>9
    <2> HIDE DEF T
    <2> QED
      BY <1>11, <2>1, NatInd
  <1>13. Here(n)
    BY <1>4, <1>12
  <1>14. /\ new \in Table(n) /\ FirstPass(n, half, new, n) /\ KeysIn(new) = KeysIn(tbl)
         /\ Cardinality(Occupied(new)) <= Cardinality(Occupied(tbl))
    BY <1>7, <1>13 DEF Here
  <1>15. InUpper(n, half, new, n)
    BY <1>4, <1>14 DEF FirstPass
  <1>16. \A j \in Occupied(new) : j \in 0..n - 1
    BY <1>4, <1>14, OccupiedFinite
  <1>17. Finds(n, new)
    <2>1. \A j \in Occupied(new) : j < n => FoundAt(n, new, j)
      BY <1>15 DEF InUpper
    <2>2. ASSUME NEW j \in Occupied(new) PROVE j < n
      <3>1. j \in 0..n - 1
        BY <1>16
      <3> QED
        BY <1>4, <3>1
    <2> QED
      BY <2>1, <2>2 DEF Finds
  <1> QED
    BY <1>1, <1>14, <1>17

(* A pass that takes a node out, and does not end in a run of nodes that   *)
(* wraps, leaves every other node where it is found.                       *)
Closes(n, tbl, s, pass) ==
  (Finds(n, tbl) /\ (pass.done \/ pass.nodes[0] = NoKey)) =>
     /\ Finds(n, pass.nodes)
     /\ KeysIn(pass.nodes) = KeysIn(tbl) \ {tbl[s]}

(* A remove closes its hole, unless it is at the end of the table and the  *)
(* run of nodes goes on at slot 0.                                         *)
LEMMA RemoveFinds ==
  ASSUME Hashed, NEW n \in Nat \ {0}, NEW tbl \in Table(n), NEW s \in Occupied(tbl),
         NEW pass, pass = RelayoutNodes(Cleared(tbl, s), n, s, TRUE)
  PROVE  /\ pass.nodes \in Table(n)
         /\ Cardinality(Occupied(pass.nodes)) <= Cardinality(Occupied(tbl)) - 1
         /\ Closes(n, tbl, s, pass)
  <1>1. PICK hole : hole = Cleared(tbl, s)
    OBVIOUS
  <1>2. hole = [tbl EXCEPT ![s] = NoKey]
    BY <1>1 DEF Cleared
  <1>3. /\ s \in 0..n - 1 /\ s \in 0..n /\ TRUE \in BOOLEAN /\ tbl[s] # NoKey
        /\ hole \in Table(n)
        /\ Cardinality(Occupied(hole)) = Cardinality(Occupied(tbl)) - 1
    <2>1. s \in 0..n - 1 /\ tbl[s] # NoKey
      BY NodeTypes
    <2>2. /\ hole \in Table(n)
          /\ Occupied(hole) = Occupied(tbl) \ {s}
          /\ Cardinality(Occupied(tbl) \ {s}) = Cardinality(Occupied(tbl)) - 1
      <3>1. n \in Nat
        OBVIOUS
      <3>2. /\ [tbl EXCEPT ![s] = NoKey] \in Table(n)
            /\ Occupied([tbl EXCEPT ![s] = NoKey]) = Occupied(tbl) \ {s}
            /\ Cardinality(Occupied(tbl) \ {s}) =
                 IF tbl[s] = NoKey THEN Cardinality(Occupied(tbl))
                 ELSE Cardinality(Occupied(tbl)) - 1
        BY <2>1, <3>1, ClearSlot
      <3> QED
        BY <1>2, <2>1, <3>2, Zenon
    <2>3. s \in 0..n
      BY <2>1
    <2>4. Cardinality(Occupied(hole)) = Cardinality(Occupied(tbl)) - 1
      BY <2>2, Zenon
    <2> QED
      BY <2>1, <2>2, <2>3, <2>4, Zenon
  <1>4. PICK P : IsPass(P, hole, n, s, TRUE) /\ pass = P[n - s]
    BY <1>1, <1>3, RelayoutPasses
  <1>5. /\ P \in [0..n - s -> Passes(n)] /\ P[0] = [nodes |-> hole, done |-> FALSE]
        /\ \A d \in 0..n - s - 1 : P[d + 1] = Visit(P[d], n, s + d, s, TRUE)
    BY <1>4 DEF IsPass
  <1>6. ASSUME NEW d \in 0..n - s
        PROVE  P[d] \in Passes(n) /\ P[d].nodes \in Table(n) /\ P[d].done \in BOOLEAN
               /\ Cardinality(Occupied(P[d].nodes)) \in Nat
    <2>1. P[d].nodes \in Table(n) /\ P[d].done \in BOOLEAN /\ P[d] \in Passes(n)
      BY <1>5 DEF Passes
    <2> QED
      BY <2>1, OccupiedFinite
  <1> DEFINE Few(d) == Cardinality(Occupied(P[d].nodes)) <= Cardinality(Occupied(hole))
             Hole(d) ==
               /\ KeysIn(P[d].nodes) = KeysIn(tbl) \ {tbl[s]} /\ UniqueIn(P[d].nodes)
               /\ P[d].done => Finds(n, P[d].nodes)
               /\ (~P[d].done /\ d > 0) => HoleUpTo(n, P[d].nodes, s + d)
               /\ d = 0 => ~P[d].done /\ P[d].nodes = hole
             T == {d \in Nat : d <= n - s => Few(d) /\ (Finds(n, tbl) => Hole(d))}
  <1>7. Few(0) /\ (Finds(n, tbl) => Hole(0))
    <2>1. P[0].nodes = hole /\ P[0].done = FALSE
      BY <1>5
    <2>2. Cardinality(Occupied(hole)) \in Nat
      BY <1>3, OccupiedFinite
    <2>3. ASSUME Finds(n, tbl)
          PROVE  KeysIn(hole) = KeysIn(tbl) \ {tbl[s]} /\ UniqueIn(hole)
      BY <1>2, <2>3, FoundOnce, RemoveMakesHole
    <2> QED
      BY <2>1, <2>2, <2>3
  <1>8. ASSUME NEW d \in 0..n - s - 1, Few(d), Finds(n, tbl) => Hole(d)
        PROVE  Few(d + 1) /\ (Finds(n, tbl) => Hole(d + 1))
    <2>1. PICK a : a = s + d
      OBVIOUS
    <2>2. a \in 0..n - 1 /\ d \in 0..n - s /\ d + 1 \in 0..n - s
      BY <1>3, <2>1
    <2>3. PICK t : t = P[d].nodes
      OBVIOUS
    <2>4. /\ t \in Table(n) /\ P[d] \in Passes(n) /\ P[d + 1] \in Passes(n)
          /\ Cardinality(Occupied(t)) \in Nat
          /\ Cardinality(Occupied(P[d + 1].nodes)) \in Nat
          /\ P[d].done \in BOOLEAN
      BY <1>6, <2>2, <2>3
    <2>5. P[d + 1] = Visit(P[d], n, a, s, TRUE)
      BY <1>5, <2>1
    <2>6. CASE P[d].done
      <3>1. P[d + 1] = P[d]
        BY <2>5, <2>6 DEF Visit
      <3> QED
        BY <1>8, <2>2, <2>6, <3>1
    <2>7. CASE ~P[d].done /\ t[a] # NoKey
      <3>1. PICK u : u = Move(t, n, a)
        OBVIOUS
      <3>2. P[d + 1] = [P[d] EXCEPT !.nodes = u]
        BY <2>3, <2>5, <2>7, <3>1 DEF Visit
      <3>3. P[d + 1].nodes = u /\ P[d + 1].done = FALSE
        BY <2>4, <2>7, <3>2 DEF Passes
      <3>4. a \in Occupied(t)
        BY <2>2, <2>4, <2>7 DEF Occupied, Table
      <3>5. Cardinality(Occupied(u)) <= Cardinality(Occupied(t))
        BY <2>4, <3>1, <3>4, RelayoutMoves
      <3>6. Few(d + 1)
        <4>1. Cardinality(Occupied(hole)) \in Nat
          BY <1>3, OccupiedFinite
        <4> QED
          BY <1>8, <2>3, <2>4, <3>3, <3>5, <4>1
      <3>7. ASSUME Finds(n, tbl) PROVE Hole(d + 1)
        <4>1. KeysIn(t) = KeysIn(tbl) \ {tbl[s]} /\ UniqueIn(t)
          BY <1>8, <2>3, <3>7
        <4>2. KeysIn(u) = KeysIn(t)
          BY <2>4, <3>1, <3>4, MoveKeeps
        <4>3. UniqueIn(u)
          BY <2>4, <3>1, <3>4, <4>1, UniqueKept
        <4>4. d > 0
          <5>1. d # 0
            <6> SUFFICES ASSUME d = 0 PROVE FALSE
              OBVIOUS
            <6>1. t = hole /\ a = s
              BY <1>3, <1>8, <2>1, <2>3, <3>7
            <6>2. hole[s] = NoKey
              BY <1>2, <1>3 DEF Table
            <6> QED
              BY <2>7, <6>1, <6>2
          <5> QED
            BY <5>1
        <4>5. HoleUpTo(n, t, a)
          BY <1>8, <2>1, <2>3, <2>7, <3>7, <4>4
        <4>6. HoleUpTo(n, u, a + 1)
          <5>1. PICK h \in 0..a - 1 : HoleBelow(n, t, h, a)
            BY <4>5 DEF HoleUpTo
          <5>2. \E g \in 0..a : HoleBelow(n, u, g, a + 1)
            BY <2>2, <2>4, <2>7, <3>1, <4>1, <5>1, ShiftKeepsHole
          <5>3. (a + 1) - 1 = a
            BY <2>2
          <5> QED
            BY <5>2, <5>3 DEF HoleUpTo
        <4>7. a + 1 = s + (d + 1) /\ d + 1 # 0
          BY <1>3, <2>1
        <4> QED
          BY <3>3, <4>1, <4>2, <4>3, <4>6, <4>7
      <3> QED
        BY <3>6, <3>7
    <2>8. CASE ~P[d].done /\ t[a] = NoKey
      <3>1. P[d + 1] = [P[d] EXCEPT !.done = (a # s)]
        BY <2>3, <2>5, <2>8 DEF Visit
      <3>2. P[d + 1].nodes = t /\ P[d + 1].done = (a # s)
        BY <2>3, <2>4, <3>1 DEF Passes
      <3>3. ASSUME Finds(n, tbl) PROVE Hole(d + 1)
        <4>1. KeysIn(t) = KeysIn(tbl) \ {tbl[s]} /\ UniqueIn(t)
          BY <1>8, <2>3, <3>3
        <4>2. ASSUME a # s PROVE Finds(n, t)
          <5>1. d > 0
            BY <1>3, <2>1, <4>2
          <5>2. PICK h \in 0..a - 1 : HoleBelow(n, t, h, a)
            <6>1. HoleUpTo(n, t, a)
              BY <1>8, <2>1, <2>3, <2>8, <3>3, <5>1
            <6> QED
              BY <6>1 DEF HoleUpTo
          <5>3. a \in 0..n /\ a < n
            BY <2>2
          <5>4. LaidIn(n, t)
            BY <2>4, <2>8, <5>2, <5>3, HoleCloses
          <5> QED
            BY <2>4, <4>1, <5>4, LaidFinds
        <4>3. ASSUME a = s
              PROVE  HoleUpTo(n, t, s + (d + 1))
          <5>1. d = 0
            BY <1>3, <2>1, <4>3
          <5>2. t = hole
            BY <1>8, <2>3, <3>3, <5>1
          <5>3. HoleBelow(n, hole, s, s + 1)
            BY <1>2, <3>3, FoundOnce, RemoveMakesHole
          <5>4. s \in 0..s + 1 - 1 /\ s + (d + 1) = s + 1
            BY <1>3, <5>1
          <5>5. HoleUpTo(n, t, s + 1)
            BY <5>2, <5>3, <5>4 DEF HoleUpTo
          <5> QED
            BY <5>4, <5>5
        <4>4. d + 1 # 0
          BY <1>3
        <4> QED
          BY <3>2, <4>1, <4>2, <4>3, <4>4
      <3>4. Few(d + 1)
        BY <1>8, <2>3, <3>2
      <3> QED
        BY <3>3, <3>4
    <2> QED
      BY <2>4, <2>6, <2>7, <2>8
  <1> HIDE DEF Few, Hole
  <1>9. \A d \in Nat : d \in T => d + 1 \in T
    <2> SUFFICES ASSUME NEW d \in Nat, d \in T, d + 1 <= n - s
                 PROVE  Few(d + 1) /\ (Finds(n, tbl) => Hole(d + 1))
      OBVIOUS
    <2>1. d \in 0..n - s - 1 /\ d <= n - s
      BY <1>3
    <2> QED
      BY <1>8, <2>1
  <1>10. Nat \subseteq T
    <2>1. 0 \in T
      BY <1>7
    <2> HIDE DEF T
    <2> QED
      BY <1>9, <2>1, NatInd
  <1>11. n - s \in Nat /\ n - s > 0 /\ n - s \in 0..n - s /\ s + (n - s) = n
    BY <1>3
  <1>12. Few(n - s) /\ (Finds(n, tbl) => Hole(n - s))
    BY <1>10, <1>11
  <1>13. pass.nodes \in Table(n)
    BY <1>4, <1>6, <1>11
  <1>14. Cardinality(Occupied(pass.nodes)) <= Cardinality(Occupied(tbl)) - 1
    BY <1>3, <1>4, <1>12 DEF Few
  <1>15. ASSUME Finds(n, tbl), pass.done \/ pass.nodes[0] = NoKey
         PROVE  Finds(n, pass.nodes) /\ KeysIn(pass.nodes) = KeysIn(tbl) \ {tbl[s]}
    <2>1. /\ KeysIn(pass.nodes) = KeysIn(tbl) \ {tbl[s]} /\ UniqueIn(pass.nodes)
          /\ pass.done => Finds(n, pass.nodes)
          /\ ~pass.done => HoleUpTo(n, pass.nodes, n)
      <3>1. PICK m : m = n - s
        OBVIOUS
      <3>2. Hole(m) /\ m > 0 /\ s + m = n /\ pass = P[m]
        BY <1>4, <1>11, <1>12, <1>15, <3>1
      <3>3. /\ KeysIn(P[m].nodes) = KeysIn(tbl) \ {tbl[s]} /\ UniqueIn(P[m].nodes)
            /\ P[m].done => Finds(n, P[m].nodes)
            /\ ~P[m].done => HoleUpTo(n, P[m].nodes, s + m)
        BY <3>2 DEF Hole
      <3> QED
        BY <3>2, <3>3
    <2>2. ASSUME ~pass.done PROVE Finds(n, pass.nodes)
      <3>1. PICK h \in 0..n - 1 : HoleBelow(n, pass.nodes, h, n)
        BY <2>1, <2>2 DEF HoleUpTo
      <3>2. h \in 0..n - 1 /\ n \in 0..n /\ ~(n < n)
        BY <1>3
      <3>3. LaidIn(n, pass.nodes)
        BY <1>13, <1>15, <2>2, <3>1, <3>2, HoleCloses
      <3> QED
        BY <1>13, <2>1, <3>3, LaidFinds
    <2> QED
      BY <2>1, <2>2
  <1> QED
    BY <1>13, <1>14, <1>15 DEF Closes

-----------------------------------------------------------------------------
(* Sets: one that is counted right and where every key is found, and one   *)
(* that may hold some in vain.                                             *)

IsSet(set) ==
  /\ set \in [nodes : UNION {Table(m) : m \in Nat}, number : Nat \ {0}, used : Nat]
  /\ set.nodes \in Table(set.number)
  /\ Cardinality(Occupied(set.nodes)) <= set.used
Good(set) ==
  /\ IsSet(set)
  /\ Finds(set.number, set.nodes)
  /\ set.used = Cardinality(Members(set))

LEMMA SetParts ==
  ASSUME NEW set, IsSet(set)
  PROVE  /\ set.number \in Nat \ {0} /\ set.used \in Nat /\ set.nodes \in Table(set.number)
         /\ Cardinality(Occupied(set.nodes)) \in Nat
         /\ IsFiniteSet(Members(set)) /\ Members(set) \subseteq Keys
  <1>1. /\ set.number \in Nat \ {0} /\ set.used \in Nat /\ set.nodes \in Table(set.number)
    BY DEF IsSet
  <1>2. IsFiniteSet(Occupied(set.nodes)) /\ Cardinality(Occupied(set.nodes)) \in Nat
    BY <1>1, OccupiedFinite
  <1>3. Members(set) \subseteq Keys
    BY <1>1, NodeTypes DEF Members, KeysIn
  <1> DEFINE f == [j \in Occupied(set.nodes) |-> set.nodes[j]]
  <1>4. f \in Surjection(Occupied(set.nodes), Members(set))
    BY DEF Surjection, Members, KeysIn
  <1>5. IsFiniteSet(Members(set))
    BY <1>2, <1>4, FS_Surjection
  <1> QED
    BY <1>1, <1>2, <1>3, <1>5

(* A set of these parts.                                                   *)
LEMMA SetOf ==
  ASSUME NEW n \in Nat \ {0}, NEW tbl \in Table(n), NEW used \in Nat,
         Cardinality(Occupied(tbl)) <= used, NEW new,
         new = [nodes |-> tbl, number |-> n, used |-> used]
  PROVE  IsSet(new) /\ new.nodes = tbl /\ new.number = n /\ new.used = used
  <1>1. new.nodes = tbl /\ new.number = n /\ new.used = used
    OBVIOUS
  <1>2. tbl \in UNION {Table(m) : m \in Nat}
    OBVIOUS
  <1>3. new \in [nodes : UNION {Table(m) : m \in Nat}, number : Nat \ {0}, used : Nat]
    BY <1>2
  <1> QED
    BY <1>1, <1>3 DEF IsSet

(* A set that has been initialised.                                        *)
LEMMA NewIsEmpty ==
  ASSUME NEW n \in Nat \ {0}
  PROVE  Good(New(n)) /\ Members(New(n)) = {} /\ New(n).number = n
  <1> DEFINE tbl == [i \in 0..n - 1 |-> NoKey]
  <1>1. tbl \in Table(n) /\ Occupied(tbl) = {}
    BY DEF Table, Occupied
  <1> HIDE DEF tbl
  <1>2. New(n) = [nodes |-> tbl, number |-> n, used |-> 0]
    BY DEF New, tbl
  <1>3. tbl \in UNION {Table(m) : m \in Nat}
    BY <1>1
  <1>4. Cardinality({}) = 0
    BY FS_EmptySet
  <1>5. IsSet(New(n))
    BY <1>1, <1>2, <1>3, <1>4 DEF IsSet
  <1>6. Members(New(n)) = {}
    BY <1>1, <1>2 DEF Members, KeysIn
  <1> QED
    BY <1>1, <1>2, <1>4, <1>5, <1>6 DEF Good, Finds

(* A growth makes room, and loses nothing.                                 *)
LEMMA GrowKeeps ==
  ASSUME Hashed, NEW set, IsSet(set), NEW new, new = Grow(set)
  PROVE  /\ IsSet(new) /\ Finds(new.number, new.nodes)
         /\ Members(new) = Members(set) /\ new.used = set.used
         /\ Cardinality(Occupied(new.nodes)) < new.number
  <1>1. PICK half \in Nat \ {0} : half = set.number /\ set.nodes \in Table(half)
    BY SetParts
  <1>2. PICK tbl \in Table(half) : half = set.number /\ tbl = set.nodes
    BY <1>1
  <1>3. PICK t : t = RelayoutNodes(Wide(tbl, half), 2 * half, 0, FALSE).nodes
    OBVIOUS
  <1>4. /\ t \in Table(2 * half) /\ Finds(2 * half, t) /\ KeysIn(t) = KeysIn(tbl)
        /\ Cardinality(Occupied(t)) <= Cardinality(Occupied(tbl))
    BY <1>3, GrowthFinds
  <1>5. 2 * half \in Nat \ {0}
    OBVIOUS
  <1>6. /\ Cardinality(Occupied(t)) \in Nat /\ Cardinality(Occupied(tbl)) \in Nat
        /\ Cardinality(Occupied(tbl)) <= half
    <2>1. Cardinality(0..half - 1) = half /\ IsFiniteSet(0..half - 1)
      <3>1. 0 \in Int /\ half - 1 \in Int /\ 0 <= half - 1
        OBVIOUS
      <3> QED
        BY <3>1, FS_Interval
    <2>2. Occupied(tbl) \subseteq 0..half - 1
      BY OccupiedFinite
    <2>3. Cardinality(Occupied(tbl)) <= half
      BY <2>1, <2>2, FS_Subset
    <2> QED
      BY <1>4, <1>5, <2>3, OccupiedFinite
  <1>7. set.used \in Nat /\ Cardinality(Occupied(tbl)) <= set.used
    BY <1>2 DEF IsSet
  <1>8. new = [nodes |-> t, number |-> 2 * half, used |-> set.used]
    <2>1. new = [set EXCEPT !.number = 2 * half, !.nodes = t]
      BY <1>2, <1>3 DEF Grow, Doubled
    <2>2. set \in [nodes : UNION {Table(m) : m \in Nat}, number : Nat \ {0}, used : Nat]
      BY DEF IsSet
    <2> QED
      BY <2>1, <2>2
  <1>9. Cardinality(Occupied(t)) <= set.used
    BY <1>4, <1>6, <1>7
  <1>10. IsSet(new) /\ new.nodes = t /\ new.number = 2 * half /\ new.used = set.used
    BY <1>4, <1>5, <1>7, <1>8, <1>9, SetOf
  <1>11. Cardinality(Occupied(t)) < 2 * half
    BY <1>4, <1>6
  <1> QED
    BY <1>2, <1>4, <1>10, <1>11 DEF Members

(* A table that is not full has a place for a key.                         *)
LEMMA AssignKeeps ==
  ASSUME Hashed, NEW set, IsSet(set), Cardinality(Occupied(set.nodes)) < set.number,
         NEW k \in Keys, NEW new, new = Assign(set, k)
  PROVE  /\ IsSet(new)
         /\ Good(set) => Good(new) /\ Members(new) = Members(set) \cup {k}
  <1>1. PICK n \in Nat \ {0} : n = set.number /\ set.nodes \in Table(n)
    BY SetParts
  <1>2. PICK tbl \in Table(n) : n = set.number /\ tbl = set.nodes
    BY <1>1
  <1>3. PICK slot, rc : slot = GetIndex(tbl, n, k).index /\ rc = GetIndex(tbl, n, k).rc
    OBVIOUS
  <1>4. /\ rc \in {"true", "false", "circular"} /\ slot \in 0..n - 1
        /\ rc = "false" =>
             tbl[slot] = NoKey /\ \A i \in Before(n, k, slot) : ~StopsAt(tbl, k, i)
        /\ rc = "circular" => Occupied(tbl) = 0..n - 1
        /\ rc = "true" => k \in KeysIn(tbl)
        /\ Finds(n, tbl) => (rc = "true" <=> k \in KeysIn(tbl))
    BY <1>3, ContainsSays
  <1>5. rc # "circular"
    <2>1. Cardinality(0..n - 1) = n
      <3>1. 0 \in Int /\ n - 1 \in Int /\ 0 <= n - 1
        OBVIOUS
      <3> QED
        BY <3>1, FS_Interval
    <2> QED
      BY <1>2, <1>4, <2>1
  <1>6. CASE rc = "true"
    <2>1. new = set
      BY <1>2, <1>3, <1>6 DEF Assign
    <2> QED
      BY <1>2, <1>4, <1>6, <2>1 DEF Members
  <1>7. CASE rc = "false"
    <2>1. PICK t : t = [tbl EXCEPT ![slot] = k]
      OBVIOUS
    <2>2. /\ t \in Table(n) /\ Occupied(t) = Occupied(tbl) \cup {slot}
          /\ Cardinality(Occupied(t)) = Cardinality(Occupied(tbl)) + 1
      <3>1. Cardinality(Occupied(tbl) \cup {slot}) = Cardinality(Occupied(tbl)) + 1
        BY <1>4, <1>7, SetSlot
      <3>2. n \in Nat /\ slot \in 0..n - 1
        BY <1>4
      <3>3. [tbl EXCEPT ![slot] = k] \in Table(n)
        BY <3>2, SetSlot
      <3>4. Occupied([tbl EXCEPT ![slot] = k]) = Occupied(tbl) \cup {slot}
        BY <3>2, NodeIsNode DEF Table, Occupied
      <3> QED
        BY <2>1, <3>1, <3>3, <3>4
    <2>3. t[slot] = k /\ \A j \in 0..n - 1 : j # slot => t[j] = tbl[j]
      BY <1>4, <2>1 DEF Table
    <2>4. set.used + 1 \in Nat /\ Cardinality(Occupied(t)) <= set.used + 1
      <3>1. /\ set.used \in Nat /\ Cardinality(Occupied(tbl)) <= set.used
            /\ Cardinality(Occupied(tbl)) \in Nat
        BY <1>2, SetParts DEF IsSet
      <3> QED
        BY <2>2, <3>1
    <2>5. new = [nodes |-> t, number |-> n, used |-> set.used + 1]
      <3>1. new = [set EXCEPT !.nodes = t, !.used = set.used + 1]
        BY <1>2, <1>3, <1>7, <2>1 DEF Assign
      <3>2. set \in [nodes : UNION {Table(m) : m \in Nat}, number : Nat \ {0}, used : Nat]
        BY DEF IsSet
      <3> QED
        BY <1>2, <3>1, <3>2
    <2>6. IsSet(new) /\ new.nodes = t /\ new.number = n /\ new.used = set.used + 1
      <3>1. PICK used \in Nat : used = set.used + 1
        BY <2>4
      <3>2. t \in Table(n) /\ Cardinality(Occupied(t)) <= used
        BY <2>2, <2>4, <3>1
      <3>3. new = [nodes |-> t, number |-> n, used |-> used]
        BY <2>5, <3>1
      <3> QED
        BY <3>1, <3>2, <3>3, SetOf
    <2>7. KeysIn(t) = KeysIn(tbl) \cup {k}
      <3>1. slot \notin Occupied(tbl) /\ Occupied(tbl) \subseteq 0..n - 1
        BY <1>4, <1>7, OccupiedFinite DEF Occupied
      <3> QED
        BY <2>2, <2>3, <3>1 DEF KeysIn
    <2>8. ASSUME Finds(n, tbl)
          PROVE  Finds(n, t)
      <3> SUFFICES ASSUME NEW j \in Occupied(t), NEW i \in Before(n, t[j], j)
                   PROVE  ~StopsAt(t, t[j], i)
        BY DEF Finds, FoundAt
      <3>1. j \in 0..n - 1 /\ t[j] \in Keys
        BY <2>2, BeforeSlots
      <3>2. i \in 0..n - 1 /\ i # j
        BY <3>1, BeforeOrder
      <3>3. CASE j = slot
        <4>1. t[j] = k /\ ~StopsAt(tbl, k, i)
          BY <1>4, <1>7, <2>3, <3>3
        <4>2. t[i] = tbl[i]
          BY <2>3, <3>2, <3>3
        <4> QED
          BY <4>1, <4>2 DEF StopsAt
      <3>4. CASE j # slot
        <4>1. j \in Occupied(tbl) /\ t[j] = tbl[j]
          BY <2>2, <2>3, <3>1, <3>4
        <4>2. ~StopsAt(tbl, tbl[j], i)
          BY <2>8, <4>1 DEF Finds, FoundAt
        <4>3. i # slot
          BY <1>4, <1>7, <4>2 DEF StopsAt
        <4>4. t[i] = tbl[i]
          BY <2>3, <3>2, <4>3
        <4> QED
          BY <4>1, <4>2, <4>4 DEF StopsAt
      <3> QED
        BY <3>3, <3>4
    <2>9. ASSUME Good(set) PROVE Good(new)
      <3>1. Finds(n, tbl) /\ set.used = Cardinality(KeysIn(tbl))
        BY <1>2, <2>9 DEF Good, Members
      <3>2. k \notin KeysIn(tbl) /\ IsFiniteSet(KeysIn(tbl))
        BY <1>2, <1>4, <1>7, <3>1, SetParts DEF Members
      <3>3. Cardinality(KeysIn(t)) = Cardinality(KeysIn(tbl)) + 1
        BY <2>7, <3>2, FS_AddElement
      <3> QED
        BY <2>6, <2>8, <3>1, <3>3 DEF Good, Members
    <2> QED
      BY <1>2, <2>6, <2>7, <2>9 DEF Members
  <1> QED
    BY <1>4, <1>5, <1>6, <1>7

(* set_add, with memory or without it.                                     *)
LEMMA AddKeeps ==
  ASSUME Hashed, NEW set, IsSet(set), NEW k \in Keys, NEW memory \in BOOLEAN,
         NEW new, new = SetAdd(set, k, memory)
  PROVE  /\ IsSet(new)
         /\ Good(set) =>
              /\ Good(new)
              /\ Members(new) = IF OutOfMemory(set, k, memory) THEN Members(set)
                                ELSE Members(set) \cup {k}
              /\ memory => ~OutOfMemory(set, k, memory)
  <1>1. PICK n \in Nat \ {0} : n = set.number /\ set.nodes \in Table(n)
    BY SetParts
  <1>2. PICK tbl \in Table(n) : n = set.number /\ tbl = set.nodes
    BY <1>1
  <1>3. /\ SetContains(set, k) = "true" => k \in KeysIn(tbl)
        /\ Finds(n, tbl) => (SetContains(set, k) = "true" <=> k \in KeysIn(tbl))
    BY <1>2, ContainsSays DEF SetContains
  <1>4. memory => ~OutOfMemory(set, k, memory)
    BY DEF OutOfMemory
  <1>5. CASE SetContains(set, k) = "true" \/ OutOfMemory(set, k, memory)
    <2>1. new = set
      BY <1>5 DEF SetAdd
    <2>2. ~OutOfMemory(set, k, memory) => k \in Members(set)
      BY <1>2, <1>3, <1>5 DEF Members
    <2> QED
      BY <1>4, <2>1, <2>2
  <1>6. CASE ~(SetContains(set, k) = "true" \/ OutOfMemory(set, k, memory))
    <2>1. PICK wide : wide = IF NearlyFull(set) THEN Grow(set) ELSE set
      OBVIOUS
    <2>2. new = Assign(wide, k)
      BY <1>6, <2>1 DEF SetAdd
    <2>3. /\ IsSet(wide) /\ Cardinality(Occupied(wide.nodes)) < wide.number
          /\ Good(set) => Good(wide) /\ Members(wide) = Members(set)
      <3>1. CASE NearlyFull(set)
        <4>1. wide = Grow(set)
          BY <2>1, <3>1
        <4>2. /\ IsSet(wide) /\ Finds(wide.number, wide.nodes)
              /\ Members(wide) = Members(set) /\ wide.used = set.used
              /\ Cardinality(Occupied(wide.nodes)) < wide.number
          BY <4>1, GrowKeeps
        <4> QED
          BY <4>2 DEF Good
      <3>2. CASE ~NearlyFull(set)
        <4>1. wide = set
          BY <2>1, <3>2
        <4>2. /\ set.used \in Nat /\ Cardinality(Occupied(set.nodes)) \in Nat
              /\ Cardinality(Occupied(set.nodes)) <= set.used
          BY SetParts DEF IsSet
        <4>3. 4 * set.used <= set.number
          BY <1>1, <3>2, <4>2 DEF NearlyFull
        <4>4. Cardinality(Occupied(set.nodes)) < set.number
          BY <1>1, <4>2, <4>3
        <4> QED
          BY <4>1, <4>4
      <3> QED
        BY <3>1, <3>2
    <2>4. IsSet(new) /\ (Good(wide) => Good(new) /\ Members(new) = Members(wide) \cup {k})
      BY <2>2, <2>3, AssignKeeps
    <2> QED
      BY <1>4, <1>6, <2>3, <2>4
  <1> QED
    BY <1>5, <1>6

(* set_remove, where no run of nodes wraps.                                *)
LEMMA RemoveKeeps ==
  ASSUME Hashed, NEW set, IsSet(set), NEW k \in Keys, SetContains(set, k) = "true",
         NEW gone, gone = Removed(set, k)
  PROVE  /\ IsSet(gone.set)
         /\ (Good(set) /\ ~gone.wrap) =>
              Good(gone.set) /\ Members(gone.set) = Members(set) \ {k}
  <1>1. PICK n \in Nat \ {0} : n = set.number /\ set.nodes \in Table(n)
    BY SetParts
  <1>2. PICK tbl \in Table(n) : n = set.number /\ tbl = set.nodes
    BY <1>1
  <1>3. PICK slot \in Occupied(tbl) : slot = GetIndex(tbl, n, k).index /\ tbl[slot] = k
    BY <1>2, ContainsSays DEF SetContains
  <1>4. PICK pass : pass = RelayoutNodes(Cleared(tbl, slot), n, slot, TRUE)
    OBVIOUS
  <1>5. /\ pass.nodes \in Table(n)
        /\ Cardinality(Occupied(pass.nodes)) <= Cardinality(Occupied(tbl)) - 1
        /\ (Finds(n, tbl) /\ (pass.done \/ pass.nodes[0] = NoKey)) =>
             /\ Finds(n, pass.nodes)
             /\ KeysIn(pass.nodes) = KeysIn(tbl) \ {k}
    <2>1. pass = RelayoutNodes(Cleared(tbl, slot), n, slot, TRUE)
      BY <1>4
    <2>2. slot \in Occupied(tbl) /\ tbl \in Table(n) /\ n \in Nat \ {0} /\ Hashed
      OBVIOUS
    <2>3. pass.nodes \in Table(n)
      BY <2>1, <2>2, RemoveFinds
    <2>4. Cardinality(Occupied(pass.nodes)) <= Cardinality(Occupied(tbl)) - 1
      BY <2>1, <2>2, RemoveFinds
    <2>5. (Finds(n, tbl) /\ (pass.done \/ pass.nodes[0] = NoKey)) =>
             /\ Finds(n, pass.nodes)
             /\ KeysIn(pass.nodes) = KeysIn(tbl) \ {tbl[slot]}
      <3>1. Closes(n, tbl, slot, pass)
        BY <2>1, <2>2, RemoveFinds
      <3> QED
        BY <3>1 DEF Closes
    <2> QED
      BY <1>3, <2>3, <2>4, <2>5
  <1>6. /\ gone.set = [set EXCEPT !.nodes = pass.nodes, !.used = @ - 1]
        /\ gone.wrap = (~pass.done /\ pass.nodes[0] # NoKey)
    BY <1>2, <1>3, <1>4 DEF Removed, Cleared
  <1>7. PICK t \in Table(n) : t = pass.nodes
    BY <1>5
  <1>8. PICK used \in Nat : used = set.used - 1 /\ Cardinality(Occupied(t)) <= used
    <2>1. set.used \in Nat /\ Cardinality(Occupied(tbl)) <= set.used
      BY <1>2, SetParts DEF IsSet
    <2>2. Cardinality(Occupied(tbl)) \in Nat /\ Cardinality(Occupied(t)) \in Nat
      BY OccupiedFinite
    <2>3. Cardinality(Occupied(t)) <= Cardinality(Occupied(tbl)) - 1
      BY <1>5, <1>7
    <2> QED
      BY <2>1, <2>2, <2>3
  <1>9. gone.set = [nodes |-> t, number |-> n, used |-> used]
    <2>1. gone.set = [set EXCEPT !.nodes = t, !.used = set.used - 1]
      BY <1>6, <1>7
    <2>2. set \in [nodes : UNION {Table(m) : m \in Nat}, number : Nat \ {0}, used : Nat]
      BY DEF IsSet
    <2> QED
      BY <1>2, <1>8, <2>1, <2>2
  <1>10. IsSet(gone.set) /\ gone.set.nodes = t /\ gone.set.number = n /\ gone.set.used = used
    BY <1>8, <1>9, SetOf
  <1>11. ASSUME Good(set), ~gone.wrap
         PROVE  Good(gone.set) /\ Members(gone.set) = Members(set) \ {k}
    <2>1. Finds(n, tbl) /\ set.used = Cardinality(Members(set)) /\ Members(set) = KeysIn(tbl)
      BY <1>2, <1>11 DEF Good, Members
    <2>2. Finds(n, t) /\ KeysIn(t) = KeysIn(tbl) \ {k}
      BY <1>5, <1>6, <1>7, <1>11, <2>1
    <2>3. k \in Members(set) /\ IsFiniteSet(Members(set))
      BY <1>3, <2>1, SetParts DEF KeysIn
    <2>4. Cardinality(Members(set) \ {k}) = set.used - 1
      <3>1. PICK S : S = Members(set)
        OBVIOUS
      <3>2. k \in S /\ IsFiniteSet(S) /\ Cardinality(S) = set.used
        BY <2>1, <2>3, <3>1
      <3>3. Cardinality(S \ {k}) = Cardinality(S) - 1
        BY <3>2, FS_RemoveElement
      <3> QED
        BY <3>1, <3>2, <3>3
    <2> QED
      BY <1>8, <1>10, <2>1, <2>2, <2>4 DEF Good, Members
  <1> QED
    BY <1>10, <1>11

-----------------------------------------------------------------------------
(* The algebra: a loop over the slots of a set that adds to another.       *)

Sets ==
  {set \in [nodes : UNION {Table(m) : m \in Nat}, number : Nat \ {0}, used : Nat] :
     IsSet(set)}

LEMMA SetsAreSets ==
  ASSUME NEW set
  PROVE  set \in Sets <=> IsSet(set)
  BY DEF Sets, IsSet

LEMMA CopySlotIsSet ==
  ASSUME Hashed, NEW set, IsSet(set), NEW k, NEW wanted \in SUBSET Keys,
         NEW denied \in SUBSET Keys
  PROVE  IsSet(CopySlot(set, k, wanted, denied))
  <1>1. CASE k \in wanted
    <2>1. k \in Keys
      BY <1>1
    <2>2. CopySlot(set, k, wanted, denied) = SetAdd(set, k, k \notin denied)
      BY <1>1 DEF CopySlot
    <2> QED
      BY <2>1, <2>2, AddKeeps
  <1>2. CASE k \notin wanted
    BY <1>2 DEF CopySlot
  <1> QED
    BY <1>1, <1>2

(* What the loop makes of the set, slot by slot.                           *)
IsCopy(copy, into, from, wanted, denied) ==
  /\ \A d \in 0..from.number : IsSet(copy[d])
  /\ copy[0] = into
  /\ \A d \in 0..from.number - 1 :
       copy[d + 1] = CopySlot(copy[d], from.nodes[d], wanted, denied)

LEMMA CopyPasses ==
  ASSUME Hashed, NEW into, IsSet(into), NEW from, IsSet(from),
         NEW wanted \in SUBSET Keys, NEW denied \in SUBSET Keys
  PROVE  \E copy : /\ IsCopy(copy, into, from, wanted, denied)
                   /\ Copy(into, from, wanted, denied) = copy[from.number]
  <1>1. PICK n \in Nat \ {0} : n = from.number
    BY SetParts
  <1> DEFINE V == Sets
             Next1(d, v) == CopySlot(v, from.nodes[d], wanted, denied)
             step == [d \in Nat |-> [v \in V |-> Next1(d, v)]]
             Is(f) == f = [d \in 0..n |-> IF d = 0 THEN into ELSE Next1(d - 1, f[d - 1])]
  <1>2. into \in V
    BY SetsAreSets
  <1>3. ASSUME NEW d, NEW v \in V
        PROVE  Next1(d, v) \in V
    BY SetsAreSets, CopySlotIsSet
  <1> HIDE DEF Next1, V
  <1>4. step \in [Nat -> [V -> V]]
    BY <1>3
  <1>5. PICK f : IsRecursion(f, V, into, step)
    <2> HIDE DEF step
    <2> QED
      BY <1>2, <1>4, NatRec, Zenon
  <1>6. /\ f \in [Nat -> V] /\ f[0] = into
        /\ \A d \in Nat : f[d + 1] = Next1(d, f[d])
    BY <1>5 DEF IsRecursion
  <1> DEFINE g == [d \in 0..n |-> f[d]]
  <1>7. Is(g)
    <2>1. ASSUME NEW d \in 0..n
          PROVE  f[d] = IF d = 0 THEN into ELSE Next1(d - 1, g[d - 1])
      <3>1. CASE d = 0
        BY <1>6, <3>1
      <3>2. CASE d # 0
        <4>1. PICK c \in Nat : c = d - 1
          BY <3>2
        <4>2. d = c + 1 /\ c \in 0..n
          BY <4>1
        <4>3. f[d] = Next1(c, f[c]) /\ g[c] = f[c]
          BY <1>6, <4>2
        <4> HIDE DEF g
        <4> QED
          BY <3>2, <4>1, <4>3
      <3> QED
        BY <3>1, <3>2
    <2>2. g = [d \in 0..n |-> g[d]] /\ \A d \in 0..n : g[d] = f[d]
      OBVIOUS
    <2> HIDE DEF g
    <2> QED
      BY <2>1, <2>2
  <1> HIDE DEF g, step
  <1> DEFINE copy == CHOOSE h : Is(h)
  <1>8. Is(copy)
    BY <1>7
  <1>9. Copy(into, from, wanted, denied) = copy[n]
    BY <1>1 DEF Copy, Next1
  <1> HIDE DEF copy
  <1>10. copy[0] = into
    BY <1>8
  <1>11. \A d \in 0..n - 1 : copy[d + 1] = Next1(d, copy[d])
    <2> SUFFICES ASSUME NEW d \in 0..n - 1 PROVE copy[d + 1] = Next1(d, copy[d])
      OBVIOUS
    <2>1. d + 1 \in 0..n /\ d + 1 # 0 /\ (d + 1) - 1 = d
      OBVIOUS
    <2>2. copy[d + 1] = IF d + 1 = 0 THEN into ELSE Next1((d + 1) - 1, copy[(d + 1) - 1])
      BY <1>8, <2>1
    <2> QED
      BY <2>1, <2>2
  <1>12. \A d \in 0..n : copy[d] \in V
    <2> DEFINE T == {d \in Nat : d <= n => copy[d] \in V}
    <2>1. 0 \in T
      BY <1>2, <1>10
    <2>2. ASSUME NEW d \in Nat, d \in T PROVE d + 1 \in T
      <3> SUFFICES ASSUME d + 1 <= n PROVE copy[d + 1] \in V
        BY <2>2
      <3>1. d \in 0..n - 1
        OBVIOUS
      <3> QED
        BY <1>3, <1>11, <2>2, <3>1
    <2> HIDE DEF T
    <2>3. Nat \subseteq T
      BY <2>1, <2>2, NatInd
    <2> QED
      BY <2>3 DEF T
  <1>13. \A d \in 0..n : IsSet(copy[d])
    BY <1>12, SetsAreSets DEF V
  <1> QED
    BY <1>1, <1>9, <1>10, <1>11, <1>13 DEF IsCopy, Next1

(* It adds the wanted keys of the one to the other, and with too little    *)
(* memory some of them.                                                    *)
Adds(new, into, wanted, all) ==
  /\ Good(new)
  /\ Members(into) \subseteq Members(new)
  /\ Members(new) \subseteq Members(into) \cup wanted
  /\ all => Members(new) = Members(into) \cup wanted

LEMMA CopyKeeps ==
  ASSUME Hashed, NEW into, Good(into), NEW from, IsSet(from),
         NEW wanted \in SUBSET Keys, NEW denied \in SUBSET Keys,
         NEW new, new = Copy(into, from, wanted, denied)
  PROVE  Adds(new, into, Members(from) \cap wanted, denied = {})
  <1>1. PICK n \in Nat \ {0} : n = from.number /\ from.nodes \in Table(n)
    BY SetParts
  <1>2. PICK tbl \in Table(n) : n = from.number /\ tbl = from.nodes
    BY <1>1
  <1>3. PICK copy : IsCopy(copy, into, from, wanted, denied) /\ new = copy[n]
    <2>1. IsSet(into)
      BY DEF Good
    <2>2. \E copy : /\ IsCopy(copy, into, from, wanted, denied)
                    /\ Copy(into, from, wanted, denied) = copy[from.number]
      BY <2>1, CopyPasses
    <2> QED
      BY <1>2, <2>2
  <1>4. /\ \A d \in 0..n : IsSet(copy[d])
        /\ copy[0] = into
        /\ \A d \in 0..n - 1 : copy[d + 1] = CopySlot(copy[d], tbl[d], wanted, denied)
    BY <1>2, <1>3 DEF IsCopy
  <1> DEFINE Read(d) == {tbl[i] : i \in {j \in Occupied(tbl) : j < d}} \cap wanted
             T == {d \in Nat : d <= n => Adds(copy[d], into, Read(d), denied = {})}
  <1>5. /\ Occupied(tbl) \subseteq 0..n - 1
        /\ \A i \in 0..n - 1 : i \in Occupied(tbl) <=> tbl[i] # NoKey
    BY OccupiedFinite DEF Table, Occupied
  <1>6. Adds(copy[0], into, Read(0), denied = {})
    <2>1. Read(0) = {}
      <3>1. \A j \in Occupied(tbl) : ~(j < 0)
        BY <1>5
      <3> QED
        BY <3>1
    <2> HIDE DEF Read
    <2> QED
      BY <1>4, <2>1 DEF Adds
  <1>7. ASSUME NEW d \in 0..n - 1, Adds(copy[d], into, Read(d), denied = {})
        PROVE  Adds(copy[d + 1], into, Read(d + 1), denied = {})
    <2>1. PICK k : k = tbl[d]
      OBVIOUS
    <2>2. PICK old, next : old = copy[d] /\ next = copy[d + 1]
      OBVIOUS
    <2>3. next = CopySlot(old, k, wanted, denied) /\ Good(old)
      BY <1>4, <1>7, <2>1, <2>2 DEF Adds
    <2>4. CASE k \in wanted
      <3>1. Read(d + 1) = Read(d) \cup {k}
        <4>1. k \in Keys /\ d \in Occupied(tbl)
          <5>1. k \in Keys /\ k # NoKey
            BY <2>4, NodeIsNode
          <5> QED
            BY <1>5, <2>1, <5>1
        <4>2. ASSUME NEW j \in Occupied(tbl)
              PROVE  j < d + 1 <=> (j < d \/ j = d)
          BY <1>5
        <4> QED
          BY <2>1, <2>4, <4>1, <4>2
      <3>2. next = SetAdd(old, k, k \notin denied) /\ k \in Keys
        BY <2>3, <2>4 DEF CopySlot
      <3>3. /\ Good(next)
            /\ Members(next) = IF OutOfMemory(old, k, k \notin denied) THEN Members(old)
                               ELSE Members(old) \cup {k}
            /\ denied = {} => ~OutOfMemory(old, k, k \notin denied)
        <4>1. PICK memory \in BOOLEAN : memory = (k \notin denied)
          OBVIOUS
        <4>2. next = SetAdd(old, k, memory) /\ k \in Keys /\ IsSet(old)
          BY <2>3, <3>2, <4>1 DEF Good
        <4>3. /\ Good(next)
              /\ Members(next) = IF OutOfMemory(old, k, memory) THEN Members(old)
                                 ELSE Members(old) \cup {k}
              /\ memory => ~OutOfMemory(old, k, memory)
          BY <2>3, <4>2, AddKeeps
        <4> QED
          BY <4>1, <4>3
      <3> HIDE DEF Read
      <3> QED
        BY <1>7, <2>2, <3>1, <3>3 DEF Adds
    <2>5. CASE k \notin wanted
      <3>1. Read(d + 1) = Read(d)
        <4>1. ASSUME NEW j \in Occupied(tbl)
              PROVE  j < d + 1 <=> (j < d \/ j = d)
          BY <1>5
        <4> QED
          BY <2>1, <2>5, <4>1
      <3>2. next = old
        BY <2>3, <2>5 DEF CopySlot
      <3> HIDE DEF Read
      <3> QED
        BY <1>7, <2>2, <3>1, <3>2
    <2> QED
      BY <2>4, <2>5
  <1>8. Read(n) = Members(from) \cap wanted
    <2>1. \A j \in Occupied(tbl) : j < n
      BY <1>5
    <2>2. Members(from) = {tbl[i] : i \in Occupied(tbl)}
      BY <1>2 DEF Members, KeysIn
    <2> QED
      BY <2>1, <2>2
  <1> HIDE DEF Read
  <1>9. Nat \subseteq T
    <2>1. 0 \in T
      BY <1>6
    <2>2. ASSUME NEW d \in Nat, d \in T PROVE d + 1 \in T
      <3> SUFFICES ASSUME d + 1 <= n PROVE Adds(copy[d + 1], into, Read(d + 1), denied = {})
        BY <2>2
      <3>1. d \in 0..n - 1 /\ d <= n
        OBVIOUS
      <3> QED
        BY <1>7, <2>2, <3>1
    <2> HIDE DEF T
    <2> QED
      BY <2>1, <2>2, NatInd
  <1> QED
    BY <1>3, <1>8, <1>9

(* The keys that set_contains finds.                                       *)
LEMMA FoundKeys ==
  ASSUME Hashed, NEW set, Good(set)
  PROVE  /\ Found(set) = Members(set)
         /\ set.used = Cardinality(Occupied(set.nodes))
         /\ set.used < set.number => \A k \in Keys : SetContains(set, k) # "circular"
  <1>1. PICK n \in Nat \ {0} : n = set.number /\ set.nodes \in Table(n)
    BY SetParts DEF Good
  <1>2. PICK tbl \in Table(n) : n = set.number /\ tbl = set.nodes
    BY <1>1
  <1>3. Finds(n, tbl) /\ set.used = Cardinality(KeysIn(tbl)) /\ Members(set) = KeysIn(tbl)
    BY <1>2 DEF Good, Members
  <1>4. ASSUME NEW k \in Keys
        PROVE  /\ SetContains(set, k) = "true" <=> k \in Members(set)
               /\ SetContains(set, k) = "circular" => Occupied(tbl) = 0..n - 1
    BY <1>2, <1>3, ContainsSays DEF SetContains
  <1>5. Found(set) = Members(set)
    <2>1. Members(set) \subseteq Keys
      BY SetParts DEF Good
    <2> QED
      BY <1>4, <2>1 DEF Found
  <1>6. set.used = Cardinality(Occupied(tbl))
    <2>1. UniqueIn(tbl)
      BY <1>3, FoundOnce
    <2> QED
      BY <1>3, <2>1, NodesAreKeys
  <1>7. Cardinality(0..n - 1) = n
    <2>1. 0 \in Int /\ n - 1 \in Int /\ 0 <= n - 1
      OBVIOUS
    <2> QED
      BY <2>1, FS_Interval
  <1> QED
    BY <1>2, <1>4, <1>5, <1>6, <1>7

(* What each operation adds to a set.                                      *)
LEMMA OperationsAdd ==
  ASSUME Hashed, NEW into, Good(into), NEW a, IsSet(a), NEW b, IsSet(b),
         NEW denied \in SUBSET Keys, NEW later \in SUBSET Keys
  PROVE  LET all == denied = {} /\ later = {} IN
         /\ Adds(Union(into, a, b, denied, later), into, Members(a) \cup Members(b), all)
         /\ Adds(Intersection(into, a, b, denied), into, Members(a) \cap Found(b), all)
         /\ Adds(Difference(into, a, b, denied), into, Members(a) \ Found(b), all)
         /\ Adds(SymmetricDifference(into, a, b, denied, later), into,
                 (Members(a) \ Found(b)) \cup (Members(b) \ Found(a)), all)
  <1> DEFINE first == denied = {}
             second == later = {}
             all == denied = {} /\ later = {}
  <1>1. /\ Members(a) \subseteq Keys /\ Members(b) \subseteq Keys
        /\ Found(a) \subseteq Keys /\ Found(b) \subseteq Keys
    BY SetParts DEF Found
  <1>2. ASSUME NEW x, Good(x), NEW c, IsSet(c), NEW wanted \in SUBSET Keys,
               NEW none \in SUBSET Keys
        PROVE  Adds(Copy(x, c, wanted, none), x, Members(c) \cap wanted, none = {})
    BY <1>2, CopyKeeps
  <1>3. ASSUME NEW x, NEW y, NEW z, NEW U, NEW W, Adds(y, x, U, first), Adds(z, y, W, second)
        PROVE  Adds(z, x, U \cup W, all)
    BY <1>3 DEF Adds
  <1>4. ASSUME NEW x, NEW y, NEW U, Adds(y, x, U, first)
        PROVE  Adds(y, x, U, all)
    BY <1>4 DEF Adds
  <1>5. Adds(Union(into, a, b, denied, later), into, Members(a) \cup Members(b), all)
    <2>1. PICK y : y = Copy(into, a, Keys, denied)
      OBVIOUS
    <2>2. Adds(y, into, Members(a), first) /\ Good(y)
      <3>1. Adds(y, into, Members(a) \cap Keys, first)
        BY <1>2, <2>1
      <3>2. Members(a) \cap Keys = Members(a)
        BY <1>1
      <3> QED
        BY <3>1, <3>2 DEF Adds
    <2>3. Adds(Copy(y, b, Keys, later), y, Members(b), second)
      <3>1. Adds(Copy(y, b, Keys, later), y, Members(b) \cap Keys, second)
        BY <1>2, <2>2
      <3>2. Members(b) \cap Keys = Members(b)
        BY <1>1
      <3> QED
        BY <3>1, <3>2
    <2> QED
      BY <1>3, <2>1, <2>2, <2>3 DEF Union
  <1>6. Adds(Intersection(into, a, b, denied), into, Members(a) \cap Found(b), all)
    <2>1. Adds(Copy(into, a, Found(b), denied), into, Members(a) \cap Found(b), first)
      BY <1>1, <1>2
    <2> QED
      BY <1>4, <2>1 DEF Intersection
  <1>7. ASSUME NEW x, Good(x), NEW c, IsSet(c), NEW d, Members(c) \subseteq Keys,
               NEW none \in SUBSET Keys
        PROVE  Adds(Difference(x, c, d, none), x, Members(c) \ Found(d), none = {})
    <2>1. Members(c) \cap (Keys \ Found(d)) = Members(c) \ Found(d)
      BY <1>7
    <2>2. Adds(Copy(x, c, Keys \ Found(d), none), x,
               Members(c) \cap (Keys \ Found(d)), none = {})
      BY <1>2, <1>7
    <2> QED
      BY <2>1, <2>2 DEF Difference
  <1>8. Adds(Difference(into, a, b, denied), into, Members(a) \ Found(b), first)
    BY <1>1, <1>7
  <1>9. Adds(SymmetricDifference(into, a, b, denied, later), into,
             (Members(a) \ Found(b)) \cup (Members(b) \ Found(a)), all)
    <2>1. PICK y : y = Difference(into, a, b, denied)
      OBVIOUS
    <2>2. Adds(y, into, Members(a) \ Found(b), first) /\ Good(y)
      BY <1>8, <2>1 DEF Adds
    <2>3. Adds(Difference(y, b, a, later), y, Members(b) \ Found(a), second)
      BY <1>1, <1>7, <2>2
    <2> QED
      BY <1>3, <2>1, <2>2, <2>3 DEF SymmetricDifference
  <1> QED
    BY <1>4, <1>5, <1>6, <1>8, <1>9

-----------------------------------------------------------------------------
(* The invariant.                                                          *)

Sides == {"left", "right"}
Operations == {"union", "intersection", "difference", "symmetric"}

(* The given keys are those of the set, where no remove met a wrapped run. *)
Keeps(side, set) ==
  /\ IsSet(set)
  /\ Sound(side) => Good(set) /\ Members(set) = given[side]
(* The result of an operation was filled by adds alone, so it is a good    *)
(* set even where the two sets it was made from are not.                   *)
Results ==
  \/ res = NoResult
  \/ /\ res.op \in Operations /\ res.complete \in BOOLEAN /\ Good(res.set)
     /\ (Sound("left") /\ Sound("right")) =>
          /\ Members(res.set) \subseteq Meant(res.op)
          /\ res.complete => Members(res.set) = Meant(res.op)
SetInv ==
  /\ Hashed
  /\ given \in [left : SUBSET Keys, right : SUBSET Keys, wrap : SUBSET Sides]
  /\ Keeps("left", left)
  /\ Keeps("right", right)
  /\ Results

LEMMA SetInit == Init => SetInv
  <1> SUFFICES ASSUME Init PROVE SetInv
    OBVIOUS
  <1>1. PICK m, n \in Sizes : left = New(m) /\ right = New(n)
    BY DEF Init
  <1>2. m \in Nat \ {0} /\ n \in Nat \ {0}
    BY SizesAssumption
  <1>3. /\ Good(left) /\ Members(left) = {}
        /\ Good(right) /\ Members(right) = {}
    BY <1>1, <1>2, NewIsEmpty
  <1> QED
    BY <1>3 DEF Init, SetInv, Hashed, Keeps, Results, Good, Sides

(* A set is as good in the next state, as the hash function is the same.   *)
LEMMA GoodStays ==
  ASSUME hash' = hash, NEW set
  PROVE  Good(set)' <=> Good(set)
  BY DEF Good, IsSet, Finds, FoundAt, Before, StopsAt, Probe, Members, KeysIn, Occupied, Table

(* A call on a set leaves one that keeps what has been given.              *)
LEMMA UpdateKeeps ==
  ASSUME SetInv, NEW side \in Sides, NEW set, IsSet(set), Update(side, set),
         given' \in [left : SUBSET Keys, right : SUBSET Keys, wrap : SUBSET Sides],
         \A other \in Sides : other # side =>
           /\ given'[other] = given[other]
           /\ other \in given'.wrap <=> other \in given.wrap,
         side \notin given'.wrap => Good(set) /\ Members(set) = given'[side]
  PROVE  SetInv'
  <1>1. hash' = hash /\ res' = NoResult
    BY DEF Update
  <1>2. PICK l, r : l = left' /\ r = right'
    OBVIOUS
  <1>3. ASSUME NEW one, IsSet(one), NEW at \in Sides,
               at \notin given'.wrap => Good(one) /\ Members(one) = given'[at]
        PROVE  IsSet(one)' /\ (Sound(at)' => Good(one)' /\ Members(one)' = given'[at])
    <2>1. Sound(at)' <=> at \notin given'.wrap
      BY DEF Sound
    <2>2. IsSet(one)' /\ Members(one)' = Members(one)
      BY <1>3 DEF IsSet, Members, KeysIn, Occupied, Table
    <2> QED
      BY <1>1, <1>3, <2>1, <2>2, GoodStays
  <1>4. CASE side = "left"
    <2>1. l = set /\ r = right
      BY <1>2, <1>4 DEF Update
    <2>2. /\ IsSet(r)
          /\ "right" \notin given'.wrap => Good(r) /\ Members(r) = given'["right"]
      BY <1>4, <2>1 DEF SetInv, Keeps, Sound, Sides
    <2>3. /\ IsSet(l)
          /\ "left" \notin given'.wrap => Good(l) /\ Members(l) = given'["left"]
      BY <1>4, <2>1
    <2>4. "left" \in Sides /\ "right" \in Sides
      BY DEF Sides
    <2>5. IsSet(l)' /\ (Sound("left")' => Good(l)' /\ Members(l)' = given'["left"])
      BY <1>3, <2>3, <2>4
    <2>6. IsSet(r)' /\ (Sound("right")' => Good(r)' /\ Members(r)' = given'["right"])
      BY <1>3, <2>2, <2>4
    <2> QED
      BY <1>1, <1>2, <2>5, <2>6 DEF SetInv, Keeps, Results, Hashed
  <1>5. CASE side = "right"
    <2>1. l = left /\ r = set
      BY <1>2, <1>5 DEF Update
    <2>2. /\ IsSet(l)
          /\ "left" \notin given'.wrap => Good(l) /\ Members(l) = given'["left"]
      BY <1>5, <2>1 DEF SetInv, Keeps, Sound, Sides
    <2>3. /\ IsSet(r)
          /\ "right" \notin given'.wrap => Good(r) /\ Members(r) = given'["right"]
      BY <1>5, <2>1
    <2>4. "left" \in Sides /\ "right" \in Sides
      BY DEF Sides
    <2>5. IsSet(l)' /\ (Sound("left")' => Good(l)' /\ Members(l)' = given'["left"])
      BY <1>3, <2>2, <2>4
    <2>6. IsSet(r)' /\ (Sound("right")' => Good(r)' /\ Members(r)' = given'["right"])
      BY <1>3, <2>3, <2>4
    <2> QED
      BY <1>1, <1>2, <2>5, <2>6 DEF SetInv, Keeps, Results, Hashed
  <1> QED
    BY <1>4, <1>5 DEF Sides

LEMMA SideKeeps ==
  ASSUME SetInv, NEW side \in Sides
  PROVE  /\ IsSet(Side(side))
         /\ Sound(side) => Good(Side(side)) /\ Members(Side(side)) = given[side]
         /\ given[side] \subseteq Keys
  <1>1. CASE side = "left"
    BY <1>1 DEF SetInv, Keeps, Side
  <1>2. CASE side = "right"
    BY <1>2 DEF SetInv, Keeps, Side
  <1> QED
    BY <1>1, <1>2 DEF Sides

LEMMA AddStep ==
  ASSUME SetInv, NEW side \in Sides, NEW k \in Keys, NEW memory \in BOOLEAN,
         Add(side, k, memory)
  PROVE  SetInv'
  <1>1. PICK old, set : old = Side(side) /\ set = SetAdd(old, k, memory)
    OBVIOUS
  <1>2. IsSet(old) /\ (Sound(side) => Good(old) /\ Members(old) = given[side]) /\ Hashed
    BY <1>1, SideKeeps DEF SetInv
  <1>3. /\ IsSet(set)
        /\ Good(old) =>
             /\ Good(set)
             /\ Members(set) = IF OutOfMemory(old, k, memory) THEN Members(old)
                               ELSE Members(old) \cup {k}
    BY <1>1, <1>2, AddKeeps
  <1>4. PICK G : G = IF OutOfMemory(old, k, memory) THEN given[side] ELSE given[side] \cup {k}
    OBVIOUS
  <1>5. Update(side, set) /\ given' = [given EXCEPT ![side] = G]
    BY <1>1, <1>4 DEF Add
  <1>6. given \in [left : SUBSET Keys, right : SUBSET Keys, wrap : SUBSET Sides]
    BY DEF SetInv
  <1>7. G \in SUBSET Keys
    BY <1>4, SideKeeps
  <1>8. /\ given' \in [left : SUBSET Keys, right : SUBSET Keys, wrap : SUBSET Sides]
        /\ given'[side] = G /\ given'.wrap = given.wrap
        /\ \A other \in Sides : other # side => given'[other] = given[other]
    BY <1>5, <1>6, <1>7 DEF Sides
  <1>9. side \notin given'.wrap => Good(set) /\ Members(set) = given'[side]
    BY <1>2, <1>3, <1>4, <1>8 DEF Sound
  <1> QED
    BY <1>3, <1>5, <1>8, <1>9, UpdateKeeps

LEMMA RemoveStep ==
  ASSUME SetInv, NEW side \in Sides, NEW k \in Keys, RemoveKey(side, k)
  PROVE  SetInv'
  <1>1. PICK old, gone : old = Side(side) /\ gone = Removed(old, k)
    OBVIOUS
  <1>2. IsSet(old) /\ (Sound(side) => Good(old) /\ Members(old) = given[side]) /\ Hashed
    BY <1>1, SideKeeps DEF SetInv
  <1>3. SetContains(old, k) = "true"
    BY <1>1 DEF RemoveKey
  <1>4. /\ IsSet(gone.set)
        /\ (Good(old) /\ ~gone.wrap) =>
             Good(gone.set) /\ Members(gone.set) = Members(old) \ {k}
    BY <1>1, <1>2, <1>3, RemoveKeeps
  <1>5. PICK G, W : G = given[side] \ {k}
                    /\ W = IF gone.wrap THEN given.wrap \cup {side} ELSE given.wrap
    OBVIOUS
  <1>6. Update(side, gone.set) /\ given' = [given EXCEPT ![side] = G, !.wrap = W]
    BY <1>1, <1>5 DEF RemoveKey
  <1>7. given \in [left : SUBSET Keys, right : SUBSET Keys, wrap : SUBSET Sides]
    BY DEF SetInv
  <1>8. G \in SUBSET Keys /\ W \in SUBSET Sides
    BY <1>5, <1>7, SideKeeps
  <1>9. /\ given' \in [left : SUBSET Keys, right : SUBSET Keys, wrap : SUBSET Sides]
        /\ given'[side] = G /\ given'.wrap = W
        /\ \A other \in Sides : other # side => given'[other] = given[other]
    BY <1>6, <1>7, <1>8 DEF Sides
  <1>10. \A other \in Sides : other # side => (other \in W <=> other \in given.wrap)
    BY <1>5
  <1>11. side \notin W => Good(gone.set) /\ Members(gone.set) = G
    BY <1>2, <1>4, <1>5 DEF Sound
  <1> QED
    BY <1>4, <1>6, <1>9, <1>10, <1>11, UpdateKeeps

LEMMA EmptyStep ==
  ASSUME SetInv, NEW side \in Sides, NEW n \in Sizes \cup {Side(side).number},
         Empty(side, n)
  PROVE  SetInv'
  <1>1. n \in Nat \ {0}
    BY SideKeeps, SetParts, SizesAssumption
  <1>2. PICK set : set = New(n)
    OBVIOUS
  <1>3. IsSet(set) /\ Good(set) /\ Members(set) = {}
    BY <1>1, <1>2, NewIsEmpty DEF Good
  <1>4. PICK W : W = given.wrap \ {side}
    OBVIOUS
  <1>5. Update(side, set) /\ given' = [given EXCEPT ![side] = {}, !.wrap = W]
    BY <1>2, <1>4 DEF Empty
  <1>6. given \in [left : SUBSET Keys, right : SUBSET Keys, wrap : SUBSET Sides]
    BY DEF SetInv
  <1>7. W \in SUBSET Sides
    BY <1>4, <1>6
  <1>8. /\ given' \in [left : SUBSET Keys, right : SUBSET Keys, wrap : SUBSET Sides]
        /\ given'[side] = {} /\ given'.wrap = W
        /\ \A other \in Sides : other # side => given'[other] = given[other]
    BY <1>5, <1>6, <1>7 DEF Sides
  <1>9. \A other \in Sides : other # side => (other \in W <=> other \in given.wrap)
    BY <1>4
  <1> QED
    BY <1>3, <1>5, <1>8, <1>9, UpdateKeeps

(* A step that leaves the two sets and what was given.                     *)
LEMMA SidesStay ==
  ASSUME SetInv, UNCHANGED <<hash, left, right, given>>
  PROVE  Keeps("left", left)' /\ Keeps("right", right)'
  <1>1. hash' = hash /\ left' = left /\ right' = right /\ given' = given
    OBVIOUS
  <1>2. PICK l, r : l = left /\ r = right
    OBVIOUS
  <1>3. /\ IsSet(l) /\ (Sound("left") => Good(l) /\ Members(l) = given["left"])
        /\ IsSet(r) /\ (Sound("right") => Good(r) /\ Members(r) = given["right"])
    BY <1>2 DEF SetInv, Keeps
  <1>4. /\ IsSet(l)' /\ Members(l)' = Members(l)
        /\ IsSet(r)' /\ Members(r)' = Members(r)
    BY <1>3 DEF IsSet, Members, KeysIn, Occupied, Table
  <1>5. (Sound("left")' <=> Sound("left")) /\ (Sound("right")' <=> Sound("right"))
    BY <1>1 DEF Sound
  <1>6. /\ IsSet(l)' /\ (Sound("left")' => Good(l)' /\ Members(l)' = given'["left"])
        /\ IsSet(r)' /\ (Sound("right")' => Good(r)' /\ Members(r)' = given'["right"])
    BY <1>1, <1>3, <1>4, <1>5, GoodStays
  <1> QED
    BY <1>1, <1>2, <1>6 DEF Keeps

(* The set that an operation fills is empty.                               *)
LEMMA IntoIsEmpty ==
  ASSUME SetInv, NEW n \in InitSizes, Into(n).used = 0
  PROVE  Good(Into(n)) /\ Members(Into(n)) = {}
  <1>1. CASE res = NoResult
    BY <1>1, SizesAssumption, NewIsEmpty DEF InitSizes, Into
  <1>2. CASE res # NoResult
    <2>1. PICK set : set = res.set
      OBVIOUS
    <2>2. Good(set) /\ set.used = 0 /\ Into(n) = set
      BY <1>2, <2>1 DEF SetInv, Results, Into
    <2>3. IsFiniteSet(Members(set)) /\ Cardinality(Members(set)) = 0
      BY <2>2, SetParts DEF Good
    <2> QED
      BY <2>2, <2>3, FS_EmptySet
  <1> QED
    BY <1>1, <1>2

LEMMA CombineStep ==
  ASSUME SetInv, NEW op \in Operations, NEW n \in InitSizes,
         NEW denied \in SUBSET Keys, NEW later \in SUBSET Keys,
         Combine(op, n, denied, later)
  PROVE  SetInv'
  <1> DEFINE all == denied = {} /\ later = {}
  <1>1. hash' = hash /\ left' = left /\ right' = right /\ given' = given
    BY DEF Combine
  <1>2. PICK new, into : /\ new = res'.set /\ into = Into(n)
                         /\ Good(into) /\ Members(into) = {}
    BY IntoIsEmpty DEF Combine
  <1>3. IsSet(left) /\ IsSet(right) /\ Hashed
    BY DEF SetInv, Keeps
  <1>4. PICK F, G : F = Found(left) /\ G = Found(right)
    OBVIOUS
  <1>5. /\ res'.op = op /\ res'.complete = all
        /\ new = CASE op = "union" -> Union(into, left, right, denied, later)
                   [] op = "intersection" -> Intersection(into, left, right, denied)
                   [] op = "difference" -> Difference(into, left, right, denied)
                   [] OTHER -> SymmetricDifference(into, left, right, denied, later)
    BY <1>2 DEF Combine
  <1>6. PICK W : /\ Adds(new, into, W, all)
                 /\ W = CASE op = "union" -> Members(left) \cup Members(right)
                          [] op = "intersection" -> Members(left) \cap G
                          [] op = "difference" -> Members(left) \ G
                          [] op = "symmetric" -> (Members(left) \ G) \cup (Members(right) \ F)
    <2>1. /\ Adds(Union(into, left, right, denied, later), into,
                  Members(left) \cup Members(right), all)
          /\ Adds(Intersection(into, left, right, denied), into, Members(left) \cap G, all)
          /\ Adds(Difference(into, left, right, denied), into, Members(left) \ G, all)
          /\ Adds(SymmetricDifference(into, left, right, denied, later), into,
                  (Members(left) \ G) \cup (Members(right) \ F), all)
      BY <1>2, <1>3, <1>4, OperationsAdd
    <2> HIDE DEF all
    <2>2. CASE op = "union"
      BY <1>5, <2>1, <2>2
    <2>3. CASE op = "intersection"
      BY <1>5, <2>1, <2>3
    <2>4. CASE op = "difference"
      BY <1>5, <2>1, <2>4
    <2>5. CASE op = "symmetric"
      BY <1>5, <2>1, <2>5
    <2> QED
      BY <2>2, <2>3, <2>4, <2>5 DEF Operations
  <1>7. /\ Good(new) /\ Members(new) \subseteq W
        /\ all => Members(new) = W
    BY <1>2, <1>6 DEF Adds
  <1>8. ASSUME Sound("left"), Sound("right")
        PROVE  W = Meant(op)
    <2>1. /\ Good(left) /\ Members(left) = given.left
          /\ Good(right) /\ Members(right) = given.right
      BY <1>8 DEF SetInv, Keeps
    <2>2. F = given.left /\ G = given.right
      BY <1>3, <1>4, <2>1, FoundKeys
    <2> QED
      BY <1>6, <2>1, <2>2 DEF Meant, Operations
  <1>9. Good(new)'
    BY <1>1, <1>7, GoodStays
  <1>10. Members(new)' = Members(new)
    BY DEF Members, KeysIn, Occupied
  <1>11. Results'
    <2>1. (Sound("left")' <=> Sound("left")) /\ (Sound("right")' <=> Sound("right"))
      BY <1>1 DEF Sound
    <2>2. Meant(op)' = Meant(op)
      BY <1>1 DEF Meant
    <2> QED
      BY <1>2, <1>5, <1>7, <1>8, <1>9, <1>10, <2>1, <2>2 DEF Results
  <1>12. Keeps("left", left)' /\ Keeps("right", right)'
    BY <1>1, SidesStay
  <1> QED
    BY <1>1, <1>11, <1>12 DEF SetInv, Hashed

LEMMA DropStep ==
  ASSUME SetInv, DropResult
  PROVE  SetInv'
  <1>1. /\ hash' = hash /\ left' = left /\ right' = right /\ given' = given
        /\ res' = NoResult
    BY DEF DropResult
  <1>2. Keeps("left", left)' /\ Keeps("right", right)'
    BY <1>1, SidesStay
  <1>3. Results'
    BY <1>1 DEF Results
  <1> QED
    BY <1>1, <1>2, <1>3 DEF SetInv, Hashed

LEMMA SetStep == SetInv /\ [Next]_vars => SetInv'
  <1> SUFFICES ASSUME SetInv, [Next]_vars PROVE SetInv'
    OBVIOUS
  <1>1. CASE \E side \in Sides, k \in Keys, memory \in BOOLEAN : Add(side, k, memory)
    BY <1>1, AddStep
  <1>2. CASE \E side \in Sides, k \in Keys : RemoveKey(side, k)
    BY <1>2, RemoveStep
  <1>3. CASE \E side \in Sides : \E n \in Sizes \cup {Side(side).number} : Empty(side, n)
    BY <1>3, EmptyStep
  <1>4. CASE \E op \in Operations, n \in InitSizes, denied, later \in SUBSET Keys :
               Combine(op, n, denied, later)
    BY <1>4, CombineStep
  <1>5. CASE DropResult
    BY <1>5, DropStep
  <1>6. CASE UNCHANGED vars \/ CombineOccupied
    <2>1. hash' = hash /\ left' = left /\ right' = right /\ given' = given /\ res' = res
      BY <1>6 DEF vars, CombineOccupied
    <2>2. PICK l, r, x : l = left /\ r = right /\ x = res
      OBVIOUS
    <2>3. \A set : Good(set)' <=> Good(set)
      BY <2>1, GoodStays
    <2>4. \A set : IsSet(set)' = IsSet(set) /\ Members(set)' = Members(set)
      BY DEF IsSet, Members, KeysIn, Occupied, Table
    <2>5. (Sound("left")' <=> Sound("left")) /\ (Sound("right")' <=> Sound("right"))
      BY <2>1 DEF Sound
    <2>6. Meant(x.op)' = Meant(x.op)
      BY <2>1 DEF Meant
    <2>7. Keeps("left", left)' /\ Keeps("right", right)'
      BY <2>1, SidesStay
    <2>8. Results'
      <3>1. CASE x = NoResult
        BY <2>1, <2>2, <3>1 DEF Results
      <3>2. CASE x # NoResult
        <4>1. /\ x.op \in Operations /\ x.complete \in BOOLEAN /\ Good(x.set)
              /\ (Sound("left") /\ Sound("right")) =>
                   /\ Members(x.set) \subseteq Meant(x.op)
                   /\ x.complete => Members(x.set) = Meant(x.op)
          BY <2>2, <3>2 DEF SetInv, Results
        <4>2. PICK set : set = x.set
          OBVIOUS
        <4>3. Good(set)' /\ Members(set)' = Members(set)
          BY <2>3, <2>4, <4>1, <4>2
        <4> QED
          BY <2>1, <2>2, <2>5, <2>6, <4>1, <4>2, <4>3 DEF Results
      <3> QED
        BY <3>1, <3>2
    <2> QED
      BY <2>1, <2>7, <2>8 DEF SetInv, Hashed
  <1>7. ASSUME Next
        PROVE  \/ \E side \in Sides, k \in Keys, memory \in BOOLEAN : Add(side, k, memory)
               \/ \E side \in Sides, k \in Keys : RemoveKey(side, k)
               \/ \E side \in Sides : \E n \in Sizes \cup {Side(side).number} : Empty(side, n)
               \/ \E op \in Operations, n \in InitSizes, denied, later \in SUBSET Keys :
                    Combine(op, n, denied, later)
               \/ CombineOccupied \/ DropResult
    <2>1. Members(left) \subseteq Keys /\ Members(right) \subseteq Keys /\ {} \subseteq Keys
      BY SetParts DEF SetInv, Keeps
    <2> QED
      BY <1>7, <2>1 DEF Next, Deniable, Sides, Operations
  <1> QED
    BY <1>1, <1>2, <1>3, <1>4, <1>6, <1>5, <1>7

LEMMA SetInvariant == Spec => []SetInv
  BY SetInit, SetStep, PTL DEF Spec

-----------------------------------------------------------------------------
(* The properties.                                                         *)

LEMMA ArraysFit == SetInv => ArrayFits
  <1> SUFFICES ASSUME SetInv PROVE ArrayFits
    OBVIOUS
  <1>1. ASSUME NEW set, IsSet(set)
        PROVE  /\ set.number \in Nat /\ set.used \in Nat
               /\ set.nodes \in [0..set.number - 1 -> Keys \cup {NoKey}]
               /\ Cardinality(Occupied(set.nodes)) <= set.used
    BY <1>1 DEF IsSet, Table
  <1>2. IsSet(left) /\ IsSet(right)
    BY DEF SetInv, Keeps
  <1>3. res = NoResult \/ IsSet(res.set)
    BY DEF SetInv, Results, Good
  <1>4. ASSUME NEW set, set = NoResult.set
        PROVE  /\ set.number \in Nat /\ set.used \in Nat
               /\ set.nodes \in [0..set.number - 1 -> Keys \cup {NoKey}]
               /\ Cardinality(Occupied(set.nodes)) <= set.used
    <2>1. set = New(0)
      BY <1>4 DEF NoResult
    <2>2. set.number = 0 /\ set.used = 0 /\ set.nodes = [i \in 0..0 - 1 |-> NoKey]
      BY <2>1 DEF New
    <2>3. Occupied(set.nodes) = {}
      BY <2>2 DEF Occupied
    <2>4. set.nodes \in [0..set.number - 1 -> Keys \cup {NoKey}]
      <3>1. 0..0 - 1 = {}
        OBVIOUS
      <3> QED
        BY <2>2, <3>1
    <2>5. Cardinality(Occupied(set.nodes)) = 0
      BY <2>3, FS_EmptySet
    <2> QED
      BY <2>2, <2>4, <2>5
  <1>5. ASSUME NEW set \in {left, right, res.set}
        PROVE  /\ set.number \in Nat /\ set.used \in Nat
               /\ set.nodes \in [0..set.number - 1 -> Keys \cup {NoKey}]
               /\ Cardinality(Occupied(set.nodes)) <= set.used
    <2>1. IsSet(set) \/ set = NoResult.set
      BY <1>2, <1>3
    <2> QED
      BY <1>1, <1>4, <2>1
  <1>6. /\ hash \in [Keys -> Hashes]
        /\ given.left \subseteq Keys /\ given.right \subseteq Keys
        /\ given.wrap \subseteq {"left", "right"}
    BY DEF SetInv, Hashed, Sides
  <1> QED
    BY <1>5, <1>6 DEF ArrayFits

(* set_contains finds exactly the keys that were added and not removed     *)
(* since, and set_length is their number, whatever the hash function, the  *)
(* sizes and the order of the calls: the growth's one pass brings every    *)
(* node to a place where it is found, and a remove's pass closes its hole, *)
(* unless the run of nodes it reads goes on at the table's first slot.     *)
THEOREM SetsHoldWhatWasGiven == Spec => []HoldsWhatWasGiven
  <1>1. SetInv => HoldsWhatWasGiven
    <2> SUFFICES ASSUME SetInv PROVE HoldsWhatWasGiven
      OBVIOUS
    <2>1. ASSUME NEW side \in Sides, Sound(side)
          PROVE  /\ \A k \in Keys : SetContains(Side(side), k) = "true" <=> k \in given[side]
                 /\ Side(side).used = Cardinality(given[side])
                 /\ Cardinality(Occupied(Side(side).nodes)) = Side(side).used
      <3>1. PICK set : set = Side(side)
        OBVIOUS
      <3>2. Good(set) /\ Members(set) = given[side] /\ Hashed
        BY <2>1, <3>1, SideKeeps DEF SetInv
      <3>3. Found(set) = given[side] /\ set.used = Cardinality(Occupied(set.nodes))
        BY <3>2, FoundKeys
      <3>4. set.used = Cardinality(given[side])
        BY <3>2 DEF Good
      <3>5. \A k \in Keys : SetContains(set, k) = "true" <=> k \in given[side]
        BY <3>3 DEF Found
      <3> QED
        BY <3>1, <3>3, <3>4, <3>5
    <2> QED
      BY <2>1, ArraysFit DEF HoldsWhatWasGiven, Sides
  <1> QED
    BY <1>1, SetInvariant, PTL

(* The comparisons of two good sets.                                       *)
LEMMA ComparesRight ==
  ASSUME Hashed, Good(left), Members(left) = given.left,
         Good(right), Members(right) = given.right
  PROVE  ComparesAsMeant
  <1>1. PICK S, T : S = given.left /\ T = given.right
    OBVIOUS
  <1>2. PICK a, b : a = left /\ b = right
    OBVIOUS
  <1>3. /\ Good(a) /\ Members(a) = S /\ Found(a) = S /\ a.used = Cardinality(S)
        /\ Good(b) /\ Members(b) = T /\ Found(b) = T /\ b.used = Cardinality(T)
        /\ b.used < b.number => \A k \in Keys : SetContains(b, k) # "circular"
    <2>1. Good(a) /\ Members(a) = S /\ Good(b) /\ Members(b) = T
      BY <1>1, <1>2
    <2> QED
      BY <2>1, FoundKeys DEF Good
  <1>4. /\ IsFiniteSet(S) /\ S \subseteq Keys /\ Cardinality(S) \in Nat
        /\ IsFiniteSet(T) /\ T \subseteq Keys /\ Cardinality(T) \in Nat
    <2>1. IsSet(a) /\ IsSet(b)
      BY <1>3 DEF Good
    <2> QED
      BY <1>3, <2>1, SetParts, FS_CardinalityType
  <1>5. ASSUME NEW k \in Keys
        PROVE  /\ SetContains(b, k) = "true" <=> k \in T
               /\ SetContains(b, k) \in {"true", "false", "circular"}
    <2>1. SetContains(b, k) = "true" <=> k \in T
      BY <1>3 DEF Found
    <2>2. SetContains(b, k) \in {"true", "false", "circular"}
      BY DEF SetContains, GetIndex
    <2> QED
      BY <2>1, <2>2
  <1>6. S \subseteq T => /\ Cardinality(S) <= Cardinality(T)
                         /\ Cardinality(S) = Cardinality(T) => S = T
    BY <1>4, FS_Subset
  <1>7. ASSUME b.used < b.number
        PROVE  /\ IsSubset(a, b) <=> S \subseteq T
               /\ IsSubsetStrict(a, b) <=> S \subseteq T /\ S # T
    <2>1. IsSubset(a, b) <=> S \subseteq T
      <3>1. \A k \in Keys : SetContains(b, k) # "false" <=> k \in T
        BY <1>3, <1>5, <1>7
      <3> QED
        BY <1>3, <1>4, <3>1 DEF IsSubset
    <2>2. IsSubsetStrict(a, b) <=> Cardinality(S) < Cardinality(T) /\ S \subseteq T
      BY <1>3, <2>1 DEF IsSubsetStrict
    <2>3. Cardinality(S) < Cardinality(T) => S # T
      BY <1>4
    <2> QED
      BY <1>4, <1>6, <2>1, <2>2, <2>3
  <1>8. Cmp(a, b) = "leftGreater" <=> Cardinality(S) > Cardinality(T)
    BY <1>3, <1>4 DEF Cmp
  <1>9. Cmp(a, b) = "equal" <=> S = T
    <2>1. Cmp(a, b) = "equal" <=> Cardinality(S) = Cardinality(T) /\ S \subseteq T
      <3>1. (\A k \in S : SetContains(b, k) = "true") <=> S \subseteq T
        BY <1>4, <1>5
      <3>2. Cmp(a, b) = "equal" <=> /\ ~(a.used < b.used) /\ ~(b.used < a.used)
                                    /\ \A k \in S : SetContains(b, k) = "true"
        BY <1>3 DEF Cmp
      <3> QED
        BY <1>3, <1>4, <3>1, <3>2
    <2> QED
      BY <1>6, <2>1
  <1> QED
    BY <1>1, <1>2, <1>7, <1>8, <1>9 DEF ComparesAsMeant

(* The operations of the algebra fill the result with what set.h defines   *)
(* of the keys given, with too little memory with a part of it; the result *)
(* finds and counts its keys; and the comparisons of the two sets are      *)
(* those of the keys given.                                                *)
THEOREM AlgebraIsAsMeant == Spec => []AlgebraIsMeant
  <1>1. SetInv => AlgebraIsMeant
    <2> SUFFICES ASSUME SetInv, Sound("left"), Sound("right")
                 PROVE  ResultIsMeant /\ ComparesAsMeant
      BY DEF AlgebraIsMeant
    <2>1. /\ Hashed
          /\ Good(left) /\ Members(left) = given.left
          /\ Good(right) /\ Members(right) = given.right
      BY DEF SetInv, Keeps
    <2>2. ComparesAsMeant
      BY <2>1, ComparesRight
    <2>3. ASSUME res.op # "none" PROVE ResultIsMeant
      <3>1. PICK set : set = res.set
        OBVIOUS
      <3>2. /\ Good(set)
            /\ Members(set) \subseteq Meant(res.op)
            /\ res.complete => Members(set) = Meant(res.op)
        BY <2>3, <3>1 DEF SetInv, Results, NoResult
      <3>3. Found(set) = Members(set) /\ set.used = Cardinality(Members(set))
        BY <2>1, <3>2, FoundKeys DEF Good
      <3>4. \A k \in Members(set) : SetContains(set, k) = "true"
        BY <3>3 DEF Found
      <3> QED
        BY <3>1, <3>2, <3>3, <3>4 DEF ResultIsMeant
    <2>4. res.op = "none" => ResultIsMeant
      BY DEF ResultIsMeant
    <2> QED
      BY <2>2, <2>3, <2>4
  <1> QED
    BY <1>1, SetInvariant, PTL

=============================================================================
