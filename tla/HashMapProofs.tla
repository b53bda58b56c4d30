--------------------------- MODULE HashMapProofs ---------------------------
(***************************************************************************)
(* What holds of HashMap, and of HashList over it, for every set of keys   *)
(* and values, every hash function and every size of the table.            *)
(***************************************************************************)
EXTENDS HashMap, HashList, Induction

-----------------------------------------------------------------------------
(* A set of naturals that is not empty has its minimum.                    *)
LEMMA MinOfNats ==
  ASSUME NEW S \in SUBSET Nat, S # {}
  PROVE  Min(S) \in S /\ \A x \in S : Min(S) <= x
  BY LeastNat DEF Min

-----------------------------------------------------------------------------
(* The probe.  What follows speaks of the slots before a slot, no longer   *)
(* of offsets and remainders.                                              *)

(* The slot a probe visits d slots after its home.                         *)
LEMMA ProbeSlots ==
  ASSUME TypeOK, numberNodes > 0, NEW k \in Keys
  PROVE  /\ Probe(k, 0) \in 0..numberNodes - 1
         /\ \A d \in 0..numberNodes - 1 :
              Probe(k, d) = IF Probe(k, 0) + d < numberNodes
                            THEN Probe(k, 0) + d
                            ELSE Probe(k, 0) + d - numberNodes
  <1>1. hash[k] \in Nat /\ numberNodes \in Nat \ {0}
    <2>1. hash \in [Keys -> Hashes] /\ numberNodes \in Nat
      BY DEF TypeOK
    <2>2. hash[k] \in Hashes
      BY <2>1
    <2>3. hash[k] \in Nat
      BY <2>2, HashesAssumption, Zenon
    <2> QED
      BY <2>1, <2>3
  <1>2. hash[k] + 0 = hash[k]
    BY <1>1
  <1>3. Probe(k, 0) = hash[k] % numberNodes
    BY <1>2 DEF Probe
  <1>4. Probe(k, 0) \in 0..numberNodes - 1
    BY <1>1, <1>3, Division
  <1> QED
    BY <1>1, <1>3, <1>4, ModStep DEF Probe

(* Every slot is visited, after those before it.                           *)
LEMMA SlotIsVisited ==
  ASSUME TypeOK, numberNodes > 0, NEW k \in Keys, NEW j \in 0..numberNodes - 1
  PROVE  \E d \in 0..numberNodes - 1 :
           /\ Probe(k, d) = j
           /\ \A i : i \in Before(k, j) <=> \E e \in 0..d - 1 : Probe(k, e) = i
  <1> DEFINE h == Probe(k, 0)
  <1> DEFINE n == numberNodes
  <1> DEFINE d == IF h <= j THEN j - h ELSE j - h + n
  <1>1. n \in Nat \ {0} /\ h \in 0..n - 1
    BY ProbeSlots DEF TypeOK
  <1>2. \A e \in 0..n - 1 : Probe(k, e) = IF h + e < n THEN h + e ELSE h + e - n
    BY ProbeSlots
  <1>3. Before(k, j) = IF h <= j THEN h..j - 1 ELSE (h..n - 1) \cup (0..j - 1)
    BY DEF Before
  <1> HIDE DEF h, n
  <1>4. d \in 0..n - 1
    BY <1>1 DEF n
  <1>5. Probe(k, d) = j
    BY <1>1, <1>2, <1>4 DEF n
  <1>6. ASSUME NEW e \in 0..d - 1
        PROVE  Probe(k, e) \in Before(k, j)
    <2>1. e \in 0..n - 1 /\ e < d
      BY <1>1, <1>4
    <2>2. CASE h <= j
      BY <1>1, <1>2, <1>3, <2>1, <2>2 DEF n
    <2>3. CASE ~(h <= j)
      BY <1>1, <1>2, <1>3, <2>1, <2>3 DEF n
    <2> QED
      BY <2>2, <2>3
  <1>7. ASSUME NEW i \in Before(k, j)
        PROVE  \E e \in 0..d - 1 : Probe(k, e) = i
    <2> DEFINE e == IF h <= i THEN i - h ELSE i - h + n
    <2>1. i \in 0..n - 1 /\ e \in 0..d - 1 /\ e \in 0..n - 1
      BY <1>1, <1>3, <1>7 DEF n
    <2>2. Probe(k, e) = i
      <3>1. CASE h <= i
        BY <1>1, <1>2, <2>1, <3>1
      <3>2. CASE ~(h <= i)
        BY <1>1, <1>2, <2>1, <3>2
      <3> QED
        BY <3>1, <3>2
    <2> QED
      BY <2>1, <2>2
  <1> QED
    BY <1>4, <1>5, <1>6, <1>7 DEF n

(* The slots before a slot, in the order a probe visits them.              *)
LEMMA BeforeOrder ==
  ASSUME TypeOK, numberNodes > 0, NEW k \in Keys,
         NEW i \in 0..numberNodes - 1, NEW j \in 0..numberNodes - 1
  PROVE  /\ Before(k, j) \subseteq 0..numberNodes - 1
         /\ j \notin Before(k, j)
         /\ i = j \/ i \in Before(k, j) \/ j \in Before(k, i)
         /\ ~(i \in Before(k, j) /\ j \in Before(k, i))
  <1>1. numberNodes \in Nat /\ Probe(k, 0) \in 0..numberNodes - 1
    BY ProbeSlots DEF TypeOK
  <1> QED
    BY <1>1 DEF Before

(* A probe for k stops at an empty slot and at the key.                    *)
StopsAt(tbl, k, i) == tbl[i] = NoNode \/ tbl[i].key = k

(* hashmap_get_node ends at the first slot where it may stop, or has seen  *)
(* that there is none.                                                     *)
LEMMA ProbeEnds ==
  ASSUME TypeOK, numberNodes > 0, NEW k \in Keys, NEW tbl
  PROVE  /\ GetNode(tbl, k) \in 0..numberNodes - 1
         /\ IsFull(tbl, k) => \A i \in 0..numberNodes - 1 : ~StopsAt(tbl, k, i)
         /\ ~IsFull(tbl, k) =>
              /\ StopsAt(tbl, k, GetNode(tbl, k))
              /\ \A i \in Before(k, GetNode(tbl, k)) : ~StopsAt(tbl, k, i)
  <1> DEFINE S == Stops(tbl, k)
             last == numberNodes - 1
             slot == GetNode(tbl, k)
  <1>1. numberNodes \in Nat /\ \A d \in 0..last : Probe(k, d) \in 0..last
    <2>1. numberNodes \in Nat
      BY DEF TypeOK
    <2> QED
      BY <2>1, ProbeSlots
  <1>2. \A d : d \in S <=> d \in 0..last /\ StopsAt(tbl, k, Probe(k, d))
    BY DEF Stops, StopsAt
  <1>3. IsFull(tbl, k) <=> S = {}
    BY DEF IsFull
  <1>4. slot = IF S = {} THEN Probe(k, 0) ELSE Probe(k, Min(S))
    BY DEF GetNode
  <1> HIDE DEF S, slot
  <1>5. CASE S = {}
    <2>1. slot \in 0..last
      BY <1>1, <1>4, <1>5
    <2>2. ASSUME NEW i \in 0..last
          PROVE  ~StopsAt(tbl, k, i)
      <3>1. \E d \in 0..last : Probe(k, d) = i
        BY SlotIsVisited
      <3> QED
        BY <1>2, <1>5, <3>1
    <2> QED
      BY <1>3, <1>5, <2>1, <2>2 DEF slot
  <1>6. CASE S # {}
    <2>1. S \in SUBSET Nat
      BY <1>1, <1>2
    <2> DEFINE m == Min(S)
    <2>2. m \in S /\ \A d \in S : m <= d
      BY <1>6, <2>1, MinOfNats
    <2>3. m \in 0..last /\ slot = Probe(k, m) /\ StopsAt(tbl, k, slot)
      BY <1>2, <1>4, <1>6, <2>2
    <2> HIDE DEF m
    <2>4. slot \in 0..last
      BY <1>1, <2>3
    <2>5. ASSUME NEW i \in Before(k, slot)
          PROVE  ~StopsAt(tbl, k, i)
      <3>1. PICK d \in 0..last :
              /\ Probe(k, d) = slot
              /\ \E e \in 0..d - 1 : Probe(k, e) = i
        BY <2>4, <2>5, SlotIsVisited
      <3>2. PICK e \in 0..d - 1 : Probe(k, e) = i
        BY <3>1
      <3>3. d = m
        <4>1. \A x \in 0..last : Probe(k, x) = IF Probe(k, 0) + x < numberNodes
                                THEN Probe(k, 0) + x
                                ELSE Probe(k, 0) + x - numberNodes
          BY ProbeSlots
        <4>2. Probe(k, 0) \in 0..last
          BY ProbeSlots
        <4> QED
          BY <1>1, <2>3, <3>1, <4>1, <4>2
      <3>4. e \in 0..last /\ e < m
        BY <1>1, <2>3, <3>2, <3>3
      <3>5. e \notin S
        BY <1>1, <2>2, <2>3, <3>4
      <3> QED
        BY <1>2, <3>2, <3>4, <3>5
    <2> QED
      BY <1>3, <1>6, <2>3, <2>4, <2>5 DEF slot
  <1> QED
    BY <1>5, <1>6

(* And it ends nowhere else.                                               *)
LEMMA ProbeEndsAt ==
  ASSUME TypeOK, numberNodes > 0, NEW k \in Keys, NEW tbl,
         NEW slot \in 0..numberNodes - 1,
         StopsAt(tbl, k, slot),
         \A i \in Before(k, slot) : ~StopsAt(tbl, k, i)
  PROVE  GetNode(tbl, k) = slot /\ ~IsFull(tbl, k)
  <1>1. ~IsFull(tbl, k) /\ GetNode(tbl, k) \in 0..numberNodes - 1
    BY ProbeEnds
  <1>2. /\ StopsAt(tbl, k, GetNode(tbl, k))
        /\ \A i \in Before(k, GetNode(tbl, k)) : ~StopsAt(tbl, k, i)
    BY <1>1, ProbeEnds
  <1>3. /\ slot \notin Before(k, GetNode(tbl, k))
        /\ GetNode(tbl, k) \notin Before(k, slot)
    BY <1>2
  <1> QED
    BY <1>1, <1>3, BeforeOrder

-----------------------------------------------------------------------------
(* Tables.                                                                 *)

Table(n) == [0..n - 1 -> Node \cup {NoNode}]

(* An empty slot is told from a node.                                      *)
LEMMA NodeIsNode == NoNode \notin Node
  BY NoNodeAssumption DEF Node

(* The slots of a table are finitely many.                                 *)
LEMMA OccupiedFinite ==
  ASSUME NEW n \in Nat, NEW tbl \in Table(n)
  PROVE  /\ Occupied(tbl) \subseteq 0..n - 1
         /\ IsFiniteSet(Occupied(tbl))
         /\ Cardinality(Occupied(tbl)) \in Nat
  <1>1. Occupied(tbl) \subseteq 0..n - 1
    BY DEF Occupied, Table
  <1>2. IsFiniteSet(0..n - 1)
    BY FS_Interval
  <1> QED
    BY <1>1, <1>2, FS_Subset, FS_CardinalityType

(* Writing a node to a slot.                                               *)
LEMMA SetSlot ==
  ASSUME NEW n \in Nat, NEW tbl \in Table(n), NEW i \in 0..n - 1, NEW x \in Node
  PROVE  /\ [tbl EXCEPT ![i] = x] \in Table(n)
         /\ Occupied([tbl EXCEPT ![i] = x]) = Occupied(tbl) \cup {i}
         /\ Cardinality(Occupied(tbl) \cup {i}) =
              IF tbl[i] = NoNode THEN Cardinality(Occupied(tbl)) + 1
              ELSE Cardinality(Occupied(tbl))
  <1>1. [tbl EXCEPT ![i] = x] \in Table(n)
    BY DEF Table
  <1>2. Occupied([tbl EXCEPT ![i] = x]) = Occupied(tbl) \cup {i}
    BY NodeIsNode DEF Table, Occupied
  <1>3. i \in Occupied(tbl) <=> tbl[i] # NoNode
    BY DEF Table, Occupied
  <1> QED
    BY <1>1, <1>2, <1>3, OccupiedFinite, FS_AddElement

(* Emptying a slot.                                                        *)
LEMMA ClearSlot ==
  ASSUME NEW n \in Nat, NEW tbl \in Table(n), NEW i \in 0..n - 1
  PROVE  /\ [tbl EXCEPT ![i] = NoNode] \in Table(n)
         /\ Occupied([tbl EXCEPT ![i] = NoNode]) = Occupied(tbl) \ {i}
         /\ Cardinality(Occupied(tbl) \ {i}) =
              IF tbl[i] = NoNode THEN Cardinality(Occupied(tbl))
              ELSE Cardinality(Occupied(tbl)) - 1
  <1>1. [tbl EXCEPT ![i] = NoNode] \in Table(n)
    BY DEF Table
  <1>2. Occupied([tbl EXCEPT ![i] = NoNode]) = Occupied(tbl) \ {i}
    BY DEF Table, Occupied
  <1>3. i \in Occupied(tbl) <=> tbl[i] # NoNode
    BY DEF Table, Occupied
  <1> QED
    BY <1>1, <1>2, <1>3, OccupiedFinite, FS_RemoveElement

(* A relayout moves one node, or none, and loses none but a duplicate of   *)
(* the node it moves.                                                      *)
LEMMA RelayoutMoves ==
  ASSUME TypeOK, numberNodes > 0, NEW tbl \in Table(numberNodes),
         NEW i \in Occupied(tbl), NEW new, new = Relayout(tbl, i)
  PROVE  LET id == GetNode(tbl, tbl[i].key) IN
         /\ new \in Table(numberNodes)
         /\ id \in 0..numberNodes - 1
         /\ id = i => new = tbl
         /\ id # i =>
              /\ new = [tbl EXCEPT ![id] = tbl[i], ![i] = NoNode]
              /\ Occupied(new) = (Occupied(tbl) \cup {id}) \ {i}
              /\ tbl[id] = NoNode =>
                   Cardinality(Occupied(new)) = Cardinality(Occupied(tbl))
         /\ Cardinality(Occupied(new)) <= Cardinality(Occupied(tbl))
  <1> DEFINE id == GetNode(tbl, tbl[i].key)
  <1>1. numberNodes \in Nat
    BY DEF TypeOK
  <1>2. i \in 0..numberNodes - 1 /\ tbl[i] \in Node
    BY <1>1 DEF Occupied, Table
  <1>3. tbl[i].key \in Keys
    BY <1>2 DEF Node
  <1>4. id \in 0..numberNodes - 1
    BY <1>3, ProbeEnds
  <1>5. Cardinality(Occupied(tbl)) \in Nat
    BY <1>1, OccupiedFinite
  <1>6. CASE id = i
    BY <1>4, <1>5, <1>6 DEF Relayout
  <1>7. CASE id # i
    <2> DEFINE mid == [tbl EXCEPT ![id] = tbl[i]]
               occ == Occupied(tbl)
    <2>1. new = [mid EXCEPT ![i] = NoNode]
      BY <1>7 DEF Relayout
    <2>2. new = [tbl EXCEPT ![id] = tbl[i], ![i] = NoNode]
      BY <1>7 DEF Relayout
    <2> HIDE DEF id
    <2>3. /\ mid \in Table(numberNodes)
          /\ Occupied(mid) = occ \cup {id}
          /\ Cardinality(occ \cup {id}) =
               IF tbl[id] = NoNode THEN Cardinality(occ) + 1 ELSE Cardinality(occ)
      BY <1>1, <1>2, <1>4, SetSlot
    <2>4. mid[i] # NoNode
      BY <1>2, <1>4, <1>7, NodeIsNode DEF Table
    <2> HIDE DEF mid
    <2>5. /\ [mid EXCEPT ![i] = NoNode] \in Table(numberNodes)
          /\ Occupied([mid EXCEPT ![i] = NoNode]) = Occupied(mid) \ {i}
          /\ Cardinality(Occupied(mid) \ {i}) =
               IF mid[i] = NoNode THEN Cardinality(Occupied(mid))
               ELSE Cardinality(Occupied(mid)) - 1
      <3>1. mid \in Table(numberNodes)
        BY <2>3
      <3> QED
        BY <1>1, <1>2, <3>1, ClearSlot
    <2>6. Occupied(new) = (occ \cup {id}) \ {i}
      BY <2>1, <2>3, <2>5
    <2>7. Cardinality(Occupied(new)) =
            IF tbl[id] = NoNode THEN Cardinality(occ) ELSE Cardinality(occ) - 1
      <3>1. Cardinality(Occupied(new)) = Cardinality(Occupied(mid) \ {i})
        BY <2>1, <2>5
      <3>2. Cardinality(Occupied(mid) \ {i}) = Cardinality(Occupied(mid)) - 1
        BY <2>4, <2>5
      <3>3. Cardinality(Occupied(mid)) =
              IF tbl[id] = NoNode THEN Cardinality(occ) + 1 ELSE Cardinality(occ)
        BY <2>3
      <3> QED
        BY <1>5, <3>1, <3>2, <3>3
    <2> HIDE DEF occ
    <2>8. /\ Cardinality(Occupied(new)) <= Cardinality(occ)
          /\ tbl[id] = NoNode => Cardinality(Occupied(new)) = Cardinality(occ)
      BY <1>5, <2>7 DEF occ
    <2> QED
      BY <1>4, <1>7, <2>1, <2>2, <2>5, <2>6, <2>8 DEF id, occ
  <1> QED
    BY <1>6, <1>7

Hits == {"wrap", "null", "nomem"}

(* What a set does to the table once the table has its size.               *)
LEMMA StoreEffect ==
  ASSUME TypeOK, numberNodes > 0, NEW k \in Keys, NEW v \in Values,
         NEW met \in SUBSET Hits, Store(k, v, met)
  PROVE  LET slot == GetNode(nodes, k) IN
         \/ /\ IsFull(nodes, k)
            /\ hits' = met
            /\ UNCHANGED <<nodes, usedNodes, held>>
         \/ /\ ~IsFull(nodes, k)
            /\ held' = [held EXCEPT ![k] = v]
            /\ \E x \in Node : x.key = k /\ x.value = v
                              /\ nodes' = [nodes EXCEPT ![slot] = x]
            /\ \/ /\ nodes[slot] = NoNode
                  /\ usedNodes' = usedNodes + 1
                  /\ hits' = met
               \/ /\ nodes[slot] # NoNode
                  /\ nodes[slot].key = k
                  /\ \/ usedNodes' = usedNodes /\ hits' = met
                     \/ usedNodes' = usedNodes + 1 /\ hits' = met \cup {"null"}
  <1> DEFINE slot == GetNode(nodes, k)
             found == nodes[slot] # NoNode /\ nodes[slot].value # Null
             fresh == [key |-> k, value |-> v, alt |-> v \in AltValues]
  <1>1. CASE IsFull(nodes, k)
    BY <1>1 DEF Store
  <1>2. CASE ~IsFull(nodes, k)
    <2>1. /\ slot \in 0..numberNodes - 1
          /\ nodes[slot] = NoNode \/ nodes[slot].key = k
      BY <1>2, ProbeEnds DEF StopsAt
    <2>2. nodes[slot] \in Node \cup {NoNode}
      BY <2>1 DEF TypeOK
    <2>3. held' = [held EXCEPT ![k] = v]
      BY <1>2 DEF Store
    <2>4. CASE found
      <3>1. /\ nodes' = [nodes EXCEPT ![slot].value = v]
            /\ usedNodes' = usedNodes /\ hits' = met
        BY <1>2, <2>4 DEF Store
      <3> DEFINE x == [nodes[slot] EXCEPT !.value = v]
      <3>2. x \in Node /\ x.key = k /\ x.value = v
        BY <2>1, <2>2, <2>4 DEF Node
      <3>3. nodes' = [nodes EXCEPT ![slot] = x]
        BY <3>1
      <3> QED
        BY <1>2, <2>1, <2>3, <2>4, <3>1, <3>2, <3>3
    <2>5. CASE ~found
      <3>1. /\ nodes' = [nodes EXCEPT ![slot] = fresh]
            /\ usedNodes' = usedNodes + 1
            /\ hits' = IF nodes[slot] = NoNode THEN met ELSE met \cup {"null"}
        BY <1>2, <2>5 DEF Store
      <3>2. fresh \in Node /\ fresh.key = k /\ fresh.value = v
        BY DEF Node
      <3> QED
        BY <1>2, <2>1, <2>3, <3>1, <3>2
    <2> QED
      BY <2>4, <2>5
  <1> QED
    BY <1>1, <1>2

-----------------------------------------------------------------------------
(* Types, and room for every node in the counter.                          *)

Safe == TypeOK /\ Shape /\ KeysFit

(* An empty table has no node.                                             *)
LEMMA EmptyTableIsEmpty ==
  ASSUME NEW n \in Nat
  PROVE  /\ EmptyTable(n) \in Table(n)
         /\ Occupied(EmptyTable(n)) = {}
         /\ Cardinality(Occupied(EmptyTable(n))) = 0
  <1>1. EmptyTable(n) \in Table(n) /\ Occupied(EmptyTable(n)) = {}
    BY DEF EmptyTable, Table, Occupied
  <1> QED
    BY <1>1, FS_EmptySet

(* A new map is well formed.                                               *)
LEMMA SafeInit == Init => Safe
  <1> SUFFICES ASSUME Init PROVE Safe
    OBVIOUS
  <1>1. numberNodes \in Nat \ {0} /\ usedNodes = 0
    <2>1. numberNodes \in Sizes
      BY DEF Init
    <2> QED
      BY <2>1, SizesAssumption, Zenon DEF Init
  <1>2. nodes \in Table(numberNodes) /\ Cardinality(Occupied(nodes)) = 0
    <2>1. nodes = EmptyTable(numberNodes)
      BY DEF Init
    <2> QED
      BY <1>1, <2>1, EmptyTableIsEmpty
  <1>3. TypeOK
    <2>1. nodes \in [0..numberNodes - 1 -> Node \cup {NoNode}]
      BY <1>2 DEF Table
    <2>2. held \in [Keys -> Values \cup {Null}]
      BY DEF Init
    <2>3. hash \in [Keys -> Hashes] /\ at \in 0..numberNodes
      BY <1>1 DEF Init
    <2>4. /\ pc = "idle" /\ moved = FALSE /\ call = NoCall /\ passes = 0
          /\ hits = {}
      BY DEF Init
    <2> QED
      BY <1>1, <2>1, <2>2, <2>3, <2>4 DEF TypeOK
  <1>4. Shape
    BY <1>1 DEF Init, Shape
  <1>5. KeysFit
    BY <1>1, <1>2 DEF KeysFit, KeysWritten
  <1> QED
    BY <1>3, <1>4, <1>5 DEF Safe

(* A store keeps the table, the counter and the history well formed.       *)
LEMMA StoreSafe ==
  ASSUME Safe, numberNodes > 0, NEW k \in Keys, NEW v \in Values,
         NEW met \in SUBSET Hits, Store(k, v, met)
  PROVE  /\ nodes' \in Table(numberNodes)
         /\ usedNodes' \in Nat
         /\ usedNodes' <= usedNodes + 1
         /\ Cardinality(Occupied(nodes')) <= usedNodes'
         /\ held' \in [Keys -> Values \cup {Null}]
         /\ hits' \in SUBSET Hits
         /\ met \subseteq hits'
  <1> DEFINE slot == GetNode(nodes, k)
             occ == Cardinality(Occupied(nodes))
  <1>1. TypeOK
    BY DEF Safe
  <1>2. /\ numberNodes \in Nat /\ usedNodes \in Nat
        /\ nodes \in Table(numberNodes)
        /\ held \in [Keys -> Values \cup {Null}]
    BY <1>1 DEF TypeOK, Table
  <1>3. occ \in Nat /\ occ <= usedNodes
    BY <1>2, OccupiedFinite DEF Safe, KeysFit, KeysWritten
  <1>4. met \in SUBSET Hits /\ met \cup {"null"} \in SUBSET Hits
    BY DEF Hits
  <1>5. CASE IsFull(nodes, k)
    <2>1. UNCHANGED <<nodes, usedNodes, held>> /\ hits' = met
      BY <1>5 DEF Store
    <2> QED
      BY <1>2, <1>3, <1>4, <2>1
  <1>6. CASE ~IsFull(nodes, k)
    <2>1. slot \in 0..numberNodes - 1
      BY <1>1, ProbeEnds
    <2>2. /\ held' = [held EXCEPT ![k] = v]
          /\ \E x \in Node : nodes' = [nodes EXCEPT ![slot] = x]
          /\ \/ nodes[slot] = NoNode /\ usedNodes' = usedNodes + 1
             \/ nodes[slot] # NoNode /\ usedNodes' \in {usedNodes, usedNodes + 1}
          /\ hits' = met \/ hits' = met \cup {"null"}
      BY <1>1, <1>6, StoreEffect
    <2>3. PICK x \in Node : nodes' = [nodes EXCEPT ![slot] = x]
      BY <2>2
    <2> HIDE DEF slot
    <2>4. /\ nodes' \in Table(numberNodes)
          /\ Cardinality(Occupied(nodes')) =
               IF nodes[slot] = NoNode THEN occ + 1 ELSE occ
      <3>1. /\ [nodes EXCEPT ![slot] = x] \in Table(numberNodes)
            /\ Occupied([nodes EXCEPT ![slot] = x]) = Occupied(nodes) \cup {slot}
            /\ Cardinality(Occupied(nodes) \cup {slot}) =
                 IF nodes[slot] = NoNode THEN occ + 1 ELSE occ
        BY <1>2, <2>1, SetSlot
      <3> QED
        BY <2>3, <3>1
    <2> HIDE DEF occ
    <2>5. /\ usedNodes' \in Nat /\ usedNodes' <= usedNodes + 1
          /\ Cardinality(Occupied(nodes')) <= usedNodes'
      BY <1>2, <1>3, <2>2, <2>4
    <2>6. held' \in [Keys -> Values \cup {Null}]
      BY <1>2, <2>2
    <2> QED
      BY <1>4, <2>2, <2>4, <2>5, <2>6
  <1> QED
    BY <1>5, <1>6

(* Every step keeps a map well formed, and its counter at its nodes.       *)
LEMMA SafeNext == Safe /\ [Next]_vars => Safe'
  <1> SUFFICES ASSUME Safe, [Next]_vars PROVE Safe'
    OBVIOUS
  <1> DEFINE occ == Cardinality(Occupied(nodes))
  <1>1. TypeOK /\ Shape /\ KeysFit
    BY DEF Safe
  <1>2. /\ numberNodes \in Nat /\ usedNodes \in Nat
        /\ nodes \in Table(numberNodes)
        /\ at \in 0..numberNodes
        /\ hits \in SUBSET Hits
        /\ held \in [Keys -> Values \cup {Null}]
    BY <1>1 DEF TypeOK, Table, Hits
  <1>3. occ \in Nat /\ occ <= usedNodes
    BY <1>1, <1>2, OccupiedFinite DEF KeysFit, KeysWritten
  <1>4. ASSUME NEW n \in Sizes, HashmapInit(n)
        PROVE  Safe'
    <2>1. n \in Nat \ {0}
      BY SizesAssumption, Zenon
    <2>2. /\ nodes' = EmptyTable(n) /\ numberNodes' = n /\ usedNodes' = 0
          /\ UNCHANGED <<hash, pc, at, moved, call, held, passes, hits>>
          /\ numberNodes = 0
      BY <1>4 DEF HashmapInit
    <2>3. nodes' \in Table(n) /\ Cardinality(Occupied(nodes')) = 0
      BY <2>1, <2>2, EmptyTableIsEmpty
    <2>4. at \in 0..n
      BY <1>2, <2>1, <2>2
    <2>5. TypeOK'
      BY <1>1, <2>1, <2>2, <2>3, <2>4 DEF TypeOK, Table
    <2>6. Shape'
      BY <1>1, <2>1, <2>2 DEF Shape
    <2>7. KeysFit'
      BY <2>2, <2>3 DEF KeysFit, KeysWritten
    <2> QED
      BY <2>5, <2>6, <2>7 DEF Safe
  <1>5. ASSUME NEW k \in Keys, NEW v \in Values,
               HashmapSet(k, v) \/ HashmapSetNoMemory(k, v)
        PROVE  Safe'
    <2>1. /\ pc = "idle" /\ numberNodes > 0
          /\ UNCHANGED <<numberNodes, hash, pc, at, moved, call, passes>>
      BY <1>5 DEF HashmapSet, HashmapSetNoMemory, Ready
    <2>2. \E met \in SUBSET Hits : Store(k, v, met)
      <3>1. hits \in SUBSET Hits /\ hits \cup {"nomem"} \in SUBSET Hits
        BY <1>2 DEF Hits
      <3> QED
        BY <1>5, <3>1 DEF HashmapSet, HashmapSetNoMemory
    <2>3. PICK met \in SUBSET Hits : Store(k, v, met)
      BY <2>2
    <2>4. /\ nodes' \in Table(numberNodes) /\ usedNodes' \in Nat
          /\ Cardinality(Occupied(nodes')) <= usedNodes'
          /\ held' \in [Keys -> Values \cup {Null}] /\ hits' \in SUBSET Hits
      BY <2>1, <2>3, StoreSafe
    <2>5. TypeOK'
      BY <1>1, <2>1, <2>4 DEF TypeOK, Table, Hits
    <2>6. Shape'
      BY <1>1, <2>1 DEF Shape
    <2>7. KeysFit'
      BY <2>4 DEF KeysFit, KeysWritten
    <2> QED
      BY <2>5, <2>6, <2>7 DEF Safe
  <1>6. ASSUME NEW k \in Keys, NEW v \in Values, HashmapSetGrow(k, v)
        PROVE  Safe'
    <2>1. /\ numberNodes' = 2 * numberNodes /\ numberNodes > 0
          /\ nodes' = [i \in 0..2 * numberNodes - 1 |->
                         IF i < numberNodes THEN nodes[i] ELSE NoNode]
          /\ call' = [key |-> k, value |-> v]
          /\ pc' = "grow" /\ at' = 0 /\ moved' = FALSE
          /\ UNCHANGED <<usedNodes, hash, held, passes, hits>>
      BY <1>6 DEF HashmapSetGrow, Ready
    <2>2. nodes' \in Table(2 * numberNodes) /\ Occupied(nodes') = Occupied(nodes)
      <3>1. nodes' \in Table(2 * numberNodes)
        BY <1>2, <2>1 DEF Table
      <3>2. ASSUME NEW i
            PROVE  i \in Occupied(nodes') <=> i \in Occupied(nodes)
        BY <1>2, <2>1 DEF Table, Occupied
      <3> QED
        BY <3>1, <3>2
    <2>3. numberNodes' \in Nat /\ numberNodes' > 0
      BY <1>2, <2>1
    <2>4. TypeOK'
      <3>1. nodes' \in [0..numberNodes' - 1 -> Node \cup {NoNode}]
        BY <2>1, <2>2 DEF Table
      <3>2. call' \in [key : Keys, value : Values]
        BY <2>1
      <3>3. at' \in 0..numberNodes'
        BY <2>1, <2>3
      <3>4. /\ usedNodes' \in Nat /\ hash' \in [Keys -> Hashes]
            /\ held' \in [Keys -> Values \cup {Null}] /\ passes' \in Nat
            /\ hits' \subseteq {"wrap", "null", "nomem"}
        BY <1>1, <2>1 DEF TypeOK
      <3> QED
        BY <2>1, <2>3, <3>1, <3>2, <3>3, <3>4 DEF TypeOK
    <2>5. Shape'
      BY <2>1, <2>3 DEF Shape
    <2>6. KeysFit'
      BY <1>1, <2>1, <2>2 DEF KeysFit, KeysWritten
    <2> QED
      BY <2>4, <2>5, <2>6 DEF Safe
  <1>7. ASSUME GrowVisit \/ ShiftVisit
        PROVE  Safe'
    <2>1. /\ pc \in {"grow", "shift"} /\ at < numberNodes /\ at' = at + 1
          /\ UNCHANGED <<numberNodes, usedNodes, hash, pc, call, held, passes, hits>>
          /\ \/ nodes' = nodes
             \/ nodes[at] # NoNode /\ nodes' = Relayout(nodes, at)
      BY <1>7 DEF GrowVisit, ShiftVisit
    <2>2. moved' \in BOOLEAN
      <3>1. moved \in BOOLEAN
        BY <1>1 DEF TypeOK
      <3> QED
        BY <1>7, <3>1, Zenon DEF GrowVisit, ShiftVisit
    <2>3. pc = "shift" => moved' = moved
      BY <1>7 DEF GrowVisit, ShiftVisit
    <2>4. numberNodes > 0 /\ at' \in 0..numberNodes
      BY <1>2, <2>1
    <2>5. nodes' \in Table(numberNodes) /\ Cardinality(Occupied(nodes')) <= usedNodes
      <3>1. CASE nodes' = nodes
        BY <1>2, <1>3, <3>1
      <3>2. CASE nodes[at] # NoNode /\ nodes' = Relayout(nodes, at)
        <4>1. at \in Occupied(nodes)
          BY <1>2, <2>1, <3>2 DEF Table, Occupied
        <4>2. /\ nodes' \in Table(numberNodes)
              /\ Cardinality(Occupied(nodes')) <= occ
          BY <1>1, <1>2, <2>4, <3>2, <4>1, RelayoutMoves
        <4>3. Cardinality(Occupied(nodes')) \in Nat
          BY <1>2, <4>2, OccupiedFinite
        <4> HIDE DEF occ
        <4> QED
          BY <1>2, <1>3, <4>2, <4>3
      <3> QED
        BY <2>1, <3>1, <3>2
    <2>6. TypeOK'
      BY <1>1, <2>1, <2>2, <2>4, <2>5 DEF TypeOK, Table
    <2>7. Shape'
      BY <1>1, <1>2, <2>1, <2>3, <2>4 DEF Shape
    <2>8. KeysFit'
      BY <2>1, <2>5 DEF KeysFit, KeysWritten
    <2> QED
      BY <2>6, <2>7, <2>8 DEF Safe
  <1>8. CASE GrowAgain
    <2>1. TypeOK'
      <3>1. /\ at' = 0 /\ moved' = FALSE /\ passes' = passes + 1
            /\ UNCHANGED <<nodes, numberNodes, usedNodes, hash, pc, call, held, hits>>
        BY <1>8 DEF GrowAgain
      <3>2. at' \in 0..numberNodes'
        BY <1>2, <3>1
      <3>3. passes' \in Nat
        BY <1>1, <3>1 DEF TypeOK
      <3>4. IF pc' = "grow" THEN call' \in [key : Keys, value : Values]
            ELSE call' = NoCall
        BY <1>1, <3>1 DEF TypeOK
      <3> QED
        BY <1>1, <3>1, <3>2, <3>3, <3>4 DEF TypeOK
    <2>2. Shape'
      BY <1>1, <1>8 DEF Shape, GrowAgain
    <2> QED
      BY <1>1, <1>8, <2>1, <2>2 DEF Safe, KeysFit, KeysWritten, GrowAgain
  <1>9. CASE GrowDone
    <2>1. /\ pc = "grow" /\ ~moved
          /\ Store(call.key, call.value, hits)
          /\ pc' = "idle" /\ at' = 0 /\ call' = NoCall /\ passes' = 0
          /\ UNCHANGED <<numberNodes, hash, moved>>
      BY <1>9 DEF GrowDone
    <2>2. call.key \in Keys /\ call.value \in Values /\ numberNodes > 0
      BY <1>1, <1>2, <2>1 DEF TypeOK, Shape
    <2>3. /\ nodes' \in Table(numberNodes) /\ usedNodes' \in Nat
          /\ Cardinality(Occupied(nodes')) <= usedNodes'
          /\ held' \in [Keys -> Values \cup {Null}] /\ hits' \in SUBSET Hits
      BY <1>2, <2>1, <2>2, StoreSafe
    <2>4. TypeOK'
      BY <1>1, <1>2, <2>1, <2>3 DEF TypeOK, Table, Hits
    <2>5. Shape'
      BY <1>1, <2>1, <2>2 DEF Shape
    <2>6. KeysFit'
      BY <2>3 DEF KeysFit, KeysWritten
    <2> QED
      BY <2>4, <2>5, <2>6 DEF Safe
  <1>10. ASSUME NEW k \in Keys, HashmapRemove(k)
         PROVE  Safe'
    <2> DEFINE slot == GetNode(nodes, k)
    <2>1. /\ pc = "idle" /\ numberNodes > 0 /\ HashmapGet(k) # Null
          /\ nodes' = [nodes EXCEPT ![slot] = NoNode]
          /\ usedNodes' = usedNodes - 1
          /\ held' = [held EXCEPT ![k] = Null]
          /\ pc' = "shift" /\ at' = slot + 1
          /\ UNCHANGED <<numberNodes, hash, moved, call, passes, hits>>
      BY <1>10 DEF HashmapRemove, Ready
    <2>2. slot \in 0..numberNodes - 1
      BY <1>1, <2>1, ProbeEnds
    <2>3. nodes[slot] # NoNode
      BY <2>1 DEF HashmapGet
    <2> HIDE DEF slot
    <2>4. /\ nodes' \in Table(numberNodes)
          /\ Cardinality(Occupied(nodes')) = occ - 1
      <3>1. /\ [nodes EXCEPT ![slot] = NoNode] \in Table(numberNodes)
            /\ Occupied([nodes EXCEPT ![slot] = NoNode]) = Occupied(nodes) \ {slot}
            /\ Cardinality(Occupied(nodes) \ {slot}) =
                 IF nodes[slot] = NoNode THEN occ ELSE occ - 1
        BY <1>2, <2>2, ClearSlot
      <3> QED
        BY <2>1, <2>3, <3>1
    <2>5. Cardinality(Occupied(nodes')) \in Nat
      BY <1>2, <2>4, OccupiedFinite
    <2> HIDE DEF occ
    <2>6. usedNodes' \in Nat /\ Cardinality(Occupied(nodes')) <= usedNodes'
      BY <1>2, <1>3, <2>1, <2>4, <2>5
    <2>7. held' \in [Keys -> Values \cup {Null}]
      BY <1>2, <2>1
    <2>8. at' \in 0..numberNodes /\ at' > 0
      BY <1>2, <2>1, <2>2
    <2>9. TypeOK'
      BY <1>1, <2>1, <2>4, <2>6, <2>7, <2>8 DEF TypeOK, Table
    <2>10. Shape'
      BY <1>1, <2>1, <2>8 DEF Shape
    <2>11. KeysFit'
      BY <2>6 DEF KeysFit, KeysWritten
    <2> QED
      BY <2>9, <2>10, <2>11 DEF Safe
  <1>11. ASSUME NEW k \in Keys, HashmapRemoveAbsent(k)
         PROVE  Safe'
    <2>1. TypeOK'
      BY <1>1, <1>11 DEF TypeOK, HashmapRemoveAbsent
    <2>2. Shape'
      BY <1>1, <1>11 DEF Shape, HashmapRemoveAbsent
    <2> QED
      BY <1>1, <1>11, <2>1, <2>2 DEF Safe, KeysFit, KeysWritten, HashmapRemoveAbsent
  <1>12. CASE ShiftDone
    <2>1. /\ pc = "shift" /\ pc' = "idle" /\ at' = 0
          /\ UNCHANGED <<nodes, numberNodes, usedNodes, hash, moved, call, held, passes>>
          /\ hits' = hits \/ hits' = hits \cup {"wrap"}
      BY <1>12 DEF ShiftDone
    <2>2. hits' \in SUBSET Hits
      BY <1>2, <2>1 DEF Hits
    <2>3. TypeOK'
      BY <1>1, <1>2, <2>1, <2>2 DEF TypeOK, Hits
    <2>4. Shape'
      BY <1>1, <2>1 DEF Shape
    <2> QED
      BY <1>1, <2>1, <2>3, <2>4 DEF Safe, KeysFit, KeysWritten
  <1>13. ASSUME NEW n \in Nat, Ready, Emptied(n), numberNodes' = n
         PROVE  Safe'
    <2>1. /\ nodes' = EmptyTable(n) /\ usedNodes' = 0 /\ hits' = {}
          /\ held' = [k \in Keys |-> Null]
          /\ UNCHANGED <<hash, pc, at, moved, call, passes>> /\ pc = "idle"
      BY <1>13 DEF Emptied, Ready
    <2>2. nodes' \in Table(n) /\ Cardinality(Occupied(nodes')) = 0
      BY <2>1, EmptyTableIsEmpty
    <2>3. TypeOK'
      <3>1. held' \in [Keys -> Values \cup {Null}]
        BY <2>1
      <3>2. at' \in 0..numberNodes'
        <4>1. at = 0
          BY <1>1, <2>1 DEF Shape
        <4> QED
          BY <1>13, <2>1, <4>1
      <3>3. /\ numberNodes' \in Nat
            /\ nodes' \in [0..numberNodes' - 1 -> Node \cup {NoNode}]
        BY <1>13, <2>2 DEF Table
      <3> QED
        BY <1>1, <2>1, <3>1, <3>2, <3>3 DEF TypeOK
    <2>4. Shape'
      BY <1>1, <2>1 DEF Shape
    <2>5. KeysFit'
      BY <2>1, <2>2 DEF KeysFit, KeysWritten
    <2> QED
      BY <2>3, <2>4, <2>5 DEF Safe
  <1>14. CASE UNCHANGED vars
    BY <1>1, <1>14 DEF vars, Safe, TypeOK, Shape, KeysFit, KeysWritten
  <1> QED
    BY <1>2, <1>4, <1>5, <1>6, <1>7, <1>8, <1>9, <1>10, <1>11, <1>12, <1>13, <1>14
       DEF Next, HashmapClear, HashmapDestroy

(* hashmap.c keeps its types whatever is set, removed, cleared or out of   *)
(* memory: the counter never underflows, the loops stay inside the table.  *)
THEOREM HashMapTypes == Spec => []TypeOK
  <1>1. Safe => TypeOK
    BY DEF Safe
  <1> QED
    BY <1>1, SafeInit, SafeNext, PTL DEF Spec

(* The array of hashmap_keys has room for every node, also after a wrap    *)
(* has made duplicates, a NULL value was stored, or realloc failed.        *)
THEOREM KeysAlwaysFit == Spec => []KeysFit
  <1>1. Safe => KeysFit
    BY DEF Safe
  <1> QED
    BY <1>1, SafeInit, SafeNext, PTL DEF Spec

-----------------------------------------------------------------------------
(* The load of the table.                                                  *)

RoomyTable ==
  /\ numberNodes = 0 \/ numberNodes >= 2
  /\ "nomem" \notin hits =>
       /\ 4 * (usedNodes - 1) <= numberNodes
       /\ pc = "grow" => 4 * usedNodes <= numberNodes

(* A store into a table that has just been found less than a quarter full, *)
(* or has just grown.                                                      *)
LEMMA StoreKeepsLoad ==
  ASSUME Safe, numberNodes > 0, NEW k \in Keys, NEW v \in Values,
         Store(k, v, hits), 4 * usedNodes <= numberNodes
  PROVE  4 * (usedNodes' - 1) <= numberNodes
  <1>1. /\ usedNodes \in Nat /\ numberNodes \in Nat /\ hits \in SUBSET Hits
    BY DEF Safe, TypeOK, Hits
  <1>2. usedNodes' \in Nat /\ usedNodes' <= usedNodes + 1
    BY <1>1, StoreSafe
  <1>3. ASSUME NEW u \in Nat, NEW w \in Nat, NEW n \in Nat, 4 * u <= n, w <= u + 1
        PROVE  4 * (w - 1) <= n
    BY <1>3
  <1> QED
    BY <1>1, <1>2, <1>3

(* Every step keeps the load.                                              *)
LEMMA RoomyNext == Safe /\ RoomyTable /\ (\A n \in Sizes : n >= 2) /\ [Next]_vars
                     => RoomyTable'
  <1> SUFFICES ASSUME Safe, RoomyTable, \A n \in Sizes : n >= 2, [Next]_vars
               PROVE  RoomyTable'
    OBVIOUS
  <1>1. /\ numberNodes \in Nat /\ usedNodes \in Nat /\ hits \in SUBSET Hits
        /\ pc = "grow" => call.key \in Keys /\ call.value \in Values
        /\ pc # "idle" => numberNodes > 0
    BY DEF Safe, TypeOK, Shape, Hits
  <1>2. ASSUME NEW n \in Sizes, HashmapInit(n)
        PROVE  RoomyTable'
    <2>1. n \in Nat /\ n >= 2
      BY SizesAssumption, Zenon
    <2>2. numberNodes' = n /\ usedNodes' = 0 /\ pc' = pc /\ numberNodes = 0
      BY <1>2 DEF HashmapInit
    <2> QED
      BY <1>1, <2>1, <2>2 DEF RoomyTable
  <1>3. ASSUME NEW k \in Keys, NEW v \in Values, HashmapSet(k, v)
        PROVE  RoomyTable'
    <2>1. /\ ~MustGrow(usedNodes, numberNodes) /\ Store(k, v, hits)
          /\ pc' = "idle" /\ numberNodes' = numberNodes /\ numberNodes > 0
      BY <1>3 DEF HashmapSet, Ready
    <2>2. 4 * usedNodes <= numberNodes
      BY <1>1, <2>1 DEF MustGrow
    <2>3. 4 * (usedNodes' - 1) <= numberNodes
      BY <2>1, <2>2, StoreKeepsLoad
    <2> QED
      BY <2>1, <2>3 DEF RoomyTable
  <1>4. ASSUME NEW k \in Keys, NEW v \in Values, HashmapSetNoMemory(k, v)
        PROVE  RoomyTable'
    <2>1. /\ Store(k, v, hits \cup {"nomem"}) /\ hits \cup {"nomem"} \in SUBSET Hits
          /\ numberNodes' = numberNodes /\ numberNodes > 0
      BY <1>1, <1>4 DEF HashmapSetNoMemory, Ready, Hits
    <2>2. "nomem" \in hits'
      BY <2>1, StoreSafe
    <2> QED
      BY <2>1, <2>2 DEF RoomyTable
  <1>5. ASSUME NEW k \in Keys, NEW v \in Values, HashmapSetGrow(k, v)
        PROVE  RoomyTable'
    <2>1. /\ numberNodes' = 2 * numberNodes /\ numberNodes > 0
          /\ UNCHANGED <<usedNodes, hits>>
      BY <1>5 DEF HashmapSetGrow, Ready
    <2> QED
      BY <1>1, <2>1 DEF RoomyTable
  <1>6. CASE GrowVisit \/ GrowAgain \/ ShiftVisit
    <2>1. UNCHANGED <<numberNodes, usedNodes, pc, hits>>
      BY <1>6 DEF GrowVisit, GrowAgain, ShiftVisit
    <2> QED
      BY <2>1 DEF RoomyTable
  <1>7. CASE GrowDone
    <2>1. /\ Store(call.key, call.value, hits) /\ pc = "grow"
          /\ pc' = "idle" /\ numberNodes' = numberNodes
      BY <1>7 DEF GrowDone
    <2>2. "nomem" \notin hits => 4 * (usedNodes' - 1) <= numberNodes
      BY <1>1, <2>1, StoreKeepsLoad DEF RoomyTable
    <2>3. hits \subseteq hits'
      BY <1>1, <2>1, StoreSafe
    <2> QED
      BY <2>1, <2>2, <2>3 DEF RoomyTable
  <1>8. ASSUME NEW k \in Keys, HashmapRemove(k)
        PROVE  RoomyTable'
    <2>1. /\ usedNodes' = usedNodes - 1 /\ pc' = "shift"
          /\ UNCHANGED <<numberNodes, hits>>
      BY <1>8 DEF HashmapRemove
    <2> QED
      BY <1>1, <2>1 DEF RoomyTable
  <1>9. ASSUME NEW k \in Keys, HashmapRemoveAbsent(k)
        PROVE  RoomyTable'
    BY <1>9 DEF HashmapRemoveAbsent, RoomyTable
  <1>10. CASE ShiftDone
    <2>1. /\ pc' = "idle" /\ hits \subseteq hits'
          /\ UNCHANGED <<numberNodes, usedNodes>>
      BY <1>10 DEF ShiftDone
    <2> QED
      BY <2>1 DEF RoomyTable
  <1>11. ASSUME NEW n \in Nat, n = 0 \/ n >= 2, Ready, Emptied(n), numberNodes' = n
         PROVE  RoomyTable'
    <2>1. usedNodes' = 0 /\ pc' = "idle"
      BY <1>11 DEF Emptied, Ready
    <2> QED
      BY <1>11, <2>1 DEF RoomyTable
  <1>12. CASE UNCHANGED vars
    BY <1>12 DEF vars, RoomyTable
  <1>13. numberNodes = 0 \/ numberNodes >= 2
    BY DEF RoomyTable
  <1> QED
    BY <1>1, <1>2, <1>3, <1>4, <1>5, <1>6, <1>7, <1>8, <1>9, <1>10, <1>11, <1>12,
       <1>13 DEF Next, HashmapClear, HashmapDestroy

(* While realloc works a table of two slots or more stays a quarter full   *)
(* and one node: no probe goes all the way round and no set fails.         *)
THEOREM LoadIsBounded ==
  ASSUME \A n \in Sizes : n >= 2
  PROVE  Spec => []LoadBound
  <1>1. Init => RoomyTable
    <2> SUFFICES ASSUME Init PROVE RoomyTable
      OBVIOUS
    <2>1. numberNodes \in Sizes /\ usedNodes = 0 /\ pc = "idle"
      BY DEF Init
    <2>2. numberNodes \in Nat /\ numberNodes >= 2
      BY <2>1, SizesAssumption, Zenon
    <2> QED
      BY <2>1, <2>2 DEF RoomyTable
  <1>2. Safe /\ RoomyTable /\ [Next]_vars => RoomyTable'
    BY RoomyNext
  <1>3. RoomyTable => LoadBound
    BY DEF RoomyTable, LoadBound
  <1> QED
    BY <1>1, <1>2, <1>3, SafeInit, SafeNext, PTL DEF Spec

-----------------------------------------------------------------------------
(* hashmap_get returns what was set: the parts of IInv that speak of where *)
(* the nodes are, one lemma per loop of the code, then step by step.       *)

(* A node of a table has its fields, at a slot of the table.               *)
LEMMA NodeTypes ==
  ASSUME NEW n \in Nat, NEW tbl \in Table(n), NEW j \in Occupied(tbl)
  PROVE  /\ j \in 0..n - 1
         /\ tbl[j] \in Node /\ tbl[j] # NoNode
         /\ tbl[j].key \in Keys
  BY DEF Table, Occupied, Node

(* In a table that is laid out a probe finds every node where it is.       *)
LEMMA FindsNode ==
  ASSUME TypeOK, numberNodes > 0, NEW tbl \in Table(numberNodes),
         UniqueIn(tbl), LaidIn(tbl), NEW j \in Occupied(tbl)
  PROVE  GetNode(tbl, tbl[j].key) = j /\ ~IsFull(tbl, tbl[j].key)
  <1> DEFINE k == tbl[j].key
  <1>1. numberNodes \in Nat
    BY DEF TypeOK
  <1>2. j \in 0..numberNodes - 1 /\ k \in Keys
    BY <1>1, NodeTypes
  <1>3. ASSUME NEW i \in Before(k, j)
        PROVE  ~StopsAt(tbl, k, i)
    <2>1. i \in 0..numberNodes - 1 /\ i # j
      BY <1>2, BeforeOrder
    <2>2. tbl[i] # NoNode
      BY DEF LaidIn
    <2>3. i \in Occupied(tbl)
      BY <2>1, <2>2 DEF Occupied, Table
    <2>4. tbl[i].key # k
      BY <2>1, <2>3 DEF UniqueIn
    <2> QED
      BY <2>2, <2>4 DEF StopsAt
  <1>4. StopsAt(tbl, k, j)
    BY DEF StopsAt
  <1> QED
    BY <1>2, <1>3, <1>4, ProbeEndsAt

(* So hashmap_get returns what is held.                                    *)
LEMMA GetIsHeld ==
  ASSUME TypeOK, numberNodes > 0, UniqueIn(nodes), LaidIn(nodes),
         HoldIn(nodes, held), NEW k \in Keys
  PROVE  HashmapGet(k) = held[k]
  <1> DEFINE slot == GetNode(nodes, k)
  <1>1. numberNodes \in Nat /\ nodes \in Table(numberNodes)
    BY DEF TypeOK, Table
  <1>2. CASE \E j \in Occupied(nodes) : nodes[j].key = k
    <2>1. PICK j \in Occupied(nodes) : nodes[j].key = k
      BY <1>2
    <2>2. slot = j /\ ~IsFull(nodes, k)
      BY <1>1, <2>1, FindsNode
    <2>3. nodes[j] # NoNode
      BY <1>1, NodeTypes
    <2> QED
      BY <2>1, <2>2, <2>3 DEF HashmapGet, HoldIn
  <1>3. CASE ~\E j \in Occupied(nodes) : nodes[j].key = k
    <2>1. held[k] = Null
      BY <1>3 DEF HoldIn
    <2>2. IsFull(nodes, k) \/ nodes[slot] = NoNode
      <3>1. SUFFICES ASSUME ~IsFull(nodes, k), nodes[slot] # NoNode
                     PROVE  FALSE
        OBVIOUS
      <3>2. slot \in 0..numberNodes - 1 /\ StopsAt(nodes, k, slot)
        BY <3>1, ProbeEnds
      <3>3. slot \in Occupied(nodes) /\ nodes[slot].key = k
        BY <1>1, <3>1, <3>2 DEF Occupied, Table, StopsAt
      <3> QED
        BY <1>3, <3>3
    <2> QED
      BY <2>1, <2>2 DEF HashmapGet
  <1> QED
    BY <1>2, <1>3

(* What a relayout of unique keys does, slot by slot.                      *)
LEMMA RelayoutSlots ==
  ASSUME TypeOK, numberNodes > 0, NEW tbl \in Table(numberNodes),
         UniqueIn(tbl), NEW i \in Occupied(tbl), NEW new, new = Relayout(tbl, i),
         GetNode(tbl, tbl[i].key) # i
  PROVE  LET id == GetNode(tbl, tbl[i].key) IN
         /\ id \in 0..numberNodes - 1
         /\ tbl[id] = NoNode
         /\ \A j \in Before(tbl[i].key, id) : tbl[j] # NoNode
         /\ i \notin Before(tbl[i].key, id)
         /\ Occupied(new) = (Occupied(tbl) \cup {id}) \ {i}
         /\ new[id] = tbl[i] /\ new[i] = NoNode
         /\ \A j \in 0..numberNodes - 1 : j # id /\ j # i => new[j] = tbl[j]
         /\ Cardinality(Occupied(new)) = Cardinality(Occupied(tbl))
  <1> DEFINE k == tbl[i].key
             id == GetNode(tbl, k)
  <1>1. /\ numberNodes \in Nat /\ i \in 0..numberNodes - 1 /\ k \in Keys
        /\ tbl[i] \in Node /\ tbl[i] # NoNode
    <2>1. numberNodes \in Nat
      BY DEF TypeOK
    <2> QED
      BY <2>1, NodeTypes
  <1>2. ~IsFull(tbl, k)
    BY <1>1, ProbeEnds DEF StopsAt
  <1>3. /\ id \in 0..numberNodes - 1
        /\ tbl[id] = NoNode \/ tbl[id].key = k
        /\ \A j \in Before(k, id) : tbl[j] # NoNode /\ tbl[j].key # k
    BY <1>1, <1>2, ProbeEnds DEF StopsAt
  <1>4. tbl[id] = NoNode
    BY <1>3 DEF UniqueIn, Occupied, Table
  <1>5. /\ new = [tbl EXCEPT ![id] = tbl[i], ![i] = NoNode]
        /\ Occupied(new) = (Occupied(tbl) \cup {id}) \ {i}
        /\ Cardinality(Occupied(new)) = Cardinality(Occupied(tbl))
    BY <1>4, RelayoutMoves
  <1>6. i \notin Before(k, id)
    BY <1>3
  <1> HIDE DEF id, k
  <1>7. /\ new[id] = tbl[i] /\ new[i] = NoNode
        /\ \A j \in 0..numberNodes - 1 : j # id /\ j # i => new[j] = tbl[j]
    BY <1>1, <1>3, <1>4, <1>5 DEF Table
  <1> QED
    BY <1>3, <1>4, <1>5, <1>6, <1>7 DEF id, k

(* A relayout keeps the keys unique and holds what was held.               *)
LEMMA RelayoutKeeps ==
  ASSUME TypeOK, numberNodes > 0, NEW tbl \in Table(numberNodes),
         UniqueIn(tbl), NEW i \in Occupied(tbl), NEW new, new = Relayout(tbl, i)
  PROVE  /\ UniqueIn(new)
         /\ HoldIn(tbl, held) => HoldIn(new, held)
         /\ Cardinality(Occupied(new)) = Cardinality(Occupied(tbl))
  <1> DEFINE id == GetNode(tbl, tbl[i].key)
  <1>1. CASE id = i
    BY <1>1 DEF Relayout
  <1>2. CASE id # i
    <2>1. /\ tbl[id] = NoNode /\ id \in 0..numberNodes - 1
          /\ Occupied(new) = (Occupied(tbl) \cup {id}) \ {i}
          /\ new[id] = tbl[i]
          /\ \A j \in 0..numberNodes - 1 : j # id /\ j # i => new[j] = tbl[j]
          /\ Cardinality(Occupied(new)) = Cardinality(Occupied(tbl))
      BY <1>2, RelayoutSlots
    <2> HIDE DEF id
    <2>2. Occupied(tbl) \subseteq 0..numberNodes - 1 /\ id \notin Occupied(tbl)
      BY <2>1 DEF Occupied, Table
    <2>3. ASSUME NEW j \in Occupied(new)
          PROVE  /\ j = id => new[j] = tbl[i]
                 /\ j # id => j \in Occupied(tbl) /\ j # i /\ new[j] = tbl[j]
      BY <2>1, <2>2
    <2>4. UniqueIn(new)
      BY <1>2, <2>3 DEF UniqueIn
    <2>5. ASSUME HoldIn(tbl, held)
          PROVE  HoldIn(new, held)
      <3>1. \A j \in Occupied(new) : held[new[j].key] = new[j].value
        BY <2>3, <2>5 DEF HoldIn
      <3>2. ASSUME NEW k \in Keys, held[k] # Null
            PROVE  \E j \in Occupied(new) : new[j].key = k
        <4>1. PICK j \in Occupied(tbl) : tbl[j].key = k
          BY <2>5, <3>2 DEF HoldIn
        <4>2. CASE j = i
          BY <1>2, <2>1, <4>1, <4>2
        <4>3. CASE j # i
          BY <2>1, <2>2, <4>1, <4>3
        <4> QED
          BY <4>2, <4>3
      <3> QED
        BY <3>1, <3>2 DEF HoldIn
    <2> QED
      BY <2>1, <2>4, <2>5
  <1> QED
    BY <1>1, <1>2

(* A set puts its node where the next probe for the key ends.              *)
LEMMA StoreKeeps ==
  ASSUME TypeOK, numberNodes > 0, NEW k \in Keys, NEW v \in Values,
         NEW met \in SUBSET Hits, Store(k, v, met),
         UniqueIn(nodes), LaidIn(nodes), HoldIn(nodes, held)
  PROVE  /\ UniqueIn(nodes')
         /\ LaidIn(nodes')
         /\ HoldIn(nodes', held')
         /\ usedNodes = KeysWritten /\ "null" \notin hits' =>
              usedNodes' = Cardinality(Occupied(nodes'))
         /\ met \subseteq hits'
  <1> DEFINE slot == GetNode(nodes, k)
  <1>1. /\ numberNodes \in Nat /\ nodes \in Table(numberNodes)
        /\ held \in [Keys -> Values \cup {Null}]
    BY DEF TypeOK, Table
  <1>2. CASE IsFull(nodes, k)
    <2>1. hits' = met /\ UNCHANGED <<nodes, usedNodes, held>>
      BY <1>2 DEF Store
    <2> QED
      BY <2>1 DEF KeysWritten
  <1>3. CASE ~IsFull(nodes, k)
    <2>1. /\ slot \in 0..numberNodes - 1
          /\ nodes[slot] = NoNode \/ nodes[slot].key = k
          /\ \A i \in Before(k, slot) : nodes[i] # NoNode /\ nodes[i].key # k
      BY <1>3, ProbeEnds DEF StopsAt
    <2>2. /\ held' = [held EXCEPT ![k] = v]
          /\ \E x \in Node : x.key = k /\ x.value = v
                              /\ nodes' = [nodes EXCEPT ![slot] = x]
          /\ \/ /\ nodes[slot] = NoNode
                /\ usedNodes' = usedNodes + 1
                /\ hits' = met
             \/ /\ nodes[slot] # NoNode
                /\ \/ usedNodes' = usedNodes /\ hits' = met
                   \/ usedNodes' = usedNodes + 1 /\ hits' = met \cup {"null"}
      BY <1>3, StoreEffect
    <2>3. PICK x \in Node : x.key = k /\ x.value = v
                             /\ nodes' = [nodes EXCEPT ![slot] = x]
      BY <2>2
    <2>4. \A j \in Occupied(nodes) : nodes[j].key = k => j = slot
      BY <1>1, FindsNode
    <2> HIDE DEF slot
    <2>5. /\ nodes' \in Table(numberNodes)
          /\ Occupied(nodes') = Occupied(nodes) \cup {slot}
          /\ Cardinality(Occupied(nodes')) =
               IF nodes[slot] = NoNode THEN KeysWritten + 1 ELSE KeysWritten
      <3>1. /\ [nodes EXCEPT ![slot] = x] \in Table(numberNodes)
            /\ Occupied([nodes EXCEPT ![slot] = x]) = Occupied(nodes) \cup {slot}
            /\ Cardinality(Occupied(nodes) \cup {slot}) =
                 IF nodes[slot] = NoNode THEN KeysWritten + 1 ELSE KeysWritten
        BY <1>1, <2>1, SetSlot DEF KeysWritten
      <3> QED
        BY <2>3, <3>1
    <2>6. /\ nodes'[slot] = x
          /\ \A j \in 0..numberNodes - 1 : j # slot => nodes'[j] = nodes[j]
      BY <1>1, <2>1, <2>3 DEF Table
    <2>7. \A j \in Occupied(nodes) : j \in 0..numberNodes - 1 /\ nodes[j].key \in Keys
      BY <1>1, NodeTypes
    <2>8. UniqueIn(nodes')
      <3>1. ASSUME NEW i \in Occupied(nodes'), NEW j \in Occupied(nodes'),
                   nodes'[i].key = nodes'[j].key
            PROVE  i = j
        <4>1. \A q \in {i, j} :
                /\ q = slot => nodes'[q].key = k
                /\ q # slot => /\ q \in Occupied(nodes)
                               /\ nodes'[q].key = nodes[q].key
                               /\ nodes[q].key # k
          BY <2>3, <2>4, <2>5, <2>6, <2>7
        <4> QED
          BY <3>1, <4>1 DEF UniqueIn
      <3> QED
        BY <3>1 DEF UniqueIn
    <2>9. LaidIn(nodes')
      <3>1. ASSUME NEW i \in 0..numberNodes - 1, nodes[i] # NoNode
            PROVE  nodes'[i] # NoNode
        BY <2>3, <2>6, <3>1, NodeIsNode
      <3>2. ASSUME NEW j \in Occupied(nodes'), NEW i \in Before(nodes'[j].key, j)
            PROVE  nodes'[i] # NoNode
        <4>1. CASE j = slot
          <5>1. i \in Before(k, slot)
            BY <2>3, <2>6, <3>2, <4>1
          <5>2. i \in 0..numberNodes - 1 /\ nodes[i] # NoNode
            BY <2>1, <5>1, BeforeOrder
          <5> QED
            BY <3>1, <5>2
        <4>2. CASE j # slot
          <5>1. /\ j \in Occupied(nodes) /\ j \in 0..numberNodes - 1
                /\ nodes[j].key \in Keys
                /\ i \in Before(nodes[j].key, j)
            BY <2>5, <2>6, <2>7, <3>2, <4>2
          <5>2. i \in 0..numberNodes - 1 /\ nodes[i] # NoNode
            BY <5>1, BeforeOrder DEF LaidIn
          <5> QED
            BY <3>1, <5>2
        <4> QED
          BY <4>1, <4>2
      <3> QED
        BY <3>2 DEF LaidIn
    <2>10. HoldIn(nodes', held')
      <3>1. ASSUME NEW j \in Occupied(nodes')
            PROVE  held'[nodes'[j].key] = nodes'[j].value
        <4>1. CASE j = slot
          BY <1>1, <2>2, <2>3, <2>6, <4>1
        <4>2. CASE j # slot
          <5>1. j \in Occupied(nodes) /\ nodes'[j] = nodes[j] /\ nodes[j].key \in Keys
            BY <2>5, <2>6, <2>7, <3>1, <4>2
          <5>2. nodes[j].key # k /\ held[nodes[j].key] = nodes[j].value
            BY <2>4, <4>2, <5>1 DEF HoldIn
          <5> QED
            BY <1>1, <2>2, <5>1, <5>2
        <4> QED
          BY <4>1, <4>2
      <3>2. ASSUME NEW q \in Keys, held'[q] # Null
            PROVE  \E j \in Occupied(nodes') : nodes'[j].key = q
        <4>1. CASE q = k
          BY <2>3, <2>5, <2>6, <4>1
        <4>2. CASE q # k
          <5>1. held[q] # Null
            BY <1>1, <2>2, <3>2, <4>2
          <5>2. PICK j \in Occupied(nodes) : nodes[j].key = q
            BY <5>1 DEF HoldIn
          <5>3. j # slot
            BY <2>1, <4>2, <5>2 DEF Occupied
          <5> QED
            BY <2>5, <2>6, <2>7, <5>2, <5>3
        <4> QED
          BY <4>1, <4>2
      <3> QED
        BY <3>1, <3>2 DEF HoldIn
    <2>11. /\ usedNodes = KeysWritten /\ "null" \notin hits' =>
                usedNodes' = Cardinality(Occupied(nodes'))
           /\ met \subseteq hits'
      BY <2>2, <2>5
    <2> QED
      BY <2>8, <2>9, <2>10, <2>11
  <1> QED
    BY <1>2, <1>3

-----------------------------------------------------------------------------
(* The hole behind a remove.                                               *)

(* HoleIn, of a loop that has visited the slots below a.                   *)
HoleBelow(tbl, h, a) ==
  /\ tbl[h] = NoNode
  /\ \A i \in h + 1..a - 1 : tbl[i] # NoNode
  /\ \A j \in Occupied(tbl) : \A i \in Before(tbl[j].key, j) :
       tbl[i] = NoNode => i = h /\ j \notin h + 1..a - 1

(* A remove empties one slot of a table that was laid out.                 *)
LEMMA RemoveMakesHole ==
  ASSUME TypeOK, numberNodes > 0, NEW tbl \in Table(numberNodes),
         UniqueIn(tbl), LaidIn(tbl), NEW s \in Occupied(tbl),
         HoldIn(tbl, held)
  PROVE  LET new == [tbl EXCEPT ![s] = NoNode] IN
         /\ HoleBelow(new, s, s + 1)
         /\ UniqueIn(new)
         /\ HoldIn(new, [held EXCEPT ![tbl[s].key] = Null])
         /\ Cardinality(Occupied(new)) = Cardinality(Occupied(tbl)) - 1
  <1> DEFINE new == [tbl EXCEPT ![s] = NoNode]
             k == tbl[s].key
             given == [held EXCEPT ![k] = Null]
  <1>1. /\ numberNodes \in Nat /\ held \in [Keys -> Values \cup {Null}]
    BY DEF TypeOK
  <1>2. /\ s \in 0..numberNodes - 1 /\ tbl[s] # NoNode /\ k \in Keys
    BY <1>1, NodeTypes
  <1>3. /\ Occupied(new) = Occupied(tbl) \ {s}
        /\ Cardinality(Occupied(tbl) \ {s}) = Cardinality(Occupied(tbl)) - 1
    BY <1>1, <1>2, ClearSlot
  <1>4. /\ new[s] = NoNode
        /\ \A j \in 0..numberNodes - 1 : j # s => new[j] = tbl[j]
    BY <1>2 DEF Table
  <1>5. \A j \in Occupied(new) :
          /\ j \in 0..numberNodes - 1 /\ j # s /\ j \in Occupied(tbl)
          /\ new[j] = tbl[j] /\ tbl[j].key \in Keys
    BY <1>1, <1>3, <1>4, NodeTypes
  <1> HIDE DEF new
  <1>6. HoleBelow(new, s, s + 1)
    <2>1. ASSUME NEW j \in Occupied(new), NEW i \in Before(new[j].key, j),
                 new[i] = NoNode
          PROVE  i = s
      <3>1. i \in Before(tbl[j].key, j) /\ i \in 0..numberNodes - 1
        BY <1>5, <2>1, BeforeOrder
      <3>2. tbl[i] # NoNode
        BY <1>5, <3>1 DEF LaidIn
      <3> QED
        BY <1>4, <2>1, <3>1, <3>2
    <2>2. s + 1..(s + 1) - 1 = {}
      BY <1>2
    <2> QED
      BY <1>4, <2>1, <2>2 DEF HoleBelow
  <1>7. UniqueIn(new)
    BY <1>5 DEF UniqueIn
  <1>8. HoldIn(new, given)
    <2>1. \A j \in Occupied(new) : tbl[j].key # k
      BY <1>5 DEF UniqueIn
    <2>2. \A q \in Keys : given[q] = IF q = k THEN Null ELSE held[q]
      BY <1>1
    <2> HIDE DEF given
    <2>3. ASSUME NEW j \in Occupied(new)
          PROVE  given[new[j].key] = new[j].value
      BY <1>5, <2>1, <2>2 DEF HoldIn
    <2>4. ASSUME NEW q \in Keys, given[q] # Null
          PROVE  \E j \in Occupied(new) : new[j].key = q
      <3>1. q # k /\ held[q] # Null
        BY <2>2, <2>4
      <3>2. PICK j \in Occupied(tbl) : tbl[j].key = q
        BY <3>1 DEF HoldIn
      <3>3. j # s
        BY <3>1, <3>2
      <3> QED
        BY <1>3, <1>5, <3>2, <3>3
    <2> QED
      BY <2>3, <2>4 DEF HoldIn
  <1> QED
    BY <1>3, <1>6, <1>7, <1>8 DEF new

(* The loop that shifts nodes fills the hole and leaves the next, or       *)
(* passes a node that is found where it is.                                *)
LEMMA ShiftKeepsHole ==
  ASSUME TypeOK, numberNodes > 0, NEW tbl \in Table(numberNodes),
         UniqueIn(tbl), NEW a \in 0..numberNodes - 1, tbl[a] # NoNode,
         NEW h \in 0..a - 1, HoleBelow(tbl, h, a),
         NEW new, new = Relayout(tbl, a)
  PROVE  \E g \in 0..a : HoleBelow(new, g, a + 1)
  <1> DEFINE k == tbl[a].key
             id == GetNode(tbl, k)
  <1>1. numberNodes \in Nat
    BY DEF TypeOK
  <1>2. a \in Occupied(tbl) /\ h \in 0..numberNodes - 1
    BY <1>1 DEF Occupied, Table
  <1>3. k \in Keys /\ \A j \in Occupied(tbl) :
                        j \in 0..numberNodes - 1 /\ tbl[j].key \in Keys
    BY <1>1, <1>2, NodeTypes
  <1>4. ~IsFull(tbl, k)
    BY <1>1, <1>3, ProbeEnds DEF StopsAt
  <1>5. /\ id \in 0..numberNodes - 1
        /\ \A i \in Before(k, id) : tbl[i] # NoNode
    BY <1>3, <1>4, ProbeEnds DEF StopsAt
  <1>6. CASE id = a
    <2>1. new = tbl
      BY <1>6 DEF Relayout
    <2>2. \A i \in Before(k, a) : tbl[i] # NoNode
      BY <1>5, <1>6
    <2> HIDE DEF id
    <2>3. \A i \in h + 1..(a + 1) - 1 : tbl[i] # NoNode
      BY <1>1 DEF HoleBelow
    <2>4. ASSUME NEW j \in Occupied(tbl), NEW i \in Before(tbl[j].key, j),
                 tbl[i] = NoNode
          PROVE  i = h /\ j \notin h + 1..(a + 1) - 1
      <3>1. i = h /\ j \notin h + 1..a - 1
        BY <2>4 DEF HoleBelow
      <3>2. j # a
        BY <2>2, <2>4
      <3> QED
        BY <1>1, <1>3, <3>1, <3>2
    <2>5. HoleBelow(tbl, h, a + 1)
      BY <2>3, <2>4 DEF HoleBelow
    <2> QED
      BY <1>1, <2>1, <2>5
  <1>7. CASE id # a
    <2>1. /\ tbl[id] = NoNode
          /\ a \notin Before(k, id)
          /\ Occupied(new) = (Occupied(tbl) \cup {id}) \ {a}
          /\ new[id] = tbl[a] /\ new[a] = NoNode
          /\ \A j \in 0..numberNodes - 1 : j # id /\ j # a => new[j] = tbl[j]
      BY <1>2, <1>7, RelayoutSlots
    <2> HIDE DEF id
    <2>2. id \in Before(k, a)
      BY <1>3, <1>5, <1>7, <2>1, BeforeOrder
    <2>3. id = h
      BY <1>2, <2>1, <2>2 DEF HoleBelow
    <2>4. ASSUME NEW j \in Occupied(new), NEW i \in Before(new[j].key, j),
                 new[i] = NoNode
          PROVE  i = a
      <3>1. CASE j = id
        <4>1. i \in Before(k, id) /\ i \in 0..numberNodes - 1 /\ i # id
          BY <1>3, <1>5, <2>1, <2>4, <3>1, BeforeOrder
        <4>2. tbl[i] # NoNode
          BY <1>5, <4>1
        <4> QED
          BY <2>1, <2>4, <4>1, <4>2
      <3>2. CASE j # id
        <4>1. j \in Occupied(tbl) /\ j # a /\ new[j] = tbl[j]
          BY <1>3, <2>1, <2>4, <3>2
        <4>2. i \in 0..numberNodes - 1 /\ i \in Before(tbl[j].key, j)
          BY <1>3, <2>4, <4>1, BeforeOrder
        <4>3. i # id
          BY <2>1, <2>4
        <4>4. ASSUME i # a
              PROVE  FALSE
          <5>1. tbl[i] = NoNode
            BY <2>1, <2>4, <4>2, <4>3, <4>4
          <5> QED
            BY <2>3, <4>1, <4>2, <4>3, <5>1 DEF HoleBelow
        <4> QED
          BY <4>4
      <3> QED
        BY <3>1, <3>2
    <2>5. a + 1..(a + 1) - 1 = {}
      BY <1>1
    <2>6. HoleBelow(new, a, a + 1)
      BY <2>1, <2>4, <2>5 DEF HoleBelow
    <2> QED
      BY <1>1, <2>6
  <1> QED
    BY <1>6, <1>7

(* At an empty slot the hole separates no node from its home; at the end   *)
(* of the table only if the run of nodes does not continue at slot 0.      *)
LEMMA HoleCloses ==
  ASSUME TypeOK, numberNodes > 0, NEW tbl \in Table(numberNodes),
         NEW a \in 0..numberNodes, NEW h \in 0..a - 1, HoleBelow(tbl, h, a),
         a < numberNodes => tbl[a] = NoNode,
         a = numberNodes => tbl[0] = NoNode
  PROVE  LaidIn(tbl)
  <1> SUFFICES ASSUME NEW j \in Occupied(tbl), NEW i \in Before(tbl[j].key, j),
                      tbl[i] = NoNode
               PROVE  FALSE
    BY DEF LaidIn
  <1> DEFINE k == tbl[j].key
             end == IF a < numberNodes THEN a ELSE 0
  <1>1. numberNodes \in Nat
    BY DEF TypeOK
  <1>2. j \in 0..numberNodes - 1 /\ tbl[j] # NoNode /\ k \in Keys
    BY <1>1, NodeTypes
  <1>3. Probe(k, 0) \in 0..numberNodes - 1
    BY <1>2, ProbeSlots
  <1>4. i = h /\ j \notin h + 1..a - 1
    BY DEF HoleBelow
  <1>5. j # h /\ j # end
    BY <1>1, <1>2, <1>4
  <1>6. end \in Before(k, j) \/ end = h
    BY <1>1, <1>2, <1>3, <1>4, <1>5 DEF Before
  <1>7. tbl[end] = NoNode
    BY <1>1
  <1>8. end = h
    BY <1>6, <1>7 DEF HoleBelow
  <1> QED
    BY <1>1, <1>2, <1>3, <1>4, <1>5, <1>8 DEF Before

(* A pass of the growth that moved nothing leaves a table laid out.        *)
LEMMA FoundIsLaid ==
  ASSUME TypeOK, numberNodes > 0, NEW tbl \in Table(numberNodes),
         \A j \in Occupied(tbl) : GetNode(tbl, tbl[j].key) = j
  PROVE  LaidIn(tbl)
  <1>1. numberNodes \in Nat
    BY DEF TypeOK
  <1>2. ASSUME NEW j \in Occupied(tbl), NEW i \in Before(tbl[j].key, j)
        PROVE  tbl[i] # NoNode
    <2>1. j \in 0..numberNodes - 1 /\ tbl[j].key \in Keys
      BY <1>1, NodeTypes
    <2>2. ~IsFull(tbl, tbl[j].key)
      BY <2>1, ProbeEnds DEF StopsAt
    <2> QED
      BY <1>2, <2>1, <2>2, ProbeEnds DEF StopsAt
  <1> QED
    BY <1>2 DEF LaidIn

-----------------------------------------------------------------------------
(* The inductive invariant.                                                *)

(* The parts of IInv that speak of where the nodes are.                    *)
Found ==
  /\ CountsMatch
  /\ OneNodePerKey
  /\ LaidOut
  /\ OneHole
  /\ PassFound
  /\ NodesHold

(* A new map has no node.                                                  *)
LEMMA IInvInit == Init => IInv
  <1> SUFFICES ASSUME Init PROVE IInv
    OBVIOUS
  <1>1. TypeOK /\ Shape /\ KeysFit
    BY SafeInit DEF Safe
  <1>2. numberNodes \in Nat /\ nodes = EmptyTable(numberNodes)
    BY <1>1 DEF TypeOK, Init
  <1>3. Occupied(nodes) = {} /\ KeysWritten = 0
    BY <1>2, EmptyTableIsEmpty DEF KeysWritten
  <1>4. /\ usedNodes = 0 /\ pc = "idle"
        /\ \A k \in Keys : held[k] = Null
    BY DEF Init
  <1> QED
    BY <1>1, <1>3, <1>4
       DEF IInv, CountsMatch, OneNodePerKey, UniqueIn, LaidOut, LaidIn, OneHole,
           PassFound, NodesHold, HoldIn

(* A store into a table that is laid out, at the end of a call.            *)
LEMMA StoreFinds ==
  ASSUME TypeOK, Found, numberNodes > 0, NEW k \in Keys, NEW v \in Values,
         NEW met \in SUBSET Hits, Store(k, v, met), hits \subseteq met,
         "wrap" \notin hits => LaidIn(nodes),
         pc' = "idle", UNCHANGED <<numberNodes, hash>>
  PROVE  Found'
  <1>1. hits \subseteq hits'
    <2>1. hits' = met \/ hits' = met \cup {"null"}
      BY StoreEffect
    <2> QED
      BY <2>1
  <1>2. CASE "wrap" \in hits'
    BY <1>2 DEF Found, CountsMatch, OneNodePerKey, LaidOut, OneHole, PassFound,
                NodesHold
  <1>3. CASE "wrap" \notin hits'
    <2>1. /\ UniqueIn(nodes) /\ LaidIn(nodes) /\ HoldIn(nodes, held)
      BY <1>1, <1>3 DEF Found, OneNodePerKey, NodesHold
    <2>2. /\ UniqueIn(nodes') /\ LaidIn(nodes') /\ HoldIn(nodes', held')
          /\ usedNodes = KeysWritten /\ "null" \notin hits' =>
               usedNodes' = Cardinality(Occupied(nodes'))
      BY <2>1, StoreKeeps
    <2>3. LaidIn(nodes)'
      BY <2>2 DEF LaidIn, Before, Probe
    <2>4. CountsMatch'
      BY <1>1, <2>2 DEF Found, CountsMatch, KeysWritten
    <2> QED
      BY <2>2, <2>3, <2>4
         DEF Found, OneNodePerKey, LaidOut, OneHole, PassFound, NodesHold
  <1> QED
    BY <1>2, <1>3

(* Every step keeps the nodes where they are found.                        *)
LEMMA FoundNext == IInv /\ [Next]_vars => Found'
  <1> SUFFICES ASSUME IInv, [Next]_vars PROVE Found'
    OBVIOUS
  <1>1. TypeOK /\ Shape /\ Found
    BY DEF IInv, Found
  <1>2. /\ numberNodes \in Nat /\ usedNodes \in Nat
        /\ nodes \in Table(numberNodes)
        /\ at \in 0..numberNodes
        /\ hits \in SUBSET Hits
        /\ held \in [Keys -> Values \cup {Null}]
        /\ pc = "grow" => call.key \in Keys /\ call.value \in Values
        /\ pc # "idle" => numberNodes > 0
    BY <1>1 DEF TypeOK, Shape, Table, Hits
  <1>3. ASSUME NEW n \in Sizes, HashmapInit(n)
        PROVE  Found'
    <2>1. n \in Nat
      BY SizesAssumption, Zenon
    <2>2. /\ numberNodes = 0 /\ nodes' = EmptyTable(n) /\ usedNodes' = 0
          /\ UNCHANGED <<pc, held, hits>> /\ pc = "idle"
      BY <1>1, <1>3 DEF HashmapInit, Shape
    <2>3. Occupied(nodes') = {} /\ KeysWritten' = 0
      BY <2>1, <2>2, EmptyTableIsEmpty DEF KeysWritten
    <2>4. Occupied(nodes) = {}
      BY <1>2, <2>2, OccupiedFinite
    <2>5. CountsMatch'
      BY <2>2, <2>3 DEF CountsMatch
    <2>6. NodesHold'
      BY <1>1, <2>2, <2>3, <2>4 DEF Found, NodesHold, HoldIn
    <2> QED
      BY <2>2, <2>3, <2>5, <2>6
         DEF Found, OneNodePerKey, UniqueIn, LaidOut, LaidIn, OneHole, PassFound
  <1>4. ASSUME NEW k \in Keys, NEW v \in Values,
               HashmapSet(k, v) \/ HashmapSetNoMemory(k, v)
        PROVE  Found'
    <2>1. /\ pc = "idle" /\ numberNodes > 0 /\ pc' = "idle"
          /\ UNCHANGED <<numberNodes, hash>>
      BY <1>4 DEF HashmapSet, HashmapSetNoMemory, Ready
    <2>2. PICK met \in SUBSET Hits : Store(k, v, met) /\ hits \subseteq met
      <3>1. hits \in SUBSET Hits /\ hits \cup {"nomem"} \in SUBSET Hits
        BY <1>2 DEF Hits
      <3> QED
        BY <1>4, <3>1 DEF HashmapSet, HashmapSetNoMemory
    <2>3. "wrap" \notin hits => LaidIn(nodes)
      BY <1>1, <2>1 DEF Found, LaidOut
    <2> QED
      BY <1>1, <2>1, <2>2, <2>3, StoreFinds
  <1>5. ASSUME NEW k \in Keys, NEW v \in Values, HashmapSetGrow(k, v)
        PROVE  Found'
    <2>1. /\ nodes' = [i \in 0..2 * numberNodes - 1 |->
                         IF i < numberNodes THEN nodes[i] ELSE NoNode]
          /\ pc' = "grow" /\ at' = 0
          /\ UNCHANGED <<usedNodes, held, hits>>
      BY <1>5 DEF HashmapSetGrow
    <2>2. /\ Occupied(nodes') = Occupied(nodes)
          /\ Occupied(nodes) \subseteq 0..numberNodes - 1
          /\ \A j \in Occupied(nodes) : nodes'[j] = nodes[j]
      BY <1>2, <2>1 DEF Occupied, Table
    <2>3. CountsMatch'
      BY <1>1, <2>1, <2>2 DEF Found, CountsMatch, KeysWritten
    <2>4. UniqueIn(nodes) => UniqueIn(nodes')
      BY <2>2 DEF UniqueIn
    <2>5. HoldIn(nodes, held) => HoldIn(nodes', held')
      BY <2>1, <2>2 DEF HoldIn
    <2>6. PassFound'
      BY <1>2, <2>1, <2>2 DEF PassFound
    <2> QED
      BY <1>1, <2>1, <2>3, <2>4, <2>5, <2>6
         DEF Found, OneNodePerKey, LaidOut, OneHole, NodesHold
  <1>6. CASE GrowVisit
    <2>1. /\ pc = "grow" /\ pc' = "grow" /\ at < numberNodes /\ at' = at + 1
          /\ nodes' = IF nodes[at] = NoNode THEN nodes ELSE Relayout(nodes, at)
          /\ UNCHANGED <<numberNodes, usedNodes, hash, held, hits>>
      BY <1>6 DEF GrowVisit
    <2>2. numberNodes > 0 /\ at \in 0..numberNodes - 1
      BY <1>2, <2>1
    <2>3. ASSUME "wrap" \notin hits
          PROVE  /\ UniqueIn(nodes') /\ HoldIn(nodes', held)
                 /\ KeysWritten' = KeysWritten
      <3>1. UniqueIn(nodes) /\ HoldIn(nodes, held)
        BY <1>1, <2>3 DEF Found, OneNodePerKey, NodesHold
      <3>2. CASE nodes[at] = NoNode
        BY <2>1, <3>1, <3>2 DEF KeysWritten
      <3>3. CASE nodes[at] # NoNode
        <4>1. at \in Occupied(nodes)
          BY <1>2, <2>2, <3>3 DEF Occupied, Table
        <4> QED
          BY <1>1, <1>2, <2>1, <2>2, <3>1, <3>3, <4>1, RelayoutKeeps DEF KeysWritten
      <3> QED
        BY <3>2, <3>3
    <2>4. PassFound'
      <3> SUFFICES ASSUME ~moved', NEW j \in Occupied(nodes'), j < at + 1
                   PROVE  GetNode(nodes, nodes[j].key)' = j
        BY <2>1 DEF PassFound
      <3>1. ~moved /\ nodes' = nodes
        <4>1. moved' = (moved \/ nodes' # nodes)
          BY <1>6 DEF GrowVisit
        <4> QED
          BY <4>1, Zenon
      <3>2. j \in Occupied(nodes) /\ j \in 0..numberNodes - 1
        BY <1>2, <3>1, NodeTypes
      <3>3. GetNode(nodes, nodes[j].key) = j
        <4>1. CASE j < at
          <5>1. \A i \in Occupied(nodes) : i < at => GetNode(nodes, nodes[i].key) = i
            BY <1>1, <2>1, <3>1, Zenon DEF Found, PassFound
          <5> QED
            BY <3>2, <4>1, <5>1
        <4>2. CASE j = at
          <5>1. nodes[at] # NoNode /\ Relayout(nodes, at) = nodes
            BY <2>1, <3>1, <3>2, <4>2 DEF Occupied
          <5>2. ASSUME GetNode(nodes, nodes[at].key) # at
                PROVE  FALSE
            <6> DEFINE id == GetNode(nodes, nodes[at].key)
            <6>1. nodes = [nodes EXCEPT ![id] = nodes[at], ![at] = NoNode]
              BY <5>1, <5>2 DEF Relayout
            <6> HIDE DEF id
            <6>2. nodes[at] = NoNode
              BY <1>2, <2>2, <6>1 DEF Table
            <6> QED
              BY <5>1, <6>2
          <5> QED
            BY <4>2, <5>2
        <4> QED
          BY <1>2, <3>2, <4>1, <4>2
      <3> QED
        BY <2>1, <3>1, <3>3 DEF GetNode, Stops, Probe
    <2>5. CountsMatch'
      BY <1>1, <2>1, <2>3 DEF Found, CountsMatch
    <2> QED
      BY <2>1, <2>3, <2>4, <2>5
         DEF Found, OneNodePerKey, LaidOut, OneHole, NodesHold
  <1>7. CASE GrowAgain
    <2>1. /\ pc' = "grow" /\ at' = 0
          /\ UNCHANGED <<nodes, numberNodes, usedNodes, hash, held, hits>>
      BY <1>7 DEF GrowAgain
    <2>2. \A j \in Occupied(nodes) : ~(j < 0)
      BY <1>2, OccupiedFinite
    <2>3. PassFound'
      BY <2>1, <2>2 DEF PassFound
    <2> QED
      BY <1>1, <2>1, <2>3
         DEF Found, CountsMatch, KeysWritten, OneNodePerKey, LaidOut, OneHole,
             NodesHold
  <1>8. CASE GrowDone
    <2>1. /\ pc = "grow" /\ at = numberNodes
          /\ Store(call.key, call.value, hits)
          /\ pc' = "idle" /\ UNCHANGED <<numberNodes, hash>>
      BY <1>8 DEF GrowDone
    <2>2. ~moved
      BY <1>8, Zenon DEF GrowDone
    <2>3. \A j \in Occupied(nodes) : j < at => GetNode(nodes, nodes[j].key) = j
      BY <1>1, <2>1, <2>2, Zenon DEF Found, PassFound
    <2>4. \A j \in Occupied(nodes) : GetNode(nodes, nodes[j].key) = j
      BY <1>2, <2>1, <2>3, OccupiedFinite
    <2>5. LaidIn(nodes)
      BY <1>1, <1>2, <2>1, <2>4, FoundIsLaid
    <2> QED
      BY <1>1, <1>2, <2>1, <2>5, StoreFinds
  <1>9. ASSUME NEW k \in Keys, HashmapRemove(k)
        PROVE  Found'
    <2> DEFINE s == GetNode(nodes, k)
    <2>1. /\ pc = "idle" /\ numberNodes > 0
          /\ HashmapGet(k) # Null
          /\ nodes' = [nodes EXCEPT ![s] = NoNode]
          /\ usedNodes' = usedNodes - 1
          /\ held' = [held EXCEPT ![k] = Null]
          /\ pc' = "shift" /\ at' = s + 1
          /\ UNCHANGED <<numberNodes, hash, hits>>
      BY <1>9 DEF HashmapRemove, Ready
    <2>2. ~IsFull(nodes, k) /\ nodes[s] # NoNode
      BY <2>1 DEF HashmapGet
    <2>3. s \in 0..numberNodes - 1 /\ nodes[s].key = k
      BY <1>1, <2>1, <2>2, ProbeEnds DEF StopsAt
    <2> HIDE DEF s
    <2>4. CASE "wrap" \in hits
      BY <2>1, <2>4 DEF Found, CountsMatch, OneNodePerKey, LaidOut, OneHole,
                        PassFound, NodesHold
    <2>5. CASE "wrap" \notin hits
      <3>1. UniqueIn(nodes) /\ LaidIn(nodes) /\ HoldIn(nodes, held)
        BY <1>1, <2>1, <2>5 DEF Found, OneNodePerKey, LaidOut, NodesHold
      <3>2. s \in Occupied(nodes)
        BY <1>2, <2>2, <2>3 DEF Occupied, Table
      <3>3. /\ HoleBelow(nodes', s, s + 1) /\ UniqueIn(nodes')
            /\ HoldIn(nodes', held') /\ KeysWritten' = KeysWritten - 1
        <4> DEFINE new == [nodes EXCEPT ![s] = NoNode]
        <4>1. /\ HoleBelow(new, s, s + 1) /\ UniqueIn(new)
              /\ HoldIn(new, [held EXCEPT ![nodes[s].key] = Null])
              /\ Cardinality(Occupied(new)) = Cardinality(Occupied(nodes)) - 1
          BY <1>1, <1>2, <2>1, <3>1, <3>2, RemoveMakesHole
        <4>2. nodes' = new /\ held' = [held EXCEPT ![nodes[s].key] = Null]
          BY <2>1, <2>3
        <4> HIDE DEF new
        <4> QED
          BY <4>1, <4>2 DEF KeysWritten
      <3>9. PICK g \in 0..numberNodes - 1 : g = s
        BY <2>3
      <3>4. HoleIn(nodes, g)'
        <4>1. HoleBelow(nodes', g, at') /\ UNCHANGED <<numberNodes, hash>>
          BY <2>1, <3>3, <3>9
        <4> QED
          BY <4>1 DEF HoleBelow, HoleIn, Before, Probe
      <3>5. g \in 0..at' - 1
        BY <1>2, <2>1, <2>3, <3>9
      <3>6. OneHole'
        <4>1. \E h \in 0..at' - 1 : HoleIn(nodes, h)'
          BY <3>4, <3>5
        <4> QED
          BY <4>1 DEF OneHole
      <3>7. CountsMatch'
        BY <1>1, <2>1, <3>3 DEF Found, CountsMatch
      <3> QED
        BY <2>1, <3>3, <3>6, <3>7 DEF Found, OneNodePerKey, LaidOut, PassFound,
                                      NodesHold
    <2> QED
      BY <2>4, <2>5
  <1>10. ASSUME NEW k \in Keys, HashmapRemoveAbsent(k)
         PROVE  Found'
    <2>1. /\ pc = "idle" /\ numberNodes > 0 /\ HashmapGet(k) = Null
          /\ held' = [held EXCEPT ![k] = Null]
          /\ UNCHANGED <<nodes, numberNodes, usedNodes, hash, pc, at, moved, hits>>
      BY <1>10 DEF HashmapRemoveAbsent, Ready
    <2>2. NodesHold'
      <3>1. CASE "wrap" \in hits
        BY <2>1, <3>1 DEF NodesHold
      <3>2. CASE "wrap" \notin hits
        <4>1. UniqueIn(nodes) /\ LaidIn(nodes) /\ HoldIn(nodes, held)
          BY <1>1, <2>1, <3>2 DEF Found, OneNodePerKey, LaidOut, NodesHold
        <4>2. held[k] = Null
          BY <1>1, <2>1, <4>1, GetIsHeld
        <4>3. held' = held
          BY <1>2, <2>1, <4>2
        <4> QED
          BY <2>1, <4>1, <4>3 DEF NodesHold
      <3> QED
        BY <3>1, <3>2
    <2> QED
      BY <1>1, <2>1, <2>2
         DEF Found, CountsMatch, KeysWritten, OneNodePerKey, LaidOut, LaidIn,
             Before, Probe, OneHole, PassFound
  <1>11. CASE ShiftVisit
    <2>1. /\ pc = "shift" /\ pc' = "shift" /\ at < numberNodes
          /\ nodes[at] # NoNode /\ nodes' = Relayout(nodes, at) /\ at' = at + 1
          /\ UNCHANGED <<numberNodes, usedNodes, hash, held, hits>>
      BY <1>11 DEF ShiftVisit
    <2>2. numberNodes > 0 /\ at \in 0..numberNodes - 1
      BY <1>2, <2>1
    <2>3. at \in Occupied(nodes)
      BY <1>2, <2>1, <2>2 DEF Occupied, Table
    <2>4. CASE "wrap" \in hits
      BY <2>1, <2>4 DEF Found, CountsMatch, OneNodePerKey, LaidOut, OneHole,
                        PassFound, NodesHold
    <2>5. CASE "wrap" \notin hits
      <3>1. UniqueIn(nodes) /\ HoldIn(nodes, held)
        BY <1>1, <2>5 DEF Found, OneNodePerKey, NodesHold
      <3>2. /\ UniqueIn(nodes') /\ HoldIn(nodes', held)
            /\ KeysWritten' = KeysWritten
        BY <1>1, <1>2, <2>1, <2>2, <2>3, <3>1, RelayoutKeeps DEF KeysWritten
      <3>3. PICK h \in 0..at - 1 : HoleIn(nodes, h)
        BY <1>1, <2>1, <2>5 DEF Found, OneHole
      <3>4. HoleBelow(nodes, h, at)
        BY <3>3 DEF HoleIn, HoleBelow
      <3>5. PICK g \in 0..at : HoleBelow(nodes', g, at + 1)
        BY <1>1, <1>2, <2>1, <2>2, <3>1, <3>4, ShiftKeepsHole
      <3>6. HoleIn(nodes, g)'
        BY <2>1, <3>5 DEF HoleBelow, HoleIn, Before, Probe
      <3>7. OneHole'
        <4>1. g \in 0..at' - 1
          BY <1>2, <2>1
        <4>2. \E x \in 0..at' - 1 : HoleIn(nodes, x)'
          BY <3>6, <4>1
        <4> QED
          BY <4>2 DEF OneHole
      <3>8. CountsMatch'
        BY <1>1, <2>1, <3>2 DEF Found, CountsMatch
      <3> QED
        BY <2>1, <3>2, <3>7, <3>8 DEF Found, OneNodePerKey, LaidOut, PassFound,
                                      NodesHold
    <2> QED
      BY <2>4, <2>5
  <1>12. CASE ShiftDone
    <2>1. /\ pc = "shift" /\ pc' = "idle"
          /\ at < numberNodes => nodes[at] = NoNode
          /\ hits' = IF at = numberNodes /\ nodes[0] # NoNode
                     THEN hits \cup {"wrap"} ELSE hits
          /\ UNCHANGED <<nodes, numberNodes, usedNodes, hash, held>>
      BY <1>12 DEF ShiftDone
    <2>2. "wrap" \notin hits' =>
            "wrap" \notin hits /\ (at = numberNodes => nodes[0] = NoNode)
      BY <2>1
    <2>3. LaidOut'
      <3> SUFFICES ASSUME "wrap" \notin hits' PROVE LaidIn(nodes)'
        BY DEF LaidOut
      <3>1. PICK h \in 0..at - 1 : HoleIn(nodes, h)
        BY <1>1, <2>1, <2>2 DEF Found, OneHole
      <3>2. HoleBelow(nodes, h, at)
        BY <3>1 DEF HoleIn, HoleBelow
      <3>3. LaidIn(nodes)
        BY <1>1, <1>2, <2>1, <2>2, <3>2, HoleCloses
      <3> QED
        BY <2>1, <3>3 DEF LaidIn, Before, Probe
    <2>4. CountsMatch'
      BY <1>1, <2>1, <2>2 DEF Found, CountsMatch, KeysWritten
    <2> QED
      BY <1>1, <2>1, <2>2, <2>3, <2>4
         DEF Found, OneNodePerKey, OneHole, PassFound, NodesHold
  <1>13. ASSUME NEW n \in Nat, Ready, Emptied(n)
         PROVE  Found'
    <2>1. /\ nodes' = EmptyTable(n) /\ usedNodes' = 0 /\ pc' = "idle"
          /\ \A k \in Keys : held'[k] = Null
      BY <1>13 DEF Emptied, Ready
    <2>2. Occupied(nodes') = {} /\ KeysWritten' = 0
      BY <2>1, EmptyTableIsEmpty DEF KeysWritten
    <2> QED
      BY <2>1, <2>2
         DEF Found, CountsMatch, OneNodePerKey, UniqueIn, LaidOut, LaidIn, OneHole,
             PassFound, NodesHold, HoldIn
  <1>14. CASE UNCHANGED vars
    <2>1. UNCHANGED <<nodes, numberNodes, usedNodes, hash, pc, at, held, hits>>
      BY <1>14 DEF vars
    <2>2. CountsMatch' /\ OneNodePerKey' /\ NodesHold'
      BY <1>1, <2>1 DEF Found, CountsMatch, KeysWritten, OneNodePerKey, NodesHold
    <2>3. LaidOut'
      BY <1>1, <2>1 DEF Found, LaidOut, LaidIn, Before, Probe
    <2>4. OneHole'
      BY <1>1, <2>1 DEF Found, OneHole, HoleIn, Before, Probe
    <2>5. PassFound'
      <3>1. moved' = moved
        BY <1>14 DEF vars
      <3>2. (pc = "grow" /\ ~moved') =>
              \A j \in Occupied(nodes) : j < at => GetNode(nodes, nodes[j].key) = j
        BY <1>1, <3>1, Zenon DEF Found, PassFound
      <3> QED
        BY <2>1, <3>2 DEF PassFound, GetNode, Stops, Probe
    <2> QED
      BY <2>2, <2>3, <2>4, <2>5 DEF Found
  <1> QED
    BY <1>2, <1>3, <1>4, <1>5, <1>6, <1>7, <1>8, <1>9, <1>10, <1>11, <1>12, <1>13,
       <1>14 DEF Next, HashmapClear, HashmapDestroy

(* IInv is inductive.                                                      *)
LEMMA IInvNext == IInv /\ [Next]_vars => IInv'
  <1>1. IInv /\ [Next]_vars => Safe' /\ Found'
    BY SafeNext, FoundNext DEF IInv, Safe
  <1> QED
    BY <1>1 DEF IInv, Safe, Found

(* hashmap_get returns what its key was last given, across every growth    *)
(* and every removal of other keys, for every hash function, until a       *)
(* remove meets a run of nodes that wraps.                                 *)
THEOREM GetsWhatWasSet == Spec => []GetReturnsHeld
  <1>1. IInv => GetReturnsHeld
    <2> SUFFICES ASSUME IInv, Ready, "wrap" \notin hits, NEW k \in Keys
                 PROVE  HashmapGet(k) = held[k]
      BY DEF GetReturnsHeld
    <2> QED
      BY GetIsHeld DEF IInv, Ready, OneNodePerKey, LaidOut, NodesHold
  <1> QED
    BY <1>1, IInvInit, IInvNext, PTL DEF Spec

(* A key has one node, also while nodes move, under the same condition.    *)
THEOREM KeysStayUnique == Spec => []OneNodePerKey
  <1>1. IInv => OneNodePerKey
    BY DEF IInv
  <1> QED
    BY <1>1, IInvInit, IInvNext, PTL DEF Spec

(* used_nodes, the length hashmap_iterator and hashlist_length rely on, is *)
(* the number of nodes, unless a node was lost in one of two known ways.   *)
THEOREM CountsAgree == Spec => []CountsMatch
  <1>1. IInv => CountsMatch
    BY DEF IInv
  <1> QED
    BY <1>1, IInvInit, IInvNext, PTL DEF Spec

-----------------------------------------------------------------------------
(* A growth settles in one pass.  The nodes of the old table fill half of  *)
(* the new one at most, and begin in its lower half.  A visit moves a node *)
(* to where a probe finds it, and that stays so unless the pass empties a  *)
(* slot on the way to it later.  Such a way leads over the end of the      *)
(* table, and there some slot of the upper half is empty, behind which the *)
(* pass moves nothing.                                                     *)

(* Where a probe for the key of a node begins; and that it ends at the     *)
(* node.                                                                   *)
Home(tbl, j) == Probe(tbl[j].key, 0)
FoundAt(tbl, j) == \A i \in Before(tbl[j].key, j) : ~StopsAt(tbl, tbl[j].key, i)

(* A probe wraps if it goes on at slot 0.                                  *)
Wraps(tbl, j) == Home(tbl, j) > j

(* The first pass in the lower half of the table: the nodes behind it are  *)
(* found, those that wrap come from the upper half; and in the upper half, *)
(* which was empty, nodes lie without gaps.                                *)
InLower(n, tbl, i0) ==
  /\ \A j \in Occupied(tbl) : j < i0 =>
       /\ FoundAt(tbl, j)
       /\ Wraps(tbl, j) => Home(tbl, j) >= n
  /\ \A j \in Occupied(tbl) : j >= n =>
       /\ ~Wraps(tbl, j)
       /\ \A i \in n..j - 1 : Home(tbl, j) <= i => ~StopsAt(tbl, tbl[j].key, i)

(* In the upper half: if a node wraps, the pass comes to an empty slot g,  *)
(* behind which everything is found, and where everything that wraps has   *)
(* its home.                                                               *)
Beyond(tbl, g) ==
  /\ tbl[g] = NoNode
  /\ \A j \in Occupied(tbl) : Wraps(tbl, j) => Home(tbl, j) > g
  /\ \A j \in Occupied(tbl) : j > g => Home(tbl, j) > g /\ FoundAt(tbl, j)
InUpper(n, tbl, i0) ==
  /\ \A j \in Occupied(tbl) : j < i0 => FoundAt(tbl, j)
  /\ \A j \in Occupied(tbl) : j >= n => ~Wraps(tbl, j)
  /\ (\E j \in Occupied(tbl) : Wraps(tbl, j)) => \E g \in n..2 * n - 1 : Beyond(tbl, g)

(* The first pass is at slot i0 of a table of twice n slots.               *)
FirstPass(n, tbl, i0) ==
  /\ Cardinality(Occupied(tbl)) <= n
  /\ i0 <= n => InLower(n, tbl, i0)
  /\ i0 >= n => InUpper(n, tbl, i0)

(* A second pass has found everything where it is.                         *)
Settles ==
  /\ passes \in {0, 1}
  /\ pc # "grow" => passes = 0
  /\ (pc = "grow" /\ passes = 0) =>
       \E n \in Nat \ {0} : numberNodes = 2 * n /\ FirstPass(n, nodes, at)
  /\ (pc = "grow" /\ passes = 1) =>
       ~moved /\ \A j \in Occupied(nodes) : FoundAt(nodes, j)

(* No more than half of the slots are used: not all of the upper half and  *)
(* another.                                                                *)
LEMMA NotCrowded ==
  ASSUME NEW n \in Nat \ {0}, NEW tbl \in Table(2 * n),
         Cardinality(Occupied(tbl)) <= n, NEW i \in Occupied(tbl), i < n
  PROVE  \E g \in n..2 * n - 1 : tbl[g] = NoNode
  <1> SUFFICES ASSUME \A g \in n..2 * n - 1 : tbl[g] # NoNode
               PROVE  FALSE
    OBVIOUS
  <1>1. 2 * n \in Nat /\ n \in Int /\ 2 * n - 1 \in Int
    OBVIOUS
  <1>2. IsFiniteSet(Occupied(tbl)) /\ Cardinality(Occupied(tbl)) \in Nat
    BY <1>1, OccupiedFinite
  <1>3. n..2 * n - 1 \subseteq Occupied(tbl)
    BY DEF Occupied, Table
  <1>4. IsFiniteSet(n..2 * n - 1) /\ Cardinality(n..2 * n - 1) = n
    <2>1. Cardinality(n..2 * n - 1) = IF n > 2 * n - 1 THEN 0 ELSE 2 * n - 1 - n + 1
      BY <1>1, FS_Interval
    <2> QED
      BY <1>1, <2>1, FS_Interval
  <1>5. i \notin n..2 * n - 1
    <2>1. i \in 0..2 * n - 1
      BY <1>1, OccupiedFinite
    <2> QED
      BY <2>1
  <1>6. Cardinality((n..2 * n - 1) \cup {i}) = n + 1
    BY <1>4, <1>5, FS_AddElement
  <1>7. (n..2 * n - 1) \cup {i} \subseteq Occupied(tbl)
    BY <1>3
  <1>8. Cardinality((n..2 * n - 1) \cup {i}) <= Cardinality(Occupied(tbl))
    BY <1>2, <1>7, FS_Subset
  <1> QED
    BY <1>2, <1>6, <1>8

(* The slots before one, by where the home is.                             *)
LEMMA BeforeSlots ==
  ASSUME TypeOK, numberNodes > 0, NEW tbl \in Table(numberNodes),
         NEW j \in Occupied(tbl)
  PROVE  /\ j \in 0..numberNodes - 1 /\ tbl[j].key \in Keys /\ numberNodes \in Nat
         /\ Home(tbl, j) \in 0..numberNodes - 1
         /\ ~Wraps(tbl, j) => Before(tbl[j].key, j) = Home(tbl, j)..j - 1
         /\ Wraps(tbl, j) => Before(tbl[j].key, j) =
                               (Home(tbl, j)..numberNodes - 1) \cup (0..j - 1)
  <1>1. numberNodes \in Nat
    BY DEF TypeOK
  <1>2. j \in 0..numberNodes - 1 /\ tbl[j].key \in Keys
    BY <1>1, NodeTypes
  <1>3. Probe(tbl[j].key, 0) \in 0..numberNodes - 1
    BY <1>2, ProbeSlots
  <1>4. Wraps(tbl, j) <=> ~(Probe(tbl[j].key, 0) <= j)
    BY <1>2, <1>3 DEF Wraps, Home
  <1> QED
    BY <1>1, <1>2, <1>3, <1>4 DEF Before, Home

(* Where a relayout puts a node: no later than where the node was, and     *)
(* where it is found; and no key is lost from a slot but that of the node. *)
Moves(tbl, new, i, id) ==
  /\ id # i /\ id \in Before(tbl[i].key, i) /\ StopsAt(tbl, tbl[i].key, id)
  /\ Occupied(new) = (Occupied(tbl) \cup {id}) \ {i}
  /\ new[id] = tbl[i]
  /\ \A j \in Occupied(tbl) : j # i /\ j # id => new[j] = tbl[j]
  /\ \A j \in 0..numberNodes - 1 : j # i /\ j # id => new[j] = tbl[j]
  /\ \A q, m : m \in 0..numberNodes - 1 /\ m # i /\ ~StopsAt(tbl, q, m) => ~StopsAt(new, q, m)
  /\ \A m \in Before(tbl[i].key, id) : m # i /\ ~StopsAt(tbl, tbl[i].key, m)
  /\ FoundAt(new, id)

LEMMA RelayoutFinds ==
  ASSUME TypeOK, numberNodes > 0, NEW tbl \in Table(numberNodes),
         NEW i \in Occupied(tbl), NEW new, new = Relayout(tbl, i)
  PROVE  \/ new = tbl /\ FoundAt(tbl, i)
         \/ \E id : Moves(tbl, new, i, id)
  <1>1. PICK k : k = tbl[i].key
    OBVIOUS
  <1>2. PICK id : id = GetNode(tbl, k)
    OBVIOUS
  <1>3. /\ numberNodes \in Nat /\ i \in 0..numberNodes - 1 /\ k \in Keys
        /\ tbl[i] \in Node /\ tbl[i] # NoNode
    <2>1. numberNodes \in Nat
      BY DEF TypeOK
    <2> QED
      BY <1>1, <2>1, NodeTypes
  <1>4. ~IsFull(tbl, k)
    BY <1>1, <1>3, ProbeEnds DEF StopsAt
  <1>5. /\ id \in 0..numberNodes - 1 /\ StopsAt(tbl, k, id)
        /\ \A m \in Before(k, id) : ~StopsAt(tbl, k, m)
    BY <1>2, <1>3, <1>4, ProbeEnds
  <1>6. i \notin Before(k, id)
    BY <1>1, <1>5 DEF StopsAt
  <1>7. CASE id = i
    <2>1. new = tbl
      BY <1>1, <1>2, <1>7 DEF Relayout
    <2> QED
      BY <1>1, <1>5, <1>7, <2>1 DEF FoundAt
  <1>8. CASE id # i
    <2>1. id \in Before(k, i)
      BY <1>3, <1>5, <1>6, <1>8, BeforeOrder
    <2>2. /\ new = [tbl EXCEPT ![id] = tbl[i], ![i] = NoNode]
          /\ Occupied(new) = (Occupied(tbl) \cup {id}) \ {i}
      BY <1>1, <1>2, <1>8, RelayoutMoves
    <2>3. /\ new[id] = tbl[i]
          /\ \A j \in 0..numberNodes - 1 : j # i /\ j # id => new[j] = tbl[j]
      BY <1>3, <1>5, <1>8, <2>2 DEF Table
    <2>4. ASSUME NEW q, NEW m \in 0..numberNodes - 1, m # i, ~StopsAt(tbl, q, m)
          PROVE  ~StopsAt(new, q, m)
      <3>1. CASE m = id
        <4>1. k # q /\ new[id].key = k
          BY <1>1, <1>5, <2>3, <2>4, <3>1 DEF StopsAt
        <4> QED
          BY <1>3, <2>3, <3>1, <4>1 DEF StopsAt
      <3>2. CASE m # id
        BY <2>3, <2>4, <3>2 DEF StopsAt
      <3> QED
        BY <3>1, <3>2
    <2>5. Before(k, id) \subseteq 0..numberNodes - 1
      BY <1>3, <1>5, BeforeOrder
    <2>6. \A m \in Before(k, id) : ~StopsAt(new, k, m)
      BY <1>5, <1>6, <2>4, <2>5
    <2>7. FoundAt(new, id)
      BY <1>1, <2>3, <2>6 DEF FoundAt
    <2>8. Occupied(tbl) \subseteq 0..numberNodes - 1
      BY <1>3, OccupiedFinite
    <2>9. \A m \in Before(k, id) : m # i /\ ~StopsAt(tbl, k, m)
      BY <1>5, <1>6
    <2>10. Moves(tbl, new, i, id)
      BY <1>1, <1>5, <1>8, <2>1, <2>2, <2>3, <2>4, <2>7, <2>8, <2>9 DEF Moves
    <2> QED
      BY <2>10
  <1> QED
    BY <1>7, <1>8

(* A node that was found stays so unless the slot that is emptied is       *)
(* before it.                                                              *)
LEMMA StaysFound ==
  ASSUME TypeOK, numberNodes > 0, NEW tbl \in Table(numberNodes),
         NEW i \in Occupied(tbl), NEW new, NEW id, Moves(tbl, new, i, id),
         NEW j \in Occupied(tbl), j # i, j # id, FoundAt(tbl, j),
         i \notin Before(tbl[j].key, j)
  PROVE  FoundAt(new, j)
  <1>1. new[j] = tbl[j]
    BY DEF Moves
  <1>2. Before(tbl[j].key, j) \subseteq 0..numberNodes - 1
    <2>1. j \in 0..numberNodes - 1 /\ tbl[j].key \in Keys
      BY BeforeSlots
    <2> QED
      BY <2>1, BeforeOrder
  <1>3. PICK k : k = tbl[j].key
    OBVIOUS
  <1>4. ASSUME NEW m \in Before(k, j) PROVE ~StopsAt(new, k, m)
    <2>1. m \in 0..numberNodes - 1 /\ m # i /\ ~StopsAt(tbl, k, m)
      BY <1>2, <1>3, <1>4 DEF FoundAt
    <2> QED
      BY <2>1 DEF Moves
  <1> QED
    BY <1>1, <1>3, <1>4 DEF FoundAt

(* The new home of the node that was moved.                                *)
LEMMA MovedHome ==
  ASSUME TypeOK, numberNodes > 0, NEW tbl \in Table(numberNodes),
         NEW i \in Occupied(tbl), NEW new \in Table(numberNodes), NEW id, Moves(tbl, new, i, id)
  PROVE  /\ id \in Occupied(new) /\ id \in 0..numberNodes - 1
         /\ Home(new, id) = Home(tbl, i) /\ new[id].key = tbl[i].key
         /\ \A j \in Occupied(new) : j # id =>
              /\ j \in Occupied(tbl) /\ j # i /\ new[j] = tbl[j]
              /\ Home(new, j) = Home(tbl, j) /\ (Wraps(new, j) <=> Wraps(tbl, j))
  <1>1. id \in Occupied(new) /\ new[id] = tbl[i]
    BY DEF Moves
  <1>2. id \in 0..numberNodes - 1
    BY <1>1, BeforeSlots
  <1>3. ASSUME NEW j \in Occupied(new), j # id
        PROVE  j \in Occupied(tbl) /\ j # i /\ new[j] = tbl[j]
    BY <1>3 DEF Moves
  <1> QED
    BY <1>1, <1>2, <1>3 DEF Home, Wraps

(* A visit in the lower half.                                              *)
LEMMA LowerVisit ==
  ASSUME TypeOK, NEW n \in Nat \ {0}, numberNodes = 2 * n,
         NEW tbl \in Table(numberNodes), Cardinality(Occupied(tbl)) <= n,
         NEW i \in Occupied(tbl), i < n, InLower(n, tbl, i),
         NEW new \in Table(numberNodes), new = Relayout(tbl, i)
  PROVE  InLower(n, new, i + 1)
  <1>1. numberNodes > 0 /\ numberNodes \in Nat /\ i \in 0..numberNodes - 1
    <2>1. numberNodes > 0
      OBVIOUS
    <2> QED
      BY <2>1, BeforeSlots
  <1>2. PICK g \in n..2 * n - 1 : tbl[g] = NoNode
    BY NotCrowded
  <1>3. /\ tbl[i].key \in Keys /\ Home(tbl, i) \in 0..numberNodes - 1
        /\ ~Wraps(tbl, i) => Before(tbl[i].key, i) = Home(tbl, i)..i - 1
        /\ Wraps(tbl, i) => Before(tbl[i].key, i) =
                              (Home(tbl, i)..numberNodes - 1) \cup (0..i - 1)
    BY <1>1, BeforeSlots
  <1>4. CASE new = tbl /\ FoundAt(tbl, i)
    <2>1. Wraps(tbl, i) => Home(tbl, i) >= n
      <3>1. SUFFICES ASSUME Wraps(tbl, i), Home(tbl, i) < n PROVE FALSE
        BY <1>3
      <3>2. g \in Before(tbl[i].key, i)
        BY <1>1, <1>3, <3>1
      <3> QED
        BY <1>2, <1>4, <3>2 DEF FoundAt, StopsAt
    <2>2. ASSUME NEW j \in Occupied(tbl), j < i + 1
          PROVE  FoundAt(tbl, j) /\ (Wraps(tbl, j) => Home(tbl, j) >= n)
      <3>1. j \in 0..numberNodes - 1
        BY <1>1, BeforeSlots
      <3>2. j = i \/ j < i
        BY <1>1, <2>2, <3>1
      <3> QED
        BY <1>4, <2>1, <3>2 DEF InLower
    <2> QED
      BY <1>4, <2>2 DEF InLower
  <1>5. ASSUME NEW id, Moves(tbl, new, i, id)
        PROVE  InLower(n, new, i + 1)
    <2>1. /\ id \in Occupied(new) /\ id \in 0..numberNodes - 1
          /\ Home(new, id) = Home(tbl, i) /\ new[id].key = tbl[i].key
          /\ \A j \in Occupied(new) : j # id =>
               /\ j \in Occupied(tbl) /\ j # i /\ new[j] = tbl[j]
               /\ Home(new, j) = Home(tbl, j) /\ (Wraps(new, j) <=> Wraps(tbl, j))
      BY <1>1, <1>5, MovedHome
    <2>2. /\ ~Wraps(new, id) => Before(tbl[i].key, id) = Home(tbl, i)..id - 1
          /\ Wraps(new, id) => Before(tbl[i].key, id) =
                                 (Home(tbl, i)..numberNodes - 1) \cup (0..id - 1)
      BY <1>1, <2>1, BeforeSlots
    <2>3. /\ id \in Before(tbl[i].key, i) /\ id # i /\ FoundAt(new, id)
          /\ \A m \in Before(tbl[i].key, id) : m # i /\ ~StopsAt(tbl, tbl[i].key, m)
          /\ \A q, m : m \in 0..numberNodes - 1 /\ m # i /\ ~StopsAt(tbl, q, m)
                         => ~StopsAt(new, q, m)
      BY <1>5 DEF Moves
    <2>4. Wraps(new, id) => Home(new, id) >= n
      <3>1. SUFFICES ASSUME Wraps(new, id), Home(tbl, i) < n PROVE FALSE
        BY <1>3, <2>1
      <3>2. g \in Before(tbl[i].key, id)
        BY <1>1, <1>3, <2>2, <3>1
      <3> QED
        BY <1>2, <2>3, <3>2 DEF StopsAt
    <2>5. ASSUME NEW j \in Occupied(new), j < i + 1
          PROVE  FoundAt(new, j) /\ (Wraps(new, j) => Home(new, j) >= n)
      <3>1. CASE j = id
        BY <2>3, <2>4, <3>1
      <3>2. CASE j # id
        <4>1. /\ j \in Occupied(tbl) /\ j # i /\ Home(new, j) = Home(tbl, j)
              /\ (Wraps(new, j) <=> Wraps(tbl, j))
          BY <2>1, <3>2
        <4>2. /\ j \in 0..numberNodes - 1 /\ Home(tbl, j) \in 0..numberNodes - 1
              /\ ~Wraps(tbl, j) => Before(tbl[j].key, j) = Home(tbl, j)..j - 1
              /\ Wraps(tbl, j) => Before(tbl[j].key, j) =
                                    (Home(tbl, j)..numberNodes - 1) \cup (0..j - 1)
          BY <1>1, <4>1, BeforeSlots
        <4>3. j < i
          BY <1>1, <2>5, <4>1, <4>2
        <4>4. FoundAt(tbl, j) /\ (Wraps(tbl, j) => Home(tbl, j) >= n)
          BY <4>1, <4>3 DEF InLower
        <4>5. i \notin Before(tbl[j].key, j)
          BY <1>1, <4>2, <4>3, <4>4
        <4>6. FoundAt(new, j)
          BY <1>1, <1>5, <3>2, <4>1, <4>4, <4>5, StaysFound
        <4> QED
          BY <4>1, <4>4, <4>6
      <3> QED
        BY <3>1, <3>2
    <2>6. ASSUME NEW j \in Occupied(new), j >= n
          PROVE  /\ ~Wraps(new, j)
                 /\ \A m \in n..j - 1 : Home(new, j) <= m => ~StopsAt(new, new[j].key, m)
      <3>1. CASE j = id
        <4>1. Wraps(tbl, i) /\ id \in Home(tbl, i)..numberNodes - 1
          BY <1>1, <1>3, <2>1, <2>3, <2>6, <3>1
        <4>2. ~Wraps(new, id)
          BY <1>1, <1>3, <2>1, <4>1 DEF Wraps
        <4>3. ASSUME NEW m \in n..id - 1, Home(tbl, i) <= m
              PROVE  ~StopsAt(new, tbl[i].key, m)
          <5>1. m \in Before(tbl[i].key, id) /\ m \in 0..numberNodes - 1
            BY <1>1, <1>3, <2>1, <2>2, <4>2, <4>3
          <5> QED
            BY <2>3, <5>1
        <4> QED
          BY <2>1, <3>1, <4>2, <4>3
      <3>2. CASE j # id
        <4>1. /\ j \in Occupied(tbl) /\ new[j] = tbl[j] /\ Home(new, j) = Home(tbl, j)
              /\ (Wraps(new, j) <=> Wraps(tbl, j))
          BY <2>1, <3>2
        <4>2. j \in 0..numberNodes - 1
          BY <1>1, <4>1, BeforeSlots
        <4>3. ASSUME NEW m \in n..j - 1, Home(tbl, j) <= m
              PROVE  ~StopsAt(new, tbl[j].key, m)
          <5>1. m \in 0..numberNodes - 1 /\ m # i
            BY <1>1, <4>2
          <5>2. ~StopsAt(tbl, tbl[j].key, m)
            BY <2>6, <4>1, <4>3 DEF InLower
          <5> QED
            BY <2>3, <5>1, <5>2
        <4> QED
          BY <2>6, <4>1, <4>3 DEF InLower
      <3> QED
        BY <3>1, <3>2
    <2> QED
      BY <2>5, <2>6 DEF InLower
  <1> QED
    BY <1>1, <1>4, <1>5, RelayoutFinds

(* The pass goes on to the upper half.                                     *)
LEMMA HalfWay ==
  ASSUME TypeOK, NEW n \in Nat \ {0}, numberNodes = 2 * n,
         NEW tbl \in Table(numberNodes), Cardinality(Occupied(tbl)) <= n,
         InLower(n, tbl, n)
  PROVE  InUpper(n, tbl, n)
  <1>1. numberNodes > 0 /\ numberNodes \in Nat
    BY DEF TypeOK
  <1>2. ASSUME NEW w \in Occupied(tbl), Wraps(tbl, w)
        PROVE  \E g \in n..2 * n - 1 : Beyond(tbl, g)
    <2>1. w \in 0..numberNodes - 1
      BY <1>1, BeforeSlots
    <2>2. w < n
      BY <1>1, <1>2, <2>1 DEF InLower
    <2>3. PICK g \in n..2 * n - 1 : tbl[g] = NoNode
      BY <2>2, NotCrowded
    <2>4. ASSUME NEW j \in Occupied(tbl)
          PROVE  /\ j \in 0..numberNodes - 1 /\ Home(tbl, j) \in 0..numberNodes - 1
                 /\ ~Wraps(tbl, j) => Before(tbl[j].key, j) = Home(tbl, j)..j - 1
                 /\ Wraps(tbl, j) => Before(tbl[j].key, j) =
                                       (Home(tbl, j)..numberNodes - 1) \cup (0..j - 1)
      BY <1>1, BeforeSlots
    <2>5. ASSUME NEW j \in Occupied(tbl), Wraps(tbl, j)
          PROVE  Home(tbl, j) > g
      <3>1. j < n
        BY <1>1, <2>4, <2>5 DEF InLower
      <3>2. FoundAt(tbl, j) /\ Home(tbl, j) >= n
        BY <2>5, <3>1 DEF InLower
      <3>3. g \notin Before(tbl[j].key, j)
        BY <2>3, <3>2 DEF FoundAt, StopsAt
      <3> QED
        BY <1>1, <2>3, <2>4, <2>5, <3>3
    <2>6. ASSUME NEW j \in Occupied(tbl), j > g
          PROVE  Home(tbl, j) > g /\ FoundAt(tbl, j)
      <3>1. j >= n
        BY <2>4, <2>6
      <3>2. /\ ~Wraps(tbl, j)
            /\ \A i \in n..j - 1 : Home(tbl, j) <= i => ~StopsAt(tbl, tbl[j].key, i)
        BY <3>1 DEF InLower
      <3>3. Home(tbl, j) > g
        <4>1. g \in n..j - 1
          BY <2>4, <2>6
        <4>2. ~(Home(tbl, j) <= g)
          BY <2>3, <3>2, <4>1 DEF StopsAt
        <4> QED
          BY <2>4, <4>2
      <3>4. ASSUME NEW m \in Before(tbl[j].key, j) PROVE ~StopsAt(tbl, tbl[j].key, m)
        <4>1. m \in n..j - 1 /\ Home(tbl, j) <= m
          BY <2>4, <3>2, <3>3, <3>4
        <4> QED
          BY <3>2, <4>1
      <3> QED
        BY <3>3, <3>4 DEF FoundAt
    <2>7. Beyond(tbl, g)
      BY <2>3, <2>5, <2>6 DEF Beyond
    <2> QED
      BY <2>7
  <1> QED
    BY <1>2 DEF InLower, InUpper

(* A visit in the upper half.                                              *)
LEMMA UpperVisit ==
  ASSUME TypeOK, NEW n \in Nat \ {0}, numberNodes = 2 * n,
         NEW tbl \in Table(numberNodes),
         NEW i \in Occupied(tbl), i >= n, InUpper(n, tbl, i),
         NEW new \in Table(numberNodes), new = Relayout(tbl, i)
  PROVE  InUpper(n, new, i + 1)
  <1>1. numberNodes > 0 /\ numberNodes \in Nat /\ i \in 0..numberNodes - 1
    <2>1. numberNodes > 0
      OBVIOUS
    <2> QED
      BY <2>1, BeforeSlots
  <1>2. ~Wraps(tbl, i)
    BY DEF InUpper
  <1>3. /\ tbl[i].key \in Keys /\ Home(tbl, i) \in 0..numberNodes - 1
        /\ Before(tbl[i].key, i) = Home(tbl, i)..i - 1
    BY <1>1, <1>2, BeforeSlots
  <1>4. CASE new = tbl /\ FoundAt(tbl, i)
    <2>1. ASSUME NEW j \in Occupied(tbl), j < i + 1 PROVE FoundAt(tbl, j)
      <3>1. j \in 0..numberNodes - 1
        BY <1>1, BeforeSlots
      <3>2. j = i \/ j < i
        BY <1>1, <2>1, <3>1
      <3> QED
        BY <1>4, <3>2 DEF InUpper
    <2> QED
      BY <1>4, <2>1 DEF InUpper
  <1>5. ASSUME NEW id, Moves(tbl, new, i, id)
        PROVE  InUpper(n, new, i + 1)
    <2>1. /\ id \in Occupied(new) /\ id \in 0..numberNodes - 1
          /\ Home(new, id) = Home(tbl, i) /\ new[id].key = tbl[i].key
          /\ \A j \in Occupied(new) : j # id =>
               /\ j \in Occupied(tbl) /\ j # i /\ new[j] = tbl[j]
               /\ Home(new, j) = Home(tbl, j) /\ (Wraps(new, j) <=> Wraps(tbl, j))
      BY <1>1, <1>5, MovedHome
    <2>2. id \in Before(tbl[i].key, i) /\ id # i /\ FoundAt(new, id)
      BY <1>5 DEF Moves
    <2>3. id < i /\ ~Wraps(new, id)
      BY <1>1, <1>3, <2>1, <2>2 DEF Wraps
    <2>4. ~FoundAt(tbl, i)
      BY <1>5, <2>2 DEF Moves, FoundAt
    <2>5. ASSUME NEW j \in Occupied(tbl)
          PROVE  /\ j \in 0..numberNodes - 1 /\ Home(tbl, j) \in 0..numberNodes - 1
                 /\ ~Wraps(tbl, j) => Before(tbl[j].key, j) = Home(tbl, j)..j - 1
                 /\ Wraps(tbl, j) => Before(tbl[j].key, j) =
                                       (Home(tbl, j)..numberNodes - 1) \cup (0..j - 1)
      BY <1>1, BeforeSlots
    <2>6. ASSUME NEW g \in n..2 * n - 1, Beyond(tbl, g) PROVE i < g
      <3>1. i # g
        BY <1>1, <2>6, NodeTypes DEF Beyond
      <3>2. ~(i > g)
        BY <2>4, <2>6 DEF Beyond
      <3> QED
        BY <1>1, <3>1, <3>2
    <2>7. ASSUME NEW j \in Occupied(new), j < i + 1
          PROVE  FoundAt(new, j)
      <3>1. CASE j = id
        BY <2>2, <3>1
      <3>2. CASE j # id
        <4>1. j \in Occupied(tbl) /\ j # i /\ (Wraps(new, j) <=> Wraps(tbl, j))
          BY <2>1, <3>2
        <4>2. j < i
          BY <1>1, <2>5, <2>7, <4>1
        <4>3. FoundAt(tbl, j)
          BY <4>1, <4>2 DEF InUpper
        <4>4. i \notin Before(tbl[j].key, j)
          <5>1. CASE ~Wraps(tbl, j)
            BY <1>1, <2>5, <4>1, <4>2, <5>1
          <5>2. CASE Wraps(tbl, j)
            <6>1. PICK g \in n..2 * n - 1 : Beyond(tbl, g)
              BY <4>1, <5>2 DEF InUpper
            <6>2. i < g /\ Home(tbl, j) > g
              BY <2>6, <4>1, <5>2, <6>1 DEF Beyond
            <6>3. /\ j \in 0..numberNodes - 1 /\ Home(tbl, j) \in 0..numberNodes - 1
                  /\ Before(tbl[j].key, j) = (Home(tbl, j)..numberNodes - 1) \cup (0..j - 1)
              BY <2>5, <4>1, <5>2
            <6>4. i \notin Home(tbl, j)..numberNodes - 1 /\ i \notin 0..j - 1
              BY <1>1, <4>2, <6>2, <6>3
            <6> QED
              BY <6>3, <6>4
          <5> QED
            BY <5>1, <5>2
        <4> QED
          BY <1>1, <1>5, <3>2, <4>1, <4>3, <4>4, StaysFound
      <3> QED
        BY <3>1, <3>2
    <2>8. \A j \in Occupied(new) : j >= n => ~Wraps(new, j)
      BY <2>1, <2>3 DEF InUpper
    <2>9. ASSUME NEW w \in Occupied(new), Wraps(new, w)
          PROVE  \E g \in n..2 * n - 1 : Beyond(new, g)
      <3>1. w \in Occupied(tbl) /\ Wraps(tbl, w)
        BY <2>1, <2>3, <2>9
      <3>2. PICK g \in n..2 * n - 1 : Beyond(tbl, g)
        BY <3>1 DEF InUpper
      <3>3. i < g /\ g \in 0..numberNodes - 1
        BY <1>1, <2>6, <3>2
      <3>4. new[g] = NoNode
        <4>1. g # i /\ g # id
          BY <1>1, <2>1, <2>3, <3>3
        <4> QED
          BY <1>5, <3>2, <3>3, <4>1 DEF Moves, Beyond
      <3>5. \A j \in Occupied(new) : Wraps(new, j) => Home(new, j) > g
        BY <2>1, <2>3, <3>2 DEF Beyond
      <3>6. ASSUME NEW j \in Occupied(new), j > g
            PROVE  Home(new, j) > g /\ FoundAt(new, j)
        <4>1. j # id
          BY <1>1, <2>1, <2>3, <3>3, <3>6
        <4>2. j \in Occupied(tbl) /\ j # i /\ Home(new, j) = Home(tbl, j)
          BY <2>1, <4>1
        <4>3. Home(tbl, j) > g /\ FoundAt(tbl, j)
          BY <3>2, <3>6, <4>2 DEF Beyond
        <4>4. ~Wraps(tbl, j)
          BY <2>5, <3>6, <4>2 DEF InUpper
        <4>5. i \notin Before(tbl[j].key, j)
          BY <1>1, <2>5, <3>3, <4>2, <4>3, <4>4
        <4>6. FoundAt(new, j)
          BY <1>1, <1>5, <4>1, <4>2, <4>3, <4>5, StaysFound
        <4> QED
          BY <4>2, <4>3, <4>6
      <3>7. Beyond(new, g)
        BY <3>4, <3>5, <3>6 DEF Beyond
      <3> QED
        BY <3>7
    <2> QED
      BY <2>7, <2>8, <2>9 DEF InUpper
  <1> QED
    BY <1>1, <1>4, <1>5, RelayoutFinds

(* A visit of the first pass, whatever is in the slot.                     *)
LEMMA FirstPassVisit ==
  ASSUME TypeOK, NEW n \in Nat \ {0}, numberNodes = 2 * n,
         NEW tbl \in Table(numberNodes), NEW i \in 0..numberNodes - 1,
         FirstPass(n, tbl, i), NEW new,
         new = IF tbl[i] = NoNode THEN tbl ELSE Relayout(tbl, i)
  PROVE  FirstPass(n, new, i + 1)
  <1>1. numberNodes > 0 /\ numberNodes \in Nat /\ Cardinality(Occupied(tbl)) <= n
    BY DEF FirstPass
  <1>2. /\ i < n => InLower(n, tbl, i)
        /\ i >= n => InUpper(n, tbl, i)
    BY <1>1 DEF FirstPass
  <1>3. /\ new \in Table(numberNodes) /\ Cardinality(Occupied(new)) <= n
        /\ i < n => InLower(n, new, i + 1)
        /\ i >= n => InUpper(n, new, i + 1)
    <2>1. CASE tbl[i] = NoNode
      <3>1. new = tbl
        BY <2>1
      <3>2. \A j \in Occupied(tbl) : j < i + 1 => j < i
        <4>1. i \notin Occupied(tbl) /\ Occupied(tbl) \subseteq 0..numberNodes - 1
          BY <1>1, <2>1, OccupiedFinite DEF Occupied
        <4> QED
          BY <1>1, <4>1
      <3>3. InLower(n, tbl, i) => InLower(n, tbl, i + 1)
        BY <3>2 DEF InLower
      <3>4. InUpper(n, tbl, i) => InUpper(n, tbl, i + 1)
        BY <3>2 DEF InUpper
      <3> QED
        BY <1>1, <1>2, <3>1, <3>3, <3>4
    <2>2. CASE tbl[i] # NoNode
      <3>1. i \in Occupied(tbl) /\ new = Relayout(tbl, i)
        BY <1>1, <2>2 DEF Occupied, Table
      <3>2. /\ new \in Table(numberNodes)
            /\ Cardinality(Occupied(new)) <= Cardinality(Occupied(tbl))
        BY <1>1, <3>1, RelayoutMoves
      <3>3. Cardinality(Occupied(new)) \in Nat /\ Cardinality(Occupied(tbl)) \in Nat
        BY <1>1, <3>2, OccupiedFinite
      <3>4. Cardinality(Occupied(new)) <= n
        BY <1>1, <3>2, <3>3
      <3>5. i < n => InLower(n, new, i + 1)
        BY <1>1, <1>2, <3>1, <3>2, LowerVisit
      <3>6. i >= n => InUpper(n, new, i + 1)
        BY <1>1, <1>2, <3>1, <3>2, UpperVisit
      <3> QED
        BY <3>2, <3>4, <3>5, <3>6
    <2> QED
      BY <2>1, <2>2
  <1>4. i + 1 = n => InUpper(n, new, i + 1)
    <2> SUFFICES ASSUME i + 1 = n PROVE InUpper(n, new, n)
      OBVIOUS
    <2>1. InLower(n, new, n)
      BY <1>3
    <2> QED
      BY <1>3, <2>1, HalfWay
  <1> QED
    BY <1>1, <1>3, <1>4 DEF FirstPass

(* A growth begins with a table whose upper half is empty.                 *)
LEMMA GrowthBegins ==
  ASSUME TypeOK, NEW k \in Keys, NEW v \in Values, HashmapSetGrow(k, v)
  PROVE  \E n \in Nat \ {0} : numberNodes' = 2 * n /\ FirstPass(n, nodes, at)'
  <1>1. PICK n \in Nat \ {0} : n = numberNodes
    BY DEF HashmapSetGrow, Ready, TypeOK
  <1>2. PICK new : new = nodes'
    OBVIOUS
  <1>3. /\ numberNodes' = 2 * n /\ at' = 0
        /\ new = [i \in 0..2 * n - 1 |-> IF i < n THEN nodes[i] ELSE NoNode]
    BY <1>1, <1>2 DEF HashmapSetGrow
  <1>4. ASSUME NEW j \in Occupied(new) PROVE j \in 0..n - 1
    <2>1. j \in 0..2 * n - 1 /\ new[j] # NoNode
      BY <1>3 DEF Occupied
    <2> QED
      BY <1>3, <2>1
  <1>5. Cardinality(Occupied(new)) <= n
    <2>1. 0 \in Int /\ n - 1 \in Int /\ 0 <= n - 1
      OBVIOUS
    <2>2. IsFiniteSet(0..n - 1) /\ Cardinality(0..n - 1) = n - 1 - 0 + 1
      BY <2>1, FS_Interval
    <2>3. Occupied(new) \subseteq 0..n - 1
      BY <1>4
    <2>4. Cardinality(Occupied(new)) <= Cardinality(0..n - 1)
      BY <2>2, <2>3, FS_Subset
    <2> QED
      BY <2>2, <2>4
  <1>6. \A j \in Occupied(new) : ~(j < 0) /\ ~(j >= n)
    BY <1>4
  <1>7. InLower(n, new, 0)'
    BY <1>6 DEF InLower
  <1>8. FirstPass(n, new, 0)'
    BY <1>5, <1>7 DEF FirstPass
  <1> QED
    BY <1>2, <1>3, <1>8

(* A pass that finds every node where it is moves none.                    *)
LEMMA FoundStays ==
  ASSUME TypeOK, numberNodes > 0, NEW i \in Occupied(nodes), FoundAt(nodes, i)
  PROVE  Relayout(nodes, i) = nodes
  <1>1. nodes \in Table(numberNodes) /\ numberNodes \in Nat
    BY DEF TypeOK, Table
  <1>2. i \in 0..numberNodes - 1 /\ nodes[i].key \in Keys
    BY <1>1, NodeTypes
  <1>3. GetNode(nodes, nodes[i].key) = i
    BY <1>2, ProbeEndsAt DEF StopsAt, FoundAt
  <1> QED
    BY <1>3 DEF Relayout

(* Every step keeps this.                                                  *)
LEMMA SettlesNext == Safe /\ Settles /\ [Next]_vars => Settles'
  <1> SUFFICES ASSUME Safe, Settles, [Next]_vars PROVE Settles'
    OBVIOUS
  <1>1. /\ TypeOK /\ Shape /\ numberNodes \in Nat /\ nodes \in Table(numberNodes)
        /\ at \in 0..numberNodes /\ passes \in {0, 1}
    BY DEF Safe, TypeOK, Table, Settles
  <1>2. ASSUME NEW k \in Keys, NEW v \in Values, HashmapSetGrow(k, v) PROVE Settles'
    <2>1. \E n \in Nat \ {0} : numberNodes' = 2 * n /\ FirstPass(n, nodes, at)'
      BY <1>1, <1>2, GrowthBegins
    <2>2. pc = "idle" /\ passes' = 0
      BY <1>2 DEF HashmapSetGrow, Ready, Settles
    <2> QED
      BY <2>1, <2>2 DEF Settles
  <1>3. CASE GrowVisit
    <2>1. /\ pc = "grow" /\ pc' = pc /\ passes' = passes /\ numberNodes' = numberNodes
          /\ at \in 0..numberNodes - 1 /\ at' = at + 1 /\ hash' = hash
          /\ nodes' = IF nodes[at] = NoNode THEN nodes ELSE Relayout(nodes, at)
          /\ moved' = (moved \/ nodes' # nodes)
      BY <1>1, <1>3 DEF GrowVisit
    <2>2. CASE passes = 0
      <3>1. PICK n \in Nat \ {0} : numberNodes = 2 * n /\ FirstPass(n, nodes, at)
        BY <2>1, <2>2 DEF Settles
      <3>2. PICK new : new = nodes'
        OBVIOUS
      <3>3. PICK i : i = at
        OBVIOUS
      <3>4. FirstPass(n, new, i + 1)
        BY <1>1, <2>1, <3>1, <3>2, <3>3, FirstPassVisit
      <3>5. FirstPass(n, new, i + 1)'
        BY <2>1, <3>4 DEF FirstPass, InLower, InUpper, Beyond, FoundAt, Wraps, Home,
                          StopsAt, Before, Probe
      <3>6. FirstPass(n, nodes, at)'
        BY <2>1, <3>2, <3>3, <3>5
      <3> QED
        BY <2>1, <2>2, <3>1, <3>6 DEF Settles
    <2>3. CASE passes = 1
      <3>1. ~moved /\ \A j \in Occupied(nodes) : FoundAt(nodes, j)
        BY <2>1, <2>3 DEF Settles
      <3>2. nodes' = nodes
        <4>1. nodes[at] # NoNode => at \in Occupied(nodes)
          BY <1>1, <2>1 DEF Occupied, Table
        <4> QED
          BY <1>1, <2>1, <3>1, <4>1, FoundStays
      <3>3. \A j \in Occupied(nodes) : FoundAt(nodes, j)'
        BY <2>1, <3>1, <3>2 DEF FoundAt, StopsAt, Before, Probe
      <3>4. (\A j \in Occupied(nodes) : FoundAt(nodes, j))'
        BY <3>2, <3>3
      <3>5. moved' = FALSE
        BY <2>1, <3>1, <3>2
      <3> QED
        BY <2>1, <2>3, <3>4, <3>5 DEF Settles
    <2> QED
      BY <1>1, <2>2, <2>3
  <1>4. CASE GrowAgain
    <2>1. /\ pc = "grow" /\ pc' = pc /\ passes' = passes + 1 /\ at = numberNodes
          /\ moved /\ moved' = FALSE
          /\ UNCHANGED <<nodes, numberNodes, hash>>
      BY <1>4 DEF GrowAgain
    <2>2. passes = 0 /\ passes' = 1
      BY <1>1, <2>1 DEF Settles
    <2>3. PICK n \in Nat \ {0} : numberNodes = 2 * n /\ FirstPass(n, nodes, at)
      BY <2>1, <2>2 DEF Settles
    <2>4. InUpper(n, nodes, at)
      BY <2>1, <2>3 DEF FirstPass
    <2>5. \A j \in Occupied(nodes) : FoundAt(nodes, j)
      <3>1. \A j \in Occupied(nodes) : j < at
        BY <1>1, <2>1, OccupiedFinite
      <3> QED
        BY <2>4, <3>1 DEF InUpper
    <2>6. (\A j \in Occupied(nodes) : FoundAt(nodes, j))'
      BY <2>1, <2>5 DEF FoundAt, StopsAt, Before, Probe
    <2> QED
      BY <2>1, <2>2, <2>6 DEF Settles
  <1>5. ASSUME pc' # "grow", passes' = 0 PROVE Settles'
    BY <1>5 DEF Settles
  <1>6. CASE GrowDone
    BY <1>5, <1>6 DEF GrowDone
  <1>7. ASSUME pc # "grow", pc' # "grow", passes' = passes PROVE Settles'
    BY <1>5, <1>7 DEF Settles
  <1>8. ASSUME NEW n \in Sizes, HashmapInit(n) PROVE Settles'
    <2>1. pc # "grow"
      BY <1>1, <1>8 DEF HashmapInit, Shape
    <2> QED
      BY <1>7, <1>8, <2>1 DEF HashmapInit
  <1>9. ASSUME NEW k \in Keys, NEW v \in Values, HashmapSet(k, v) \/ HashmapSetNoMemory(k, v)
        PROVE  Settles'
    BY <1>7, <1>9 DEF HashmapSet, HashmapSetNoMemory, Ready
  <1>10. ASSUME NEW k \in Keys, HashmapRemove(k) \/ HashmapRemoveAbsent(k) PROVE Settles'
    BY <1>7, <1>10 DEF HashmapRemove, HashmapRemoveAbsent, Ready
  <1>11. CASE ShiftVisit \/ ShiftDone
    BY <1>7, <1>11 DEF ShiftVisit, ShiftDone
  <1>12. CASE HashmapClear \/ HashmapDestroy
    BY <1>7, <1>12 DEF HashmapClear, HashmapDestroy, Emptied, Ready
  <1>13. CASE UNCHANGED vars
    BY <1>13 DEF vars, Settles, FirstPass, InLower, InUpper, Beyond, FoundAt, Wraps, Home,
                 StopsAt, Before, Probe
  <1> QED
    BY <1>2, <1>3, <1>4, <1>6, <1>8, <1>9, <1>10, <1>11, <1>12, <1>13 DEF Next

(* The answer to the TODO of __allocate_hashmap: whatever the hash         *)
(* function, the size and the order of the calls, and also where nodes     *)
(* were lost or hidden, a second pass over a table that has grown moves    *)
(* nothing, so its loop ends there.                                        *)
THEOREM GrowthSettles == Spec => []OnePassSettles
  <1>1. Init => Settles
    BY DEF Init, Settles
  <1>2. Safe /\ Settles /\ [Next]_vars => Settles'
    BY SettlesNext
  <1>3. Settles => OnePassSettles
    BY DEF Settles, OnePassSettles
  <1> QED
    BY <1>1, <1>2, <1>3, SafeInit, SafeNext, PTL DEF Spec

-----------------------------------------------------------------------------
(* A hash list keeps its entries in order: ListInv is inductive, on top of *)
(* the inductive invariant of the hash map below it.                       *)


(* A probe for a key that no node has ends at an empty slot, unless every  *)
(* slot is used.                                                           *)
LEMMA NewKeyFindsRoom ==
  ASSUME TypeOK, numberNodes > 0, NEW k \in Keys,
         \A i \in Occupied(nodes) : nodes[i].key # k
  PROVE  /\ IsFull(nodes, k) <=> KeysWritten = numberNodes
         /\ ~IsFull(nodes, k) => nodes[GetNode(nodes, k)] = NoNode
  <1> DEFINE all == 0..numberNodes - 1
             slot == GetNode(nodes, k)
  <1>1. numberNodes \in Nat /\ nodes \in Table(numberNodes)
    BY DEF TypeOK, Table
  <1>2. IsFiniteSet(all) /\ Cardinality(all) = numberNodes
    BY <1>1, FS_Interval
  <1>3. Occupied(nodes) \subseteq all
    BY <1>1, OccupiedFinite
  <1>4. CASE IsFull(nodes, k)
    <2>1. \A i \in all : nodes[i] # NoNode
      BY <1>4, ProbeEnds DEF StopsAt
    <2>2. Occupied(nodes) = all
      BY <1>1, <1>3, <2>1 DEF Occupied, Table
    <2> QED
      BY <1>2, <1>4, <2>2 DEF KeysWritten
  <1>5. CASE ~IsFull(nodes, k)
    <2>1. slot \in all /\ (nodes[slot] = NoNode \/ nodes[slot].key = k)
      BY <1>5, ProbeEnds DEF StopsAt
    <2> HIDE DEF slot
    <2>2. nodes[slot] = NoNode
      BY <1>1, <2>1 DEF Occupied, Table
    <2>3. slot \notin Occupied(nodes)
      BY <2>2 DEF Occupied
    <2>4. Cardinality(Occupied(nodes)) # Cardinality(all)
      BY <1>2, <1>3, <2>1, <2>3, FS_Subset
    <2> QED
      BY <1>2, <1>5, <2>2, <2>4 DEF KeysWritten, slot
  <1> QED
    BY <1>4, <1>5

(* What a set of the next key does.                                        *)
LEMMA NextIsStored ==
  ASSUME TypeOK, numberNodes > 0, usedNodes \in Keys, NEW v \in Values,
         \A i \in Occupied(nodes) : nodes[i].key < usedNodes,
         NEW met \in SUBSET Hits, Store(usedNodes, v, met)
  PROVE  /\ hits' = met
         /\ IF KeysWritten = numberNodes THEN UNCHANGED <<nodes, usedNodes, held>>
            ELSE /\ held' = [held EXCEPT ![usedNodes] = v]
                 /\ usedNodes' = usedNodes + 1
                 /\ \A i \in Occupied(nodes') : nodes'[i].key < usedNodes + 1
  <1> DEFINE k == usedNodes
             slot == GetNode(nodes, k)
  <1>1. /\ numberNodes \in Nat /\ usedNodes \in Nat /\ Keys \subseteq Nat
        /\ nodes \in Table(numberNodes)
    BY ListKeysAssumption DEF TypeOK, Table
  <1>2. \A i \in Occupied(nodes) : nodes[i].key \in Nat /\ nodes[i].key # k
    <2> SUFFICES ASSUME NEW i \in Occupied(nodes)
                 PROVE  nodes[i].key \in Nat /\ nodes[i].key # k
      OBVIOUS
    <2>1. nodes[i].key \in Keys
      BY <1>1, NodeTypes
    <2>2. nodes[i].key \in Nat
      BY <1>1, <2>1
    <2>3. nodes[i].key < usedNodes
      OBVIOUS
    <2> QED
      BY <1>1, <2>2, <2>3
  <1>3. /\ IsFull(nodes, k) <=> KeysWritten = numberNodes
        /\ ~IsFull(nodes, k) => nodes[slot] = NoNode
    BY <1>2, NewKeyFindsRoom
  <1>4. CASE IsFull(nodes, k)
    BY <1>3, <1>4 DEF Store
  <1>5. CASE ~IsFull(nodes, k)
    <2>1. /\ held' = [held EXCEPT ![k] = v]
          /\ \E x \in Node : x.key = k /\ x.value = v
                              /\ nodes' = [nodes EXCEPT ![slot] = x]
          /\ usedNodes' = usedNodes + 1 /\ hits' = met
      BY <1>3, <1>5, StoreEffect
    <2>2. PICK x \in Node : x.key = k /\ nodes' = [nodes EXCEPT ![slot] = x]
      BY <2>1
    <2>3. slot \in 0..numberNodes - 1
      BY ProbeEnds
    <2> HIDE DEF slot
    <2>4. ASSUME NEW i \in Occupied(nodes')
          PROVE  nodes'[i].key < usedNodes + 1
      <3>1. CASE i = slot
        BY <1>1, <2>2, <2>3, <3>1 DEF Table
      <3>2. CASE i # slot
        <4>1. i \in Occupied(nodes) /\ nodes'[i] = nodes[i]
          BY <1>1, <2>2, <2>3, <2>4, <3>2 DEF Table, Occupied
        <4> QED
          BY <1>1, <1>2, <4>1
      <3> QED
        BY <3>1, <3>2
    <2> QED
      BY <1>3, <1>5, <2>1, <2>4
  <1> QED
    BY <1>4, <1>5

(* A relayout makes no nodes.                                              *)
LEMMA RelayoutNodes ==
  ASSUME TypeOK, numberNodes > 0, NEW tbl \in Table(numberNodes),
         UniqueIn(tbl), NEW i \in Occupied(tbl), NEW new, new = Relayout(tbl, i),
         NEW j \in Occupied(new)
  PROVE  \E h \in Occupied(tbl) : new[j] = tbl[h]
  <1> DEFINE id == GetNode(tbl, tbl[i].key)
  <1>1. CASE id = i
    BY <1>1 DEF Relayout
  <1>2. CASE id # i
    <2>1. /\ Occupied(new) = (Occupied(tbl) \cup {id}) \ {i}
          /\ new[id] = tbl[i]
          /\ \A q \in 0..numberNodes - 1 : q # id /\ q # i => new[q] = tbl[q]
      BY <1>2, RelayoutSlots
    <2>2. Occupied(tbl) \subseteq 0..numberNodes - 1
      BY DEF Occupied, Table
    <2> HIDE DEF id
    <2> QED
      BY <2>1, <2>2
  <1> QED
    BY <1>1, <1>2

(* The parts of ListInv beyond the invariant of the map.                   *)
Ordered ==
  /\ pc # "shift" /\ hits \subseteq {"nomem"}
  /\ appended \in Seq(Values \ {Null})
  /\ usedNodes <= MaxUsed
  /\ \A i \in Occupied(nodes) : nodes[i].key < usedNodes
  /\ \A k \in Keys : held[k] = IF k < usedNodes THEN appended[k + 1] ELSE Null
  /\ IF pc = "grow"
     THEN /\ usedNodes < MaxUsed /\ usedNodes < numberNodes
          /\ appended[usedNodes + 1] = call.value /\ call.key = usedNodes
          /\ Len(appended) = usedNodes + 1
     ELSE Len(appended) = usedNodes

LEMMA ListInvParts == ListInv <=> IInv /\ Ordered
  BY DEF ListInv, Ordered

LEMMA ListInvInit == ListInit => ListInv
  <1> SUFFICES ASSUME ListInit PROVE ListInv
    OBVIOUS
  <1>1. IInv /\ TypeOK
    BY IInvInit DEF ListInit, IInv
  <1>2. numberNodes \in Nat /\ nodes = EmptyTable(numberNodes)
    BY <1>1 DEF TypeOK, ListInit, Init
  <1>3. Occupied(nodes) = {}
    BY <1>2, EmptyTableIsEmpty
  <1>4. /\ usedNodes = 0 /\ pc = "idle" /\ hits = {}
        /\ \A k \in Keys : held[k] = Null
        /\ appended = <<>>
    BY DEF ListInit, Init
  <1>5. Keys \subseteq Nat /\ MaxUsed \in Nat
    BY ListKeysAssumption, TableBounds
  <1>6. appended \in Seq(Values \ {Null}) /\ Len(appended) = 0
    BY <1>4
  <1> QED
    BY <1>1, <1>3, <1>4, <1>5, <1>6, ListInvParts DEF Ordered

(* What the parts give of types.                                           *)
LEMMA OrderedTypes ==
  ASSUME ListInv
  PROVE  /\ TypeOK /\ numberNodes \in Nat /\ usedNodes \in Nat /\ MaxUsed \in Nat
         /\ Keys \subseteq Nat /\ (usedNodes < MaxUsed => usedNodes \in Keys)
         /\ nodes \in Table(numberNodes)
         /\ held \in [Keys -> Values \cup {Null}]
         /\ appended \in Seq(Values \ {Null}) /\ Len(appended) \in Nat
         /\ UniqueIn(nodes) /\ usedNodes = KeysWritten
         /\ KeysWritten <= numberNodes
         /\ hits \in SUBSET Hits
  <1>1. TypeOK /\ OneNodePerKey /\ CountsMatch /\ Ordered
    BY ListInvParts DEF IInv
  <1>2. /\ numberNodes \in Nat /\ usedNodes \in Nat
        /\ nodes \in Table(numberNodes)
        /\ held \in [Keys -> Values \cup {Null}]
        /\ hits \in SUBSET Hits
    BY <1>1 DEF TypeOK, Table, Hits
  <1>3. /\ MaxUsed \in Nat /\ Keys \subseteq Nat
        /\ usedNodes < MaxUsed => usedNodes \in Keys
    BY <1>2, TableBounds, ListKeysAssumption
  <1>4. UniqueIn(nodes) /\ usedNodes = KeysWritten
    BY <1>1 DEF Ordered, OneNodePerKey, CountsMatch
  <1>5. KeysWritten <= numberNodes
    <2>1. /\ IsFiniteSet(0..numberNodes - 1)
          /\ Cardinality(0..numberNodes - 1) = numberNodes
      BY <1>2, FS_Interval
    <2>2. Occupied(nodes) \subseteq 0..numberNodes - 1
      BY <1>2, OccupiedFinite
    <2> QED
      BY <2>1, <2>2, FS_Subset DEF KeysWritten
  <1> QED
    BY <1>1, <1>2, <1>3, <1>4, <1>5 DEF Ordered

(* A step of a list is one of the map, under a key of it.                  *)
LEMMA ListStepIsMapStep ==
  ASSUME ListInv, [ListNext]_listVars
  PROVE  [Next]_vars
  <1>1. usedNodes < MaxUsed => usedNodes \in Keys
    BY OrderedTypes
  <1>2. ASSUME NEW v \in Values, AppendEntry(v)
        PROVE  Next
    <2>1. /\ usedNodes < MaxUsed
          /\ \/ HashmapSet(usedNodes, v) \/ HashmapSetGrow(usedNodes, v)
             \/ HashmapSetNoMemory(usedNodes, v)
      BY <1>2 DEF AppendEntry, NextKey, HashmapSet, HashmapSetGrow, HashmapSetNoMemory
    <2> QED
      BY <1>1, <2>1 DEF Next
  <1>3. CASE UNCHANGED listVars
    BY <1>3 DEF listVars
  <1>4. CASE ListNext
    BY <1>2, <1>4 DEF ListNext, Growth, Destroy, Make, Next
  <1> QED
    BY <1>3, <1>4

(* The next entry, stored at once or at the end of a growth.               *)
LEMMA StoreKeepsOrder ==
  ASSUME ListInv, numberNodes > 0, usedNodes < MaxUsed,
         NEW v \in Values \ {Null}, NEW met \in SUBSET {"nomem"},
         Store(usedNodes, v, met), pc' = "idle",
         appended' = IF usedNodes = numberNodes THEN appended
                     ELSE IF pc = "grow" THEN appended ELSE Append(appended, v),
         pc = "grow" => v = call.value
  PROVE  Ordered'
  <1>1. /\ TypeOK /\ numberNodes \in Nat /\ usedNodes \in Nat /\ MaxUsed \in Nat
        /\ Keys \subseteq Nat /\ usedNodes \in Keys
        /\ held \in [Keys -> Values \cup {Null}]
        /\ appended \in Seq(Values \ {Null}) /\ Len(appended) \in Nat
        /\ usedNodes = KeysWritten
    BY OrderedTypes
  <1>2. Ordered
    BY ListInvParts
  <1>3. met \in SUBSET Hits
    BY DEF Hits
  <1>4. /\ hits' = met
        /\ IF usedNodes = numberNodes THEN UNCHANGED <<nodes, usedNodes, held>>
           ELSE /\ held' = [held EXCEPT ![usedNodes] = v]
                /\ usedNodes' = usedNodes + 1
                /\ \A i \in Occupied(nodes') : nodes'[i].key < usedNodes + 1
    <2>1. \A i \in Occupied(nodes) : nodes[i].key < usedNodes
      BY <1>2 DEF Ordered
    <2> QED
      BY <1>1, <1>3, <2>1, NextIsStored
  <1>5. CASE usedNodes = numberNodes
    <2>1. pc # "grow"
      BY <1>1, <1>2, <1>5 DEF Ordered
    <2>2. UNCHANGED <<nodes, usedNodes, held, appended>>
      BY <1>4, <1>5
    <2> QED
      BY <1>2, <1>4, <2>1, <2>2 DEF Ordered, Occupied
  <1>6. CASE usedNodes # numberNodes
    <2>1. /\ held' = [held EXCEPT ![usedNodes] = v]
          /\ usedNodes' = usedNodes + 1
          /\ \A i \in Occupied(nodes') : nodes'[i].key < usedNodes'
      BY <1>4, <1>6
    <2>2. /\ appended' \in Seq(Values \ {Null})
          /\ Len(appended') = usedNodes + 1
          /\ appended'[usedNodes + 1] = v
          /\ \A i \in 1..usedNodes : appended'[i] = appended[i]
      <3>1. CASE pc = "grow"
        BY <1>1, <1>2, <1>6, <3>1 DEF Ordered
      <3>2. CASE pc # "grow"
        <4>1. Len(appended) = usedNodes /\ appended' = Append(appended, v)
          BY <1>2, <1>6, <3>2 DEF Ordered
        <4> QED
          BY <1>1, <4>1
      <3> QED
        BY <3>1, <3>2
    <2>3. ASSUME NEW k \in Keys
          PROVE  held'[k] = IF k < usedNodes' THEN appended'[k + 1] ELSE Null
      <3>1. held[k] = IF k < usedNodes THEN appended[k + 1] ELSE Null
        BY <1>2 DEF Ordered
      <3>2. k \in Nat
        BY <1>1
      <3>3. CASE k = usedNodes
        BY <1>1, <2>1, <2>2, <3>3
      <3>4. CASE k < usedNodes
        BY <1>1, <2>1, <2>2, <3>1, <3>2, <3>4
      <3>5. CASE k > usedNodes
        BY <1>1, <2>1, <3>1, <3>2, <3>5
      <3>6. k = usedNodes \/ k < usedNodes \/ k > usedNodes
        BY <1>1, <3>2
      <3> QED
        BY <3>3, <3>4, <3>5, <3>6
    <2>4. usedNodes' <= MaxUsed
      BY <1>1, <2>1
    <2> QED
      BY <1>4, <2>1, <2>2, <2>3, <2>4 DEF Ordered, Occupied
  <1> QED
    BY <1>5, <1>6

(* Every step of a list keeps its entries in order.                        *)
LEMMA OrderedNext ==
  ASSUME ListInv, [ListNext]_listVars
  PROVE  Ordered'
  <1>1. /\ TypeOK /\ numberNodes \in Nat /\ usedNodes \in Nat /\ MaxUsed \in Nat
        /\ Keys \subseteq Nat /\ usedNodes <= numberNodes
        /\ nodes \in Table(numberNodes)
        /\ held \in [Keys -> Values \cup {Null}]
        /\ appended \in Seq(Values \ {Null}) /\ Len(appended) \in Nat
        /\ UniqueIn(nodes)
    BY OrderedTypes
  <1>2. Ordered /\ Shape
    BY ListInvParts DEF IInv
  <1>3. ASSUME NEW v \in Values, AppendEntry(v)
        PROVE  Ordered'
    <2>1. v \in Values \ {Null}
      BY <1>3 DEF AppendEntry
    <2>2. CASE HashmapSet(NextKey, v) /\ appended' = Append(appended, v)
      <3>1. /\ pc = "idle" /\ pc' = "idle" /\ numberNodes > 0
            /\ usedNodes < MaxUsed /\ ~MustGrow(usedNodes, numberNodes)
            /\ Store(usedNodes, v, hits)
        BY <2>2 DEF HashmapSet, NextKey, Ready
      <3>2. usedNodes # numberNodes
        BY <1>1, <3>1 DEF MustGrow
      <3>3. hits \in SUBSET {"nomem"}
        BY <1>2 DEF Ordered
      <3> QED
        BY <2>1, <2>2, <3>1, <3>2, <3>3, StoreKeepsOrder
    <2>3. CASE /\ HashmapSetNoMemory(NextKey, v)
               /\ appended' = IF usedNodes = numberNodes THEN appended
                              ELSE Append(appended, v)
      <3>1. /\ pc = "idle" /\ pc' = "idle" /\ numberNodes > 0
            /\ usedNodes < MaxUsed
            /\ Store(usedNodes, v, hits \cup {"nomem"})
        BY <2>3 DEF HashmapSetNoMemory, NextKey, Ready
      <3>2. hits \cup {"nomem"} \in SUBSET {"nomem"}
        BY <1>2 DEF Ordered
      <3> QED
        BY <2>1, <2>3, <3>1, <3>2, StoreKeepsOrder
    <2>4. CASE HashmapSetGrow(NextKey, v) /\ appended' = Append(appended, v)
      <3>1. /\ pc = "idle" /\ pc' = "grow" /\ numberNodes > 0
            /\ usedNodes < MaxUsed
            /\ numberNodes' = 2 * numberNodes
            /\ nodes' = [i \in 0..2 * numberNodes - 1 |->
                           IF i < numberNodes THEN nodes[i] ELSE NoNode]
            /\ call' = [key |-> usedNodes, value |-> v]
            /\ UNCHANGED <<usedNodes, held, hits>>
        BY <2>4 DEF HashmapSetGrow, NextKey, Ready
      <3>2. Len(appended) = usedNodes
        BY <1>2, <3>1 DEF Ordered
      <3>3. ASSUME NEW i \in Occupied(nodes')
            PROVE  nodes'[i].key < usedNodes
        <4>1. i \in Occupied(nodes) /\ nodes'[i] = nodes[i]
          BY <1>1, <3>1, <3>3 DEF Occupied, Table
        <4> QED
          BY <1>2, <4>1 DEF Ordered
      <3>4. /\ appended' \in Seq(Values \ {Null}) /\ Len(appended') = usedNodes + 1
            /\ appended'[usedNodes + 1] = v
            /\ \A i \in 1..usedNodes : appended'[i] = appended[i]
        BY <1>1, <2>1, <2>4, <3>2
      <3>5. ASSUME NEW k \in Keys
            PROVE  held'[k] = IF k < usedNodes THEN appended'[k + 1] ELSE Null
        <4>1. held[k] = IF k < usedNodes THEN appended[k + 1] ELSE Null
          BY <1>2 DEF Ordered
        <4>2. k \in Nat
          BY <1>1
        <4>3. k < usedNodes => appended'[k + 1] = appended[k + 1]
          BY <1>1, <3>4, <4>2
        <4> QED
          BY <3>1, <4>1, <4>3
      <3>6. usedNodes < numberNodes' /\ usedNodes <= MaxUsed
        BY <1>1, <3>1
      <3>7. call'.key = usedNodes /\ call'.value = v
        BY <3>1
      <3>8. hits' \subseteq {"nomem"} /\ usedNodes' = usedNodes /\ pc' = "grow"
        BY <1>2, <3>1 DEF Ordered
      <3> QED
        BY <3>1, <3>3, <3>4, <3>5, <3>6, <3>7, <3>8 DEF Ordered, Occupied
    <2> QED
      BY <1>3, <2>2, <2>3, <2>4 DEF AppendEntry
  <1>4. CASE GrowVisit /\ UNCHANGED appended
    <2>1. /\ nodes' = IF nodes[at] = NoNode THEN nodes ELSE Relayout(nodes, at)
          /\ UNCHANGED <<numberNodes, usedNodes, pc, call, held, hits, appended>>
          /\ pc = "grow" /\ at < numberNodes /\ at \in Nat
      BY <1>1, <1>4 DEF GrowVisit, TypeOK
    <2>2. ASSUME NEW i \in Occupied(nodes')
          PROVE  nodes'[i].key < usedNodes
      <3>1. CASE nodes[at] = NoNode
        BY <1>2, <2>1, <2>2, <3>1 DEF Ordered
      <3>2. CASE nodes[at] # NoNode
        <4>1. at \in Occupied(nodes) /\ nodes' = Relayout(nodes, at) /\ numberNodes > 0
          BY <1>1, <2>1, <3>2 DEF Occupied, Table
        <4>2. \E h \in Occupied(nodes) : nodes'[i] = nodes[h]
          BY <1>1, <2>2, <4>1, RelayoutNodes
        <4> QED
          BY <1>2, <4>2 DEF Ordered
      <3> QED
        BY <3>1, <3>2
    <2> QED
      BY <1>2, <2>1, <2>2 DEF Ordered, Occupied
  <1>5. CASE (GrowAgain /\ UNCHANGED appended) \/ UNCHANGED listVars
    BY <1>2, <1>5 DEF GrowAgain, Ordered, Occupied, listVars, vars
  <1>6. CASE GrowDone /\ UNCHANGED appended
    <2>1. /\ pc = "grow" /\ Store(call.key, call.value, hits) /\ pc' = "idle"
          /\ appended' = appended
      BY <1>6 DEF GrowDone
    <2>2. /\ usedNodes < MaxUsed /\ usedNodes < numberNodes /\ call.key = usedNodes
          /\ appended[usedNodes + 1] = call.value /\ Len(appended) = usedNodes + 1
          /\ hits \in SUBSET {"nomem"}
      BY <1>2, <2>1 DEF Ordered
    <2>3. call.value \in Values \ {Null} /\ usedNodes # numberNodes /\ numberNodes > 0
      BY <1>1, <2>2
    <2> QED
      BY <2>1, <2>2, <2>3, StoreKeepsOrder
  <1>7. CASE Destroy
    <2>1. /\ nodes' = EmptyTable(0) /\ usedNodes' = 0 /\ hits' = {} /\ appended' = <<>>
          /\ held' = [k \in Keys |-> Null] /\ pc' = "idle"
      BY <1>7 DEF Destroy, HashmapDestroy, Emptied, Ready
    <2>2. Occupied(nodes') = {}
      BY <2>1, EmptyTableIsEmpty
    <2>3. appended' \in Seq(Values \ {Null}) /\ Len(appended') = 0
      BY <2>1
    <2>4. ASSUME NEW k \in Keys
          PROVE  held'[k] = Null /\ ~(k < usedNodes')
      BY <1>1, <2>1
    <2> QED
      BY <1>1, <2>1, <2>2, <2>3, <2>4 DEF Ordered, Occupied
  <1>8. ASSUME NEW n \in Sizes, Make(n)
        PROVE  Ordered'
    <2>1. /\ numberNodes = 0 /\ nodes' = EmptyTable(n)
          /\ UNCHANGED <<pc, held, hits, appended>> /\ usedNodes' = 0
      BY <1>8 DEF Make, HashmapInit
    <2>2. n \in Nat
      BY SizesAssumption
    <2>3. Occupied(nodes') = {}
      BY <2>1, <2>2, EmptyTableIsEmpty
    <2>4. pc = "idle" /\ usedNodes = 0
      BY <1>2, <2>1 DEF Shape
    <2> QED
      BY <1>2, <2>1, <2>3, <2>4 DEF Ordered, Occupied
  <1> QED
    BY <1>3, <1>4, <1>5, <1>6, <1>7, <1>8 DEF ListNext, Growth

LEMMA ListInvNext == ListInv /\ [ListNext]_listVars => ListInv'
  <1> SUFFICES ASSUME ListInv, [ListNext]_listVars PROVE ListInv'
    OBVIOUS
  <1>1. IInv' /\ Ordered'
    BY ListStepIsMapStep, OrderedNext, IInvNext, ListInvParts
  <1> QED
    BY <1>1 DEF ListInv, IInv, Ordered

(* Every entry of a list is where it was appended, and the length counts   *)
(* them, for every hash function, table size and number of entries, also   *)
(* where realloc fails.                                                    *)
THEOREM ListKeepsOrder == ListSpec => []EntriesInOrder
  <1>1. ListInv => EntriesInOrder
    <2> SUFFICES ASSUME ListInv, Ready
                 PROVE  /\ Length = Len(appended)
                        /\ Ntl = Append(appended, Null)
                        /\ \A k \in Keys : k >= Length => EntryAt(k + 1) = Null
      BY DEF EntriesInOrder
    <2>1. /\ TypeOK /\ usedNodes \in Nat /\ MaxUsed \in Nat /\ Keys \subseteq Nat
          /\ UniqueIn(nodes) /\ appended \in Seq(Values \ {Null})
      BY OrderedTypes
    <2>2. Ordered /\ LaidOut /\ NodesHold
      BY ListInvParts DEF IInv
    <2>3. "wrap" \notin hits /\ pc = "idle" /\ numberNodes > 0
      BY <2>2 DEF Ordered, Ready
    <2>4. \A k \in Keys : HashmapGet(k) = held[k]
      BY <2>1, <2>2, <2>3, GetIsHeld DEF LaidOut, NodesHold
    <2>5. Length = Len(appended) /\ usedNodes <= MaxUsed
      BY <2>2, <2>3 DEF Length, Ordered
    <2>6. ASSUME NEW i \in 1..usedNodes
          PROVE  EntryAt(i) = appended[i]
      <3>1. i - 1 \in Keys /\ i - 1 < usedNodes /\ (i - 1) + 1 = i
        BY <2>1, <2>5, ListKeysAssumption
      <3>2. held[i - 1] = appended[i]
        BY <2>2, <3>1 DEF Ordered
      <3> QED
        BY <2>4, <3>1, <3>2 DEF EntryAt
    <2>7. ASSUME NEW k \in Keys, k >= Length
          PROVE  EntryAt(k + 1) = Null
      <3>1. k \in Nat /\ (k + 1) - 1 = k /\ ~(k < usedNodes)
        BY <2>1, <2>7 DEF Length
      <3>2. held[k] = Null
        BY <2>2, <3>1 DEF Ordered
      <3> QED
        BY <2>4, <3>1, <3>2 DEF EntryAt
    <2>8. Ntl = Append(appended, Null)
      <3> DEFINE all == Append(appended, Null)
      <3>1. /\ all \in Seq(Values \cup {Null}) /\ Len(all) = usedNodes + 1
            /\ all[usedNodes + 1] = Null
            /\ \A i \in 1..usedNodes : all[i] = appended[i]
        BY <2>1, <2>5 DEF Length
      <3> HIDE DEF all
      <3>2. all = [i \in 1..usedNodes + 1 |-> all[i]]
        BY <3>1
      <3>3. ASSUME NEW i \in 1..usedNodes + 1
            PROVE  all[i] = IF i <= usedNodes THEN EntryAt(i) ELSE Null
        BY <2>1, <2>6, <3>1
      <3>4. Ntl = [i \in 1..usedNodes + 1 |-> IF i <= usedNodes THEN EntryAt(i) ELSE Null]
        BY DEF Ntl, Length
      <3> QED
        BY <3>2, <3>3, <3>4 DEF all
    <2> QED
      BY <2>5, <2>7, <2>8
  <1> QED
    BY <1>1, ListInvInit, ListInvNext, PTL DEF ListSpec

=============================================================================
