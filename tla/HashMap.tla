------------------------------ MODULE HashMap ------------------------------
(***************************************************************************)
(* The hash map of dse/clib/collections/hashmap.c: open addressing with    *)
(* linear probing, a table that doubles once a quarter of it is used, and  *)
(* a remove that moves the nodes behind the hole.  The two loops that move *)
(* nodes, after a growth and after a remove, make one step here per slot   *)
(* they visit; the rest of an operation is one step.                       *)
(*                                                                         *)
(* Strings are model values that equal only themselves.  A node holds its  *)
(* key's hash in the code; here the hash is a function of the key.         *)
(***************************************************************************)
EXTENDS Integers, FiniteSets, FiniteSetsExt

CONSTANTS
  Keys,       (* keys                                                      *)
  Hashes,     (* values of the hash function                               *)
  Values,     (* pointers a caller stores; Null may be one of them         *)
  AltValues,  (* of these, the ones it hands over by hashmap_set_alt       *)
  Null,       (* the NULL pointer                                          *)
  NoNode,     (* an empty slot                                             *)
  Sizes,      (* the num_els a map is initialised with                     *)
  MaxNodes,   (* bound: slots of a table, realloc fails beyond             *)
  MaxUsed     (* bound: the used_nodes counter                             *)

ASSUME HashesAssumption == Hashes \subseteq Nat
ASSUME SizesAssumption == Sizes \subseteq Nat \ {0}
ASSUME AltAssumption == AltValues \subseteq Values
ASSUME NoNodeAssumption ==
  NoNode \notin [key : Keys, value : Values, alt : BOOLEAN]
ASSUME TableBounds == MaxNodes \in Nat /\ MaxUsed \in Nat

VARIABLES
  nodes,       (* h->nodes: slot -> node                                   *)
  numberNodes, (* h->number_nodes; 0 after hashmap_destroy                 *)
  usedNodes,   (* h->used_nodes                                            *)
  hash,        (* h->hash_function                                         *)
  pc,          (* "idle"; inside set: "grow"; inside remove: "shift"       *)
  at,          (* the slot the relayout loop visits next                   *)
  moved,       (* this pass has moved a node                               *)
  call,        (* the set that waits for the growth to end                 *)
  held,        (* history: what each key was last given; Null if removed   *)
  passes,      (* history: passes of this growth that moved a node         *)
  hits         (* history: the rare events met since the map was emptied   *)

vars == <<nodes, numberNodes, usedNodes, hash, pc, at, moved, call,
          held, passes, hits>>

-----------------------------------------------------------------------------
(* The operators of the code. *)

EmptyTable(n) == [i \in 0..n - 1 |-> NoNode]
Occupied(tbl) == {i \in DOMAIN tbl : tbl[i] # NoNode}

(* hashmap_keys: the number of entries it writes to its array.             *)
KeysWritten == Cardinality(Occupied(nodes))

(* hashmap_get_node: from its home slot on, cyclically, the first slot     *)
(* that is empty or holds the key; all the way round, back to its home.    *)
Probe(k, d) == (hash[k] + d) % numberNodes
Stops(tbl, k) ==
  {d \in 0..numberNodes - 1 :
     tbl[Probe(k, d)] = NoNode \/ tbl[Probe(k, d)].key = k}
GetNode(tbl, k) ==
  IF Stops(tbl, k) = {} THEN Probe(k, 0) ELSE Probe(k, Min(Stops(tbl, k)))
IsFull(tbl, k) == Stops(tbl, k) = {}

(* hashmap_get; a key stored with the value NULL is not found either.      *)
HashmapGet(k) ==
  LET slot == GetNode(nodes, k) IN
  IF IsFull(nodes, k) \/ nodes[slot] = NoNode THEN Null ELSE nodes[slot].value

(* __relayout_nodes, the body of its loop: the node at slot i goes where a *)
(* probe for its key ends.                                                 *)
RelayoutHome(tbl, i) ==
  LET id == Probe(tbl[i].key, 0) IN
  IF id = i THEN tbl ELSE [tbl EXCEPT ![id] = tbl[i], ![i] = NoNode]
Relayout(tbl, i) ==
  LET id == GetNode(tbl, tbl[i].key) IN
  IF id = i THEN tbl ELSE [tbl EXCEPT ![id] = tbl[i], ![i] = NoNode]

(* __get_fullness, compared with MAX_FULLNESS_PERCENT.                     *)
MustGrow(used, n) == 4 * used >= n

(* hashmap_set_by_hash64, once the table has its size: replace the value,  *)
(* or assign a node.  A node whose value is NULL counts as not found.      *)
Store(k, v, met) ==
  LET slot  == GetNode(nodes, k)
      found == nodes[slot] # NoNode /\ nodes[slot].value # Null IN
  IF IsFull(nodes, k)
  THEN hits' = met /\ UNCHANGED <<nodes, usedNodes, held>>
  ELSE /\ held' = [held EXCEPT ![k] = v]
       /\ IF found
          THEN /\ nodes' = [nodes EXCEPT ![slot].value = v]
               /\ usedNodes' = usedNodes
               /\ hits' = met
          ELSE /\ nodes' = [nodes EXCEPT ![slot] =
                              [key |-> k, value |-> v, alt |-> v \in AltValues]]
               /\ usedNodes' = usedNodes + 1
               /\ hits' = IF nodes[slot] = NoNode THEN met
                          ELSE met \cup {"null"}

-----------------------------------------------------------------------------
NoCall == [key |-> NoNode, value |-> Null]

(* hashmap_init_alt, of a new map and of one that was destroyed.           *)
Init ==
  /\ numberNodes \in Sizes
  /\ nodes = EmptyTable(numberNodes)
  /\ usedNodes = 0
  /\ hash \in [Keys -> Hashes]
  /\ pc = "idle"
  /\ at = 0
  /\ moved = FALSE
  /\ call = NoCall
  /\ held = [k \in Keys |-> Null]
  /\ passes = 0
  /\ hits = {}

HashmapInit(n) ==
  /\ numberNodes = 0
  /\ numberNodes' = n
  /\ nodes' = EmptyTable(n)
  /\ usedNodes' = 0
  /\ UNCHANGED <<hash, pc, at, moved, call, held, passes, hits>>

(* No call is under way, and the map is initialised.                       *)
Ready == pc = "idle" /\ numberNodes > 0

(* hashmap_set, hashmap_set_alt and the typed inserts: the table has room, *)
HashmapSet(k, v) ==
  /\ Ready
  /\ usedNodes < MaxUsed
  /\ ~MustGrow(usedNodes, numberNodes)
  /\ Store(k, v, hits)
  /\ UNCHANGED <<numberNodes, hash, pc, at, moved, call, passes>>

(* or must grow but realloc fails (__allocate_hashmap), which is ignored,  *)
HashmapSetNoMemory(k, v) ==
  /\ Ready
  /\ usedNodes < MaxUsed
  /\ MustGrow(usedNodes, numberNodes)
  /\ Store(k, v, hits \cup {"nomem"})
  /\ UNCHANGED <<numberNodes, hash, pc, at, moved, call, passes>>

(* or grows: the store waits until the nodes are laid out again.           *)
HashmapSetGrow(k, v) ==
  /\ Ready
  /\ usedNodes < MaxUsed
  /\ MustGrow(usedNodes, numberNodes)
  /\ 2 * numberNodes <= MaxNodes
  /\ numberNodes' = 2 * numberNodes
  /\ nodes' = [i \in 0..2 * numberNodes - 1 |->
                 IF i < numberNodes THEN nodes[i] ELSE NoNode]
  /\ call' = [key |-> k, value |-> v]
  /\ pc' = "grow"
  /\ at' = 0
  /\ moved' = FALSE
  /\ UNCHANGED <<usedNodes, hash, held, passes, hits>>

(* The growth's relayout visits a slot.                                    *)
GrowVisitDown ==
  LET i == numberNodes - 1 - at IN
  /\ pc = "grow"
  /\ at < numberNodes
  /\ nodes' = IF nodes[i] = NoNode THEN nodes ELSE Relayout(nodes, i)
  /\ moved' = (moved \/ nodes' # nodes)
  /\ at' = at + 1
  /\ UNCHANGED <<numberNodes, usedNodes, hash, pc, call, held, passes, hits>>
GrowVisit ==
  /\ pc = "grow"
  /\ at < numberNodes
  /\ nodes' = IF nodes[at] = NoNode THEN nodes ELSE Relayout(nodes, at)
  /\ moved' = (moved \/ nodes' # nodes)
  /\ at' = at + 1
  /\ UNCHANGED <<numberNodes, usedNodes, hash, pc, call, held, passes, hits>>

(* At the end of a pass that moved a node, another pass begins;            *)
GrowAgain ==
  /\ pc = "grow"
  /\ at = numberNodes
  /\ moved
  /\ at' = 0
  /\ moved' = FALSE
  /\ passes' = passes + 1
  /\ UNCHANGED <<nodes, numberNodes, usedNodes, hash, pc, call, held, hits>>

(* of one that moved none, the set goes on.                                *)
GrowDone ==
  /\ pc = "grow"
  /\ at = numberNodes
  /\ ~moved
  /\ Store(call.key, call.value, hits)
  /\ pc' = "idle"
  /\ at' = 0
  /\ call' = NoCall
  /\ passes' = 0
  /\ UNCHANGED <<numberNodes, hash, moved>>

(* hashmap_remove: the node goes, and the relayout begins behind the hole. *)
HashmapRemoveNoShift(k) ==
  LET slot == GetNode(nodes, k) IN
  /\ Ready
  /\ HashmapGet(k) # Null
  /\ nodes' = [nodes EXCEPT ![slot] = NoNode]
  /\ usedNodes' = usedNodes - 1
  /\ held' = [held EXCEPT ![k] = Null]
  /\ UNCHANGED <<numberNodes, hash, pc, at, moved, call, passes, hits>>
HashmapRemove(k) ==
  LET slot == GetNode(nodes, k) IN
  /\ Ready
  /\ HashmapGet(k) # Null
  /\ nodes' = [nodes EXCEPT ![slot] = NoNode]
  /\ usedNodes' = usedNodes - 1
  /\ held' = [held EXCEPT ![k] = Null]
  /\ pc' = "shift"
  /\ at' = slot + 1
  /\ UNCHANGED <<numberNodes, hash, moved, call, passes, hits>>

(* The key is not found: nothing is removed.                               *)
HashmapRemoveAbsentCounted(k) ==
  /\ Ready
  /\ HashmapGet(k) = Null
  /\ held' = [held EXCEPT ![k] = Null]
  /\ usedNodes' = IF usedNodes > 0 THEN usedNodes - 1 ELSE 0
  /\ UNCHANGED <<nodes, numberNodes, hash, pc, at, moved, call, passes, hits>>
HashmapRemoveAbsent(k) ==
  /\ Ready
  /\ HashmapGet(k) = Null
  /\ held' = [held EXCEPT ![k] = Null]
  /\ UNCHANGED <<nodes, numberNodes, usedNodes, hash, pc, at, moved, call,
                 passes, hits>>

(* The relayout of the remove visits a slot, up to an empty one            *)
ShiftVisit ==
  /\ pc = "shift"
  /\ at < numberNodes
  /\ nodes[at] # NoNode
  /\ nodes' = Relayout(nodes, at)
  /\ at' = at + 1
  /\ UNCHANGED <<numberNodes, usedNodes, hash, pc, moved, call, held, passes,
                 hits>>

(* or up to the end of the table, though the run of nodes may continue at  *)
(* slot 0.                                                                 *)
ShiftDone ==
  /\ pc = "shift"
  /\ at < numberNodes => nodes[at] = NoNode
  /\ hits' = IF at = numberNodes /\ nodes[0] # NoNode THEN hits \cup {"wrap"}
             ELSE hits
  /\ pc' = "idle"
  /\ at' = 0
  /\ UNCHANGED <<nodes, numberNodes, usedNodes, hash, moved, call, held, passes>>

(* hashmap_clear; hashmap_destroy and hashmap_destroy_ext also drop the    *)
(* table.                                                                  *)
Emptied(n) ==
  /\ nodes' = EmptyTable(n)
  /\ usedNodes' = 0
  /\ held' = [k \in Keys |-> Null]
  /\ hits' = {}
  /\ UNCHANGED <<hash, pc, at, moved, call, passes>>
HashmapClear == Ready /\ Emptied(numberNodes) /\ UNCHANGED numberNodes
HashmapDestroy == Ready /\ Emptied(0) /\ numberNodes' = 0

Next ==
  \/ \E n \in Sizes : HashmapInit(n)
  \/ \E k \in Keys, v \in Values :
       \/ HashmapSet(k, v)
       \/ HashmapSetNoMemory(k, v)
       \/ HashmapSetGrow(k, v)
  \/ GrowVisit
  \/ GrowAgain
  \/ GrowDone
  \/ \E k \in Keys : HashmapRemove(k) \/ HashmapRemoveAbsent(k)
  \/ ShiftVisit
  \/ ShiftDone
  \/ HashmapClear
  \/ HashmapDestroy

Spec == Init /\ [][Next]_vars

-----------------------------------------------------------------------------
(* Properties. *)

Node == [key : Keys, value : Values, alt : BOOLEAN]

(* The variables have their types.                                         *)
TypeOK ==
  /\ numberNodes \in Nat
  /\ nodes \in [0..numberNodes - 1 -> Node \cup {NoNode}]
  /\ usedNodes \in Nat
  /\ hash \in [Keys -> Hashes]
  /\ pc \in {"idle", "grow", "shift"}
  /\ at \in 0..numberNodes
  /\ moved \in BOOLEAN
  /\ IF pc = "grow" THEN call \in [key : Keys, value : Values] ELSE call = NoCall
  /\ held \in [Keys -> Values \cup {Null}]
  /\ passes \in Nat
  /\ hits \subseteq {"wrap", "null", "nomem"}

(* used_nodes never falls below the number of nodes: the array that        *)
(* hashmap_keys sizes by it has room for every node, whatever the hash     *)
(* function and the order of the calls.                                    *)
KeysFit == KeysWritten <= usedNodes

(* hashmap_keys returns as many keys as used_nodes says, which is what the *)
(* iterators and hashlist_length read, unless a node was lost: stored over *)
(* one whose value is NULL, or a duplicate of one that a wrap hid.         *)
CountsMatch ==
  (hits \cap {"null", "wrap"} = {}) => usedNodes = KeysWritten

(* As long as realloc works the table stays about a quarter full, so every *)
(* probe meets an empty slot.                                              *)
LoadBound == "nomem" \notin hits => 4 * (usedNodes - 1) <= numberNodes

(* hashmap_get returns what the key was last given, through growth and     *)
(* through the removal of other keys, until a remove meets a run of nodes  *)
(* that continues at slot 0.                                               *)
GetReturnsHeld ==
  (Ready /\ "wrap" \notin hits) => \A k \in Keys : HashmapGet(k) = held[k]

(* Until then a key also has one node at most, in every state of a call.   *)
UniqueIn(tbl) ==
  \A i, j \in Occupied(tbl) : tbl[i].key = tbl[j].key => i = j
OneNodePerKey == "wrap" \notin hits => UniqueIn(nodes)

(* The loop of __allocate_hashmap moves nodes in its first pass only, and  *)
(* ends with its second: the answer to its "TODO: The math to see if this  *)
(* ever needs to be done more than once".                                  *)
OnePassSettles == passes <= 1

(* What these rest on.  The slots a probe for k passes before slot j:      *)
Before(k, j) ==
  IF Probe(k, 0) <= j THEN Probe(k, 0)..j - 1
  ELSE (Probe(k, 0)..numberNodes - 1) \cup (0..j - 1)

(* Every node is found where it is.                                        *)
LaidIn(tbl) ==
  \A j \in Occupied(tbl) : \A i \in Before(tbl[j].key, j) : tbl[i] # NoNode
LaidOut == ("wrap" \notin hits /\ pc = "idle") => LaidIn(nodes)

(* Behind a remove one hole moves up the table.  A node that was not       *)
(* visited yet may have it, and no other empty slot, before it.            *)
HoleIn(tbl, h) ==
  /\ tbl[h] = NoNode
  /\ \A i \in h + 1..at - 1 : tbl[i] # NoNode
  /\ \A j \in Occupied(tbl) : \A i \in Before(tbl[j].key, j) :
       tbl[i] = NoNode => i = h /\ j \notin h + 1..at - 1
OneHole ==
  ("wrap" \notin hits /\ pc = "shift") => \E h \in 0..at - 1 : HoleIn(nodes, h)

(* A pass of the growth that has moved nothing has found its nodes.        *)
PassFound ==
  (pc = "grow" /\ ~moved) =>
    \A j \in Occupied(nodes) : j < at => GetNode(nodes, nodes[j].key) = j

(* The nodes hold what is held.                                            *)
HoldIn(tbl, given) ==
  /\ \A j \in Occupied(tbl) : given[tbl[j].key] = tbl[j].value
  /\ \A k \in Keys : given[k] # Null => \E j \in Occupied(tbl) : tbl[j].key = k
NodesHold == "wrap" \notin hits => HoldIn(nodes, held)

(* Sizes and counters.                                                     *)
Shape ==
  /\ numberNodes = 0 => pc = "idle" /\ usedNodes = 0
  /\ pc = "shift" => at > 0
  /\ pc = "idle" => at = 0
  /\ pc # "grow" => ~moved

IInv ==
  /\ TypeOK
  /\ Shape
  /\ KeysFit
  /\ CountsMatch
  /\ OneNodePerKey
  /\ LaidOut
  /\ OneHole
  /\ PassFound
  /\ NodesHold

(* hashmap.h on hashmap_get: it returns the value of a key that was stored *)
(* and not removed.                                                        *)
GetFindsKey == Ready => \A k \in Keys : HashmapGet(k) = held[k]

(* hashmap.h on hashmap_set_alt: the map frees the value of a key that was *)
(* last set by it, also where it updates the key.                          *)
AltValueIsFreed ==
  Ready => \A k \in Keys :
    HashmapGet(k) \in AltValues => nodes[GetNode(nodes, k)].alt

=============================================================================
