----------------------------- MODULE SimpleSet -----------------------------
(***************************************************************************)
(* The set of dse/clib/collections/set.c: the hash map's table without     *)
(* values, and the operations of set algebra, which read two sets and add  *)
(* to a third.  A call is one step; a node is its key.                     *)
(***************************************************************************)
EXTENDS Integers, FiniteSets, FiniteSetsExt

CONSTANTS
  Keys,      (* keys                                                       *)
  Hashes,    (* values of the hash function                                *)
  Sizes,     (* the num_els a set is initialised with                      *)
  NoKey,     (* an empty slot                                              *)
  MaxNodes   (* bound: slots of a table that an add may grow to            *)

ASSUME SizesAssumption == Sizes \subseteq Nat \ {0}
ASSUME HashesAssumption == Hashes \subseteq Nat
ASSUME NoKeyAssumption == NoKey \notin Keys

VARIABLES
  hash,      (* set->hash_function, of both sets                           *)
  left,      (* two sets: their nodes, number_nodes and used_nodes         *)
  right,
  res,       (* the set that the last operation of the algebra has filled  *)
  given      (* history: the keys that should be in left and in right, and *)
             (* whether a remove has met a run of nodes that wraps         *)

vars == <<hash, left, right, res, given>>

-----------------------------------------------------------------------------
(* One set.                                                                *)

(* set_init_alt                                                            *)
New(n) == [nodes |-> [i \in 0..n - 1 |-> NoKey], number |-> n, used |-> 0]

Occupied(nodes) == {i \in DOMAIN nodes : nodes[i] # NoKey}
KeysIn(nodes) == {nodes[i] : i \in Occupied(nodes)}
Members(set) == KeysIn(set.nodes)

(* __get_index: where the probe for a key stops, and why.                  *)
Probe(n, k, d) == (hash[k] + d) % n
Stops(nodes, n, k) == {d \in 0..n - 1 : nodes[Probe(n, k, d)] \in {NoKey, k}}
GetIndex(nodes, n, k) ==
  IF Stops(nodes, n, k) = {} THEN [rc |-> "circular", index |-> Probe(n, k, 0)]
  ELSE LET slot == Probe(n, k, Min(Stops(nodes, n, k)))
       IN [rc |-> IF nodes[slot] = k THEN "true" ELSE "false", index |-> slot]
SetContains(set, k) == GetIndex(set.nodes, set.number, k).rc

(* __relayout_nodes: one pass from a slot on, to the end of the table or   *)
(* to the next empty slot.                                                 *)
Move(nodes, n, i) ==
  LET to == GetIndex(nodes, n, nodes[i]).index IN
  IF to = i THEN nodes ELSE [nodes EXCEPT ![to] = nodes[i], ![i] = NoKey]
Visit(pass, n, i, start, endOnNull) ==
  IF pass.done THEN pass
  ELSE IF pass.nodes[i] # NoKey
  THEN [pass EXCEPT !.nodes = Move(pass.nodes, n, i)]
  ELSE [pass EXCEPT !.done = endOnNull /\ i # start]
RelayoutNodes(nodes, n, start, endOnNull) ==
  LET pass[d \in 0..n - start] ==
        IF d = 0 THEN [nodes |-> nodes, done |-> FALSE]
        ELSE Visit(pass[d - 1], n, start + d - 1, start, endOnNull)
  IN pass[n - start]

(* __set_add, where memory is left or not.                                 *)
NearlyFull(set) == 4 * set.used > set.number
Wide(nodes, n) == [i \in 0..2 * n - 1 |-> IF i < n THEN nodes[i] ELSE NoKey]
Doubled(set, endOnNull) ==
  LET n == 2 * set.number IN
  [set EXCEPT !.number = n,
              !.nodes = RelayoutNodes(Wide(@, set.number), n, 0, endOnNull).nodes]
GrowToEmpty(set) == Doubled(set, TRUE)
Grow(set) == Doubled(set, FALSE)
Assign(set, k) ==
  LET found == GetIndex(set.nodes, set.number, k) IN
  IF found.rc # "false" THEN set
  ELSE [set EXCEPT !.nodes[found.index] = k, !.used = @ + 1]
NeedsMemory(set, k) == SetContains(set, k) # "true" /\ NearlyFull(set)
OutOfMemory(set, k, memory) == NeedsMemory(set, k) /\ ~memory
SetAdd(set, k, memory) ==
  IF SetContains(set, k) = "true" \/ OutOfMemory(set, k, memory) THEN set
  ELSE Assign(IF NearlyFull(set) THEN Grow(set) ELSE set, k)

(* set_remove, of a key that is found.                                     *)
Removed(set, k) ==
  LET slot == GetIndex(set.nodes, set.number, k).index
      pass == RelayoutNodes([set.nodes EXCEPT ![slot] = NoKey], set.number, slot, TRUE)
  IN [set  |-> [set EXCEPT !.nodes = pass.nodes, !.used = @ - 1],
      wrap |-> ~pass.done /\ pass.nodes[0] # NoKey]

-----------------------------------------------------------------------------
(* The algebra: each loops over the slots of a set and adds to res the     *)
(* keys that pass a test of the other set.  For the keys in denied the     *)
(* loop finds no memory, if it needs any to add them.                      *)

Found(set) == {k \in Keys : SetContains(set, k) = "true"}
CopySlot(set, k, wanted, denied) ==
  IF k \in wanted THEN SetAdd(set, k, k \notin denied) ELSE set
Copy(into, from, wanted, denied) ==
  LET copy[i \in 0..from.number] ==
        IF i = 0 THEN into ELSE CopySlot(copy[i - 1], from.nodes[i - 1], wanted, denied)
  IN copy[from.number]

Union(into, a, b, denied, later) == Copy(Copy(into, a, Keys, denied), b, Keys, later)
Intersection(into, a, b, denied) == Copy(into, a, Found(b), denied)
Difference(into, a, b, denied) == Copy(into, a, Keys \ Found(b), denied)
SymmetricDifferenceOnce(into, a, b, denied, later) == Difference(into, a, b, denied)
SymmetricDifference(into, a, b, denied, later) ==
  Difference(Difference(into, a, b, denied), b, a, later)

(* set_is_subset, set_is_subset_strict and set_cmp                         *)
IsSubset(test, against) ==
  \A k \in Members(test) : SetContains(against, k) # "false"
IsSubsetStrict(test, against) ==
  test.used < against.used /\ IsSubset(test, against)
Cmp(a, b) ==
  IF a.used < b.used THEN "rightGreater"
  ELSE IF b.used < a.used THEN "leftGreater"
  ELSE IF \A k \in Members(a) : SetContains(b, k) = "true" THEN "equal"
  ELSE "unequal"

-----------------------------------------------------------------------------
NoResult == [op |-> "none", set |-> New(0), complete |-> TRUE]

Init ==
  /\ hash \in [Keys -> Hashes]
  /\ \E m, n \in Sizes : left = New(m) /\ right = New(n)
  /\ res = NoResult
  /\ given = [left |-> {}, right |-> {}, wrap |-> {}]

(* A call on one of the two sets.                                          *)
Update(side, set) ==
  /\ res = NoResult
  /\ IF side = "left" THEN left' = set /\ UNCHANGED right
     ELSE right' = set /\ UNCHANGED left
  /\ UNCHANGED <<hash, res>>
Side(side) == IF side = "left" THEN left ELSE right

Add(side, k, memory) ==
  /\ NeedsMemory(Side(side), k) /\ memory => 2 * Side(side).number <= MaxNodes
  /\ Update(side, SetAdd(Side(side), k, memory))
  /\ given' = [given EXCEPT ![side] =
                 IF OutOfMemory(Side(side), k, memory) THEN @ ELSE @ \cup {k}]
RemoveKey(side, k) ==
  LET gone == Removed(Side(side), k) IN
  /\ SetContains(Side(side), k) = "true"
  /\ Update(side, gone.set)
  /\ given' = [given EXCEPT
                 ![side] = @ \ {k},
                 !.wrap = IF gone.wrap THEN @ \cup {side} ELSE @]

(* set_clear, and set_destroy followed by set_init_alt.                    *)
Empty(side, n) ==
  /\ Update(side, New(n))
  /\ given' = [given EXCEPT ![side] = {}, !.wrap = @ \ {side}]

(* The algebra: into a new set, or one that is there and empty,            *)
InitSizes == IF res = NoResult THEN Sizes ELSE {res.set.number}
Into(n) == IF res = NoResult THEN New(n) ELSE res.set
Combine(op, n, denied, later) ==
  /\ Into(n).used = 0
  /\ res' = [op |-> op, complete |-> denied = {} /\ later = {}, set |->
               CASE op = "union" -> Union(Into(n), left, right, denied, later)
                 [] op = "intersection" -> Intersection(Into(n), left, right, denied)
                 [] op = "difference" -> Difference(Into(n), left, right, denied)
                 [] OTHER -> SymmetricDifference(Into(n), left, right, denied, later)]
  /\ UNCHANGED <<hash, left, right, given>>

(* but one that is occupied is refused.                                    *)
CombineOccupied == res.set.used # 0 /\ UNCHANGED vars

(* set_destroy of the result; one that is cleared is like a new one.       *)
DropResult ==
  /\ res # NoResult
  /\ res' = NoResult
  /\ UNCHANGED <<hash, left, right, given>>

(* Only keys that a loop wants are denied, and that it has not added yet;  *)
(* bound: none is where the result is one that was there, and empty, since *)
(* its table is one that a new set may have.                               *)
Deniable(keys) == IF res = NoResult THEN SUBSET keys ELSE {{}}
Next ==
  \/ \E side \in {"left", "right"} :
       \/ \E k \in Keys :
            \/ \E memory \in BOOLEAN : Add(side, k, memory)
            \/ RemoveKey(side, k)
       \/ \E n \in Sizes \cup {Side(side).number} : Empty(side, n)
  \/ \E n \in InitSizes, denied \in Deniable(Members(left)) :
       \/ \E later \in Deniable(Members(right) \ (Members(left) \ denied)) :
            Combine("union", n, denied, later)
       \/ denied \subseteq Found(right) /\ Combine("intersection", n, denied, {})
       \/ /\ denied \cap Found(right) = {}
          /\ \/ Combine("difference", n, denied, {})
             \/ \E later \in Deniable(Members(right) \ Found(left)) :
                  Combine("symmetric", n, denied, later)
  \/ CombineOccupied
  \/ DropResult

Spec == Init /\ [][Next]_vars

-----------------------------------------------------------------------------
(* Properties.                                                             *)

(* The variables have their types, and set_to_array has room for every     *)
(* node in the array it sizes by used_nodes, also when duplicates have     *)
(* made the counter wrong.                                                 *)
ArrayFits ==
  /\ hash \in [Keys -> Hashes]
  /\ \A set \in {left, right, res.set} :
       /\ set.number \in Nat /\ set.used \in Nat
       /\ set.nodes \in [0..set.number - 1 -> Keys \cup {NoKey}]
       /\ Cardinality(Occupied(set.nodes)) <= set.used
  /\ given.left \subseteq Keys /\ given.right \subseteq Keys
  /\ given.wrap \subseteq {"left", "right"}

(* The two sets for which no remove has met a run of nodes that wraps.     *)
Sound(side) == side \notin given.wrap

(* set_contains finds exactly the keys that were added and not removed,    *)
(* set_length counts them, and there are no duplicates: growth lays the    *)
(* nodes out in a single pass, a remove closes its hole.  The array of     *)
(* set_to_array fits even where a remove met a wrapped run.                *)
HoldsWhatWasGiven ==
  /\ ArrayFits
  /\ \A side \in {"left", "right"} : Sound(side) =>
       /\ \A k \in Keys : SetContains(Side(side), k) = "true" <=> k \in given[side]
       /\ Side(side).used = Cardinality(given[side])
       /\ Cardinality(Occupied(Side(side).nodes)) = Side(side).used

(* What the operations of the algebra compute by set.h.                    *)
Meant(op) ==
  CASE op = "union" -> given.left \cup given.right
    [] op = "intersection" -> given.left \cap given.right
    [] op = "difference" -> given.left \ given.right
    [] op = "symmetric" -> (given.left \ given.right) \cup (given.right \ given.left)
ResultIsMeant ==
  res.op # "none" =>
    /\ Members(res.set) \subseteq Meant(res.op)
    /\ res.complete => Members(res.set) = Meant(res.op)
    /\ \A k \in Members(res.set) : SetContains(res.set, k) = "true"
    /\ res.set.used = Cardinality(Members(res.set))

(* The comparisons; a set that is full (of one or two slots) answers       *)
(* "circular" where it should answer "not found", and is excepted.         *)
ComparesAsMeant ==
  /\ right.used < right.number =>
       /\ IsSubset(left, right) <=> given.left \subseteq given.right
       /\ IsSubsetStrict(left, right) <=>
            given.left \subseteq given.right /\ given.left # given.right
  /\ Cmp(left, right) = "equal" <=> given.left = given.right
  /\ Cmp(left, right) = "leftGreater" <=>
       Cardinality(given.left) > Cardinality(given.right)

(* The algebra and the comparisons compute what set.h defines, whatever    *)
(* the tables' sizes and layouts; with too little memory an operation may  *)
(* lose keys, and adds none.                                               *)
AlgebraIsMeant ==
  (Sound("left") /\ Sound("right")) => ResultIsMeant /\ ComparesAsMeant

(* What set.h says of set_is_subset, of every table: the answer is whether *)
(* all keys of one set are in the other.  A set of one or two slots can be *)
(* full, where a search ends with neither of the answers expected.         *)
SubsetIsContained ==
  (Sound("left") /\ Sound("right")) =>
    (IsSubset(left, right) <=> given.left \subseteq given.right)

=============================================================================
