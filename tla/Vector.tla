------------------------------- MODULE Vector -------------------------------
(***************************************************************************)
(* The growable array of dse/clib/collections/vector.h, in both its forms: *)
(* items that are compared themselves, and items beside an array of keys   *)
(* that is kept in step with them (SoA).  Storage is modelled slot by      *)
(* slot, with what slots beyond the length still hold.                     *)
(*                                                                         *)
(* Items and keys are numbers and the comparison function compares them;   *)
(* 0 is a slot of zero bytes.  Allocations succeed: the code does not      *)
(* check them.                                                             *)
(***************************************************************************)
EXTENDS Naturals, Sequences, SequencesExt

CONSTANTS
  Indices,           (* keys                                               *)
  Items,             (* items                                              *)
  None,              (* a NULL argument                                    *)
  InitialCapacity,   (* of vector_make                                     *)
  MaxCapacity        (* bound: how far the vector grows                    *)

ASSUME IndicesAssumption == Indices \subseteq Nat /\ 0 \in Indices /\ None \notin Indices
ASSUME ItemsAssumption == Items \subseteq Nat /\ 0 \in Items /\ None \notin Items
ASSUME CapacityAssumption == InitialCapacity \in Nat \ {0} /\ MaxCapacity \in Nat

VARIABLES
  soa,       (* vector_is_soa: made by vector_make_soa                     *)
  items,     (* the slots; <<>> when no storage is allocated               *)
  index,     (* their keys                                                 *)
  capacity,
  length,
  blank      (* history: the last call appended an entry without an item   *)

vectorVars == <<soa, items, index, capacity, length, blank>>

(* What the comparison function is given.                                  *)
Key(i) == IF soa THEN index[i] ELSE items[i]

(* realloc keeps a slot up to the length, and memset clears the rest.      *)
Resized(slots, size) == [i \in 1..size |-> IF i <= length THEN slots[i] ELSE 0]
Zeros(size) == [i \in 1..size |-> 0]

(* vector_make and vector_make_soa                                         *)
VectorInit ==
  /\ soa \in BOOLEAN
  /\ items = Zeros(InitialCapacity)
  /\ index = IF soa THEN Zeros(InitialCapacity) ELSE <<>>
  /\ capacity = InitialCapacity
  /\ length = 0
  /\ blank = FALSE

(* vector_resize with a hint of 0 is vector_reset.                         *)
Release ==
  /\ items' = <<>> /\ index' = <<>>
  /\ capacity' = 0 /\ length' = 0
  /\ blank' = FALSE
  /\ UNCHANGED soa

Resize(hint) ==
  /\ hint > length
  /\ items' = Resized(items, hint)
  /\ index' = IF soa THEN Resized(index, hint) ELSE <<>>
  /\ capacity' = hint
  /\ blank' = FALSE
  /\ UNCHANGED <<soa, length>>

(* vector_push, and vector_push_soa with a key.                            *)
Grown == IF capacity = 0 THEN InitialCapacity
         ELSE IF length = capacity THEN 2 * capacity ELSE capacity
Stored(slots, x) ==
  LET room == IF Grown = capacity THEN slots ELSE Resized(slots, Grown)
  IN IF x = None THEN room ELSE [room EXCEPT ![length + 1] = x]
Push(k, x) ==
  /\ Grown <= MaxCapacity
  /\ soa \/ k = None
  /\ items' = Stored(items, x)
  /\ index' = IF soa THEN Stored(index, k) ELSE <<>>
  /\ capacity' = Grown
  /\ length' = length + 1
  /\ blank' = (x = None)
  /\ UNCHANGED soa

Pop ==
  /\ length > 0
  /\ length' = length - 1
  /\ blank' = FALSE
  /\ UNCHANGED <<soa, items, index, capacity>>

(* vector_set_at                                                           *)
SetAt(i, x) ==
  /\ i <= length
  /\ items' = [items EXCEPT ![i] = x]
  /\ blank' = FALSE
  /\ UNCHANGED <<soa, index, capacity, length>>

(* The caller writes through the pointer of vector_index_at.               *)
IndexWritten(i, k) ==
  /\ soa /\ i <= length
  /\ index' = [index EXCEPT ![i] = k]
  /\ blank' = FALSE
  /\ UNCHANGED <<soa, items, capacity, length>>

(* vector_delete_at moves the slots behind down; the last one stays.       *)
MovedDown(slots, i) ==
  [j \in DOMAIN slots |-> IF j \in i..length - 1 THEN slots[j + 1] ELSE slots[j]]
DeleteItemAt(i) ==
  /\ i <= length
  /\ items' = MovedDown(items, i)
  /\ length' = length - 1
  /\ blank' = FALSE
  /\ UNCHANGED <<soa, index, capacity>>
DeleteAt(i) ==
  /\ i <= length
  /\ items' = MovedDown(items, i)
  /\ index' = IF soa THEN MovedDown(index, i) ELSE <<>>
  /\ length' = length - 1
  /\ blank' = FALSE
  /\ UNCHANGED <<soa, capacity>>

(* vector_sort_soa_items inserts each entry before the first larger one of *)
(* those sorted so far; order[n] is where the n entries came from.         *)
Place(order, n) ==
  LET Falls[j \in 1..n] ==
        IF j = 1 \/ ~(index[order[j - 1]] > index[n]) THEN j ELSE Falls[j - 1]
  IN Falls[n]
Inserted(order, n) ==
  LET at == Place(order, n)
  IN SubSeq(order, 1, at - 1) \o <<n>> \o SubSeq(order, at, n - 1)
InsertionSort ==
  LET Order[n \in 0..length] == IF n = 0 THEN <<>> ELSE Inserted(Order[n - 1], n)
  IN Order[length]
(* qsort, in any order of equals.                                          *)
Sorts(order) ==
  /\ \A i, j \in 1..length : i # j => order[i] # order[j]
  /\ \A i \in 2..length : items[order[i - 1]] <= items[order[i]]
Reordered(slots, order) ==
  [i \in DOMAIN slots |-> IF i <= length THEN slots[order[i]] ELSE slots[i]]
Sort ==
  /\ length > 0
  /\ \E order \in IF soa THEN {InsertionSort}
                  ELSE {o \in [1..length -> 1..length] : Sorts(o)} :
       /\ items' = Reordered(items, order)
       /\ index' = Reordered(index, order)
  /\ blank' = FALSE
  /\ UNCHANGED <<soa, capacity, length>>

(* vector_clear zeroes the slots, used or not.                             *)
Clear ==
  /\ items # <<>>
  /\ items' = Zeros(capacity)
  /\ index' = IF soa THEN Zeros(capacity) ELSE <<>>
  /\ length' = 0
  /\ blank' = FALSE
  /\ UNCHANGED <<soa, capacity>>

VectorNext ==
  \/ Release
  \/ \E hint \in 1..MaxCapacity : Resize(hint)
  \/ \E k \in Indices \cup {None}, x \in Items \cup {None} : Push(k, x)
  \/ Pop
  \/ \E i \in 1..MaxCapacity :
       \/ \E x \in Items : SetAt(i, x)
       \/ \E k \in Indices : IndexWritten(i, k)
       \/ DeleteAt(i)
  \/ Sort
  \/ Clear

VectorSpec == VectorInit /\ [][VectorNext]_vectorVars

-----------------------------------------------------------------------------
(* bsearch of the entries from one on; 0 when none compares equal.  Each   *)
(* turn halves the number of entries that are left, from low on.           *)
Bsearch(from, key) ==
  LET Within[left \in Nat] ==
        [low \in Nat |->
           LET half == left \div 2
               middle == low + half
           IN IF left = 0 THEN 0
              ELSE IF key = Key(middle) THEN middle
              ELSE IF key < Key(middle) THEN Within[half][low]
              ELSE Within[left - half - 1][middle + 1]]
  IN Within[length + 1 - from][from]

(* vector_find, from start on: the item, of which the code computes the    *)
(* place from that of the key.                                             *)
FindFromStart(key, start) ==
  IF start <= length /\ Bsearch(start, key) # 0
  THEN Bsearch(start, key) - start + 1 ELSE 0
Find(key, start) == IF start <= length THEN Bsearch(start, key) ELSE 0

(* vector_has                                                              *)
Has(key) == Bsearch(1, key) # 0

(* What the callbacks of vector_foreach and vector_foreach_soa are given,  *)
(* and the entries that vector_range chooses, as long as they return 0.    *)
Foreach == [i \in 1..length |-> items[i]]
ForeachSoa == [i \in 1..length |-> [key |-> Key(i), item |-> Foreach[i]]]
InRange(from, to) ==
  LET Chosen[n \in 0..length] ==
        IF n = 0 THEN <<>>
        ELSE IF Key(n) < from \/ Key(n) > to THEN Chosen[n - 1]
        ELSE Append(Chosen[n - 1], n)
  IN Chosen[length]

-----------------------------------------------------------------------------
(* Properties.                                                             *)

(* The variables have their types, and both arrays have a slot for every   *)
(* entry.                                                                  *)
VectorTypeOK ==
  /\ soa \in BOOLEAN /\ blank \in BOOLEAN
  /\ capacity \in Nat /\ length \in 0..capacity
  /\ items \in [1..capacity -> Items]
  /\ index \in [1..(IF soa THEN capacity ELSE 0) -> Indices]

(* A vector is the sequence of its entries: growth, release and reuse of   *)
(* slots keep each item under its key, in its place, and sorting permutes  *)
(* the pairs and keeps the order of equals.                                *)
Abstract == INSTANCE VectorEntries WITH
  Keys <- Indices \cup Items,
  entries <- ForeachSoa
ImplementsEntries == Abstract!Spec

(* A search among sorted entries finds one that has the key, at or behind  *)
(* its start, whenever there is one; so halving, from any start, and going *)
(* through all, as vector_range does, agree on which keys are there.       *)
FindsKey ==
  /\ VectorTypeOK
  /\ \A start \in 1..length :
    (\A i \in start + 1..length : Key(i - 1) <= Key(i)) =>
      \A key \in IF soa THEN Indices ELSE Items :
        LET matches == {i \in Range(InRange(key, key)) : i >= start}
        IN /\ start = 1 => (Has(key) <=> matches # {})
           /\ IF matches = {} THEN Find(key, start) = 0 ELSE Find(key, start) \in matches

(* What vector.h:238-240 says of the item: "Pointer to the item to copy    *)
(* into the vector, or NULL to append a zero-initialized slot."            *)
BlankIsZero == blank => items[length] = 0

=============================================================================
