---------------------------- MODULE HashMapStats ----------------------------
(***************************************************************************)
(* What hashmap.c tells of a map without changing it: the walks of the     *)
(* iterators over a copy of the keys, and the numbers of hashmap_stats.    *)
(* The averages of the code are the sums here, divided by the slots and by *)
(* the used nodes.                                                         *)
(***************************************************************************)
EXTENDS HashMap, Sequences, SequencesExt

Slots == [i \in 1..numberNodes |-> i - 1]
UsedSlots == SelectSeq(Slots, LAMBDA i : nodes[i] # NoNode)

(* hashmap_keys: an array of used_nodes entries, NULL behind the keys that *)
(* it writes.                                                              *)
HashmapKeys ==
  [n \in 1..usedNodes |-> IF n <= Len(UsedSlots) THEN nodes[UsedSlots[n]].key ELSE Null]

(* hashmap_iterator and hashmap_kv_iterator walk over all its entries, and *)
(* look every key up again; the look-up of NULL is a fault.  fails are the *)
(* keys for which the callback returns an error, and rc says whether its   *)
(* last call did.                                                          *)
HashmapIterator(continueOnError, fails) ==
  LET Ends(n) == HashmapKeys[n] = Null \/ (HashmapKeys[n] \in fails /\ ~continueOnError)
      ends == {n \in 1..usedNodes : Ends(n)}
      walked == SubSeq(HashmapKeys, 1, IF ends = {} THEN usedNodes ELSE Min(ends))
      met == SelectSeq(walked, LAMBDA k : k # Null)
  IN [visits |-> [n \in DOMAIN met |-> [key |-> met[n], value |-> HashmapGet(met[n])]],
      rc |-> met # <<>> /\ Last(met) \in fails,
      faults |-> met # walked]

(* __calc_big_o: the slots a search meets from a node's index to its slot. *)
CalcBigOStraight(i, idx) == 1 + i - idx
CalcBigO(i, idx) == IF i < idx THEN i + numberNodes - idx + 1 ELSE 1 + i - idx
Idx(i) == hash[nodes[i].key] % numberNodes

(* __m_sort_merge and __merge_sort                                         *)
RECURSIVE MSortMerge(_, _)
MSortMerge(l, r) ==
  CASE l = <<>> -> r
    [] l # <<>> /\ r = <<>> -> l
    [] OTHER -> IF Head(l) > Head(r) THEN <<Head(r)>> \o MSortMerge(l, Tail(r))
                ELSE <<Head(l)>> \o MSortMerge(Tail(l), r)
RECURSIVE MergeSort(_)
MergeSort(arr) ==
  LET mid == Len(arr) \div 2 IN
  IF Len(arr) < 2 THEN arr
  ELSE MSortMerge(MergeSort(SubSeq(arr, 1, mid)), MergeSort(SubSeq(arr, mid + 1, Len(arr))))

(* Equal neighbours of the sorted array; it has an entry per used node,    *)
(* zero where no node was met.                                             *)
Collisions(met) ==
  LET arr == MergeSort(met \o [n \in 1..usedNodes - Len(met) |-> 0])
  IN Cardinality({n \in 1..usedNodes - 1 : arr[n] = arr[n + 1]})

(* __calc_stats.  The longest run of used slots is noted when an empty one *)
(* ends it.                                                                *)
CalcStats ==
  LET bigO == [n \in DOMAIN UsedSlots |-> CalcBigO(UsedSlots[n], Idx(UsedSlots[n]))]
      sumUsed == FoldLeft(LAMBDA sum, o : sum + o, 0, bigO)
      Visit(run, i) == IF nodes[i] # NoNode THEN [run EXCEPT !.cur = @ + 1]
                       ELSE [cur |-> 0, wc |-> Max({run.wc, run.cur})]
      none == [worst |-> 0, max |-> 0, sum |-> 0, sumUsed |-> 0, hashCol |-> 0, idxCol |-> 0]
  IN IF usedNodes = 0 THEN none
     ELSE [worst |-> FoldLeft(Visit, [cur |-> 0, wc |-> 0], Slots).wc,
           max |-> Max({0} \cup Range(bigO)),
           sum |-> sumUsed + numberNodes - Len(UsedSlots),
           sumUsed |-> sumUsed,
           hashCol |-> Collisions([n \in DOMAIN UsedSlots |-> hash[nodes[UsedSlots[n]].key]]),
           idxCol |-> Collisions([n \in DOMAIN UsedSlots |-> Idx(UsedSlots[n])])]

-----------------------------------------------------------------------------
(* Properties.                                                             *)

(* The slots hashmap_get looks at for a key that is in the map.            *)
Looks(k) == Min(Stops(nodes, k)) + 1

(* Runs of used slots that an empty one ends.  One at the end of the table *)
(* is not counted, so the code's "Max Consecutive Buckets Used" may be too *)
(* small.                                                                  *)
IsEndedRun(length) ==
  \E i \in 0..numberNodes - length - 1 :
    /\ \A s \in i..i + length - 1 : nodes[s] # NoNode
    /\ nodes[i + length] = NoNode

(* What a walk visits: all keys of the map, each once and with its value,  *)
(* or those up to the first for which the callback fails, which is         *)
(* returned; an error that was continued on is returned only if it was     *)
(* that of the last key.                                                   *)
WalksRight(fails) ==
  LET all == HashmapIterator(TRUE, fails)
      some == HashmapIterator(FALSE, fails)
      failed == {n \in DOMAIN all.visits : all.visits[n].key \in fails}
      inMap == {k \in Keys : \E i \in Occupied(nodes) : nodes[i].key = k}
  IN /\ {visit.key : visit \in Range(all.visits)} = inMap
     /\ Len(all.visits) = Cardinality(inMap)
     /\ \A visit \in Range(all.visits) : visit.value = held[visit.key]
     /\ all.rc => failed # {}
     /\ some.rc <=> failed # {}
     /\ some.visits = IF failed = {} THEN all.visits ELSE SubSeq(all.visits, 1, Min(failed))

(* Between two calls the reports on a map are about what is in it.  The    *)
(* iterators visit every key that is held once, with its value, and end at *)
(* an error unless they are to continue.  The numbers of hashmap_stats are *)
(* those of the searches: its O(n) of a node is the slots that hashmap_get *)
(* looks at for its key, though computed from where growth and removes     *)
(* have moved it; and every key that shares its hash, or its index, with   *)
(* another is counted, but for one of them.  Excepted are maps that have   *)
(* met a wrap, or a NULL value: where a NULL was stored over, every walk   *)
(* that is not ended before looks up the NULL behind the keys, until the   *)
(* map is cleared.                                                         *)
ReportsHold ==
  /\ (Ready /\ hits \cap {"wrap", "null"} = {}) =>
       LET stats == CalcStats
           inMap == Range(HashmapKeys)
           lookSum == FoldSet(LAMBDA k, sum : Looks(k) + sum, 0, inMap)
       IN /\ {k \in Keys : held[k] # Null} = {k \in inMap : held[k] # Null}
          /\ \A fails \in SUBSET Keys : WalksRight(fails)
          /\ stats.max = Max({0} \cup {Looks(k) : k \in inMap})
          /\ stats.sumUsed = lookSum
          /\ stats.hashCol = Cardinality(inMap) - Cardinality({hash[k] : k \in inMap})
          /\ stats.idxCol = Cardinality(inMap) - Cardinality({Probe(k, 0) : k \in inMap})
          /\ \A length \in 1..numberNodes - 1 : IsEndedRun(length) => length <= stats.worst
          /\ stats.worst = 0 \/ IsEndedRun(stats.worst)
  /\ (Ready /\ "wrap" \notin hits) =>
       (HashmapIterator(TRUE, Keys).faults <=> "null" \in hits)

=============================================================================
