--------------------------- MODULE VectorEntries ---------------------------
(***************************************************************************)
(* What a vector promises: a sequence of entries, each an item under a     *)
(* key.  Capacity, storage and what a slot held before do not show.        *)
(* Vector.tla implements this module.                                      *)
(***************************************************************************)
EXTENDS Naturals, Sequences

CONSTANTS Keys, Items

VARIABLE entries

Entry == [key : Keys, item : Items]

Init == entries = <<>>

Push(e) == entries' = Append(entries, e)

Pop == entries # <<>> /\ entries' = SubSeq(entries, 1, Len(entries) - 1)

Set(i, e) == entries' = [entries EXCEPT ![i] = e]

DeleteAt(i) ==
  entries' = [j \in 1..Len(entries) - 1 |-> entries[IF j < i THEN j ELSE j + 1]]

(* Entries of the same key stay in their order.                            *)
Sort ==
  \E p \in [DOMAIN entries -> DOMAIN entries] :
    /\ \A i \in DOMAIN p, j \in DOMAIN p :
         i < j => LET a == entries[p[i]].key
                      b == entries[p[j]].key
                  IN a < b \/ (a = b /\ p[i] < p[j])
    /\ entries' = [i \in DOMAIN p |-> entries[p[i]]]

Clear == entries' = <<>>

Next ==
  \/ \E e \in Entry : Push(e)
  \/ Pop
  \/ \E i \in DOMAIN entries, e \in Entry : Set(i, e)
  \/ \E i \in DOMAIN entries : DeleteAt(i)
  \/ Sort
  \/ Clear

Spec == Init /\ [][Next]_entries

=============================================================================
