------------------------------ MODULE HashList ------------------------------
(***************************************************************************)
(* The list of dse/clib/collections/hashlist.h: a hash map under the keys  *)
(* 0, 1, 2, ..., of which the next is the map's counter of nodes.  An      *)
(* append is a set of the map, with its growth, here step by step as in    *)
(* HashMap; nothing is ever removed but all of it.                         *)
(***************************************************************************)
EXTENDS HashMap, Sequences

(* A key is the number that it prints.                                     *)
ASSUME ListKeysAssumption == Keys \subseteq Nat /\ 0..MaxUsed - 1 \subseteq Keys

VARIABLE
  appended   (* history: the values appended and not lost, in their order      *)

listVars == <<vars, appended>>

(* hashlist_length, and the hashlist_at of a place from one on.            *)
Length == usedNodes
EntryAt(i) == HashmapGet(i - 1)

(* hashlist_append; NULL is not appended.  One to a full table that cannot *)
(* grow is lost, and the caller does not learn of it.                      *)
NextKeyFromOne == usedNodes + 1
NextKey == usedNodes
AppendEntry(v) ==
  /\ v # Null
  /\ \/ /\ HashmapSet(NextKey, v) \/ HashmapSetGrow(NextKey, v)
        /\ appended' = Append(appended, v)
     \/ /\ HashmapSetNoMemory(NextKey, v)
        /\ appended' = IF usedNodes = numberNodes THEN appended ELSE Append(appended, v)

(* The growth of the map goes on.                                          *)
Growth == (GrowVisit \/ GrowAgain \/ GrowDone) /\ UNCHANGED appended

(* hashlist_ntl: the entries, and a last one of zero bytes.                *)
Ntl == [i \in 1..Length + 1 |-> IF i <= Length THEN EntryAt(i) ELSE Null]

(* hashlist_destroy, hashlist_destroy_ext and hashlist_ntl; hashlist_init. *)
Destroy == HashmapDestroy /\ appended' = <<>>
Make(n) == HashmapInit(n) /\ UNCHANGED appended

ListInit == Init /\ appended = <<>>

ListNext ==
  \/ \E v \in Values : AppendEntry(v)
  \/ Growth
  \/ Destroy
  \/ \E n \in Sizes : Make(n)

ListSpec == ListInit /\ [][ListNext]_listVars

-----------------------------------------------------------------------------
(* Properties.                                                             *)

(* An entry is where it was appended, whatever the keys hash to and        *)
(* however often the map has grown since or has failed to; the length      *)
(* counts the entries, and the array of them has each once.                *)
EntriesInOrder ==
  Ready =>
    /\ Length = Len(appended)
    /\ Ntl = Append(appended, Null)
    /\ \A k \in Keys : k >= Length => EntryAt(k + 1) = Null

(* What it rests on, besides IInv of the map: no node is ever lost, and    *)
(* what is held is what was appended.  The entry that waits for a growth   *)
(* has the next key; until then there is no node beyond the counted ones,  *)
(* and the larger table has room.                                          *)
ListInv ==
  /\ IInv
  /\ pc # "shift" /\ hits \subseteq {"nomem"}
  /\ appended \in Seq(Values \ {Null})
  /\ usedNodes <= MaxUsed
  /\ \A i \in Occupied(nodes) : nodes[i].key < usedNodes
  /\ \A k \in Keys : held[k] = IF k < usedNodes THEN appended[k + 1] ELSE Null
  /\ IF pc = "grow"
     THEN /\ usedNodes < MaxUsed /\ usedNodes < numberNodes
          /\ appended[usedNodes + 1] = call.value /\ call.key = usedNodes
          /\ Len(appended) = usedNodes + 1
     ELSE Len(appended) = usedNodes

=============================================================================
