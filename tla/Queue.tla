-------------------------------- MODULE Queue --------------------------------
(***************************************************************************)
(* The queue of dse/clib/collections/queue.c, a doubly linked list of      *)
(* nodes on the heap.  Data are pointers that the queue passes on.         *)
(***************************************************************************)
EXTENDS Naturals, Sequences

CONSTANTS
  NodeIds,    (* nodes that can be allocated                               *)
  Data,
  NoId,       (* a NULL link                                               *)
  FreeNode    (* a node that is not allocated                              *)

Links == NodeIds \cup {NoId}
Nodes == [data : Data, next : Links, prev : Links]

ASSUME NodeAssumption == NoId \notin NodeIds /\ FreeNode \notin Nodes

VARIABLES
  node,       (* the heap: id -> node                                      *)
  head, tail, elms,
  freeing,    (* q_free_alt is in its loop ...                             *)
  n,          (* ... and at this node                                      *)
  queued,     (* history: what was pushed and not popped, oldest first,    *)
  order       (* and the nodes it was put in                               *)

queueVars == <<node, head, tail, elms, freeing, n, queued, order>>

(* q_push; it fails without memory, and changes nothing.                   *)
QPush(id, x) ==
  LET new == [data |-> x, next |-> NoId, prev |-> IF elms = 0 THEN NoId ELSE tail]
  IN /\ ~freeing /\ node[id] = FreeNode
     /\ node' = [i \in NodeIds |->
          CASE i = id -> new
            [] i # id /\ elms # 0 /\ i = tail -> [node[i] EXCEPT !.next = id]
            [] OTHER -> node[i]]
     /\ head' = IF elms = 0 THEN id ELSE head
     /\ tail' = id
     /\ elms' = elms + 1
     /\ queued' = Append(queued, x) /\ order' = Append(order, id)
     /\ UNCHANGED <<freeing, n>>

(* q_pop and q_pop_alt: the last node, or the first of several.            *)
QPopLast ==
  /\ ~freeing /\ elms = 1
  /\ head' = NoId /\ tail' = NoId
  /\ node' = [node EXCEPT ![head] = FreeNode]
  /\ elms' = 0
  /\ queued' = Tail(queued) /\ order' = Tail(order)
  /\ UNCHANGED <<freeing, n>>
QPopFirstLinked ==
  LET new == node[head].next IN
  /\ ~freeing /\ elms > 1
  /\ head' = new
  /\ node' = [node EXCEPT ![head] = FreeNode]
  /\ elms' = elms - 1
  /\ queued' = Tail(queued) /\ order' = Tail(order)
  /\ UNCHANGED <<tail, freeing, n>>
QPopFirst ==
  LET new == node[head].next IN
  /\ ~freeing /\ elms > 1
  /\ head' = new
  /\ node' = [node EXCEPT ![head] = FreeNode, ![new].prev = NoId]
  /\ elms' = elms - 1
  /\ queued' = Tail(queued) /\ order' = Tail(order)
  /\ UNCHANGED <<tail, freeing, n>>

(* q_free_alt, and q_init of another queue: its loop, node by node.        *)
QFree ==
  /\ ~freeing
  /\ freeing' = TRUE /\ n' = head
  /\ UNCHANGED <<node, head, tail, elms, queued, order>>
QFreeNode ==
  /\ freeing /\ n # NoId
  /\ n' = node[n].next
  /\ node' = [node EXCEPT ![n] = FreeNode]
  /\ queued' = Tail(queued) /\ order' = Tail(order)
  /\ UNCHANGED <<head, tail, elms, freeing>>
QFreed ==
  /\ freeing /\ n = NoId
  /\ head' = NoId /\ tail' = NoId /\ elms' = 0
  /\ freeing' = FALSE
  /\ queued' = <<>> /\ order' = <<>>
  /\ UNCHANGED <<node, n>>

QueueInit ==
  /\ node = [id \in NodeIds |-> FreeNode]
  /\ head = NoId /\ tail = NoId /\ elms = 0
  /\ freeing = FALSE /\ n = NoId
  /\ queued = <<>> /\ order = <<>>

QueueNext ==
  \/ \E id \in NodeIds, x \in Data : QPush(id, x)
  \/ QPopLast \/ QPopFirst
  \/ QFree \/ QFreeNode \/ QFreed

QueueSpec == QueueInit /\ [][QueueNext]_queueVars

-----------------------------------------------------------------------------
(* Properties.                                                             *)

QueueTypeOK ==
  /\ node \in [NodeIds -> Nodes \cup {FreeNode}]
  /\ head \in Links /\ tail \in Links /\ n \in Links
  /\ elms \in Nat /\ freeing \in BOOLEAN
  /\ queued \in Seq(Data) /\ order \in Seq(NodeIds)

(* The nodes on the heap are those of the queued data, each once.          *)
NoneLost ==
  /\ Len(order) = Len(queued)
  /\ \A i, j \in DOMAIN order : order[i] = order[j] => i = j
  /\ \A id \in NodeIds :
       node[id] # FreeNode <=> \E i \in DOMAIN order : order[i] = id

(* From the first node on the next links lead to the others in their       *)
(* order, and the prev links back.                                         *)
IdAt(i) == IF i \in DOMAIN order THEN order[i] ELSE NoId
ChainHolds ==
  \A i \in DOMAIN order :
    /\ node[order[i]].data = queued[i]
    /\ node[order[i]].next = IdAt(i + 1)
    /\ (i > 1 \/ ~freeing) => node[order[i]].prev = IdAt(i - 1)

(* First in, first out: from either end the links lead through the queued  *)
(* data, in their order and in the opposite, and through every node on the *)
(* heap; so none is lost, no link leads to one that was freed, and q_free  *)
(* frees them all, each before it is gone.                                 *)
FirstInFirstOut ==
  /\ QueueTypeOK
  /\ NoneLost
  /\ ChainHolds
  /\ IF freeing THEN n = IdAt(1)
     ELSE head = IdAt(1) /\ tail = IdAt(Len(order)) /\ elms = Len(order)

=============================================================================
