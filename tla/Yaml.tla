-------------------------------- MODULE Yaml --------------------------------
(***************************************************************************)
(* Loading YAML documents, and finding nodes in them: the event loop of    *)
(* dse/clib/util/yaml.c over the events that libyaml makes of a file.  The *)
(* loop has no stack: where it is in a document is one pointer, and what   *)
(* an event means depends on the type of the node it points to.            *)
(*                                                                         *)
(* A mapping is a hash map in the code and a function here.  Events the    *)
(* loop ignores or stops at by an assertion (aliases, a sequence that is   *)
(* an item of a sequence, keys that are no scalars) do not occur.          *)
(***************************************************************************)
EXTENDS Integers, FiniteSets, SequencesExt

CONSTANTS
  Strings,   (* scalars, and the keys of mappings                          *)
  Kind,      (* the string "kind"                                          *)
  Ids,       (* addresses of nodes                                         *)
  Nil,
  MaxDocs,   (* bound: documents in the list                               *)
  MaxLost,   (* bound: nodes lost by errors                                *)
  MaxPath    (* bound: names of a path                                     *)

ASSUME NilAssumption == Nil \notin Ids /\ Nil \notin Strings /\ Kind \in Strings
ASSUME BoundsAssumption == MaxDocs \in Nat /\ MaxPath \in Nat /\ MaxLost \in Nat

VARIABLES
  heap,      (* the nodes; Freed where there is none                       *)
  docs,      (* doc_list                                                   *)
  doc,       (* the locals of _parse_file: the document that is parsed,    *)
  node,      (* and the node the next event belongs to                     *)
  grammar,   (* what libyaml may send next, per level of nesting           *)
  lost       (* history: nodes of documents that had an error              *)

yamlVars == <<heap, docs, doc, node, grammar, lost>>

Freed == [type |-> "freed"]
Blank(name, parent) ==
  [type |-> "none", name |-> name, scalar |-> Nil, parent |-> parent,
   mapping |-> [s \in Strings |-> Nil], sequence |-> <<>>]
Live == {n \in Ids : heap[n] # Freed}

Children(n) ==
  CASE heap[n].type = "map" -> {heap[n].mapping[s] : s \in Strings} \ {Nil}
    [] heap[n].type = "seq" -> ToSet(heap[n].sequence)
    [] OTHER -> {}

(* _destroy_node frees a node and all below it: the least set that has the *)
(* node and, with each of its nodes, their children.                       *)
Reached(children, n) ==
  {m \in Ids : n # Nil /\
     \A S \in SUBSET Ids : n \in S /\ (\A x \in S : children[x] \subseteq S) => m \in S}
Subtree(n) == Reached([m \in Ids |-> Children(m)], n)
Forest(roots) == UNION {Subtree(n) : n \in roots}
Without(gone) == [n \in Ids |-> IF n \in gone THEN Freed ELSE heap[n]]

(* _create_node, for the parent at which the loop is.  In a mapping it     *)
(* first removes and destroys the node its key had.                        *)
Fresh == CHOOSE n \in Ids : heap[n] = Freed
Former(name) ==
  IF node # Nil /\ heap[node].type = "map" THEN heap[node].mapping[name] ELSE Nil
Attached(parent, name) ==
  IF parent.type = "map" THEN [parent EXCEPT !.mapping[name] = Fresh]
  ELSE [parent EXCEPT !.sequence = Append(@, Fresh)]
CreateNodeOver(name) ==
  [n \in Ids |-> CASE n = Fresh -> Blank(name, node)
                   [] n = node -> Attached(heap[n], name)
                   [] OTHER -> heap[n]]
CreateNode(name) ==
  [n \in Ids |-> CASE n = Fresh -> Blank(name, node)
                   [] n = node -> Attached(heap[n], name)
                   [] n \in Subtree(Former(name)) -> Freed
                   [] OTHER -> heap[n]]

(* _set_node_scalar, _set_node_mapping, _set_node_sequence                 *)
SetNodeScalar(table, n, s) == [table EXCEPT ![n].type = "scalar", ![n].scalar = s]
SetNodeMapping(table, n) == [table EXCEPT ![n].type = "map"]
SetNodeSequence(table, n) == [table EXCEPT ![n].type = "seq"]

-----------------------------------------------------------------------------
(* libyaml.  A level expects the root of the document, a key, the value    *)
(* of a key, an item of a sequence, or the end of the document.            *)

Expects == Last(grammar)
TakesValue == grammar # <<>> /\ Expects \in {"root", "value", "item"}
AfterValue ==
  Append(Front(grammar), CASE Expects = "root" -> "end"
                           [] Expects = "value" -> "key"
                           [] OTHER -> "item")

-----------------------------------------------------------------------------
YamlInit ==
  /\ heap = [n \in Ids |-> Freed]
  /\ docs = <<>>
  /\ doc = Nil /\ node = Nil
  /\ grammar = <<>>
  /\ lost = {}

Room == Live # Ids

DocumentStart ==
  /\ grammar = <<>> /\ Room /\ Len(docs) < MaxDocs
  /\ heap' = [heap EXCEPT ![Fresh] = Blank(Nil, Nil)]
  /\ doc' = Fresh /\ node' = Fresh
  /\ grammar' = <<"root">>
  /\ UNCHANGED <<docs, lost>>

DocumentEnd ==
  /\ grammar = <<"end">>
  /\ docs' = Append(docs, doc)
  /\ doc' = Nil /\ node' = Nil
  /\ grammar' = <<>>
  /\ UNCHANGED <<heap, lost>>

(* A key, an item of a sequence, or the value of the node that is open.    *)
ScalarStays(s) ==
  /\ TakesValue \/ (grammar # <<>> /\ Expects = "key")
  /\ grammar' = IF Expects = "key" THEN Append(Front(grammar), "value") ELSE AfterValue
  /\ CASE heap[node].type = "map" ->
            /\ Room
            /\ heap' = CreateNode(s)
            /\ node' = Fresh
       [] heap[node].type = "seq" ->
            /\ Room
            /\ heap' = SetNodeScalar(CreateNode(s), Fresh, s)
            /\ node' = node
       [] OTHER ->
            /\ heap' = SetNodeScalar(heap, node, s)
            /\ node' = doc
  /\ UNCHANGED <<docs, doc, lost>>
Scalar(s) ==
  /\ TakesValue \/ (grammar # <<>> /\ Expects = "key")
  /\ grammar' = IF Expects = "key" THEN Append(Front(grammar), "value") ELSE AfterValue
  /\ CASE heap[node].type = "map" ->
            /\ Room
            /\ heap' = CreateNode(s)
            /\ node' = Fresh
       [] heap[node].type = "seq" ->
            /\ Room
            /\ heap' = SetNodeScalar(CreateNode(s), Fresh, s)
            /\ node' = node
       [] OTHER ->
            /\ heap' = SetNodeScalar(heap, node, s)
            /\ node' = heap[node].parent
  /\ UNCHANGED <<docs, doc, lost>>

(* A mapping that is an item of a sequence gets a node of its own.         *)
MappingStart ==
  /\ TakesValue
  /\ grammar' = Append(AfterValue, "key")
  /\ IF heap[node].type = "seq"
     THEN /\ Room
          /\ heap' = SetNodeMapping(CreateNode(Nil), Fresh)
          /\ node' = Fresh
     ELSE heap' = SetNodeMapping(heap, node) /\ UNCHANGED node
  /\ UNCHANGED <<docs, doc, lost>>

SequenceStart ==
  /\ TakesValue /\ Expects # "item"
  /\ grammar' = Append(AfterValue, "item")
  /\ heap' = SetNodeSequence(heap, node)
  /\ UNCHANGED <<docs, doc, node, lost>>

(* YAML_MAPPING_END_EVENT and YAML_SEQUENCE_END_EVENT                      *)
CollectionEnd ==
  /\ grammar # <<>> /\ Expects \in {"key", "item"}
  /\ grammar' = Front(grammar)
  /\ node' = heap[node].parent
  /\ UNCHANGED <<heap, docs, doc, lost>>

(* The parser finds an error: the document so far is forgotten.            *)
ParseError ==
  /\ grammar # <<>> /\ Cardinality(lost \cup Subtree(doc)) <= MaxLost
  /\ lost' = lost \cup Subtree(doc)
  /\ doc' = Nil /\ node' = Nil
  /\ grammar' = <<>>
  /\ UNCHANGED <<heap, docs>>

(* Destroying the documents of a list behind the first n.                  *)
Keep(n) ==
  /\ grammar = <<>> /\ n <= Len(docs)
  /\ docs' = SubSeq(docs, 1, n)
  /\ heap' = Without(Forest({docs[i] : i \in n + 1..Len(docs)}))
  /\ UNCHANGED <<doc, node, grammar, lost>>

(* dse_yaml_destroy_doc_list; and dse_yaml_load_single_doc, which keeps    *)
(* the first document.  (In the code its list is always a new one.)        *)
DestroyDocList == Keep(0)
LoadSingleDoc == Keep(1)

YamlNext ==
  \/ DocumentStart \/ DocumentEnd
  \/ \E s \in Strings : Scalar(s)
  \/ MappingStart \/ SequenceStart \/ CollectionEnd
  \/ ParseError
  \/ DestroyDocList \/ LoadSingleDoc

YamlSpec == YamlInit /\ [][YamlNext]_yamlVars

-----------------------------------------------------------------------------
(* dse_yaml_find_node: a name of the path for every step down a mapping.   *)
(* At a node that is no mapping the last name of the path is passed over.  *)
FindNodeAny(root, path) ==
  LET Down[i \in 0..Len(path)] ==
        IF i = 0 THEN root
        ELSE LET n == Down[i - 1] IN
             CASE n = Nil -> Nil
               [] heap[n].type = "map" -> heap[n].mapping[path[i]]
               [] OTHER -> n
  IN Down[Len(path)]
FindNode(root, path) ==
  LET Down[i \in 0..Len(path)] ==
        IF i = 0 THEN root
        ELSE LET n == Down[i - 1] IN
             CASE n = Nil -> Nil
               [] heap[n].type = "map" -> heap[n].mapping[path[i]]
               [] heap[n].type \in {"seq", "scalar"} /\ i = Len(path) -> n
               [] OTHER -> Nil
  IN Down[Len(path)]

GetScalar(root, path) ==
  LET n == FindNode(root, path) IN IF n = Nil THEN Nil ELSE heap[n].scalar

(* dse_yaml_get_array: the names of the items, which are those of scalars. *)
(* The path must lead to a node, which the code does not check.            *)
GetArray(root, path) ==
  LET items == heap[FindNode(root, path)].sequence
  IN [j \in DOMAIN items |-> heap[items[j]].name]

(* The selectors of a search, and what passes them all.                    *)
Passes(n, selectors) == \A sel \in selectors : GetScalar(n, sel.path) = sel.value

(* dse_yaml_find_node_in_seq                                               *)
FindNodeInSeq(root, path, selectors) ==
  LET seq == FindNode(root, path)
      hits == IF seq = Nil THEN {}
              ELSE {j \in DOMAIN heap[seq].sequence : Passes(heap[seq].sequence[j], selectors)}
  IN IF hits = {} THEN Nil ELSE heap[seq].sequence[Min(hits)]

(* The searches in a list of documents, for the first in which one finds   *)
(* something.  A document without a kind is of every kind.                 *)
OfKind(root, kind) == GetScalar(root, <<Kind>>) \in {Nil, kind}
FindInDoclist(kind, Search(_)) ==
  LET hits == {i \in DOMAIN docs : OfKind(docs[i], kind) /\ Search(docs[i]) # Nil}
  IN IF hits = {} THEN Nil ELSE Search(docs[Min(hits)])

FindNodeInDoclist(kind, path) ==
  FindInDoclist(kind, LAMBDA root : FindNode(root, path))
FindDocInDoclist(kind, selectors) ==
  FindInDoclist(kind, LAMBDA root : IF Passes(root, selectors) THEN root ELSE Nil)
FindNodeInSeqInDoclist(kind, path, sel) ==
  FindInDoclist(kind, LAMBDA root : FindNodeInSeq(root, path, {sel}))

-----------------------------------------------------------------------------
(* Properties.                                                             *)

(* The variables have their types: no pointer leads to a node that was     *)
(* freed.                                                                  *)
YamlTypeOK ==
  /\ \A n \in Live :
       /\ heap[n].type \in {"none", "scalar", "map", "seq"}
       /\ heap[n].parent \in Ids \cup {Nil}
       /\ heap[n].scalar \in Strings <=> heap[n].type = "scalar"
       /\ Children(n) \subseteq Live
  /\ ToSet(docs) \cup ({doc, node} \ {Nil}) \cup lost \subseteq Live
  /\ (doc = Nil) = (grammar = <<>>)

(* Every node that is allocated is in one place: in a document of the      *)
(* list, in the one that is parsed, or in one an error made the loop       *)
(* forget.  It has one holder, which is its parent, so that destroying a   *)
(* document frees each of its nodes once, and no other.  A key that comes  *)
(* again, the order of the events and the caller's choice of documents     *)
(* could all break this.  A node that is given a value has none before, as *)
(* the constructors assert.                                                *)
HeldOnce ==
  LET Holders(n) == {p \in Live : n \in Children(p)}
      roots == ToSet(docs) \cup ({doc} \ {Nil})
  IN /\ YamlTypeOK
     /\ Live = Forest(roots) \cup lost
     /\ Forest(roots) \cap lost = {}
     /\ \A n \in Live : Holders(n) = {heap[n].parent} \ {Nil}
     /\ \A n \in Live : heap[n].type = "seq" => IsInjective(heap[n].sequence)
     /\ (TakesValue /\ Expects # "item") => heap[node].type = "none"

(* The value a node stands for.                                            *)
Tree[n \in Ids] ==
  CASE heap[n].type = "scalar" ->
         [kind |-> "scalar", of |-> heap[n].scalar]
    [] heap[n].type = "map" ->
         [kind |-> "map",
          of |-> [s \in {s \in Strings : heap[n].mapping[s] # Nil} |->
                    Tree[heap[n].mapping[s]]]]
    [] heap[n].type = "seq" ->
         [kind |-> "seq",
          of |-> [i \in DOMAIN heap[n].sequence |-> Tree[heap[n].sequence[i]]]]
    [] OTHER -> Nil

(* The value at the end of a path.                                         *)
Lookup(value, path) ==
  LET Down[i \in 0..Len(path)] ==
        IF i = 0 THEN value
        ELSE LET above == Down[i - 1] IN
             IF above # Nil /\ above.kind = "map" /\ path[i] \in DOMAIN above.of
             THEN above.of[path[i]]
             ELSE Nil
  IN Down[Len(path)]

Paths == UNION {[1..m -> Strings] : m \in 1..MaxPath}
ShortPaths == {path \in Paths : Len(path) < MaxPath}
Selectors == [path : {path \in Paths : Len(path) < MaxPath - 1}, value : Strings]
Selections == {{sel, other} : sel \in Selectors, other \in Selectors} \cup {{}}

(* A path means the value at its end, and the scalar or sequence one name  *)
(* before it: so one that is two names too long means nothing.             *)
MeantBy(value, path) ==
  LET short == Lookup(value, Front(path))
  IN IF Lookup(value, path) = Nil /\ short # Nil /\ short.kind # "map" THEN short
     ELSE Lookup(value, path)
Fits(value, selectors) ==
  \A sel \in selectors : MeantBy(value, sel.path) = [kind |-> "scalar", of |-> sel.value]
Items(value, path) ==
  LET seq == MeantBy(value, path)
  IN IF seq # Nil /\ seq.kind = "seq" THEN seq.of ELSE <<>>
ScalarsOf(items) ==
  [i \in DOMAIN items |-> IF items[i].kind = "scalar" THEN items[i].of ELSE Nil]
IsOfKind(value, kind) ==
  LET own == MeantBy(value, <<Kind>>)
  IN own = Nil \/ own.kind # "scalar" \/ own.of = kind
FirstOf(values, Test(_)) ==
  LET hits == SelectSeq(values, Test) IN IF hits = <<>> THEN Nil ELSE Head(hits)

(* Every search finds the first value, in the order of the file, that the  *)
(* path and the selectors mean, and nothing when there is none: in one     *)
(* document, among the items of a sequence, and in the documents of a kind *)
(* or of none.  An array has the scalars of a sequence, and a gap for each *)
(* other item.  The searches walk nodes that the loop has built, freed and *)
(* replaced by others of the same name.                                    *)
SearchesFind ==
  (grammar = <<>> /\ docs # <<>>) =>
    LET values == [i \in DOMAIN docs |-> Tree[docs[i]]]
        TreeOf(n) == IF n = Nil THEN Nil ELSE Tree[n]
    IN /\ \A i \in DOMAIN docs, path \in Paths :
            /\ TreeOf(FindNode(docs[i], path)) = MeantBy(values[i], path)
            /\ FindNode(docs[i], path) # Nil =>
                 GetArray(docs[i], path) = ScalarsOf(Items(values[i], path))
       /\ \A i \in DOMAIN docs, path \in ShortPaths, selectors \in Selections :
            Items(values[i], path) # <<>> =>
              TreeOf(FindNodeInSeq(docs[i], path, selectors)) =
                FirstOf(Items(values[i], path), LAMBDA v : Fits(v, selectors))
       /\ \A kind \in Strings :
            LET of == SelectSeq(values, LAMBDA v : IsOfKind(v, kind)) IN
            /\ \A selectors \in Selections :
                 TreeOf(FindDocInDoclist(kind, selectors)) =
                   FirstOf(of, LAMBDA v : Fits(v, selectors))
            /\ \A path \in ShortPaths :
                 TreeOf(FindNodeInDoclist(kind, path)) =
                   FirstOf([i \in DOMAIN of |-> MeantBy(of[i], path)], LAMBDA v : v # Nil)
            /\ \A path \in ShortPaths, sel \in Selectors :
                 TreeOf(FindNodeInSeqInDoclist(kind, path, sel)) =
                   FirstOf(FlattenSeq([i \in DOMAIN of |-> Items(of[i], path)]),
                           LAMBDA v : Fits(v, {sel}))

(* The frames the loop has open: those of the nodes above the one it is    *)
(* at, without the child that is not complete.                             *)
Above(n) ==
  LET Up[d \in 0..Cardinality(Ids)] ==
        IF d = 0 THEN <<n>>
        ELSE LET lower == Up[d - 1]
             IN IF lower[1] = Nil THEN lower
                ELSE <<heap[lower[1]].parent>> \o lower
  IN Tail(Up[Cardinality(Ids)])
OpenFrame(n, next) ==
  IF heap[n].type = "map"
  THEN [kind |-> "map",
        of |-> [s \in {s \in Strings : heap[n].mapping[s] \notin {Nil, next}} |->
                  Tree[heap[n].mapping[s]]],
        key |-> IF next = Nil THEN Nil ELSE heap[next].name]
  ELSE [kind |-> "seq",
        of |-> LET items == SelectSeq(heap[n].sequence, LAMBDA m : m # next)
               IN [i \in DOMAIN items |-> Tree[items[i]]],
        key |-> Nil]
Frames ==
  IF doc = Nil THEN <<>>
  ELSE LET path == IF node = Nil THEN <<>> ELSE Above(node)
           inner == SelectSeq(path, LAMBDA n : heap[n].type \in {"map", "seq"})
           Next1(i) == IF i = Len(path) THEN Nil ELSE path[i + 1]
       IN <<[kind |-> "doc", of |-> IF node = Nil THEN Tree[doc] ELSE Nil,
             key |-> Nil]>>
          \o [i \in DOMAIN inner |-> OpenFrame(inner[i], Next1(i))]

Abstract == INSTANCE YamlDocs WITH
  docs <- [i \in DOMAIN docs |-> Tree[docs[i]]], open <- Frames, None <- Nil

(* The loop, with one pointer in place of a stack, reads the events as the *)
(* grammar of YAML means them: every key gets its own value, at its own    *)
(* level, and items stay in their order.                                   *)
ImplementsDocs == Abstract!Spec

=============================================================================
