---------------------------- MODULE MCCollections ----------------------------
(***************************************************************************)
(* Vectors of both forms, queues, hash lists, and functions mapped over    *)
(* containers.  They do not interact, so a behaviour is one of a single    *)
(* part, chosen in the initial state, while the others wait in theirs.     *)
(*                                                                         *)
(* A list has up to four entries, whose keys hash to both ends of a table; *)
(* it grows from one slot to eight.                                        *)
(***************************************************************************)
EXTENDS Vector, Queue, HashList, Functional

CONSTANTS d, e

VARIABLE part

MCKeys == 0..3
MCNodeIds == 1..4

(* Functions that make objects of every kind, one or two of them, that     *)
(* pass their object on, once or twice, and that drop some or all.         *)
Function(makes, copies, list, drops, destroy) ==
  [makes |-> makes, copies |-> copies, list |-> list, drops |-> drops, destroy |-> destroy]
MCFunctions == {
  Function(TRUE, 1, FALSE, {}, "whole"), Function(TRUE, 1, FALSE, {2}, "block"),
  Function(TRUE, 1, FALSE, {}, "none"), Function(FALSE, 1, FALSE, {1}, "none"),
  Function(TRUE, 2, TRUE, {}, "whole"), Function(FALSE, 2, TRUE, {2}, "none"),
  Function(FALSE, 1, FALSE, 1..9, "none")}
MCInputs == {<<>>, <<1>>, <<2, 1>>, <<1, 2, 1>>}

CollectionsInit ==
  /\ part \in {"vector", "queue", "list", "functions"}
  /\ VectorInit /\ QueueInit /\ ListInit
  /\ part # "vector" => ~soa
  /\ part # "list" => numberNodes = 1 /\ hash = [k \in Keys |-> 0]
  /\ FunctionalInit
  /\ part # "functions" =>
       /\ functor.entries = <<>> /\ start.container = "array" /\ start.fold = "none"
       /\ start.funcs = <<Function(FALSE, 1, FALSE, {1}, "none")>>

CollectionsNext ==
  /\ UNCHANGED part
  /\ \/ part = "vector" /\ VectorNext /\ UNCHANGED <<queueVars, listVars, functionalVars>>
     \/ part = "queue" /\ QueueNext /\ UNCHANGED <<vectorVars, listVars, functionalVars>>
     \/ part = "list" /\ ListNext /\ UNCHANGED <<vectorVars, queueVars, functionalVars>>
     \/ part = "functions" /\ FunctionalNext /\ UNCHANGED <<vectorVars, queueVars, listVars>>

CollectionsSpec ==
  CollectionsInit
  /\ [][CollectionsNext]_<<part, vectorVars, queueVars, listVars, functionalVars>>

=============================================================================
