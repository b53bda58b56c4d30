------------------------------ MODULE Functional ------------------------------
(***************************************************************************)
(* operation() of dse/clib/functional/functor.c with the maps and folds of *)
(* map_fold.c: functions are mapped one after the other over a container,  *)
(* and what the last one returned may be folded into an array.  The list   *)
(* between two maps is a hash list, of which HashList shows that it keeps  *)
(* its entries in order; here it is a sequence.                            *)
(*                                                                         *)
(* An object is a block with content of its own, say a string that it      *)
(* points to.  The caller's objects come first.  A function returns, for   *)
(* the object it is given, nothing, the object itself, or objects it has   *)
(* made; and how an object of its kind is destroyed.                       *)
(***************************************************************************)
EXTENDS Integers, FiniteSets, Sequences, SequencesExt

CONSTANTS
  Inputs,      (* values of the objects in the caller's container          *)
  Functions,   (* [makes, copies, list, drops, destroy]                    *)
  MaxFuncs     (* bound: functions of a call                               *)

ASSUME InputsAssumption == Inputs \subseteq Seq(Nat)

(* A function that makes nothing leaves nothing to destroy.  One that      *)
(* returns a hash list says so by a count of 0.                            *)
ASSUME FunctionsAssumption ==
  \A f \in Functions :
    /\ f.makes \in BOOLEAN /\ f.list \in BOOLEAN /\ f.copies \in Nat
    /\ f.destroy \in {"none", "block", "whole"}
    /\ ~f.makes => f.destroy = "none"
    /\ ~f.list => f.copies = 1

VARIABLES
  start,       (* start: [container, values, funcs, fold]                  *)
  step,        (* where operation() is: "map", "fold" or "done"            *)
  pass,        (* count: the function that is being mapped                 *)
  functor,     (* functor: [entries, count, destroy]                       *)
  mapped,      (* resultant, or list: what this map has so far ...         *)
  destroyFunc, (* ... and its destroy_func                                 *)
  place,       (* entries of the functor that have been mapped             *)
  object,      (* every object: its value, and how often its block and its *)
               (* content were freed                                       *)
  lists,       (* hash lists made and not destroyed, less any that was not *)
               (* made                                                     *)
  folded       (* the array of the fold, [value, of] with the object whose *)
               (* content an entry shares                                  *)

functionalVars ==
  <<start, step, pass, functor, mapped, destroyFunc, place, object, lists,
    folded>>

(* The maps differ in how they pass over the start.  An array has a count; *)
(* a list has none, as every list that operation() makes.  Only            *)
(* functional_map_ntlist takes a hash list from a function; the others     *)
(* would append the list itself.                                           *)
Usable(container, funcs) ==
  \A i \in DOMAIN funcs : funcs[i].list => i = 1 /\ container = "ntlist"
StartCount(container, entries) == IF container = "array" THEN Len(entries) ELSE 0

Object(value, func) == [value |-> value, by |-> func, blockFreed |-> 0, contentFreed |-> 0]

(* How often a list has an object.                                         *)
Times(entries, o) == Cardinality({i \in DOMAIN entries : entries[i] = o})

(* destroy of every entry of a list, or free of its block.                 *)
BlocksFreed(entries) ==
  [o \in DOMAIN object |-> [object[o] EXCEPT !.blockFreed = @ + Times(entries, o)]]
Destroyed(entries, destroy) ==
  [o \in DOMAIN object |->
     [object[o] EXCEPT
       !.blockFreed = IF destroy = "none" THEN @ ELSE @ + Times(entries, o),
       !.contentFreed = IF destroy = "whole" THEN @ + Times(entries, o) ELSE @]]

-----------------------------------------------------------------------------
(* One entry of a map: the function is called, and what it returns is      *)
(* appended.                                                               *)
Func == start.funcs[pass]
MapEntry ==
  LET o == functor.entries[place + 1]
      value == object[o].value
      many == IF value \in Func.drops THEN 0 ELSE Func.copies
      made == [i \in 1..many |-> Len(object) + i]
  IN /\ step = "map" /\ place < Len(functor.entries)
     /\ place' = place + 1
     /\ object' = IF Func.makes THEN object \o [i \in 1..many |-> Object(value + 1, pass)]
                  ELSE object
     /\ mapped' = mapped \o (IF Func.makes THEN made ELSE [i \in 1..many |-> o])
     /\ destroyFunc' = IF many = 0 /\ ~Func.list THEN destroyFunc ELSE Func.destroy
     /\ UNCHANGED <<start, step, pass, functor, lists, folded>>

(* functional_map_array, functional_map_ntlist and functional_map_hashlist: *)
(* the start has the map of its container, a list between maps the last.   *)
MapArray == pass = 1 /\ start.container = "array" /\ MapEntry
MapNtlist == pass = 1 /\ start.container = "ntlist" /\ MapEntry
MapHashlist == (pass > 1 \/ start.container = "hashlist") /\ MapEntry

(* operation(), behind a map: the functor before is cleaned up if it is a  *)
(* list, and not the caller's.                                             *)
IsOursAlways == functor.count = 0
IsOurs == pass > 1 /\ functor.count = 0
MapDone ==
  LET isLast == pass = Len(start.funcs) IN
  /\ step = "map" /\ place = Len(functor.entries)
  /\ object' = IF IsOurs THEN Destroyed(functor.entries, functor.destroy) ELSE object
  /\ lists' = IF IsOurs THEN lists ELSE lists + 1
  /\ functor' = [entries |-> mapped, count |-> 0, destroy |-> destroyFunc]
  /\ mapped' = <<>> /\ destroyFunc' = "none" /\ place' = 0
  /\ pass' = pass + 1
  /\ step' = IF ~isLast THEN "map" ELSE IF start.fold # "none" THEN "fold" ELSE "done"
  /\ UNCHANGED <<start, folded>>

(* The fold in operation(): the objects have been copied, and it frees     *)
(* their blocks only.                                                      *)
Fold(array, count) ==
  /\ step = "fold"
  /\ folded' = array
  /\ object' = IF functor.destroy # "none" THEN BlocksFreed(functor.entries) ELSE object
  /\ lists' = lists - 1
  /\ functor' = [entries |-> <<>>, count |-> count, destroy |-> "none"]
  /\ step' = "done"
  /\ UNCHANGED <<start, pass, mapped, destroyFunc, place>>

(* functional_fold_array, and functional_fold_ntlist with zeros at the end. *)
End == [value |-> 0, of |-> 0]
Copied ==
  [i \in DOMAIN functor.entries |->
     [value |-> object[functor.entries[i]].value, of |-> functor.entries[i]]]
FoldArray == start.fold = "array" /\ Fold(Copied, Len(Copied))
FoldNtlist == start.fold = "ntlist" /\ Fold(Append(Copied, End), Len(Copied))

FunctionalInit ==
  \E container \in {"array", "ntlist", "hashlist"}, fold \in {"none", "array", "ntlist"},
     values \in Inputs, n \in 1..MaxFuncs : \E funcs \in [1..n -> Functions] :
    /\ Usable(container, funcs)
    /\ start = [container |-> container, values |-> values, funcs |-> funcs, fold |-> fold]
    /\ object = [i \in DOMAIN values |-> Object(values[i], 0)]
    /\ functor = [entries |-> [i \in DOMAIN values |-> i], destroy |-> "none",
                  count |-> StartCount(container, values)]
    /\ step = "map" /\ pass = 1
    /\ mapped = <<>> /\ destroyFunc = "none" /\ place = 0
    /\ lists = 0 /\ folded = <<>>

(* operation() has returned.                                               *)
Returned == step = "done" /\ UNCHANGED functionalVars

FunctionalNext ==
  \/ MapArray \/ MapNtlist \/ MapHashlist \/ MapDone
  \/ FoldArray \/ FoldNtlist \/ Returned

-----------------------------------------------------------------------------
(* Properties.                                                             *)

(* What the functions mean, one after the other.                           *)
MeantBy(func, values) ==
  FlattenSeq([i \in DOMAIN values |->
    IF values[i] \in func.drops THEN <<>>
    ELSE [c \in 1..func.copies |-> IF func.makes THEN values[i] + 1 ELSE values[i]]])
After(values, funcs) ==
  LET after[i \in 0..Len(funcs)] ==
        IF i = 0 THEN values ELSE MeantBy(funcs[i], after[i - 1])
  IN after
Meant == After(start.values, start.funcs)[Len(start.funcs)]

(* A function that passes on objects which the map before it has made to   *)
(* be destroyed, borrows what is gone when its map ends; no test does that *)
(* and no operation works with it.                                         *)
Borrows ==
  \E i \in 2..Len(start.funcs) :
    ~start.funcs[i].makes /\ start.funcs[i - 1].destroy # "none"

(* However functions that make, pass on, multiply and drop objects follow  *)
(* each other, nothing is freed twice, and the caller's objects never; no  *)
(* list has an object whose block is gone.  In the end the result is what  *)
(* the functions mean, it has the content that its objects had, and every  *)
(* other object is destroyed if its function said how.                     *)
PassesOwn ==
  /\ \A o \in DOMAIN object :
       /\ object[o].contentFreed <= object[o].blockFreed
       /\ object[o].blockFreed <= IF object[o].by = 0 THEN 0 ELSE 1
  /\ ~Borrows =>
    LET held == Range(functor.entries) \cup Range(mapped)
        kept == {o \in DOMAIN object : \E i \in DOMAIN folded : folded[i].of = o}
        result == IF start.fold = "none"
                  THEN [i \in DOMAIN functor.entries |-> object[functor.entries[i]].value]
                  ELSE [i \in 1..functor.count |-> folded[i].value]
    IN /\ \A o \in held : object[o].blockFreed = 0
       /\ \A o \in kept : object[o].contentFreed = 0
       /\ step = "done" =>
            /\ lists = IF start.fold = "none" THEN 1 ELSE 0
            /\ result = Meant
            /\ start.fold = "ntlist" => Last(folded) = End
            /\ \A o \in DOMAIN object \ held :
                 LET destroy == IF object[o].by = 0 THEN "none"
                                ELSE start.funcs[object[o].by].destroy
                 IN /\ destroy # "none" => object[o].blockFreed = 1
                    /\ destroy = "whole" /\ o \notin kept => object[o].contentFreed = 1

=============================================================================
