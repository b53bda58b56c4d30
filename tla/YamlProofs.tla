----------------------------- MODULE YamlProofs -----------------------------
(***************************************************************************)
(* Proof that the event loop of Yaml neither leaks nor shares a node, and  *)
(* frees none twice, for any set of strings, nodes and bounds.             *)
(*                                                                         *)
(* Three things make the invariant.  The nodes are a grove: trees apart    *)
(* from each other under the roots, in which the parent of a node is its   *)
(* only holder.  Every node is well formed, and a child of a mapping has   *)
(* the name of its key.  And the one pointer of the loop is the top of a   *)
(* ladder of parents, with a rung for each level of the grammar: so an     *)
(* event finds the type of node it needs.  What _destroy_node frees is     *)
(* closed under children, so it is a branch or a whole tree, and never has *)
(* a rung of the ladder in it.                                             *)
(***************************************************************************)
EXTENDS Yaml, Induction, SequenceTheorems

-----------------------------------------------------------------------------
(* Graphs of nodes: who has whom for children.                             *)
Graphs == [Ids -> SUBSET Ids]
ClosedIn(children, S) == \A x \in S : children[x] \subseteq S
OneHolder(children) ==
  \A p, q \in Ids : \A x \in children[p] \cap children[q] : p = q
HasNoHolder(children, r) == \A p \in Ids : r \notin children[p]

(* What is reached from a node is the least closed set that has it.        *)
LEMMA ReachedIsClosed ==
  ASSUME NEW children \in Graphs, NEW r \in Ids
  PROVE  /\ Reached(children, r) \in SUBSET Ids /\ r \in Reached(children, r)
         /\ ClosedIn(children, Reached(children, r))
  <1>1. r # Nil
    BY NilAssumption
  <1>2. Reached(children, r) \in SUBSET Ids /\ r \in Reached(children, r)
    BY <1>1 DEF Reached
  <1>3. ASSUME NEW x \in Reached(children, r), NEW y \in children[x]
        PROVE  y \in Reached(children, r)
    <2>1. x \in Ids /\ y \in Ids
      BY <1>2, <1>3 DEF Graphs
    <2>2. ASSUME NEW S \in SUBSET Ids, r \in S, \A z \in S : children[z] \subseteq S
          PROVE  y \in S
      BY <1>3, <2>2 DEF Reached
    <2> QED
      BY <1>1, <2>1, <2>2 DEF Reached
  <1> QED
    BY <1>2, <1>3 DEF ClosedIn

LEMMA ReachedIsLeast ==
  ASSUME NEW children \in Graphs, NEW r \in Ids,
         NEW S \in SUBSET Ids, r \in S, ClosedIn(children, S)
  PROVE  Reached(children, r) \subseteq S
  BY DEF Reached, ClosedIn

LEMMA NullReachesNothing ==
  ASSUME NEW children PROVE Reached(children, Nil) = {}
  BY DEF Reached

(* A node that is reached and is not where that begins, has a holder that  *)
(* is reached.                                                             *)
LEMMA ReachedIsHeld ==
  ASSUME NEW children \in Graphs, NEW r \in Ids, NEW x \in Reached(children, r), x # r
  PROVE  \E p \in Reached(children, r) : x \in children[p]
  <1> DEFINE R == Reached(children, r)
  <1> SUFFICES ASSUME \A p \in R : x \notin children[p] PROVE FALSE
    OBVIOUS
  <1>1. R \in SUBSET Ids /\ r \in R /\ ClosedIn(children, R)
    BY ReachedIsClosed
  <1> HIDE DEF R
  <1>2. ClosedIn(children, R \ {x})
    BY <1>1 DEF ClosedIn
  <1>3. R \subseteq R \ {x}
    BY <1>1, <1>2, ReachedIsLeast DEF R
  <1> QED
    BY <1>3 DEF R

LEMMA ReachedWithin ==
  ASSUME NEW children \in Graphs, NEW r \in Ids, NEW m \in Reached(children, r)
  PROVE  Reached(children, m) \subseteq Reached(children, r)
  <1>1. Reached(children, r) \in SUBSET Ids /\ ClosedIn(children, Reached(children, r))
    BY ReachedIsClosed
  <1>2. m \in Ids
    BY <1>1
  <1> QED
    BY <1>1, <1>2, ReachedIsLeast

(* Trees under different roots have no node in common.                     *)
LEMMA TreesAreApart ==
  ASSUME NEW children \in Graphs, OneHolder(children), NEW r \in Ids, NEW s \in Ids,
         HasNoHolder(children, r), HasNoHolder(children, s), r # s
  PROVE  Reached(children, r) \cap Reached(children, s) = {}
  <1> DEFINE R == Reached(children, r)
             S == Reached(children, s)
  <1>1. R \in SUBSET Ids /\ r \in R /\ ClosedIn(children, R)
    BY ReachedIsClosed
  <1>2. S \in SUBSET Ids /\ s \in S /\ ClosedIn(children, S)
    BY ReachedIsClosed
  <1>3. \A x \in S : x # s => \E p \in S : x \in children[p]
    BY ReachedIsHeld
  <1> HIDE DEF R, S
  <1>4. r \notin S
    BY <1>2, <1>3 DEF HasNoHolder
  <1>5. ClosedIn(children, R \ S)
    <2> SUFFICES ASSUME NEW x \in R \ S, NEW y \in children[x], y \in S
                 PROVE  FALSE
      BY <1>1 DEF ClosedIn
    <2>1. y # s
      BY <1>1 DEF HasNoHolder
    <2>2. PICK p \in S : y \in children[p]
      BY <1>3, <2>1
    <2> QED
      BY <1>1, <1>2, <2>2 DEF OneHolder
  <1>6. R \subseteq R \ S
    BY <1>1, <1>4, <1>5, ReachedIsLeast DEF R
  <1> QED
    BY <1>6 DEF R, S

(* A node below a root is not below its own child.                         *)
LEMMA NotBelowItsChild ==
  ASSUME NEW children \in Graphs, OneHolder(children), NEW r \in Ids,
         HasNoHolder(children, r), NEW x \in Reached(children, r), NEW m \in children[x]
  PROVE  x \notin Reached(children, m) /\ r \notin Reached(children, m)
  <1> DEFINE R == Reached(children, r)
             S == Reached(children, m)
  <1>1. R \in SUBSET Ids /\ r \in R /\ ClosedIn(children, R)
    BY ReachedIsClosed
  <1>2. x \in Ids /\ m \in Ids
    BY <1>1 DEF Graphs
  <1>3. S \in SUBSET Ids /\ m \in S /\ ClosedIn(children, S)
    BY <1>2, ReachedIsClosed
  <1>4. \A y \in S : y # m => \E p \in S : y \in children[p]
    BY <1>2, ReachedIsHeld
  <1> HIDE DEF R, S
  <1>5. r \notin S
    BY <1>2, <1>3, <1>4 DEF HasNoHolder
  <1>6. ASSUME x \in S PROVE FALSE
    <2>1. ClosedIn(children, R \ S)
      <3> SUFFICES ASSUME NEW z \in R \ S, NEW y \in children[z], y \in S
                   PROVE  FALSE
        BY <1>1 DEF ClosedIn
      <3>1. y # m
        BY <1>1, <1>2, <1>6 DEF OneHolder
      <3>2. PICK p \in S : y \in children[p]
        BY <1>4, <3>1
      <3> QED
        BY <1>1, <1>3, <3>2 DEF OneHolder
    <2>2. R \subseteq R \ S
      BY <1>1, <1>5, <2>1, ReachedIsLeast DEF R
    <2> QED
      BY <1>6, <2>2 DEF R
  <1> QED
    BY <1>5, <1>6 DEF S

(* What is reached does not change unless the children of a node that is   *)
(* reached do.                                                             *)
LEMMA ReachedStays ==
  ASSUME NEW children \in Graphs, NEW after \in Graphs, NEW r \in Ids,
         \A x \in Reached(children, r) : after[x] = children[x]
  PROVE  Reached(after, r) = Reached(children, r)
  <1> DEFINE R == Reached(children, r)
             S == Reached(after, r)
  <1>1. R \in SUBSET Ids /\ r \in R /\ ClosedIn(children, R)
    BY ReachedIsClosed
  <1>2. S \in SUBSET Ids /\ r \in S /\ ClosedIn(after, S)
    BY ReachedIsClosed
  <1>3. \A x \in R : after[x] = children[x]
    OBVIOUS
  <1> HIDE DEF R, S
  <1>4. ClosedIn(after, R)
    BY <1>1, <1>3 DEF ClosedIn
  <1>5. S \subseteq R
    BY <1>1, <1>4, ReachedIsLeast DEF S
  <1>6. ClosedIn(children, S)
    BY <1>2, <1>3, <1>5 DEF ClosedIn
  <1>7. R \subseteq S
    BY <1>2, <1>6, ReachedIsLeast DEF R
  <1> QED
    BY <1>5, <1>7 DEF R, S

(* Some children of a node p are cut off with all that they reach, and p   *)
(* gets a new child f.                                                     *)
Replaces(children, after, r, p, gone, f) ==
  /\ p \in Reached(children, r) /\ p \notin gone /\ r \notin gone
  /\ gone \in SUBSET Ids /\ ClosedIn(children, gone)
  /\ \A y \in gone : y \notin children[p] => \E q \in gone : y \in children[q]
  /\ f \in Ids /\ f \notin Reached(children, r) /\ children[f] = {}
  /\ after[f] = {} /\ after[p] = (children[p] \ gone) \cup {f}
  /\ \A x \in Reached(children, r) \ gone : x # p => after[x] = children[x]
LEMMA ReachedReplaced ==
  ASSUME NEW children \in Graphs, NEW after \in Graphs, OneHolder(children), NEW r \in Ids,
         HasNoHolder(children, r), NEW p, NEW gone, NEW f,
         Replaces(children, after, r, p, gone, f)
  PROVE  Reached(after, r) = (Reached(children, r) \ gone) \cup {f}
  <1> DEFINE R == Reached(children, r)
             S == Reached(after, r)
             T == (R \ gone) \cup {f}
  <1>1. R \in SUBSET Ids /\ r \in R /\ ClosedIn(children, R)
    BY ReachedIsClosed
  <1>2. S \in SUBSET Ids /\ r \in S /\ ClosedIn(after, S)
    BY ReachedIsClosed
  <1>3. /\ p \in R /\ p \notin gone /\ r \notin gone
        /\ f \in Ids /\ f \notin R /\ children[f] = {}
        /\ gone \in SUBSET Ids /\ ClosedIn(children, gone)
        /\ \A y \in gone : y \notin children[p] => \E q \in gone : y \in children[q]
        /\ after[f] = {} /\ after[p] = (children[p] \ gone) \cup {f}
        /\ \A x \in R \ gone : x # p => after[x] = children[x]
    BY DEF Replaces
  <1> HIDE DEF R, S
  <1>4. ASSUME NEW x \in T, NEW y \in after[x] PROVE y \in T
    <2>1. CASE x = p
      <3>1. y \in (children[p] \ gone) \cup {f}
        BY <1>3, <1>4, <2>1
      <3>2. children[p] \subseteq R
        BY <1>1, <1>3 DEF ClosedIn
      <3> QED
        BY <3>1, <3>2
    <2>2. CASE x = f
      BY <1>3, <1>4, <2>2
    <2>3. CASE x # p /\ x # f
      <3>1. x \in R \ gone /\ y \in children[x] /\ y \in R
        BY <1>1, <1>3, <1>4, <2>3 DEF ClosedIn
      <3>2. ASSUME y \in gone PROVE FALSE
        <4>1. y \notin children[p]
          BY <1>1, <1>3, <2>3, <3>1 DEF OneHolder
        <4>2. PICK q \in gone : y \in children[q]
          BY <1>3, <3>2, <4>1
        <4> QED
          BY <1>1, <1>3, <3>1, <4>2 DEF OneHolder
      <3> QED
        BY <3>1, <3>2
    <2> QED
      BY <1>4, <2>1, <2>2, <2>3
  <1>5. S \subseteq T
    <2>1. T \in SUBSET Ids /\ r \in T
      BY <1>1, <1>3
    <2>2. ClosedIn(after, T)
      BY <1>4 DEF ClosedIn
    <2> HIDE DEF T
    <2> QED
      BY <2>1, <2>2, ReachedIsLeast DEF S
  <1>6. R \subseteq S \cup gone
    <2>1. ASSUME NEW x \in S \cup gone, NEW y \in children[x] PROVE y \in S \cup gone
      <3>1. CASE x \in gone
        BY <1>3, <2>1, <3>1 DEF ClosedIn
      <3>2. CASE x \notin gone
        <4>1. x \in S /\ x # f /\ x \in R \ gone
          BY <1>3, <1>5, <2>1, <3>2
        <4>2. after[x] \subseteq S
          BY <1>2, <4>1 DEF ClosedIn
        <4> QED
          BY <1>3, <2>1, <4>1, <4>2
      <3> QED
        BY <3>1, <3>2
    <2>2. S \cup gone \in SUBSET Ids /\ r \in S \cup gone
      BY <1>2, <1>3
    <2> QED
      BY <2>1, <2>2, ReachedIsLeast DEF R, ClosedIn
  <1>7. f \in S
    BY <1>2, <1>3, <1>6 DEF ClosedIn
  <1> QED
    BY <1>5, <1>6, <1>7 DEF R, S

-----------------------------------------------------------------------------
(* The trees under the roots, and what was lost: every node that is there  *)
(* has its parent for its only holder, and is in a tree or lost.           *)
Trees(children, roots) == UNION {Reached(children, r) : r \in roots}
Grove(children, parents, there, roots, away) ==
  /\ children \in Graphs /\ parents \in [Ids -> Ids \cup {Nil}]
  /\ there \subseteq Ids /\ roots \subseteq there
  /\ \A n \in Ids : children[n] \subseteq there
  /\ \A n \in Ids \ there : children[n] = {}
  /\ \A n \in there, p \in Ids : n \in children[p] <=> p = parents[n]
  /\ \A r \in roots : parents[r] = Nil
  /\ there = Trees(children, roots) \cup away
  /\ Trees(children, roots) \cap away = {}

LEMMA GroveHolders ==
  ASSUME NEW children, NEW parents, NEW there, NEW roots, NEW away,
         Grove(children, parents, there, roots, away)
  PROVE  /\ OneHolder(children)
         /\ \A r \in roots : r \in Ids /\ HasNoHolder(children, r)
  <1>1. \A p \in Ids : \A n \in children[p] : n \in there /\ p = parents[n]
    BY DEF Grove
  <1>2. OneHolder(children)
    BY <1>1 DEF OneHolder
  <1>3. \A r \in roots : r \in Ids /\ r \in there /\ parents[r] = Nil
    BY DEF Grove
  <1> QED
    BY <1>1, <1>2, <1>3, NilAssumption DEF HasNoHolder

(* What a tree of a grove is.                                              *)
LEMMA TreeOfGrove ==
  ASSUME NEW children, NEW parents, NEW there, NEW roots, NEW away,
         Grove(children, parents, there, roots, away), NEW r \in roots
  PROVE  /\ Reached(children, r) \subseteq there \ away
         /\ r \in Reached(children, r)
         /\ \A s \in roots : r # s => Reached(children, r) \cap Reached(children, s) = {}
         /\ \A x \in Reached(children, r) : x # r =>
              parents[x] \in Reached(children, r) /\ x \in children[parents[x]]
  <1>1. OneHolder(children)
    BY GroveHolders
  <1>2. children \in Graphs /\ OneHolder(children)
    BY <1>1 DEF Grove
  <1>3. \A s \in roots : s \in Ids /\ HasNoHolder(children, s)
    BY GroveHolders
  <1>4. Reached(children, r) \in SUBSET Ids /\ r \in Reached(children, r)
    BY <1>2, <1>3, ReachedIsClosed
  <1>5. Reached(children, r) \subseteq there \ away
    BY DEF Grove, Trees
  <1>6. \A s \in roots : r # s => Reached(children, r) \cap Reached(children, s) = {}
    BY <1>2, <1>3, TreesAreApart
  <1>7. ASSUME NEW x \in Reached(children, r), x # r
        PROVE  parents[x] \in Reached(children, r) /\ x \in children[parents[x]]
    <2>1. PICK p \in Reached(children, r) : x \in children[p]
      BY <1>2, <1>3, <1>7, ReachedIsHeld
    <2>2. p \in Ids /\ x \in there
      BY <1>4, <1>5
    <2>3. p = parents[x]
      BY <2>1, <2>2 DEF Grove
    <2> QED
      BY <2>1, <2>3
  <1> QED
    BY <1>4, <1>5, <1>6, <1>7

(* A new root without children.                                            *)
LEMMA GroveWithRoot ==
  ASSUME NEW children, NEW parents, NEW there, NEW roots, NEW away,
         Grove(children, parents, there, roots, away), NEW f \in Ids, f \notin there
  PROVE  Grove(children, [parents EXCEPT ![f] = Nil], there \cup {f}, roots \cup {f}, away)
  <1> DEFINE after == [parents EXCEPT ![f] = Nil]
  <1>1. children \in Graphs /\ children[f] = {} /\ there \subseteq Ids /\ f # Nil
    BY NilAssumption DEF Grove
  <1>2. after \in [Ids -> Ids \cup {Nil}] /\ \A n \in there : after[n] = parents[n]
    BY DEF Grove
  <1>3. after[f] = Nil
    BY DEF Grove
  <1> HIDE DEF after
  <1>4. Reached(children, f) = {f}
    <2>1. ClosedIn(children, {f}) /\ {f} \in SUBSET Ids
      BY <1>1 DEF ClosedIn
    <2> QED
      BY <1>1, <2>1, ReachedIsClosed, ReachedIsLeast
  <1>5. Trees(children, roots \cup {f}) = Trees(children, roots) \cup {f}
    BY <1>4 DEF Trees
  <1>6. \A n \in Ids : children[n] \subseteq there \cup {f} /\ f \notin children[n]
    BY DEF Grove
  <1>7. \A n \in there, p \in Ids : n \in children[p] <=> p = after[n]
    BY <1>2 DEF Grove
  <1>8. \A p \in Ids : f \in children[p] <=> p = after[f]
    BY <1>3, <1>6, NilAssumption
  <1>9. \A r \in roots \cup {f} : after[r] = Nil
    BY <1>2, <1>3 DEF Grove
  <1>10. /\ there \cup {f} = Trees(children, roots \cup {f}) \cup away
         /\ Trees(children, roots \cup {f}) \cap away = {}
    <2>1. there = Trees(children, roots) \cup away /\ Trees(children, roots) \cap away = {}
      BY DEF Grove
    <2> QED
      BY <1>5, <2>1
  <1>11. \A n \in Ids \ (there \cup {f}) : children[n] = {}
    BY DEF Grove
  <1>12. roots \cup {f} \subseteq there \cup {f}
    BY DEF Grove
  <1>13. \A n \in there \cup {f}, p \in Ids : n \in children[p] <=> p = after[n]
    BY <1>7, <1>8
  <1> QED
    BY <1>1, <1>2, <1>6, <1>9, <1>10, <1>11, <1>12, <1>13 DEF Grove, after

(* A root that is lost with its tree.                                      *)
LEMMA GroveWithout ==
  ASSUME NEW children, NEW parents, NEW there, NEW roots, NEW away,
         Grove(children, parents, there, roots, away), NEW d \in roots
  PROVE  Grove(children, parents, there, roots \ {d}, away \cup Reached(children, d))
  <1>1. \A s \in roots : d # s => Reached(children, d) \cap Reached(children, s) = {}
    BY TreeOfGrove
  <1>2. Reached(children, d) \subseteq there \ away
    BY TreeOfGrove
  <1>3. Trees(children, roots) = Trees(children, roots \ {d}) \cup Reached(children, d)
    BY DEF Trees
  <1>4. Trees(children, roots \ {d}) \cap Reached(children, d) = {}
    BY <1>1 DEF Trees
  <1>5. there = Trees(children, roots \ {d}) \cup (away \cup Reached(children, d))
    BY <1>3 DEF Grove
  <1>6. Trees(children, roots \ {d}) \cap (away \cup Reached(children, d)) = {}
    BY <1>3, <1>4 DEF Grove
  <1> QED
    BY <1>5, <1>6 DEF Grove

(* Roots that are destroyed with all that is below them.                   *)
Cuts(children, parents, gone, kids, ups) ==
  /\ kids \in Graphs /\ ups \in [Ids -> Ids \cup {Nil}]
  /\ \A n \in Ids : n \in gone => kids[n] = {} /\ ups[n] = Nil
  /\ \A n \in Ids : n \notin gone => kids[n] = children[n] /\ ups[n] = parents[n]
LEMMA GroveCut ==
  ASSUME NEW children, NEW parents, NEW there, NEW roots, NEW away,
         Grove(children, parents, there, roots, away), NEW kept \in SUBSET roots,
         NEW gone, gone = Trees(children, roots \ kept),
         NEW kids, NEW ups, Cuts(children, parents, gone, kids, ups)
  PROVE  Grove(kids, ups, there \ gone, kept, away)
  <1>1. children \in Graphs /\ parents \in [Ids -> Ids \cup {Nil}] /\ there \subseteq Ids
    BY DEF Grove
  <1>2. kids \in Graphs /\ ups \in [Ids -> Ids \cup {Nil}]
    BY DEF Cuts
  <1>3. /\ \A n \in Ids : n \in gone => kids[n] = {} /\ ups[n] = Nil
        /\ \A n \in Ids : n \notin gone => kids[n] = children[n] /\ ups[n] = parents[n]
    BY DEF Cuts
  <1>4. \A r \in roots : /\ r \in Ids /\ r \in Reached(children, r)
                         /\ Reached(children, r) \in SUBSET Ids
                         /\ ClosedIn(children, Reached(children, r))
    BY <1>1, ReachedIsClosed DEF Grove
  <1>5. ASSUME NEW r \in kept PROVE Reached(children, r) \cap gone = {}
    <2>1. \A s \in roots : r # s => Reached(children, r) \cap Reached(children, s) = {}
      BY TreeOfGrove
    <2> QED
      BY <2>1 DEF Trees
  <1>6. ASSUME NEW r \in kept PROVE Reached(kids, r) = Reached(children, r)
    <2>1. \A x \in Reached(children, r) : kids[x] = children[x]
      BY <1>3, <1>4, <1>5
    <2>2. r \in Ids
      BY <1>4
    <2> QED
      BY <1>1, <1>2, <2>1, <2>2, ReachedStays
  <1>7. Trees(kids, kept) = Trees(children, kept)
    BY <1>6 DEF Trees
  <1>8. Trees(children, roots) = Trees(children, kept) \cup gone
    BY DEF Trees
  <1>9. Trees(children, kept) \cap gone = {}
    BY <1>5 DEF Trees
  <1>10. /\ there \ gone = Trees(kids, kept) \cup away
         /\ Trees(kids, kept) \cap away = {}
    BY <1>7, <1>8, <1>9 DEF Grove
  <1>11. kept \subseteq there \ gone
    BY <1>4, <1>5 DEF Grove
  <1>12. \A r \in kept : ups[r] = Nil
    BY <1>3, <1>4, <1>11 DEF Grove
  <1>13. ClosedIn(children, gone)
    BY <1>4 DEF ClosedIn, Trees
  <1>14. ASSUME NEW p \in Ids, NEW n \in children[p], n \in gone PROVE p \in gone
    <2>1. PICK s \in roots \ kept : n \in Reached(children, s)
      BY <1>14 DEF Trees
    <2>2. n # s
      BY <1>14, GroveHolders DEF HasNoHolder
    <2>3. parents[n] \in Reached(children, s)
      BY <2>1, <2>2, TreeOfGrove
    <2>4. n \in there /\ parents[n] = p
      BY <1>1 DEF Grove, Graphs
    <2> QED
      BY <2>3, <2>4 DEF Trees
  <1>15. \A n \in Ids : kids[n] \subseteq there \ gone
    BY <1>3, <1>14 DEF Grove
  <1>16. \A n \in Ids \ (there \ gone) : kids[n] = {}
    BY <1>3 DEF Grove
  <1>17. \A n \in there \ gone, p \in Ids : n \in kids[p] <=> p = ups[n]
    <2> TAKE n \in there \ gone, p \in Ids
    <2>1. ups[n] = parents[n] /\ n \in Ids
      BY <1>1, <1>3
    <2>2. n \in children[p] <=> p = parents[n]
      BY DEF Grove
    <2>3. CASE p \in gone
      BY <1>3, <1>13, <2>1, <2>2, <2>3 DEF ClosedIn
    <2>4. CASE p \notin gone
      BY <1>3, <2>1, <2>2, <2>4
    <2> QED
      BY <2>3, <2>4
  <1> QED
    BY <1>1, <1>2, <1>10, <1>11, <1>12, <1>15, <1>16, <1>17 DEF Grove

(* A child m of a node p, or none, that is destroyed with all below it, in *)
(* favour of a new child f.                                                *)
LEMMA GroveReplaced ==
  ASSUME NEW children, NEW parents, NEW there, NEW roots, NEW away,
         Grove(children, parents, there, roots, away),
         NEW d \in roots, NEW p \in Reached(children, d), NEW m \in children[p] \cup {Nil},
         NEW gone, gone = Reached(children, m), NEW f \in Ids, f \notin there,
         NEW kids \in Graphs, NEW ups \in [Ids -> Ids \cup {Nil}],
         kids[f] = {}, kids[p] = (children[p] \ {m}) \cup {f},
         \A x \in Ids : x \in gone => kids[x] = {} /\ ups[x] = Nil,
         \A x \in Ids : x \notin gone /\ x # f /\ x # p => kids[x] = children[x],
         ups[f] = p, \A x \in Ids : x \notin gone /\ x # f => ups[x] = parents[x]
  PROVE  /\ p \notin gone /\ ClosedIn(children, gone)
         /\ Reached(kids, d) = (Reached(children, d) \ gone) \cup {f}
         /\ Grove(kids, ups, (there \ gone) \cup {f}, roots, away)
  <1> DEFINE R == Reached(children, d)
  <1>1. /\ children \in Graphs /\ there \subseteq Ids /\ roots \subseteq there
        /\ children[f] = {}
        /\ \A n \in Ids : children[n] \subseteq there
        /\ \A n \in Ids \ there : children[n] = {}
        /\ \A n \in there, q \in Ids : n \in children[q] <=> q = parents[n]
        /\ \A r \in roots : parents[r] = Nil
        /\ there = Trees(children, roots) \cup away
        /\ Trees(children, roots) \cap away = {}
    BY DEF Grove
  <1>2. OneHolder(children)
    BY GroveHolders
  <1>3. \A r \in roots : r \in Ids /\ HasNoHolder(children, r)
    BY GroveHolders
  <1>4. /\ R \subseteq there \ away /\ d \in R /\ ClosedIn(children, R)
        /\ \A s \in roots : d # s => R \cap Reached(children, s) = {}
    <2>1. ClosedIn(children, R)
      BY <1>1, <1>3, ReachedIsClosed
    <2> QED
      BY <2>1, TreeOfGrove
  <1>5. p \in R /\ p \in Ids /\ p \in there /\ p # f
    BY <1>1, <1>4
  <1>6. /\ gone \subseteq R /\ ClosedIn(children, gone) /\ p \notin gone /\ d \notin gone
        /\ m # Nil => m \in gone /\ m \in children[p]
        /\ \A y \in gone : y # m => \E q \in gone : y \in children[q]
    <2>1. CASE m = Nil
      <3>1. gone = {}
        BY <2>1, NullReachesNothing
      <3> QED
        BY <2>1, <3>1 DEF ClosedIn
    <2>2. CASE m # Nil
      <3>1. m \in children[p] /\ m \in Ids /\ m \in R
        BY <1>1, <1>4, <1>5, <2>2 DEF ClosedIn
      <3>2. gone \subseteq R
        BY <1>1, <1>3, <3>1, ReachedWithin
      <3>3. ClosedIn(children, gone) /\ m \in gone
        BY <1>1, <3>1, ReachedIsClosed
      <3>4. p \notin gone /\ d \notin gone
        BY <1>1, <1>2, <1>3, <3>1, NotBelowItsChild
      <3>5. \A y \in gone : y # m => \E q \in gone : y \in children[q]
        BY <1>1, <3>1, ReachedIsHeld
      <3> QED
        BY <3>1, <3>2, <3>3, <3>4, <3>5
    <2> QED
      BY <2>1, <2>2
  <1> HIDE DEF R
  <1>7. \A q \in Ids : \A y \in children[q] : y \in gone /\ q \notin gone => y = m /\ q = p
    <2> TAKE q \in Ids
    <2> TAKE y \in children[q]
    <2> HAVE y \in gone /\ q \notin gone
    <2>1. CASE y = m
      <3>1. m # Nil
        BY <1>1, <2>1, NilAssumption
      <3> QED
        BY <1>2, <1>5, <1>6, <2>1, <3>1 DEF OneHolder
    <2>2. CASE y # m
      <3>1. PICK z \in gone : y \in children[z]
        BY <1>6, <2>2
      <3>2. z \in Ids
        BY <1>1, <1>4, <1>6, <3>1
      <3> QED
        BY <1>2, <3>1, <3>2 DEF OneHolder
    <2> QED
      BY <2>1, <2>2
  <1>8. Reached(kids, d) = (R \ gone) \cup {f}
    <2>1. \A y \in children[p] : y \in gone <=> y = m
      <3>1. ASSUME NEW y \in children[p], y = m PROVE y \in gone
        <4>1. m # Nil
          BY <1>1, <1>5, <3>1, NilAssumption
        <4> QED
          BY <1>6, <3>1, <4>1
      <3> QED
        BY <1>5, <1>6, <1>7, <3>1
    <2>2. kids[p] = (children[p] \ gone) \cup {f}
      BY <2>1
    <2>3. \A y \in gone : y \notin children[p] => \E q \in gone : y \in children[q]
      <3> TAKE y \in gone
      <3> HAVE y \notin children[p]
      <3>1. y # m
        <4>1. y # Nil
          BY <1>1, <1>4, <1>6, NilAssumption
        <4> QED
          BY <1>6, <4>1
      <3> QED
        BY <1>6, <3>1
    <2>4. /\ gone \in SUBSET Ids /\ f \notin R
          /\ \A x \in R \ gone : x # p => kids[x] = children[x]
      BY <1>1, <1>4, <1>6
    <2>5. Replaces(children, kids, d, p, gone, f)
      BY <1>1, <1>5, <1>6, <2>2, <2>3, <2>4 DEF Replaces, R
    <2> QED
      BY <1>1, <1>2, <1>3, <2>5, ReachedReplaced DEF R
  <1>9. ASSUME NEW r \in roots, r # d
        PROVE  Reached(kids, r) = Reached(children, r) /\ Reached(children, r) \cap gone = {}
    <2>1. Reached(children, r) \cap R = {} /\ r \in Ids
      BY <1>3, <1>4, <1>9
    <2>2. Reached(children, r) \subseteq there
      BY TreeOfGrove
    <2>3. \A x \in Reached(children, r) : kids[x] = children[x]
      BY <1>1, <1>5, <1>6, <2>1, <2>2
    <2>4. Reached(kids, r) = Reached(children, r)
      BY <1>1, <2>1, <2>3, ReachedStays
    <2> QED
      BY <1>6, <2>1, <2>4
  <1>10. Trees(kids, roots) = (Trees(children, roots) \ gone) \cup {f}
    <2>1. Trees(kids, roots) = Reached(kids, d) \cup Trees(kids, roots \ {d})
      BY DEF Trees
    <2>2. Trees(children, roots) = R \cup Trees(children, roots \ {d})
      BY DEF Trees, R
    <2>3. Trees(kids, roots \ {d}) = Trees(children, roots \ {d})
      BY <1>9 DEF Trees
    <2>4. Trees(children, roots \ {d}) \cap gone = {}
      BY <1>9 DEF Trees
    <2> QED
      BY <1>8, <2>1, <2>2, <2>3, <2>4
  <1>11. gone \cap away = {} /\ f \notin away /\ gone \subseteq there
    BY <1>1, <1>4, <1>6
  <1>12. /\ (there \ gone) \cup {f} = Trees(kids, roots) \cup away
         /\ Trees(kids, roots) \cap away = {}
    BY <1>1, <1>10, <1>11
  <1>13. \A r \in roots : r \notin gone /\ ups[r] = Nil
    <2> TAKE r \in roots
    <2>1. r \in Ids /\ r # f /\ parents[r] = Nil
      BY <1>1
    <2>2. r \notin gone
      <3>1. CASE r = d
        BY <1>6, <3>1
      <3>2. CASE r # d
        BY <2>1, <1>1, <1>9, <3>2, ReachedIsClosed
      <3> QED
        BY <3>1, <3>2
    <2> QED
      BY <2>1, <2>2
  <1>14. \A n \in Ids : kids[n] \subseteq (there \ gone) \cup {f}
    <2> SUFFICES ASSUME NEW n \in Ids, NEW y \in kids[n] PROVE y \in (there \ gone) \cup {f}
      OBVIOUS
    <2>1. CASE n \in gone \/ n = f
      BY <2>1
    <2>2. CASE n = p
      BY <1>1, <1>5, <1>6, <1>7, <2>2
    <2>3. CASE n \notin gone /\ n # f /\ n # p
      <3>1. y \in children[n]
        BY <2>3
      <3> QED
        BY <1>1, <1>7, <2>3, <3>1
    <2> QED
      BY <2>1, <2>2, <2>3
  <1>15. \A n \in Ids \ ((there \ gone) \cup {f}) : kids[n] = {}
    BY <1>1, <1>5
  <1>16. \A n \in (there \ gone) \cup {f}, q \in Ids : n \in kids[q] <=> q = ups[n]
    <2> TAKE n \in (there \ gone) \cup {f}, q \in Ids
    <2>1. CASE n = f
      <3>1. f \notin children[q]
        BY <1>1
      <3> QED
        BY <2>1, <3>1
    <2>2. CASE n # f
      <3>1. n \in there /\ n \notin gone /\ ups[n] = parents[n]
        BY <1>1, <2>2
      <3>2. n \in children[q] <=> q = parents[n]
        BY <1>1, <3>1
      <3>3. CASE q \in gone
        <4>1. n \notin children[q]
          BY <1>6, <3>1, <3>3 DEF ClosedIn
        <4> QED
          BY <3>1, <3>2, <3>3, <4>1
      <3>4. CASE q = p
        <4>1. n # m \/ n \notin children[p]
          BY <1>1, <1>5, <1>6, <3>1, NilAssumption
        <4> QED
          BY <2>2, <3>1, <3>2, <3>4, <4>1
      <3>5. CASE q = f
        BY <1>1, <3>1, <3>2, <3>5
      <3>6. CASE q \notin gone /\ q # p /\ q # f
        BY <3>1, <3>2, <3>6
      <3> QED
        BY <3>3, <3>4, <3>5, <3>6
    <2> QED
      BY <2>1, <2>2
  <1>17. /\ (there \ gone) \cup {f} \subseteq Ids
         /\ roots \subseteq (there \ gone) \cup {f}
    BY <1>1, <1>13
  <1>18. \A r \in roots : ups[r] = Nil
    BY <1>13
  <1>19. Grove(kids, ups, (there \ gone) \cup {f}, roots, away)
    BY <1>12, <1>14, <1>15, <1>16, <1>17, <1>18 DEF Grove
  <1> QED
    BY <1>6, <1>8, <1>19 DEF R

(* The nodes above one that stays are not in a closed set that goes.       *)
LEMMA NodesAboveStay ==
  ASSUME NEW children, NEW parents, NEW there, NEW roots, NEW away,
         Grove(children, parents, there, roots, away),
         NEW gone, ClosedIn(children, gone),
         NEW n \in Nat, n >= 2, NEW c \in [2..n -> there], c[n] \notin gone,
         \A i \in 3..n : parents[c[i]] = c[i - 1]
  PROVE  \A i \in 2..n : c[i] \notin gone
  <1> DEFINE T == {k \in Nat : k + 2 <= n /\ c[n - k] \in gone}
  <1>1. ASSUME NEW i \in 2..n, c[i] \in gone PROVE FALSE
    <2>1. n - i \in Nat /\ n - (n - i) = i /\ n - i + 2 <= n
      OBVIOUS
    <2>2. n - i \in T
      BY <1>1, <2>1
    <2>3. T # {} /\ T \subseteq Nat
      BY <2>2
    <2> HIDE DEF T
    <2>4. PICK k \in T : \A j \in T : k <= j
      BY <2>3, LeastNat
    <2>5. k \in Nat /\ k + 2 <= n /\ c[n - k] \in gone
      BY <2>4 DEF T
    <2>6. k # 0
      BY <2>5
    <2>7. k - 1 \in Nat /\ k - 1 < k /\ n - (k - 1) = n - k + 1
      BY <2>5, <2>6
    <2>8. k - 1 \notin T
      BY <2>4, <2>5, <2>7
    <2>9. c[n - k + 1] \notin gone
      BY <2>5, <2>7, <2>8 DEF T
    <2>10. n - k + 1 \in 3..n /\ n - k \in 2..n /\ n - k + 1 - 1 = n - k /\ n - k + 1 \in 2..n
      BY <2>5, <2>7
    <2>11. parents[c[n - k + 1]] = c[n - k]
      BY <2>10
    <2>12. c[n - k + 1] \in there /\ c[n - k] \in there
      BY <2>10
    <2>13. c[n - k + 1] \in children[c[n - k]]
      BY <2>11, <2>12 DEF Grove
    <2> QED
      BY <2>5, <2>9, <2>13 DEF ClosedIn
  <1> QED
    BY <1>1

-----------------------------------------------------------------------------
(* Nodes, and tables of them.                                              *)
NodeTypes == {"none", "scalar", "map", "seq"}
NodeRecords ==
  [type : NodeTypes, name : Strings \cup {Nil}, scalar : Strings \cup {Nil},
   parent : Ids \cup {Nil}, mapping : [Strings -> Ids \cup {Nil}], sequence : Seq(Ids)]

(* A node has the value of its type and no other; an item is one once.     *)
WellFormed(x) ==
  /\ x \in NodeRecords
  /\ x.scalar \in Strings <=> x.type = "scalar"
  /\ x.type # "map" => \A s \in Strings : x.mapping[s] = Nil
  /\ x.type # "seq" => x.sequence = <<>>
  /\ IsInjective(x.sequence)
ChildrenIn(x) ==
  CASE x.type = "map" -> {x.mapping[s] : s \in Strings} \ {Nil}
    [] x.type = "seq" -> ToSet(x.sequence)
    [] OTHER -> {}

ThereIn(t) == {n \in Ids : t[n] # Freed}
KidsIn(t) == [n \in Ids |-> ChildrenIn(t[n])]
ParentsIn(t) == [n \in Ids |-> IF t[n] = Freed THEN Nil ELSE t[n].parent]

(* A child of a mapping has the name of its key.                           *)
Tabled(t) ==
  /\ t \in [Ids -> NodeRecords \cup {Freed}]
  /\ \A n \in ThereIn(t) : WellFormed(t[n])
  /\ \A n \in ThereIn(t), s \in Strings :
       t[n].mapping[s] # Nil => t[t[n].mapping[s]].name = s

LEMMA FreedIsNoNode == Freed \notin NodeRecords /\ ChildrenIn(Freed) = {}
  <1>1. Freed.type = "freed"
    BY DEF Freed
  <1>2. \A x \in NodeRecords : x.type # "freed"
    BY DEF NodeRecords, NodeTypes
  <1> QED
    BY <1>1, <1>2 DEF ChildrenIn

LEMMA SubtreeIsReached ==
  /\ \A n : Subtree(n) = Reached(KidsIn(heap), n)
  /\ \A n \in Ids : Children(n) = KidsIn(heap)[n]
  /\ Live = ThereIn(heap)
  BY DEF Subtree, KidsIn, ChildrenIn, Children, Live, ThereIn

LEMMA ToSetAppend ==
  ASSUME NEW S, NEW s \in Seq(S), NEW x \in S
  PROVE  /\ ToSet(Append(s, x)) = ToSet(s) \cup {x} /\ ToSet(s) \subseteq S
         /\ IsInjective(s) /\ x \notin ToSet(s) => IsInjective(Append(s, x))
  <1>1. /\ Append(s, x) \in Seq(S) /\ Len(Append(s, x)) = Len(s) + 1
        /\ Append(s, x)[Len(s) + 1] = x
        /\ \A i \in 1..Len(s) : Append(s, x)[i] = s[i]
    BY AppendProperties
  <1>2. Len(s) \in Nat /\ DOMAIN s = 1..Len(s) /\ DOMAIN Append(s, x) = 1..Len(s) + 1
    BY <1>1, LenProperties
  <1>3. \A i \in 1..Len(s) + 1 : i \in 1..Len(s) \/ i = Len(s) + 1
    BY <1>2
  <1>4. ToSet(s) = {s[i] : i \in 1..Len(s)} /\ ToSet(s) \subseteq S
    BY <1>2 DEF ToSet
  <1>5. ToSet(Append(s, x)) = {Append(s, x)[i] : i \in 1..Len(s) + 1}
    BY <1>2 DEF ToSet
  <1>6. ToSet(Append(s, x)) = ToSet(s) \cup {x}
    BY <1>1, <1>2, <1>3, <1>4, <1>5
  <1>7. ASSUME IsInjective(s), x \notin ToSet(s),
               NEW i \in 1..Len(s) + 1, NEW j \in 1..Len(s) + 1,
               Append(s, x)[i] = Append(s, x)[j]
        PROVE  i = j
    <2>1. \A k \in 1..Len(s) : s[k] # x
      BY <1>4, <1>7
    <2>2. \A k, l \in 1..Len(s) : s[k] = s[l] => k = l
      BY <1>2, <1>7 DEF IsInjective
    <2> QED
      BY <1>1, <1>3, <1>7, <2>1, <2>2
  <1> QED
    BY <1>2, <1>4, <1>6, <1>7 DEF IsInjective

LEMMA KidsAreIds ==
  ASSUME NEW t, Tabled(t)
  PROVE  KidsIn(t) \in Graphs /\ ParentsIn(t) \in [Ids -> Ids \cup {Nil}]
  <1>1. ASSUME NEW n \in Ids PROVE ChildrenIn(t[n]) \in SUBSET Ids
    <2>1. CASE t[n] = Freed
      BY <2>1, FreedIsNoNode
    <2>2. CASE t[n] \in NodeRecords
      <3>1. t[n].mapping \in [Strings -> Ids \cup {Nil}] /\ t[n].sequence \in Seq(Ids)
        BY <2>2 DEF NodeRecords
      <3>2. {t[n].mapping[s] : s \in Strings} \ {Nil} \in SUBSET Ids
        BY <3>1
      <3>3. ToSet(t[n].sequence) \in SUBSET Ids
        BY <3>1, LenProperties DEF ToSet
      <3> QED
        BY <3>2, <3>3 DEF ChildrenIn
    <2> QED
      BY <2>1, <2>2 DEF Tabled
  <1>2. ASSUME NEW n \in Ids, t[n] # Freed PROVE t[n].parent \in Ids \cup {Nil}
    BY <1>2 DEF Tabled, NodeRecords
  <1> QED
    BY <1>1, <1>2 DEF KidsIn, ParentsIn, Graphs

(* A new node, and a node without a value that is given one.               *)
LEMMA BlankIsANode ==
  ASSUME NEW name \in Strings \cup {Nil}, NEW p \in Ids \cup {Nil}
  PROVE  /\ WellFormed(Blank(name, p)) /\ ChildrenIn(Blank(name, p)) = {}
         /\ Blank(name, p).type = "none" /\ Blank(name, p).parent = p
         /\ Blank(name, p).name = name /\ \A s \in Strings : Blank(name, p).mapping[s] = Nil
  <1>1. <<>> \in Seq(Ids) /\ DOMAIN <<>> = {}
    OBVIOUS
  <1>2. IsInjective(<<>>)
    BY <1>1 DEF IsInjective
  <1>3. Blank(name, p) \in NodeRecords
    BY <1>1 DEF Blank, NodeRecords, NodeTypes
  <1> QED
    BY <1>2, <1>3, NilAssumption DEF WellFormed, ChildrenIn, Blank

Given(x, s) ==
  {[x EXCEPT !.type = "scalar", !.scalar = s], [x EXCEPT !.type = "map"],
   [x EXCEPT !.type = "seq"]}
LEMMA NodeIsGivenAValue ==
  ASSUME NEW x, WellFormed(x), x.type = "none", NEW s \in Strings, NEW y \in Given(x, s)
  PROVE  /\ WellFormed(y) /\ ChildrenIn(x) = {} /\ ChildrenIn(y) = {}
         /\ y.parent = x.parent /\ y.name = x.name /\ y.mapping = x.mapping
         /\ y.type \in NodeTypes
         /\ y = [x EXCEPT !.type = "map"] => y.type = "map"
         /\ y = [x EXCEPT !.type = "seq"] => y.type = "seq"
  <1>1. x \in NodeRecords /\ x.sequence = <<>> /\ \A k \in Strings : x.mapping[k] = Nil
    BY DEF WellFormed
  <1>2. x.scalar = Nil
    BY <1>1 DEF WellFormed, NodeRecords
  <1>3. /\ y \in NodeRecords /\ y.parent = x.parent /\ y.name = x.name
        /\ y.mapping = x.mapping /\ y.sequence = x.sequence
    BY <1>1 DEF Given, NodeRecords, NodeTypes
  <1>4. \/ y.type = "scalar" /\ y.scalar = s
        \/ y.type \in {"map", "seq"} /\ y.scalar = Nil
    BY <1>1, <1>2 DEF Given, NodeRecords
  <1>5. /\ y = [x EXCEPT !.type = "map"] => y.type = "map"
        /\ y = [x EXCEPT !.type = "seq"] => y.type = "seq"
    BY <1>1 DEF NodeRecords
  <1>6. ChildrenIn(x) = {}
    BY DEF ChildrenIn
  <1>7. ChildrenIn(y) = {}
    <2>1. {y.mapping[k] : k \in Strings} \ {Nil} = {}
      BY <1>1, <1>3
    <2>2. ToSet(y.sequence) = {}
      BY <1>1, <1>3 DEF ToSet
    <2> QED
      BY <2>1, <2>2 DEF ChildrenIn
  <1>8. WellFormed(y)
    BY <1>1, <1>3, <1>4, NilAssumption DEF WellFormed
  <1> QED
    BY <1>3, <1>4, <1>5, <1>6, <1>7, <1>8 DEF NodeTypes

Gives(t, n, s, y, u) == y \in Given(t[n], s) /\ u = [t EXCEPT ![n] = y]
LEMMA TableWithAValue ==
  ASSUME NEW t, Tabled(t), NEW n \in ThereIn(t), t[n].type = "none", NEW s \in Strings,
         NEW y, NEW u, Gives(t, n, s, y, u)
  PROVE  /\ Tabled(u) /\ KidsIn(u) = KidsIn(t) /\ ParentsIn(u) = ParentsIn(t)
         /\ ThereIn(u) = ThereIn(t)
         /\ u[n] = y /\ u[n].parent = t[n].parent /\ \A m \in Ids \ {n} : u[m] = t[m]
  <1> y \in Given(t[n], s) /\ u = [t EXCEPT ![n] = y]
    BY DEF Gives
  <1>1. n \in Ids /\ WellFormed(t[n]) /\ t \in [Ids -> NodeRecords \cup {Freed}]
    BY DEF Tabled, ThereIn
  <1>2. /\ WellFormed(y) /\ ChildrenIn(t[n]) = {} /\ ChildrenIn(y) = {}
        /\ y.parent = t[n].parent /\ y.name = t[n].name /\ y.mapping = t[n].mapping
    BY <1>1, NodeIsGivenAValue
  <1>3. y \in NodeRecords /\ y # Freed /\ t[n] # Freed
    BY <1>2, FreedIsNoNode DEF WellFormed, ThereIn
  <1>4. u[n] = y /\ \A m \in Ids : m # n => u[m] = t[m]
    BY <1>1
  <1>5. u \in [Ids -> NodeRecords \cup {Freed}]
    BY <1>1, <1>3
  <1>6. ThereIn(u) = ThereIn(t)
    BY <1>3, <1>4 DEF ThereIn
  <1>7. \A m \in Ids : ChildrenIn(u[m]) = ChildrenIn(t[m])
    BY <1>2, <1>4
  <1>8. \A m \in Ids : /\ u[m] = Freed <=> t[m] = Freed
                       /\ u[m].parent = t[m].parent /\ u[m].name = t[m].name
                       /\ u[m].mapping = t[m].mapping
    BY <1>2, <1>3, <1>4
  <1>9. \A m \in ThereIn(u) : WellFormed(u[m])
    BY <1>2, <1>4, <1>6 DEF Tabled
  <1>10. ASSUME NEW m \in ThereIn(u), NEW k \in Strings, u[m].mapping[k] # Nil
         PROVE  u[u[m].mapping[k]].name = k
    <2>1. m \in Ids /\ m \in ThereIn(t) /\ u[m].mapping = t[m].mapping
      BY <1>6, <1>8 DEF ThereIn
    <2>2. t[m] \in NodeRecords
      BY <2>1 DEF Tabled, ThereIn
    <2>3. t[m].mapping[k] \in Ids
      BY <1>10, <2>1, <2>2 DEF NodeRecords
    <2>4. t[t[m].mapping[k]].name = k
      BY <1>10, <2>1 DEF Tabled
    <2> QED
      BY <1>8, <2>1, <2>3, <2>4
  <1>11. KidsIn(u) = KidsIn(t) /\ ParentsIn(u) = ParentsIn(t)
    BY <1>7, <1>8 DEF KidsIn, ParentsIn
  <1> QED
    BY <1>2, <1>4, <1>5, <1>6, <1>9, <1>10, <1>11 DEF Tabled

(* The parent of a new node: x becomes y, and m is no longer its child.    *)
Grown(x, y, m, name) ==
  /\ m \in ChildrenIn(x) \cup {Nil}
  /\ WellFormed(y) /\ y.type = x.type /\ y.parent = x.parent /\ y.name = x.name
  /\ ChildrenIn(y) = (ChildrenIn(x) \ {m}) \cup {Fresh}
  /\ \A s \in Strings : y.mapping[s] # Nil =>
       \/ s = name /\ y.mapping[s] = Fresh
       \/ s # name /\ y.mapping[s] = x.mapping[s] /\ x.mapping[s] # m
LEMMA ParentOfANewNode ==
  ASSUME Tabled(heap), node \in ThereIn(heap), heap[node].type \in {"map", "seq"},
         NEW name \in Strings \cup {Nil}, heap[node].type = "map" => name \in Strings,
         Fresh \in Ids, Fresh \notin ChildrenIn(heap[node])
  PROVE  Grown(heap[node], Attached(heap[node], name), Former(name), name)
  <1> DEFINE x == heap[node]
             y == Attached(x, name)
             m == Former(name)
             f == Fresh
             kids == ChildrenIn(x)
  <1>1. node \in Ids /\ node # Nil /\ f \in Ids /\ f # Nil /\ f \notin kids
    BY NilAssumption DEF ThereIn
  <1>2. WellFormed(x) /\ x \in NodeRecords
    BY DEF Tabled, WellFormed
  <1>3. /\ x.mapping \in [Strings -> Ids \cup {Nil}] /\ x.sequence \in Seq(Ids)
        /\ x.type \in {"map", "seq"}
    BY <1>2 DEF NodeRecords
  <1>4. CASE x.type = "map"
    <2>1. name \in Strings /\ m = x.mapping[name] /\ y = [x EXCEPT !.mapping[name] = f]
      BY <1>1, <1>4 DEF Former, Attached
    <2>2. kids = {x.mapping[s] : s \in Strings} \ {Nil}
      BY <1>4 DEF ChildrenIn
    <2>3. \A s \in Strings : x.mapping[s] # Nil => heap[x.mapping[s]].name = s
      BY DEF Tabled
    <2> HIDE DEF x, y, m, f, kids
    <2>4. /\ y.mapping = [x.mapping EXCEPT ![name] = f]
          /\ y \in NodeRecords /\ y.type = x.type /\ y.parent = x.parent /\ y.name = x.name
          /\ y.scalar = x.scalar /\ y.sequence = x.sequence
      BY <1>1, <1>2, <1>3, <2>1 DEF NodeRecords
    <2>5. y.mapping[name] = f /\ \A s \in Strings : s # name => y.mapping[s] = x.mapping[s]
      BY <1>3, <2>1, <2>4
    <2>6. WellFormed(y)
      BY <1>2, <1>4, <2>4 DEF WellFormed
    <2>7. \A s \in Strings : s # name /\ x.mapping[s] # Nil => x.mapping[s] # m
      BY <2>1, <2>3
    <2>8. m \in kids \cup {Nil}
      BY <2>1, <2>2
    <2>9. ChildrenIn(y) = {y.mapping[s] : s \in Strings} \ {Nil}
      BY <1>4, <2>4 DEF ChildrenIn
    <2>10. ChildrenIn(y) = (kids \ {m}) \cup {f}
      <3>1. ASSUME NEW k \in ChildrenIn(y) PROVE k \in (kids \ {m}) \cup {f}
        <4>1. PICK s \in Strings : k = y.mapping[s] /\ k # Nil
          BY <2>9, <3>1
        <4> QED
          BY <2>2, <2>5, <2>7, <4>1
      <3>2. ASSUME NEW k \in kids, k # m PROVE k \in ChildrenIn(y)
        <4>1. PICK s \in Strings : k = x.mapping[s] /\ k # Nil
          BY <2>2
        <4>2. y.mapping[s] = k
          BY <2>1, <2>5, <3>2, <4>1
        <4> QED
          BY <2>9, <4>1, <4>2
      <3>3. f \in ChildrenIn(y)
        BY <1>1, <2>1, <2>5, <2>9
      <3> QED
        BY <3>1, <3>2, <3>3
    <2>11. \A s \in Strings : y.mapping[s] # Nil =>
             \/ s = name /\ y.mapping[s] = f
             \/ s # name /\ y.mapping[s] = x.mapping[s] /\ x.mapping[s] # m
      BY <2>5, <2>7
    <2> QED
      BY <2>4, <2>6, <2>8, <2>10, <2>11 DEF Grown, x, y, m, f, kids
  <1>5. CASE x.type = "seq"
    <2>1. m = Nil /\ y = [x EXCEPT !.sequence = Append(@, f)]
      BY <1>5 DEF Former, Attached
    <2>2. kids = ToSet(x.sequence)
      BY <1>5 DEF ChildrenIn
    <2> HIDE DEF x, y, m, f, kids
    <2>3. Append(x.sequence, f) \in Seq(Ids)
      BY <1>1, <1>3
    <2>4. /\ y.sequence = Append(x.sequence, f)
          /\ y \in NodeRecords /\ y.type = x.type /\ y.parent = x.parent /\ y.name = x.name
          /\ y.scalar = x.scalar /\ y.mapping = x.mapping
      BY <1>2, <1>3, <2>1, <2>3 DEF NodeRecords
    <2>5. ToSet(y.sequence) = kids \cup {f} /\ IsInjective(y.sequence) /\ Nil \notin kids
      <3>1. IsInjective(x.sequence)
        BY <1>2 DEF WellFormed
      <3> QED
        BY <1>1, <1>3, <2>2, <2>4, <3>1, ToSetAppend, NilAssumption
    <2>6. WellFormed(y)
      BY <1>2, <1>5, <2>4, <2>5 DEF WellFormed
    <2>7. ChildrenIn(y) = (kids \ {m}) \cup {f}
      BY <1>5, <2>1, <2>4, <2>5 DEF ChildrenIn
    <2>8. \A s \in Strings : y.mapping[s] = Nil
      BY <1>2, <1>5, <2>4 DEF WellFormed
    <2> QED
      BY <2>1, <2>4, <2>6, <2>7, <2>8 DEF Grown, x, y, m, f, kids
  <1> QED
    BY <1>3, <1>4, <1>5

(* A new node under the one at which the loop is.                          *)
Planted(u, name, d, roots, away, gone) ==
  LET t == heap IN
  /\ Fresh \in Ids /\ Fresh \notin ThereIn(t) /\ gone \subseteq ThereIn(t) /\ node \notin gone
  /\ Tabled(u) /\ ThereIn(u) = (ThereIn(t) \ gone) \cup {Fresh}
  /\ u[Fresh] = Blank(name, node)
  /\ u[node].type = t[node].type /\ u[node].parent = t[node].parent
  /\ \A n \in Ids \ gone : n # Fresh /\ n # node => u[n] = t[n]
  /\ ClosedIn(KidsIn(t), gone)
  /\ Grove(KidsIn(u), ParentsIn(u), ThereIn(u), roots, away)
  /\ Reached(KidsIn(u), d) = (Reached(KidsIn(t), d) \ gone) \cup {Fresh}
LEMMA NodeIsCreated ==
  ASSUME Tabled(heap), NEW roots, NEW away,
         Grove(KidsIn(heap), ParentsIn(heap), ThereIn(heap), roots, away),
         NEW d \in roots, node \in Reached(KidsIn(heap), d),
         heap[node].type \in {"map", "seq"},
         NEW name \in Strings \cup {Nil}, heap[node].type = "map" => name \in Strings, Room
  PROVE  Planted(CreateNode(name), name, d, roots, away, Subtree(Former(name)))
  <1> DEFINE t == heap
             u == CreateNode(name)
             f == Fresh
             m == Former(name)
             gone == Subtree(m)
             kids == KidsIn(t)
             ups == ParentsIn(t)
             there == ThereIn(t)
             y == Attached(t[node], name)
             b == Blank(name, node)
  <1>1. t \in [Ids -> NodeRecords \cup {Freed}] /\ \A n \in there : WellFormed(t[n])
    BY DEF Tabled
  <1>2. f \in Ids /\ f \notin there
    BY SubtreeIsReached DEF Room, Fresh, ThereIn
  <1>3. /\ kids \in Graphs /\ kids[f] = {}
        /\ \A n \in Ids : kids[n] \subseteq there
    BY <1>2 DEF Grove
  <1>4. Reached(kids, d) \subseteq there
    BY TreeOfGrove
  <1>5. node \in Ids /\ node \in there /\ f # node
    BY <1>2, <1>4 DEF ThereIn
  <1>6. gone = Reached(kids, m)
    BY SubtreeIsReached
  <1>7. f \notin kids[node]
    BY <1>2, <1>3, <1>5
  <1>8. /\ m \in kids[node] \cup {Nil}
        /\ WellFormed(y) /\ y.type = t[node].type /\ y.parent = t[node].parent
        /\ y.name = t[node].name
        /\ ChildrenIn(y) = (kids[node] \ {m}) \cup {f}
        /\ \A s \in Strings : y.mapping[s] # Nil =>
             \/ s = name /\ y.mapping[s] = f
             \/ s # name /\ y.mapping[s] = t[node].mapping[s] /\ t[node].mapping[s] # m
    <2>1. kids[node] = ChildrenIn(t[node])
      BY <1>5 DEF KidsIn
    <2>2. Grown(t[node], y, m, name)
      BY <1>2, <1>5, <1>7, <2>1, ParentOfANewNode
    <2> HIDE DEF y, m, f, kids
    <2>3. /\ m \in ChildrenIn(t[node]) \cup {Nil}
          /\ ChildrenIn(y) = (ChildrenIn(t[node]) \ {m}) \cup {f}
      BY <2>2 DEF Grown, f
    <2>4. /\ WellFormed(y) /\ y.type = t[node].type /\ y.parent = t[node].parent
          /\ y.name = t[node].name
          /\ \A s \in Strings : y.mapping[s] # Nil =>
             \/ s = name /\ y.mapping[s] = f
             \/ s # name /\ y.mapping[s] = t[node].mapping[s] /\ t[node].mapping[s] # m
      BY <2>2 DEF Grown, f
    <2> QED
      BY <2>1, <2>3, <2>4
  <1>9. /\ WellFormed(b) /\ ChildrenIn(b) = {} /\ b.parent = node /\ b.name = name
        /\ \A s \in Strings : b.mapping[s] = Nil
    BY <1>5, BlankIsANode
  <1>10. node \notin gone /\ f \notin gone /\ gone \subseteq there
    <2> HIDE DEF gone, m, f
    <2>1. OneHolder(kids) /\ d \in Ids /\ HasNoHolder(kids, d)
      <3>1. OneHolder(kids)
        BY GroveHolders
      <3>2. d \in Ids /\ HasNoHolder(kids, d)
        BY GroveHolders
      <3> QED
        BY <3>1, <3>2
    <2>2. CASE m = Nil
      BY <1>6, <2>2, NullReachesNothing
    <2>3. CASE m # Nil
      <3>1. m \in kids[node] /\ node \in Reached(kids, d)
        BY <1>8, <2>3
      <3>2. node \notin Reached(kids, m)
        BY <1>3, <2>1, <3>1, NotBelowItsChild
      <3>3. m \in Reached(kids, d)
        BY <1>3, <2>1, <3>1, ReachedIsClosed DEF ClosedIn
      <3>4. Reached(kids, m) \subseteq Reached(kids, d)
        BY <1>3, <2>1, <3>3, ReachedWithin
      <3> QED
        BY <1>2, <1>4, <1>6, <3>2, <3>4
    <2> QED
      BY <2>2, <2>3
  <1>11. /\ DOMAIN u = Ids /\ u[f] = b /\ u[node] = y
         /\ \A n \in Ids : n # f /\ n # node => u[n] = IF n \in gone THEN Freed ELSE t[n]
    <2> DEFINE v == [n \in Ids |-> CASE n = f -> b [] n = node -> Attached(t[n], name)
                                     [] n \in gone -> Freed [] OTHER -> t[n]]
    <2>1. u = v
      BY DEF CreateNode
    <2> HIDE DEF u, f, gone, b
    <2>2. DOMAIN v = Ids
      OBVIOUS
    <2>3. v[f] = b
      BY <1>2, <1>5, <1>10
    <2>4. v[node] = Attached(t[node], name)
      BY <1>5, <1>10
    <2>5. \A n \in Ids : n # f /\ n # node => v[n] = IF n \in gone THEN Freed ELSE t[n]
      BY <1>2, <1>5
    <2> QED
      BY <2>1, <2>2, <2>5, <2>3, <2>4
  <1>12. u = [n \in Ids |-> u[n]]
    BY DEF CreateNode
  <1> HIDE DEF u, f, m, gone, kids, ups, there, y, b
  <1>13. b \in NodeRecords /\ y \in NodeRecords /\ b # Freed /\ y # Freed
    BY <1>8, <1>9, FreedIsNoNode DEF WellFormed
  <1>14. u \in [Ids -> NodeRecords \cup {Freed}]
    <2>1. \A n \in Ids : u[n] \in NodeRecords \cup {Freed}
      BY <1>1, <1>11, <1>13
    <2> QED
      BY <1>12, <2>1
  <1>15. /\ KidsIn(u) \in Graphs /\ ParentsIn(u) \in [Ids -> Ids \cup {Nil}]
    <2>1. \A n \in Ids : ChildrenIn(u[n]) \in SUBSET Ids
      <3>1. \A n \in Ids : ChildrenIn(t[n]) = kids[n] /\ kids[n] \in SUBSET Ids
        BY <1>3 DEF kids, KidsIn, Graphs
      <3>2. ChildrenIn(Freed) = {}
        BY FreedIsNoNode
      <3> QED
        BY <1>2, <1>5, <1>8, <1>9, <1>11, <3>1, <3>2
    <2>2. \A n \in Ids : u[n] # Freed => u[n].parent \in Ids \cup {Nil}
      BY <1>14 DEF NodeRecords
    <2> QED
      BY <2>1, <2>2 DEF KidsIn, ParentsIn, Graphs
  <1>16. /\ KidsIn(u)[f] = {} /\ KidsIn(u)[node] = (kids[node] \ {m}) \cup {f}
         /\ ParentsIn(u)[f] = node /\ ParentsIn(u)[node] = ups[node]
    BY <1>2, <1>5, <1>8, <1>9, <1>11, <1>13 DEF KidsIn, ParentsIn, ups, there, ThereIn
  <1>17. ASSUME NEW n \in Ids, n # f, n # node, n \in gone
         PROVE  KidsIn(u)[n] = {} /\ ParentsIn(u)[n] = Nil
    BY <1>11, <1>17, FreedIsNoNode DEF KidsIn, ParentsIn
  <1>18. ASSUME NEW n \in Ids, n # f, n # node, n \notin gone
         PROVE  KidsIn(u)[n] = kids[n] /\ ParentsIn(u)[n] = ups[n]
    BY <1>11, <1>18 DEF KidsIn, ParentsIn, kids, ups
  <1>19. /\ ClosedIn(kids, gone)
         /\ Reached(KidsIn(u), d) = (Reached(kids, d) \ gone) \cup {f}
         /\ Grove(KidsIn(u), ParentsIn(u), (there \ gone) \cup {f}, roots, away)
    <2>1. Grove(kids, ups, there, roots, away) /\ node \in Reached(kids, d)
      BY DEF kids, ups, there
    <2>2. \A n \in Ids : n \in gone => KidsIn(u)[n] = {} /\ ParentsIn(u)[n] = Nil
      BY <1>17, <1>10
    <2>3. \A n \in Ids : n \notin gone /\ n # f /\ n # node => KidsIn(u)[n] = kids[n]
      BY <1>18
    <2>4. \A n \in Ids : n \notin gone /\ n # f => ParentsIn(u)[n] = ups[n]
      BY <1>16, <1>18
    <2>5. PICK ks, ps : ks = KidsIn(u) /\ ps = ParentsIn(u)
      OBVIOUS
    <2>6. /\ ks \in Graphs /\ ps \in [Ids -> Ids \cup {Nil}]
          /\ ks[f] = {} /\ ks[node] = (kids[node] \ {m}) \cup {f}
          /\ ps[f] = node /\ ps[node] = ups[node]
      BY <1>15, <1>16, <2>5
    <2>7. /\ \A n \in Ids : n \in gone => ks[n] = {} /\ ps[n] = Nil
          /\ \A n \in Ids : n \notin gone /\ n # f /\ n # node => ks[n] = kids[n]
          /\ \A n \in Ids : n \notin gone /\ n # f => ps[n] = ups[n]
      BY <2>2, <2>3, <2>4, <2>5
    <2>8. /\ ClosedIn(kids, gone)
          /\ Reached(ks, d) = (Reached(kids, d) \ gone) \cup {f}
          /\ Grove(ks, ps, (there \ gone) \cup {f}, roots, away)
      <3>1. m \in kids[node] \cup {Nil}
        BY <1>8
      <3> QED
        BY <1>2, <1>6, <2>1, <2>6, <2>7, <3>1, GroveReplaced, SMTT(30)
    <2> QED
      BY <2>5, <2>8
  <1>20. ThereIn(u) = (there \ gone) \cup {f}
    <2>1. \A n \in Ids : u[n] # Freed <=> n \in (there \ gone) \cup {f}
      BY <1>2, <1>5, <1>11, <1>13, <1>10 DEF there, ThereIn
    <2> QED
      BY <1>2, <2>1 DEF ThereIn, there
  <1>21. \A n \in ThereIn(u) : WellFormed(u[n])
    BY <1>1, <1>8, <1>9, <1>11, <1>20 DEF there, ThereIn
  <1>22. ASSUME NEW n \in ThereIn(u), NEW s \in Strings, u[n].mapping[s] # Nil
         PROVE  u[u[n].mapping[s]].name = s
    <2> DEFINE k == u[n].mapping[s]
    <2>1. n \in Ids /\ WellFormed(u[n])
      BY <1>21 DEF ThereIn
    <2>2. u[n].type = "map"
      BY <1>22, <2>1 DEF WellFormed
    <2>3. k \in KidsIn(u)[n]
      BY <1>22, <2>1, <2>2 DEF KidsIn, ChildrenIn
    <2>4. k \in ThereIn(u) /\ k \in Ids
      BY <1>19, <1>20, <2>1, <2>3 DEF Grove, ThereIn
    <2>5. \A j \in ThereIn(u) : j # f => u[j].name = t[j].name
      BY <1>8, <1>11, <1>20 DEF ThereIn, there
    <2>6. \A j \in there : t[j].mapping[s] # Nil => t[t[j].mapping[s]].name = s
      BY DEF Tabled, there
    <2>7. n # f
      BY <1>9, <1>11, <1>22
    <2>8. n \in there
      BY <1>20, <2>7
    <2>9. CASE n = node
      <3>1. CASE s = name
        BY <1>8, <1>9, <1>11, <1>22, <2>9, <3>1
      <3>2. CASE s # name
        <4>1. k = t[node].mapping[s]
          BY <1>8, <1>11, <1>22, <2>9, <3>2
        <4>2. k # f
          <5>1. WellFormed(t[node]) /\ t[node].type = "map"
            BY <1>1, <1>8, <1>11, <2>2, <2>8, <2>9
          <5>2. k \in kids[node]
            BY <1>5, <1>22, <4>1, <5>1 DEF kids, KidsIn, ChildrenIn
          <5> QED
            BY <1>2, <1>3, <1>5, <5>2
        <4> QED
          BY <1>22, <2>4, <2>5, <2>6, <2>8, <2>9, <4>1, <4>2
      <3> QED
        BY <3>1, <3>2
    <2>10. CASE n # node
      <3>1. u[n] = t[n] /\ n \notin gone
        BY <1>11, <1>20, <2>1, <2>7, <2>8, <2>10
      <3>2. k \in kids[n]
        BY <1>18, <2>1, <2>3, <2>7, <2>10, <3>1
      <3>3. k # f
        BY <1>2, <1>3, <2>1, <3>2
      <3> QED
        BY <1>22, <2>4, <2>5, <2>6, <2>8, <3>1, <3>3
    <2> QED
      BY <2>9, <2>10
  <1>23. Tabled(u)
    BY <1>14, <1>21, <1>22 DEF Tabled
  <1>24. \A n \in Ids \ gone : n # f /\ n # node => u[n] = t[n]
    BY <1>11
  <1>25. u[node].type = t[node].type /\ u[node].parent = t[node].parent /\ u[f] = b
    BY <1>8, <1>11
  <1>26. Grove(KidsIn(u), ParentsIn(u), ThereIn(u), roots, away)
    BY <1>19, <1>20
  <1> USE DEF f, kids, there, b
  <1>27. Planted(u, name, d, roots, away, gone)
    BY <1>2, <1>10, <1>19, <1>20, <1>23, <1>24, <1>25, <1>26 DEF Planted
  <1> QED
    BY <1>27 DEF u, gone, m

-----------------------------------------------------------------------------
(* Where the loop is.                                                      *)
Levels == {"root", "key", "value", "item", "end"}
LevelType(level) == IF level = "item" THEN "seq" ELSE "map"

(* The levels g behind the first are the nodes c, each the parent of the   *)
(* next, and a mapping or a sequence as its level asks for.                *)
Ladder(t, g, c) ==
  /\ Len(g) \in Nat /\ Len(g) >= 2 /\ g[1] = "end"
  /\ \A i \in 2..Len(g) : g[i] \in {"key", "value", "item"}
  /\ \A i \in 2..Len(g) - 1 : g[i] # "value"
  /\ c \in [2..Len(g) -> ThereIn(t)]
  /\ \A i \in 2..Len(g) : t[c[i]].type = LevelType(g[i])
  /\ t[c[2]].parent = Nil
  /\ \A i \in 3..Len(g) : t[c[i]].parent = c[i - 1]

(* The loop is at the last of them, or, between a key and its value, at a  *)
(* child of it that has none.                                              *)
AtTop(t, g, c, at) ==
  IF g[Len(g)] = "value"
  THEN at \in ThereIn(t) /\ t[at].type = "none" /\ t[at].parent = c[Len(g)]
  ELSE at = c[Len(g)]
Place(t, g, root, at) ==
  \/ g = <<>> /\ root = Nil /\ at = Nil
  \/ g = <<"root">> /\ root # Nil /\ at = root /\ t[root].type = "none"
  \/ g = <<"end">> /\ root # Nil /\ at = Nil
  \/ root # Nil /\ at # Nil /\ \E c : Ladder(t, g, c) /\ AtTop(t, g, c, at)

(* What an event does to the grammar.                                      *)
LEMMA FrontOf ==
  ASSUME NEW g \in Seq(Levels), g # <<>>
  PROVE  /\ Len(g) \in Nat \ {0} /\ Front(g) \in Seq(Levels)
         /\ Len(Front(g)) = Len(g) - 1
         /\ \A i \in 1..Len(g) - 1 : Front(g)[i] = g[i]
         /\ Last(g) = g[Len(g)] /\ Last(g) \in Levels
  <1>1. Len(g) \in Nat \ {0} /\ Last(g) = g[Len(g)] /\ g[Len(g)] \in Levels
    BY EmptySeq, LenProperties DEF Last
  <1>2. Front(g) = SubSeq(g, 1, Len(g) - 1)
    BY DEF Front
  <1>3. /\ 1 \in 1..Len(g) + 1 /\ Len(g) - 1 \in 1 - 1..Len(g)
        /\ Len(g) - 1 - 1 + 1 = Len(g) - 1 /\ 1 <= (Len(g) - 1) + 1
        /\ \A i \in 1..Len(g) - 1 : 1 + i - 1 = i
    BY <1>1
  <1>4. /\ SubSeq(g, 1, Len(g) - 1) \in Seq(Levels)
        /\ Len(SubSeq(g, 1, Len(g) - 1)) = Len(g) - 1
        /\ \A i \in 1..Len(g) - 1 : SubSeq(g, 1, Len(g) - 1)[i] = g[i]
    BY <1>1, <1>3, SubSeqProperties
  <1> QED
    BY <1>1, <1>2, <1>4

LEMMA ReplaceLast ==
  ASSUME NEW g \in Seq(Levels), g # <<>>, NEW level \in Levels
  PROVE  LET h == Append(Front(g), level) IN
         /\ h \in Seq(Levels) /\ Len(h) = Len(g) /\ h[Len(g)] = level
         /\ \A i \in 1..Len(g) - 1 : h[i] = g[i]
  <1>1. /\ Front(g) \in Seq(Levels) /\ Len(Front(g)) = Len(g) - 1 /\ Len(g) \in Nat \ {0}
        /\ \A i \in 1..Len(g) - 1 : Front(g)[i] = g[i]
    BY FrontOf
  <1> QED
    BY <1>1, AppendProperties

(* The nodes of the ladder stay what they are.                             *)
LEMMA LadderStays ==
  ASSUME NEW t, NEW u, NEW g, NEW h, NEW c, Ladder(t, g, c),
         Len(h) = Len(g), \A i \in 1..Len(g) - 1 : h[i] = g[i],
         h[Len(g)] \in {"key", "value", "item"}, LevelType(h[Len(g)]) = LevelType(g[Len(g)]),
         \A i \in 2..Len(g) : /\ c[i] \in ThereIn(u)
                              /\ u[c[i]].type = t[c[i]].type /\ u[c[i]].parent = t[c[i]].parent
  PROVE  Ladder(u, h, c)
  <1> DEFINE n == Len(g)
  <1>1. n \in Nat /\ n >= 2
    BY DEF Ladder
  <1> HIDE DEF n
  <1>2. \A i \in 2..n : i \in 1..n - 1 \/ i = n
    BY <1>1
  <1>3. 1 \in 1..n - 1 /\ n \in 2..n /\ 2 \in 2..n /\ \A i \in 3..n : i \in 2..n
    BY <1>1
  <1>4. h[1] = "end"
    BY <1>3 DEF Ladder, n
  <1>5. \A i \in 2..n : h[i] \in {"key", "value", "item"}
    BY <1>2 DEF Ladder, n
  <1>6. \A i \in 2..n - 1 : h[i] # "value"
    <2>1. \A i \in 2..n - 1 : i \in 1..n - 1
      BY <1>1
    <2> QED
      BY <2>1 DEF Ladder, n
  <1>7. c \in [2..n -> ThereIn(u)]
    <2>1. c = [i \in 2..n |-> c[i]]
      BY DEF Ladder, n
    <2> QED
      BY <2>1 DEF n
  <1>8. \A i \in 2..n : u[c[i]].type = LevelType(h[i])
    BY <1>2 DEF Ladder, n
  <1>9. u[c[2]].parent = Nil /\ \A i \in 3..n : u[c[i]].parent = c[i - 1]
    BY <1>3 DEF Ladder, n
  <1> QED
    BY <1>1, <1>4, <1>5, <1>6, <1>7, <1>8, <1>9 DEF Ladder, n

(* A collection opens.                                                     *)
LEMMA LadderOpens ==
  ASSUME NEW t, NEW g \in Seq(Levels), NEW c, Ladder(t, g, c), g[Len(g)] # "value",
         NEW x \in ThereIn(t), t[x].parent = c[Len(g)],
         NEW level \in {"key", "item"}, t[x].type = LevelType(level)
  PROVE  LET h == Append(g, level)
         IN \E b : Ladder(t, h, b) /\ AtTop(t, h, b, x)
  <1> DEFINE n == Len(g)
             h == Append(g, level)
             b == [i \in 2..n + 1 |-> IF i <= n THEN c[i] ELSE x]
  <1>1. n \in Nat /\ n >= 2
    BY DEF Ladder
  <1>2. Len(h) = n + 1 /\ h[n + 1] = level /\ \A i \in 1..n : h[i] = g[i]
    BY AppendProperties DEF Levels
  <1> HIDE DEF n, h
  <1>3. b[n + 1] = x /\ \A i \in 2..n : b[i] = c[i]
    BY <1>1
  <1>4. /\ \A i \in 2..n + 1 : i \in 2..n \/ i = n + 1
        /\ \A i \in 2..n : i \in 1..n /\ i \in 2..n + 1
        /\ \A i \in 2..n + 1 - 1 : i \in 2..n - 1 \/ i = n
        /\ \A i \in 3..n + 1 : (i \in 3..n /\ i - 1 \in 2..n /\ i \in 2..n)
                                 \/ (i = n + 1 /\ i - 1 = n)
        /\ 2 \in 2..n /\ n \in 2..n /\ n + 1 \in 2..n + 1
    BY <1>1
  <1>5. \A i \in 2..n + 1 : h[i] \in {"key", "value", "item"}
    BY <1>2, <1>4 DEF Ladder, n
  <1>6. \A i \in 2..n + 1 - 1 : h[i] # "value"
    BY <1>2, <1>4 DEF Ladder, n
  <1>7. \A i \in 2..n : c[i] \in ThereIn(t)
    BY DEF Ladder, n
  <1>8. b \in [2..n + 1 -> ThereIn(t)]
    BY <1>7
  <1> HIDE DEF b
  <1>9. \A i \in 2..n + 1 : t[b[i]].type = LevelType(h[i])
    BY <1>2, <1>3, <1>4 DEF Ladder, n
  <1>10. t[b[2]].parent = Nil
    BY <1>3, <1>4 DEF Ladder, n
  <1>11. \A i \in 3..n + 1 : t[b[i]].parent = b[i - 1]
    BY <1>3, <1>4 DEF Ladder, n
  <1>12. h[1] = "end"
    BY <1>1, <1>2 DEF Ladder, n
  <1>13. Ladder(t, h, b)
    BY <1>1, <1>2, <1>5, <1>6, <1>8, <1>9, <1>10, <1>11, <1>12 DEF Ladder
  <1>14. AtTop(t, h, b, x)
    BY <1>2, <1>3 DEF AtTop
  <1> QED
    BY <1>13, <1>14 DEF h

(* The collection at the root opens.                                       *)
LEMMA LadderBegins ==
  ASSUME NEW t, NEW x \in ThereIn(t), t[x].parent = Nil,
         NEW level \in {"key", "item"}, t[x].type = LevelType(level)
  PROVE  LET h == Append(<<"end">>, level)
         IN \E b : Ladder(t, h, b) /\ AtTop(t, h, b, x)
  <1> DEFINE h == Append(<<"end">>, level)
             b == [i \in 2..2 |-> x]
  <1>1. Len(h) = 2 /\ h[1] = "end" /\ h[2] = level
    OBVIOUS
  <1>2. b[2] = x /\ b \in [2..2 -> ThereIn(t)] /\ \A i \in 2..2 : i = 2
    OBVIOUS
  <1> HIDE DEF h, b
  <1>3. Ladder(t, h, b)
    BY <1>1, <1>2 DEF Ladder
  <1>4. AtTop(t, h, b, x)
    BY <1>1, <1>2 DEF AtTop
  <1> QED
    BY <1>3, <1>4 DEF h

(* The collection ends at which the loop is.                               *)
LEMMA LadderCloses ==
  ASSUME NEW t, NEW g \in Seq(Levels), NEW c, Ladder(t, g, c), Len(g) > 2
  PROVE  LET h == Front(g)
         IN \E b : Ladder(t, h, b) /\ AtTop(t, h, b, c[Len(g) - 1])
  <1> DEFINE n == Len(g)
             h == Front(g)
             b == [i \in 2..n - 1 |-> c[i]]
  <1>1. n \in Nat /\ n > 2 /\ g # <<>>
    BY DEF Ladder
  <1>2. Len(h) = n - 1 /\ \A i \in 1..n - 1 : h[i] = g[i]
    BY <1>1, FrontOf
  <1> HIDE DEF n, h
  <1>3. \A i \in 2..n - 1 : b[i] = c[i]
    OBVIOUS
  <1>4. /\ \A i \in 2..n - 1 : i \in 1..n - 1 /\ i \in 2..n
        /\ \A i \in 2..n - 1 - 1 : i \in 2..n - 1
        /\ \A i \in 3..n - 1 : i \in 3..n /\ i - 1 \in 2..n - 1 /\ i \in 2..n - 1
        /\ 2 \in 2..n - 1 /\ n - 1 \in 2..n - 1
        /\ n - 1 \in Nat /\ n - 1 >= 2
    BY <1>1
  <1>5. \A i \in 2..n - 1 : h[i] \in {"key", "value", "item"} /\ h[i] # "value"
    BY <1>2, <1>4 DEF Ladder, n
  <1>6. \A i \in 2..n - 1 : c[i] \in ThereIn(t)
    BY <1>4 DEF Ladder, n
  <1>7. b \in [2..n - 1 -> ThereIn(t)]
    BY <1>6
  <1> HIDE DEF b
  <1>8. \A i \in 2..n - 1 : t[b[i]].type = LevelType(h[i])
    BY <1>2, <1>3, <1>4 DEF Ladder, n
  <1>9. t[b[2]].parent = Nil
    BY <1>3, <1>4 DEF Ladder, n
  <1>10. \A i \in 3..n - 1 : t[b[i]].parent = b[i - 1]
    BY <1>3, <1>4 DEF Ladder, n
  <1>11. h[1] = "end"
    BY <1>1, <1>2 DEF Ladder, n
  <1>12. Ladder(t, h, b)
    BY <1>2, <1>4, <1>5, <1>7, <1>8, <1>9, <1>10, <1>11 DEF Ladder
  <1>13. AtTop(t, h, b, c[n - 1])
    BY <1>2, <1>3, <1>4, <1>5 DEF AtTop
  <1> QED
    BY <1>12, <1>13 DEF h, n

-----------------------------------------------------------------------------
Roots == ToSet(docs) \cup ({doc} \ {Nil})
YamlInv ==
  /\ Tabled(heap)
  /\ docs \in Seq(Ids) /\ IsInjective(docs)
  /\ doc \in Ids \cup {Nil} /\ doc \notin ToSet(docs)
  /\ Grove(KidsIn(heap), ParentsIn(heap), ThereIn(heap), Roots, lost)
  /\ node # Nil => node \in Reached(KidsIn(heap), doc)
  /\ grammar \in Seq(Levels) /\ Place(heap, grammar, doc, node)

LEMMA SettersGive ==
  ASSUME NEW t, Tabled(t), NEW n \in ThereIn(t), NEW s \in Strings
  PROVE  /\ \E y : Gives(t, n, s, y, SetNodeScalar(t, n, s))
         /\ \E y : Gives(t, n, s, y, SetNodeMapping(t, n)) /\ y = [t[n] EXCEPT !.type = "map"]
         /\ \E y : Gives(t, n, s, y, SetNodeSequence(t, n)) /\ y = [t[n] EXCEPT !.type = "seq"]
  <1>1. /\ n \in Ids /\ t \in [Ids -> NodeRecords \cup {Freed}]
        /\ t[n] \in NodeRecords
    BY DEF Tabled, ThereIn
  <1>2. SetNodeScalar(t, n, s)
          = [t EXCEPT ![n] = [t[n] EXCEPT !.type = "scalar", !.scalar = s]]
    BY <1>1 DEF SetNodeScalar, NodeRecords
  <1>3. SetNodeMapping(t, n) = [t EXCEPT ![n] = [t[n] EXCEPT !.type = "map"]]
    BY <1>1 DEF SetNodeMapping
  <1>4. SetNodeSequence(t, n) = [t EXCEPT ![n] = [t[n] EXCEPT !.type = "seq"]]
    BY <1>1 DEF SetNodeSequence
  <1> QED
    BY <1>2, <1>3, <1>4 DEF Gives, Given

(* Where the loop is when a node begins, or a key, or a collection ends.   *)
LEMMA AtAnEvent ==
  ASSUME YamlInv, grammar # <<>>, Expects # "end"
  PROVE  /\ doc \in Ids /\ doc \in Roots /\ node # Nil /\ node \in ThereIn(heap)
         /\ node \in Reached(KidsIn(heap), doc)
         /\ Expects = grammar[Len(grammar)]
         /\ heap[doc].parent = Nil
         /\ \/ grammar = <<"root">> /\ node = doc /\ heap[node].type = "none"
            \/ \E c : /\ Ladder(heap, grammar, c) /\ AtTop(heap, grammar, c, node)
                      /\ Expects \in {"key", "value", "item"}
                      /\ heap[node].type =
                           IF Expects = "value" THEN "none" ELSE LevelType(Expects)
  <1>1. Expects = grammar[Len(grammar)]
    BY FrontOf DEF YamlInv, Expects
  <1>2. grammar # <<"end">>
    BY <1>1
  <1>3. doc # Nil /\ node # Nil
    BY <1>2 DEF YamlInv, Place
  <1>4. doc \in Ids /\ doc \in Roots
    BY <1>3 DEF YamlInv, Roots
  <1>5. /\ node \in Reached(KidsIn(heap), doc)
        /\ Grove(KidsIn(heap), ParentsIn(heap), ThereIn(heap), Roots, lost)
    BY <1>3 DEF YamlInv
  <1>6. node \in ThereIn(heap)
    BY <1>4, <1>5, TreeOfGrove
  <1>7. heap[doc].parent = Nil
    <2>1. ParentsIn(heap)[doc] = Nil /\ doc \in ThereIn(heap)
      BY <1>4, <1>5 DEF Grove
    <2> QED
      BY <1>4, <2>1 DEF ParentsIn, ThereIn
  <1>8. CASE grammar = <<"root">>
    BY <1>1, <1>2, <1>3, <1>4, <1>5, <1>6, <1>7, <1>8 DEF YamlInv, Place, Ladder
  <1>9. CASE grammar # <<"root">>
    <2>1. PICK c : Ladder(heap, grammar, c) /\ AtTop(heap, grammar, c, node)
      BY <1>2, <1>3, <1>9 DEF YamlInv, Place
    <2>2. Len(grammar) \in 2..Len(grammar)
      BY <2>1 DEF Ladder
    <2>3. /\ Expects \in {"key", "value", "item"}
          /\ heap[c[Len(grammar)]].type = LevelType(Expects)
      BY <1>1, <2>1, <2>2 DEF Ladder
    <2>4. heap[node].type = IF Expects = "value" THEN "none" ELSE LevelType(Expects)
      BY <1>1, <2>1, <2>3 DEF AtTop
    <2> QED
      BY <1>1, <1>3, <1>4, <1>5, <1>6, <1>7, <2>1, <2>3, <2>4
  <1> QED
    BY <1>8, <1>9

(* The invariant behind an event that leaves the roots as they are.        *)
LEMMA InvOfALoop ==
  ASSUME YamlInv, UNCHANGED <<docs, doc, lost>>, Tabled(heap'),
         Grove(KidsIn(heap'), ParentsIn(heap'), ThereIn(heap'), Roots, lost),
         node' # Nil => node' \in Reached(KidsIn(heap'), doc),
         grammar' \in Seq(Levels), Place(heap', grammar', doc, node')
  PROVE  YamlInv'
  BY DEF YamlInv, Roots

(* The node at which the loop is, is given its value.                      *)
Filled(u, h, at, root) ==
  \/ h = <<"end">> /\ at = root /\ u[at].parent = Nil
  \/ \E c : Ladder(u, h, c) /\ h[Len(h)] = "key" /\ u[at].parent = c[Len(h)]
LEMMA ValueIsGiven ==
  ASSUME YamlInv, TakesValue, Expects # "item", NEW s \in Strings,
         NEW y, NEW u, Gives(heap, node, s, y, u)
  PROVE  /\ Tabled(u) /\ KidsIn(u) = KidsIn(heap) /\ ThereIn(u) = ThereIn(heap)
         /\ Grove(KidsIn(u), ParentsIn(u), ThereIn(u), Roots, lost)
         /\ AfterValue \in Seq(Levels) /\ Filled(u, AfterValue, node, doc)
         /\ heap[node].type = "none" /\ u[node] = y /\ u[node].parent = heap[node].parent
  <1>1. /\ grammar # <<>> /\ Expects \in {"root", "value"}
        /\ grammar \in Seq(Levels) /\ Tabled(heap)
    BY DEF TakesValue, YamlInv
  <1>2. /\ node \in ThereIn(heap) /\ heap[doc].parent = Nil
        /\ Expects = grammar[Len(grammar)]
        /\ \/ grammar = <<"root">> /\ node = doc /\ heap[node].type = "none"
           \/ \E c : /\ Ladder(heap, grammar, c) /\ AtTop(heap, grammar, c, node)
                     /\ Expects \in {"key", "value", "item"}
                     /\ heap[node].type =
                          IF Expects = "value" THEN "none" ELSE LevelType(Expects)
    BY <1>1, AtAnEvent
  <1>3. heap[node].type = "none"
    BY <1>1, <1>2
  <1>4. /\ Tabled(u) /\ KidsIn(u) = KidsIn(heap) /\ ParentsIn(u) = ParentsIn(heap)
        /\ ThereIn(u) = ThereIn(heap)
        /\ u[node] = y /\ u[node].parent = heap[node].parent
        /\ \A m \in Ids \ {node} : u[m] = heap[m]
    <2>1. Tabled(heap) /\ node \in ThereIn(heap)
      BY <1>1, <1>2
    <2> QED
      BY <1>3, <2>1, TableWithAValue
  <1>5. Grove(KidsIn(u), ParentsIn(u), ThereIn(u), Roots, lost)
    BY <1>4 DEF YamlInv
  <1>6. CASE grammar = <<"root">> /\ node = doc
    <2>1. Front(grammar) = <<>>
      BY <1>6 DEF Front
    <2>2. Expects = "root"
      BY <1>2, <1>6
    <2>3. AfterValue = <<"end">>
      BY <2>1, <2>2 DEF AfterValue
    <2>4. <<"end">> \in Seq(Levels)
      BY DEF Levels
    <2> QED
      BY <1>2, <1>4, <1>5, <1>6, <2>3, <2>4 DEF Filled
  <1>7. ASSUME NEW c, Ladder(heap, grammar, c), AtTop(heap, grammar, c, node),
               Expects \in {"key", "value", "item"}
        PROVE  Filled(u, AfterValue, node, doc) /\ AfterValue \in Seq(Levels)
    <2> DEFINE h == AfterValue
               n == Len(grammar)
    <2>1. Expects = "value" /\ grammar[n] = "value"
      BY <1>1, <1>2, <1>7
    <2>2. h = Append(Front(grammar), "key")
      BY <2>1 DEF AfterValue
    <2>3. /\ h \in Seq(Levels) /\ Len(h) = n /\ h[n] = "key"
          /\ \A i \in 1..n - 1 : h[i] = grammar[i]
      BY <1>1, <2>2, ReplaceLast DEF Levels
    <2> HIDE DEF h, n
    <2>4. heap[node].parent = c[n]
      BY <1>7, <2>1 DEF AtTop, n
    <2>5. ASSUME NEW i \in 2..n
          PROVE  /\ c[i] \in ThereIn(u) /\ u[c[i]].type = heap[c[i]].type
                 /\ u[c[i]].parent = heap[c[i]].parent
      <3>1. c[i] \in ThereIn(heap) /\ c[i] \in Ids /\ heap[c[i]].type \in {"map", "seq"}
        BY <1>7, <2>5 DEF Ladder, n, ThereIn, LevelType
      <3> QED
        BY <1>3, <1>4, <3>1
    <2>6. Ladder(u, h, c)
      BY <1>7, <2>1, <2>3, <2>5, LadderStays DEF n, LevelType
    <2> QED
      BY <1>4, <2>3, <2>4, <2>6 DEF Filled, h
  <1> QED
    BY <1>2, <1>3, <1>4, <1>5, <1>6, <1>7

(* The node at which the loop is, gets a child.                            *)
LEMMA ChildIsAdded ==
  ASSUME YamlInv, grammar # <<>>, Expects \in {"key", "item"}, Room,
         NEW name \in Strings \cup {Nil}, Expects = "key" => name \in Strings,
         NEW u, u = CreateNode(name)
  PROVE  /\ Tabled(u) /\ Grove(KidsIn(u), ParentsIn(u), ThereIn(u), Roots, lost)
         /\ Fresh \in ThereIn(u) /\ u[Fresh].type = "none" /\ u[Fresh].parent = node
         /\ Fresh \in Reached(KidsIn(u), doc) /\ node \in Reached(KidsIn(u), doc)
         /\ \E c : Ladder(u, grammar, c) /\ c[Len(grammar)] = node
  <1> DEFINE gone == Subtree(Former(name))
             n == Len(grammar)
  <1>1. /\ doc \in Roots /\ node \in ThereIn(heap)
        /\ node \in Reached(KidsIn(heap), doc) /\ Expects = grammar[n]
        /\ \E c : /\ Ladder(heap, grammar, c) /\ AtTop(heap, grammar, c, node)
                  /\ heap[node].type = LevelType(Expects)
    <2>1. grammar # <<"root">>
      <3>1. Expects = grammar[Len(grammar)]
        BY AtAnEvent
      <3> QED
        BY <3>1
    <2> QED
      BY <2>1, AtAnEvent
  <1>2. PICK c : /\ Ladder(heap, grammar, c) /\ AtTop(heap, grammar, c, node)
                 /\ heap[node].type = LevelType(Expects)
    BY <1>1
  <1>3. c[n] = node
    BY <1>1, <1>2 DEF AtTop
  <1>4. /\ heap[node].type \in {"map", "seq"}
        /\ heap[node].type = "map" => name \in Strings
    BY <1>2 DEF LevelType
  <1>5. Tabled(heap) /\ Grove(KidsIn(heap), ParentsIn(heap), ThereIn(heap), Roots, lost)
    BY DEF YamlInv
  <1>6. Planted(u, name, doc, Roots, lost, gone)
    BY <1>1, <1>4, <1>5, NodeIsCreated
  <1> HIDE DEF gone
  <1>7. /\ Fresh \in Ids /\ Fresh \notin ThereIn(heap) /\ node \notin gone
        /\ Tabled(u) /\ ThereIn(u) = (ThereIn(heap) \ gone) \cup {Fresh}
        /\ u[Fresh] = Blank(name, node)
        /\ u[node].type = heap[node].type /\ u[node].parent = heap[node].parent
        /\ \A m \in Ids \ gone : m # Fresh /\ m # node => u[m] = heap[m]
        /\ ClosedIn(KidsIn(heap), gone)
        /\ Grove(KidsIn(u), ParentsIn(u), ThereIn(u), Roots, lost)
        /\ Reached(KidsIn(u), doc) = (Reached(KidsIn(heap), doc) \ gone) \cup {Fresh}
    BY <1>6 DEF Planted
  <1>8. node \in Ids
    BY <1>1 DEF ThereIn
  <1>9. u[Fresh].type = "none" /\ u[Fresh].parent = node
    BY <1>7, <1>8, BlankIsANode
  <1>10. n \in Nat /\ n >= 2 /\ c \in [2..n -> ThereIn(heap)]
    BY <1>2 DEF Ladder
  <1>11. \A i \in 2..n : c[i] \notin gone
    <2>1. \A i \in 3..n : ParentsIn(heap)[c[i]] = c[i - 1]
      <3> TAKE i \in 3..n
      <3>1. i \in 2..n
        BY <1>10
      <3>2. c[i] \in ThereIn(heap) /\ heap[c[i]].parent = c[i - 1]
        BY <1>2, <1>10, <3>1 DEF Ladder
      <3> QED
        BY <3>2 DEF ParentsIn, ThereIn
    <2>2. c[n] \notin gone
      BY <1>3, <1>7
    <2>3. /\ Grove(KidsIn(heap), ParentsIn(heap), ThereIn(heap), Roots, lost)
          /\ ClosedIn(KidsIn(heap), gone)
      BY <1>5, <1>7
    <2> HIDE DEF n
    <2> QED
      BY <1>10, <2>1, <2>2, <2>3, NodesAboveStay
  <1>12. ASSUME NEW i \in 2..n
         PROVE  /\ c[i] \in ThereIn(u) /\ u[c[i]].type = heap[c[i]].type
                /\ u[c[i]].parent = heap[c[i]].parent
    <2>1. c[i] \in ThereIn(heap) /\ c[i] \in Ids \ gone /\ c[i] # Fresh
      BY <1>7, <1>10, <1>11, <1>12 DEF ThereIn
    <2> QED
      BY <1>7, <2>1
  <1>13. grammar[n] \in {"key", "item"} /\ Len(grammar) = n
    BY <1>1
  <1>14. Ladder(u, grammar, c)
    BY <1>2, <1>12, <1>13, LadderStays
  <1> QED
    BY <1>1, <1>3, <1>7, <1>9, <1>14

-----------------------------------------------------------------------------
(* Every step keeps the invariant.                                         *)
LEMMA FreshIsFree ==
  ASSUME Room PROVE Fresh \in Ids /\ heap[Fresh] = Freed /\ Fresh \notin ThereIn(heap)
  BY DEF Room, Live, Fresh, ThereIn

LEMMA NoLoopYet ==
  ASSUME YamlInv, grammar = <<>>
  PROVE  doc = Nil /\ node = Nil /\ Roots = ToSet(docs)
  <1>1. Len(<<>>) = 0
    OBVIOUS
  <1> QED
    BY <1>1 DEF YamlInv, Place, Ladder, Roots

LEMMA DocumentStartInv ==
  ASSUME YamlInv, DocumentStart PROVE YamlInv'
  <1> DEFINE f == Fresh
             t == heap
             u == [heap EXCEPT ![f] = Blank(Nil, Nil)]
             b == Blank(Nil, Nil)
  <1>1. /\ grammar = <<>> /\ Room /\ heap' = u
        /\ doc' = f /\ node' = f /\ grammar' = <<"root">> /\ UNCHANGED <<docs, lost>>
    BY DEF DocumentStart
  <1>2. f \in Ids /\ t[f] = Freed /\ f \notin ThereIn(t) /\ f # Nil
    BY <1>1, FreshIsFree, NilAssumption
  <1>3. doc = Nil /\ node = Nil /\ Roots = ToSet(docs)
    BY <1>1, NoLoopYet
  <1>4. /\ Tabled(t) /\ docs \in Seq(Ids) /\ IsInjective(docs)
        /\ Grove(KidsIn(t), ParentsIn(t), ThereIn(t), Roots, lost)
    BY DEF YamlInv
  <1>5. /\ WellFormed(b) /\ ChildrenIn(b) = {} /\ b.type = "none" /\ b.parent = Nil
        /\ b.name = Nil /\ \A s \in Strings : b.mapping[s] = Nil
    BY BlankIsANode
  <1>6. b \in NodeRecords /\ b # Freed
    BY <1>5, FreedIsNoNode DEF WellFormed
  <1>7. u[f] = b /\ \A n \in Ids : n # f => u[n] = t[n]
    BY <1>2, <1>4 DEF Tabled
  <1>8. u \in [Ids -> NodeRecords \cup {Freed}]
    BY <1>2, <1>4, <1>6 DEF Tabled
  <1> HIDE DEF f, u, b
  <1>9. ThereIn(u) = ThereIn(t) \cup {f}
    BY <1>2, <1>6, <1>7 DEF ThereIn
  <1>10. KidsIn(u) = KidsIn(t)
    <2>1. \A n \in Ids : ChildrenIn(u[n]) = ChildrenIn(t[n])
      BY <1>2, <1>5, <1>7, FreedIsNoNode
    <2> QED
      BY <2>1 DEF KidsIn
  <1>11. ParentsIn(u) = [ParentsIn(t) EXCEPT ![f] = Nil]
    <2>1. \A n \in Ids : n # f => ParentsIn(u)[n] = ParentsIn(t)[n]
      BY <1>7 DEF ParentsIn
    <2>2. ParentsIn(u)[f] = Nil
      BY <1>2, <1>5, <1>6, <1>7 DEF ParentsIn
    <2> DEFINE v == [ParentsIn(t) EXCEPT ![f] = Nil]
    <2>3. DOMAIN ParentsIn(t) = Ids /\ DOMAIN ParentsIn(u) = Ids
      BY DEF ParentsIn
    <2>4. v = [n \in Ids |-> v[n]] /\ \A n \in Ids : v[n] = ParentsIn(u)[n]
      BY <1>2, <2>1, <2>2, <2>3
    <2>5. ParentsIn(u) = [n \in Ids |-> ParentsIn(u)[n]]
      BY DEF ParentsIn
    <2>6. v = ParentsIn(u)
      <3> DEFINE w == ParentsIn(u)
      <3>1. v = [n \in Ids |-> v[n]] /\ w = [n \in Ids |-> w[n]] /\ \A n \in Ids : v[n] = w[n]
        BY <2>4, <2>5
      <3> HIDE DEF v, w
      <3>2. v = w
        BY <3>1
      <3> QED
        BY <3>2 DEF w
    <2> QED
      BY <2>6
  <1>12. Grove(KidsIn(u), ParentsIn(u), ThereIn(u), Roots \cup {f}, lost)
    <2>1. Grove(KidsIn(t), [ParentsIn(t) EXCEPT ![f] = Nil], ThereIn(t) \cup {f},
                Roots \cup {f}, lost)
      BY <1>2, <1>4, GroveWithRoot
    <2> QED
      BY <1>9, <1>10, <1>11, <2>1, Zenon
  <1>13. Roots' = Roots \cup {f}
    BY <1>1, <1>2, <1>3 DEF Roots
  <1>14. \A n \in ThereIn(u) : WellFormed(u[n])
    BY <1>4, <1>5, <1>7, <1>9 DEF Tabled, ThereIn
  <1>15. ASSUME NEW n \in ThereIn(u), NEW s \in Strings, u[n].mapping[s] # Nil
         PROVE  u[u[n].mapping[s]].name = s
    <2>1. n # f /\ n \in ThereIn(t) /\ n \in Ids /\ u[n] = t[n]
      BY <1>5, <1>7, <1>9, <1>15 DEF ThereIn
    <2>2. t[n] \in NodeRecords /\ WellFormed(t[n])
      BY <1>4, <2>1 DEF Tabled, WellFormed
    <2>3. t[n].type = "map"
      BY <1>15, <2>1, <2>2 DEF WellFormed
    <2>4. t[n].mapping[s] \in KidsIn(t)[n]
      BY <1>15, <2>1, <2>3 DEF KidsIn, ChildrenIn
    <2>5. t[n].mapping[s] \in ThereIn(t)
      BY <1>4, <2>1, <2>4 DEF Grove
    <2>6. t[n].mapping[s] \in Ids /\ t[n].mapping[s] # f
      BY <1>2, <2>5 DEF ThereIn
    <2> QED
      BY <1>4, <1>7, <1>15, <2>1, <2>6 DEF Tabled
  <1>16. Tabled(u)
    BY <1>8, <1>14, <1>15 DEF Tabled
  <1>17. f \notin ToSet(docs)
    BY <1>2, <1>3, <1>4 DEF Grove
  <1>18. f \in Reached(KidsIn(u), f)
    BY <1>2, <1>4, <1>10, ReachedIsClosed DEF Grove
  <1>19. <<"root">> \in Seq(Levels)
    BY DEF Levels
  <1>20. Place(u, <<"root">>, f, f)
    BY <1>2, <1>5, <1>7 DEF Place
  <1> QED
    BY <1>1, <1>2, <1>4, <1>12, <1>13, <1>16, <1>17, <1>18, <1>19, <1>20 DEF YamlInv

LEMMA DocumentEndInv ==
  ASSUME YamlInv, DocumentEnd PROVE YamlInv'
  <1>1. /\ grammar = <<"end">> /\ docs' = Append(docs, doc) /\ doc' = Nil /\ node' = Nil
        /\ grammar' = <<>> /\ UNCHANGED <<heap, lost>>
    BY DEF DocumentEnd
  <1>2. doc # Nil /\ doc \in Ids
    <2>1. Len(<<"end">>) = 1
      OBVIOUS
    <2> QED
      BY <1>1, <2>1 DEF YamlInv, Place, Ladder
  <1>3. docs \in Seq(Ids) /\ IsInjective(docs) /\ doc \notin ToSet(docs)
    BY DEF YamlInv
  <1>4. /\ docs' \in Seq(Ids) /\ IsInjective(docs') /\ ToSet(docs') = ToSet(docs) \cup {doc}
        /\ ToSet(docs') \subseteq Ids
    <2>1. Append(docs, doc) \in Seq(Ids)
      BY <1>2, <1>3
    <2>2. /\ IsInjective(Append(docs, doc)) /\ ToSet(docs) \subseteq Ids
          /\ ToSet(Append(docs, doc)) = ToSet(docs) \cup {doc}
      BY <1>2, <1>3, ToSetAppend
    <2> QED
      BY <1>1, <1>2, <2>1, <2>2
  <1>5. Roots' = Roots /\ Nil \notin ToSet(docs')
    BY <1>1, <1>2, <1>4, NilAssumption DEF Roots
  <1>6. <<>> \in Seq(Levels) /\ Place(heap', <<>>, Nil, Nil)
    BY DEF Place
  <1> QED
    BY <1>1, <1>4, <1>5, <1>6 DEF YamlInv

LEMMA ParseErrorInv ==
  ASSUME YamlInv, ParseError PROVE YamlInv'
  <1>1. /\ grammar # <<>> /\ lost' = lost \cup Reached(KidsIn(heap), doc)
        /\ doc' = Nil /\ node' = Nil /\ grammar' = <<>> /\ UNCHANGED <<heap, docs>>
    BY SubtreeIsReached DEF ParseError
  <1>2. doc # Nil /\ doc \in Roots
    BY <1>1 DEF YamlInv, Place, Roots
  <1>3. Roots' = Roots \ {doc}
    BY <1>1 DEF YamlInv, Roots
  <1>4. Grove(KidsIn(heap), ParentsIn(heap), ThereIn(heap), Roots \ {doc},
              lost \cup Reached(KidsIn(heap), doc))
    BY <1>2, GroveWithout DEF YamlInv
  <1>5. Nil \notin ToSet(docs)
    BY NilAssumption, LenProperties DEF YamlInv, ToSet
  <1>6. <<>> \in Seq(Levels) /\ Place(heap', <<>>, Nil, Nil)
    BY DEF Place
  <1> QED
    BY <1>1, <1>3, <1>4, <1>5, <1>6 DEF YamlInv

LEMMA KeepInv ==
  ASSUME YamlInv, NEW m \in Nat, Keep(m) PROVE YamlInv'
  <1> DEFINE t == heap
             all == KidsIn(t)
             cut == {docs[i] : i \in m + 1..Len(docs)}
             gone == Forest(cut)
             u == Without(gone)
             kept == SubSeq(docs, 1, m)
  <1>1. /\ grammar = <<>> /\ m <= Len(docs) /\ docs' = kept /\ heap' = u
        /\ UNCHANGED <<doc, node, grammar, lost>>
    BY DEF Keep
  <1>2. doc = Nil /\ node = Nil /\ Roots = ToSet(docs)
    BY <1>1, NoLoopYet
  <1>3. /\ Tabled(t) /\ docs \in Seq(Ids) /\ IsInjective(docs)
        /\ Grove(all, ParentsIn(t), ThereIn(t), Roots, lost)
    BY DEF YamlInv
  <1>4. Len(docs) \in Nat /\ DOMAIN docs = 1..Len(docs)
            /\ \A i \in 1..Len(docs) : docs[i] \in Ids
    BY <1>3, LenProperties
  <1>5. kept \in Seq(Ids) /\ Len(kept) = m /\ \A i \in 1..m : kept[i] = docs[i]
    <2>1. 1 \in Int /\ m \in Int /\ \A i \in 1..m : docs[i] \in Ids /\ 1 + i - 1 = i
      BY <1>1, <1>4
    <2>2. /\ kept \in Seq(Ids)
          /\ Len(kept) = IF 1 <= m THEN m - 1 + 1 ELSE 0
          /\ \A i \in 1..m - 1 + 1 : kept[i] = docs[1 + i - 1]
      BY <2>1, SubSeqProperties
    <2> QED
      BY <2>1, <2>2
  <1> HIDE DEF kept
  <1>6. DOMAIN kept = 1..m /\ \A i \in 1..m : i \in 1..Len(docs)
    BY <1>1, <1>4, <1>5, LenProperties
  <1>7. IsInjective(kept)
    BY <1>3, <1>4, <1>5, <1>6 DEF IsInjective
  <1>8. ToSet(kept) = {docs[i] : i \in 1..m}
    BY <1>5, <1>6 DEF ToSet
  <1>9. ToSet(docs) = {docs[i] : i \in 1..Len(docs)}
    BY <1>4 DEF ToSet
  <1>10. ToSet(kept) \in SUBSET Roots
    BY <1>2, <1>6, <1>8, <1>9
  <1>11. cut = Roots \ ToSet(kept)
    <2>1. \A i \in 1..Len(docs) : i \in 1..m \/ i \in m + 1..Len(docs)
      BY <1>4
    <2>2. \A i \in m + 1..Len(docs) : i \in 1..Len(docs) /\ i \notin 1..m
      BY <1>4
    <2>3. \A i, j \in 1..Len(docs) : docs[i] = docs[j] => i = j
      BY <1>3, <1>4 DEF IsInjective
    <2> HIDE DEF cut
    <2>4. \A i \in m + 1..Len(docs) : docs[i] \notin ToSet(kept)
      BY <1>6, <1>8, <2>2, <2>3
    <2>5. cut \subseteq Roots \ ToSet(kept)
      BY <1>2, <1>9, <2>2, <2>4 DEF cut
    <2>6. Roots \ ToSet(kept) \subseteq cut
      BY <1>2, <1>8, <1>9, <2>1 DEF cut
    <2> QED
      BY <2>5, <2>6
  <1>12. gone = Trees(all, Roots \ ToSet(kept))
    BY <1>11, SubtreeIsReached DEF Forest, Trees
  <1>13. u = [n \in Ids |-> IF n \in gone THEN Freed ELSE t[n]]
    BY DEF Without
  <1> HIDE DEF u, gone, all, cut
  <1>14. \A n \in Ids : u[n] = IF n \in gone THEN Freed ELSE t[n]
    BY <1>13
  <1>15. ThereIn(u) = ThereIn(t) \ gone
    BY <1>14 DEF ThereIn
  <1>16. \A n \in Ids : ChildrenIn(u[n]) = IF n \in gone THEN {} ELSE all[n]
    BY <1>14, FreedIsNoNode DEF all, KidsIn
  <1>17. /\ \A n \in Ids : n \in gone => KidsIn(u)[n] = {} /\ ParentsIn(u)[n] = Nil
         /\ \A n \in Ids : n \notin gone =>
              KidsIn(u)[n] = all[n] /\ ParentsIn(u)[n] = ParentsIn(t)[n]
    BY <1>14, <1>16 DEF KidsIn, ParentsIn
  <1>18. Grove(KidsIn(u), ParentsIn(u), ThereIn(u), ToSet(kept), lost)
    <2>1. all \in Graphs /\ ParentsIn(t) \in [Ids -> Ids \cup {Nil}]
      BY <1>3 DEF Grove
    <2>2. KidsIn(u) \in Graphs
      BY <1>16, <2>1 DEF KidsIn, Graphs
    <2>3. ParentsIn(u) \in [Ids -> Ids \cup {Nil}]
      <3>1. \A n \in Ids : ParentsIn(u)[n] \in Ids \cup {Nil}
        BY <1>17, <2>1
      <3> QED
        BY <3>1 DEF ParentsIn
    <2>4. Cuts(all, ParentsIn(t), gone, KidsIn(u), ParentsIn(u))
      BY <1>17, <2>2, <2>3 DEF Cuts
    <2>5. Grove(KidsIn(u), ParentsIn(u), ThereIn(t) \ gone, ToSet(kept), lost)
      BY <1>3, <1>10, <1>12, <2>4, GroveCut
    <2> QED
      BY <1>15, <2>5, Zenon
  <1>19. Roots' = ToSet(kept) /\ Nil \notin ToSet(kept)
    <2>1. Nil \notin ToSet(kept)
      BY <1>4, <1>6, <1>8, NilAssumption
    <2> QED
      BY <1>1, <1>2, <2>1 DEF Roots
  <1>20. Tabled(u)
    <2>1. u \in [Ids -> NodeRecords \cup {Freed}]
      <3>1. \A n \in Ids : t[n] \in NodeRecords \cup {Freed}
        BY <1>3 DEF Tabled
      <3> QED
        BY <1>13, <3>1
    <2>2. \A n \in ThereIn(u) : n \in ThereIn(t) /\ n \in Ids /\ u[n] = t[n]
      BY <1>14, <1>15 DEF ThereIn
    <2>3. \A n \in ThereIn(u) : WellFormed(u[n])
      BY <1>3, <2>2 DEF Tabled
    <2>4. ASSUME NEW n \in ThereIn(u), NEW s \in Strings, u[n].mapping[s] # Nil
          PROVE  u[u[n].mapping[s]].name = s
      <3>1. u[n].type = "map"
        BY <2>3, <2>4 DEF WellFormed
      <3>2. u[n].mapping[s] \in KidsIn(u)[n]
        BY <2>2, <2>4, <3>1 DEF KidsIn, ChildrenIn
      <3>3. u[n].mapping[s] \in ThereIn(u)
        BY <1>18, <2>2, <3>2 DEF Grove
      <3>4. t[t[n].mapping[s]].name = s
        BY <1>3, <2>2, <2>4 DEF Tabled
      <3> QED
        BY <2>2, <3>3, <3>4
    <2> QED
      BY <2>1, <2>3, <2>4 DEF Tabled
  <1>21. grammar' \in Seq(Levels) /\ Place(heap', grammar', doc', node')
    BY <1>1, <1>2 DEF YamlInv, Place
  <1> QED
    BY <1>1, <1>2, <1>5, <1>7, <1>18, <1>19, <1>20, <1>21 DEF YamlInv

LEMMA ParentIsReached ==
  ASSUME YamlInv, grammar # <<>>, Expects # "end", heap[node].parent # Nil
  PROVE  heap[node].parent \in Reached(KidsIn(heap), doc)
  <1>1. /\ doc \in Roots /\ node \in Reached(KidsIn(heap), doc) /\ node \in ThereIn(heap)
        /\ heap[doc].parent = Nil
    BY AtAnEvent
  <1>2. ParentsIn(heap)[node] \in Reached(KidsIn(heap), doc)
    <2>1. Grove(KidsIn(heap), ParentsIn(heap), ThereIn(heap), Roots, lost)
      BY DEF YamlInv
    <2>2. node # doc
      BY <1>1
    <2> QED
      BY <1>1, <2>1, <2>2, TreeOfGrove
  <1> QED
    BY <1>1, <1>2 DEF ParentsIn, ThereIn

(* The value is a collection, and opens.                                   *)
LEMMA FilledOpens ==
  ASSUME NEW u, NEW g \in Seq(Levels), NEW x \in ThereIn(u), NEW root, Filled(u, g, x, root),
         NEW level \in {"key", "item"}, u[x].type = LevelType(level)
  PROVE  LET h == Append(g, level)
         IN \E b : Ladder(u, h, b) /\ AtTop(u, h, b, x)
  <1>1. CASE g = <<"end">> /\ u[x].parent = Nil
    BY <1>1, LadderBegins
  <1>2. ASSUME NEW c, Ladder(u, g, c), g[Len(g)] = "key", u[x].parent = c[Len(g)]
        PROVE  \E b : Ladder(u, Append(g, level), b) /\ AtTop(u, Append(g, level), b, x)
    <2>1. g[Len(g)] # "value"
      BY <1>2
    <2> QED
      BY <1>2, <2>1, LadderOpens
  <1> QED
    BY <1>1, <1>2 DEF Filled

LEMMA ScalarInv ==
  ASSUME YamlInv, NEW s \in Strings, Scalar(s) PROVE YamlInv'
  <1>1. /\ grammar # <<>> /\ Expects \in {"root", "key", "value", "item"}
        /\ grammar \in Seq(Levels) /\ UNCHANGED <<docs, doc, lost>>
        /\ grammar' = IF Expects = "key" THEN Append(Front(grammar), "value") ELSE AfterValue
    BY DEF Scalar, TakesValue, YamlInv
  <1>2. /\ doc # Nil /\ node # Nil /\ Expects = grammar[Len(grammar)]
        /\ node \in ThereIn(heap) /\ doc \in Ids
        /\ \/ grammar = <<"root">> /\ node = doc /\ heap[node].type = "none"
           \/ /\ Expects \in {"key", "value", "item"}
              /\ heap[node].type = IF Expects = "value" THEN "none" ELSE LevelType(Expects)
    BY <1>1, AtAnEvent, NilAssumption
  <1>3. /\ Expects = "key" => heap[node].type = "map"
        /\ Expects = "item" => heap[node].type = "seq"
        /\ Expects \in {"root", "value"} => heap[node].type = "none"
    <2>1. grammar = <<"root">> => Expects = "root"
      BY <1>2
    <2> QED
      BY <1>1, <1>2, <2>1 DEF LevelType
  <1>4. CASE Expects = "key"
    <2>1. Room /\ heap' = CreateNode(s) /\ node' = Fresh
      BY <1>3, <1>4 DEF Scalar
    <2>2. PICK u : u = CreateNode(s)
      OBVIOUS
    <2>3. /\ Tabled(u) /\ Grove(KidsIn(u), ParentsIn(u), ThereIn(u), Roots, lost)
          /\ Fresh \in ThereIn(u) /\ u[Fresh].type = "none" /\ u[Fresh].parent = node
          /\ Fresh \in Reached(KidsIn(u), doc)
          /\ \E c : Ladder(u, grammar, c) /\ c[Len(grammar)] = node
      BY <1>1, <1>4, <2>1, <2>2, ChildIsAdded
    <2>4. PICK c : Ladder(u, grammar, c) /\ c[Len(grammar)] = node
      BY <2>3
    <2>5. PICK h : h = Append(Front(grammar), "value")
      OBVIOUS
    <2>6. /\ h \in Seq(Levels) /\ Len(h) = Len(grammar) /\ h[Len(grammar)] = "value"
          /\ \A i \in 1..Len(grammar) - 1 : h[i] = grammar[i]
      BY <1>1, <2>5, ReplaceLast DEF Levels
    <2>7. Ladder(u, h, c)
      <3>1. \A i \in 2..Len(grammar) : c[i] \in ThereIn(u)
        BY <2>4 DEF Ladder
      <3> QED
        BY <1>2, <1>4, <2>4, <2>6, <3>1, LadderStays DEF LevelType
    <2>8. AtTop(u, h, c, Fresh)
      BY <2>3, <2>4, <2>6 DEF AtTop
    <2>9. Fresh # Nil
      BY <2>3, NilAssumption DEF ThereIn
    <2>10. Place(u, h, doc, Fresh)
      BY <1>2, <2>7, <2>8, <2>9 DEF Place
    <2>11. grammar' = h /\ heap' = u
      BY <1>1, <1>4, <2>1, <2>2, <2>5
    <2> QED
      BY <1>1, <2>1, <2>3, <2>6, <2>10, <2>11, InvOfALoop
  <1>5. CASE Expects = "item"
    <2>1. Room /\ heap' = SetNodeScalar(CreateNode(s), Fresh, s) /\ node' = node
      BY <1>3, <1>5 DEF Scalar
    <2>2. PICK t : t = CreateNode(s)
      OBVIOUS
    <2>3. /\ Tabled(t) /\ Grove(KidsIn(t), ParentsIn(t), ThereIn(t), Roots, lost)
          /\ Fresh \in ThereIn(t) /\ t[Fresh].type = "none"
          /\ node \in Reached(KidsIn(t), doc)
          /\ \E c : Ladder(t, grammar, c) /\ c[Len(grammar)] = node
      BY <1>1, <1>5, <2>1, <2>2, ChildIsAdded
    <2>4. PICK c : Ladder(t, grammar, c) /\ c[Len(grammar)] = node
      BY <2>3
    <2>5. PICK u : u = SetNodeScalar(t, Fresh, s)
      OBVIOUS
    <2>6. PICK y : Gives(t, Fresh, s, y, u)
      BY <2>3, <2>5, SettersGive
    <2>7. /\ Tabled(u) /\ KidsIn(u) = KidsIn(t) /\ ParentsIn(u) = ParentsIn(t)
          /\ ThereIn(u) = ThereIn(t) /\ \A m \in Ids \ {Fresh} : u[m] = t[m]
      BY <2>3, <2>6, TableWithAValue
    <2>8. PICK h : h = AfterValue
      OBVIOUS
    <2>9. /\ h \in Seq(Levels) /\ Len(h) = Len(grammar) /\ h[Len(grammar)] = "item"
          /\ \A i \in 1..Len(grammar) - 1 : h[i] = grammar[i]
      <3>1. h = Append(Front(grammar), "item")
        BY <1>5, <2>8 DEF AfterValue
      <3> QED
        BY <1>1, <3>1, ReplaceLast DEF Levels
    <2>10. ASSUME NEW i \in 2..Len(grammar)
           PROVE  /\ c[i] \in ThereIn(u) /\ u[c[i]].type = t[c[i]].type
                  /\ u[c[i]].parent = t[c[i]].parent
      <3>1. c[i] \in ThereIn(t) /\ t[c[i]].type \in {"map", "seq"}
        BY <2>4, <2>10 DEF Ladder, LevelType
      <3> QED
        BY <2>3, <2>7, <3>1 DEF ThereIn
    <2>11. Ladder(u, h, c)
      BY <1>2, <1>5, <2>4, <2>9, <2>10, LadderStays
    <2>12. Place(u, h, doc, node)
      BY <1>2, <2>4, <2>9, <2>11 DEF AtTop, Place
    <2>13. grammar' = h /\ heap' = u
      BY <1>1, <1>5, <2>1, <2>2, <2>5, <2>8
    <2>14. Grove(KidsIn(u), ParentsIn(u), ThereIn(u), Roots, lost)
      BY <2>3, <2>7, Zenon
    <2> QED
      BY <1>1, <2>1, <2>3, <2>7, <2>9, <2>12, <2>13, <2>14, InvOfALoop
  <1>6. CASE Expects \in {"root", "value"}
    <2>1. /\ heap' = SetNodeScalar(heap, node, s) /\ node' = heap[node].parent
          /\ TakesValue
      BY <1>1, <1>3, <1>6 DEF Scalar, TakesValue
    <2>2. PICK u : u = SetNodeScalar(heap, node, s)
      OBVIOUS
    <2>3. PICK y : Gives(heap, node, s, y, u)
      BY <1>2, <2>2, SettersGive DEF YamlInv
    <2>4. /\ Tabled(u) /\ KidsIn(u) = KidsIn(heap)
          /\ Grove(KidsIn(u), ParentsIn(u), ThereIn(u), Roots, lost)
          /\ AfterValue \in Seq(Levels) /\ Filled(u, AfterValue, node, doc)
          /\ u[node].parent = heap[node].parent
      BY <1>6, <2>1, <2>3, ValueIsGiven
    <2>5. PICK h : h = AfterValue
      OBVIOUS
    <2>6. Place(u, h, doc, heap[node].parent)
      <3>1. CASE h = <<"end">> /\ node = doc /\ u[node].parent = Nil
        BY <1>2, <2>4, <3>1 DEF Place
      <3>2. ASSUME NEW c, Ladder(u, h, c), h[Len(h)] = "key", u[node].parent = c[Len(h)]
            PROVE  Place(u, h, doc, heap[node].parent)
        <4>1. c[Len(h)] \in ThereIn(u) /\ c[Len(h)] # Nil
          BY <3>2, NilAssumption DEF Ladder, ThereIn
        <4>2. AtTop(u, h, c, heap[node].parent)
          BY <2>4, <3>2 DEF AtTop
        <4> QED
          BY <1>2, <2>4, <3>2, <4>1, <4>2 DEF Place
      <3> QED
        BY <2>4, <2>5, <3>1, <3>2 DEF Filled
    <2>7. heap[node].parent # Nil => heap[node].parent \in Reached(KidsIn(u), doc)
      BY <1>1, <1>6, <2>4, ParentIsReached
    <2>8. grammar' = h /\ heap' = u
      BY <1>1, <1>6, <2>1, <2>2, <2>5
    <2> QED
      BY <1>1, <2>1, <2>4, <2>5, <2>6, <2>7, <2>8, InvOfALoop
  <1> QED
    BY <1>1, <1>4, <1>5, <1>6

LEMMA MappingStartInv ==
  ASSUME YamlInv, MappingStart PROVE YamlInv'
  <1>1. /\ grammar # <<>> /\ Expects \in {"root", "value", "item"} /\ TakesValue
        /\ grammar \in Seq(Levels) /\ UNCHANGED <<docs, doc, lost>>
        /\ grammar' = Append(AfterValue, "key")
    BY DEF MappingStart, TakesValue, YamlInv
  <1>2. /\ doc # Nil /\ node # Nil /\ Expects = grammar[Len(grammar)]
        /\ node \in ThereIn(heap) /\ doc \in Ids
        /\ node \in Reached(KidsIn(heap), doc)
        /\ \/ grammar = <<"root">> /\ node = doc /\ heap[node].type = "none"
           \/ heap[node].type = IF Expects = "value" THEN "none" ELSE LevelType(Expects)
    BY <1>1, AtAnEvent, NilAssumption
  <1>3. /\ Expects = "item" => heap[node].type = "seq"
        /\ Expects # "item" => heap[node].type # "seq"
    <2>1. grammar = <<"root">> => Expects = "root"
      BY <1>2
    <2> QED
      BY <1>1, <1>2, <2>1 DEF LevelType
  <1>4. PICK g : g = AfterValue
    OBVIOUS
  <1>5. PICK h : h = Append(g, "key")
    OBVIOUS
  <1>6. Kind \in Strings
    BY NilAssumption
  <1>7. CASE Expects = "item"
    <2>1. Room /\ heap' = SetNodeMapping(CreateNode(Nil), Fresh) /\ node' = Fresh
      BY <1>3, <1>7 DEF MappingStart
    <2>2. PICK t : t = CreateNode(Nil)
      OBVIOUS
    <2>3. /\ Tabled(t) /\ Grove(KidsIn(t), ParentsIn(t), ThereIn(t), Roots, lost)
          /\ Fresh \in ThereIn(t) /\ t[Fresh].type = "none" /\ t[Fresh].parent = node
          /\ Fresh \in Reached(KidsIn(t), doc)
          /\ \E c : Ladder(t, grammar, c) /\ c[Len(grammar)] = node
      BY <1>1, <1>7, <2>1, <2>2, ChildIsAdded
    <2>4. PICK c : Ladder(t, grammar, c) /\ c[Len(grammar)] = node
      BY <2>3
    <2>5. PICK u : u = SetNodeMapping(t, Fresh)
      OBVIOUS
    <2>6. PICK y : Gives(t, Fresh, Kind, y, u) /\ y = [t[Fresh] EXCEPT !.type = "map"]
      BY <1>6, <2>3, <2>5, SettersGive
    <2>7. /\ Tabled(u) /\ KidsIn(u) = KidsIn(t) /\ ParentsIn(u) = ParentsIn(t)
          /\ ThereIn(u) = ThereIn(t) /\ \A m \in Ids \ {Fresh} : u[m] = t[m]
          /\ u[Fresh] = y /\ u[Fresh].parent = t[Fresh].parent
      BY <1>6, <2>3, <2>6, TableWithAValue
    <2>8. u[Fresh].type = "map"
      <3>1. t[Fresh] \in NodeRecords
        BY <2>3 DEF Tabled, ThereIn
      <3> QED
        BY <2>6, <2>7, <3>1 DEF NodeRecords
    <2>9. /\ g \in Seq(Levels) /\ Len(g) = Len(grammar) /\ g[Len(grammar)] = "item"
          /\ \A i \in 1..Len(grammar) - 1 : g[i] = grammar[i]
      <3>1. g = Append(Front(grammar), "item")
        BY <1>4, <1>7 DEF AfterValue
      <3> QED
        BY <1>1, <3>1, ReplaceLast DEF Levels
    <2>10. ASSUME NEW i \in 2..Len(grammar)
           PROVE  /\ c[i] \in ThereIn(u) /\ u[c[i]].type = t[c[i]].type
                  /\ u[c[i]].parent = t[c[i]].parent
      <3>1. c[i] \in ThereIn(t) /\ t[c[i]].type \in {"map", "seq"}
        BY <2>4, <2>10 DEF Ladder, LevelType
      <3> QED
        BY <2>3, <2>7, <3>1 DEF ThereIn
    <2>11. Ladder(u, g, c)
      BY <1>2, <1>7, <2>4, <2>9, <2>10, LadderStays
    <2>12. \E b : Ladder(u, h, b) /\ AtTop(u, h, b, Fresh)
      <3>1. /\ g[Len(g)] # "value" /\ Fresh \in ThereIn(u) /\ u[Fresh].parent = c[Len(g)]
            /\ u[Fresh].type = LevelType("key")
        BY <2>3, <2>4, <2>7, <2>8, <2>9 DEF LevelType
      <3> QED
        BY <1>5, <2>9, <2>11, <3>1, LadderOpens
    <2>13. Place(u, h, doc, Fresh)
      <3>1. Fresh # Nil
        BY <2>3, NilAssumption DEF ThereIn
      <3> QED
        BY <1>2, <2>12, <3>1 DEF Place
    <2>14. grammar' = h /\ heap' = u
      BY <1>1, <1>4, <1>5, <2>1, <2>2, <2>5
    <2>15. Grove(KidsIn(u), ParentsIn(u), ThereIn(u), Roots, lost)
      BY <2>3, <2>7, Zenon
    <2>16. h \in Seq(Levels)
      BY <1>5, <2>9 DEF Levels
    <2> QED
      BY <1>1, <2>1, <2>3, <2>7, <2>13, <2>14, <2>15, <2>16, InvOfALoop
  <1>8. CASE Expects # "item"
    <2>1. heap' = SetNodeMapping(heap, node) /\ node' = node
      BY <1>3, <1>8 DEF MappingStart
    <2>2. PICK u : u = SetNodeMapping(heap, node)
      OBVIOUS
    <2>3. Tabled(heap)
      BY DEF YamlInv
    <2>4. PICK y : Gives(heap, node, Kind, y, u) /\ y = [heap[node] EXCEPT !.type = "map"]
      BY <1>2, <1>6, <2>2, <2>3, SettersGive
    <2>5. /\ Tabled(u) /\ KidsIn(u) = KidsIn(heap) /\ ThereIn(u) = ThereIn(heap)
          /\ Grove(KidsIn(u), ParentsIn(u), ThereIn(u), Roots, lost)
          /\ g \in Seq(Levels) /\ Filled(u, g, node, doc) /\ u[node] = y
      BY <1>1, <1>4, <1>6, <1>8, <2>4, ValueIsGiven
    <2>6. u[node].type = "map"
      <3>1. heap[node] \in NodeRecords
        BY <1>2, <2>3 DEF Tabled, ThereIn
      <3> QED
        BY <2>4, <2>5, <3>1 DEF NodeRecords
    <2>7. \E b : Ladder(u, h, b) /\ AtTop(u, h, b, node)
      BY <1>2, <1>5, <2>5, <2>6, FilledOpens DEF LevelType
    <2>8. Place(u, h, doc, node) /\ h \in Seq(Levels)
      BY <1>2, <1>5, <2>5, <2>7 DEF Place, Levels
    <2>9. grammar' = h /\ heap' = u
      BY <1>1, <1>4, <1>5, <2>1, <2>2
    <2> QED
      BY <1>1, <1>2, <2>1, <2>5, <2>8, <2>9, InvOfALoop
  <1> QED
    BY <1>7, <1>8

LEMMA SequenceStartInv ==
  ASSUME YamlInv, SequenceStart PROVE YamlInv'
  <1>1. /\ grammar # <<>> /\ Expects \in {"root", "value"} /\ TakesValue
        /\ UNCHANGED <<docs, doc, node, lost>>
        /\ grammar' = Append(AfterValue, "item") /\ heap' = SetNodeSequence(heap, node)
        /\ Tabled(heap)
    BY DEF SequenceStart, TakesValue, YamlInv
  <1>2. /\ doc # Nil /\ node # Nil /\ node \in ThereIn(heap)
        /\ node \in Reached(KidsIn(heap), doc)
    BY <1>1, AtAnEvent, NilAssumption
  <1>3. Kind \in Strings
    BY NilAssumption
  <1>4. PICK u : u = SetNodeSequence(heap, node)
    OBVIOUS
  <1>5. PICK g : g = AfterValue
    OBVIOUS
  <1>6. PICK h : h = Append(g, "item")
    OBVIOUS
  <1>7. PICK y : Gives(heap, node, Kind, y, u) /\ y = [heap[node] EXCEPT !.type = "seq"]
    BY <1>1, <1>2, <1>3, <1>4, SettersGive
  <1>8. /\ Tabled(u) /\ KidsIn(u) = KidsIn(heap) /\ ThereIn(u) = ThereIn(heap)
        /\ Grove(KidsIn(u), ParentsIn(u), ThereIn(u), Roots, lost)
        /\ g \in Seq(Levels) /\ Filled(u, g, node, doc) /\ u[node] = y
    BY <1>1, <1>3, <1>5, <1>7, ValueIsGiven
  <1>9. u[node].type = "seq"
    <2>1. heap[node] \in NodeRecords
      BY <1>1, <1>2 DEF Tabled, ThereIn
    <2> QED
      BY <1>7, <1>8, <2>1 DEF NodeRecords
  <1>10. \E b : Ladder(u, h, b) /\ AtTop(u, h, b, node)
    BY <1>2, <1>6, <1>8, <1>9, FilledOpens DEF LevelType
  <1>11. Place(u, h, doc, node) /\ h \in Seq(Levels)
    BY <1>2, <1>6, <1>8, <1>10 DEF Place, Levels
  <1>12. grammar' = h /\ heap' = u
    BY <1>1, <1>4, <1>5, <1>6
  <1> QED
    BY <1>1, <1>2, <1>8, <1>11, <1>12, InvOfALoop

LEMMA CollectionEndInv ==
  ASSUME YamlInv, CollectionEnd PROVE YamlInv'
  <1> DEFINE n == Len(grammar)
  <1>1. /\ grammar # <<>> /\ Expects \in {"key", "item"} /\ grammar \in Seq(Levels)
        /\ grammar' = Front(grammar) /\ node' = heap[node].parent
        /\ UNCHANGED <<heap, docs, doc, lost>> /\ Tabled(heap)
        /\ Grove(KidsIn(heap), ParentsIn(heap), ThereIn(heap), Roots, lost)
    BY DEF CollectionEnd, YamlInv
  <1>2. /\ doc # Nil /\ Expects = grammar[n]
        /\ \E c : Ladder(heap, grammar, c) /\ AtTop(heap, grammar, c, node)
    <2>1. grammar # <<"root">>
      <3>1. Expects = grammar[Len(grammar)]
        BY <1>1, AtAnEvent
      <3> QED
        BY <1>1, <3>1
    <2> QED
      BY <1>1, <2>1, AtAnEvent, NilAssumption
  <1>3. PICK c : Ladder(heap, grammar, c) /\ AtTop(heap, grammar, c, node)
    BY <1>2
  <1>4. c[n] = node
    BY <1>1, <1>2, <1>3 DEF AtTop
  <1>5. PICK h : h = Front(grammar)
    OBVIOUS
  <1>6. h \in Seq(Levels) /\ Len(h) = n - 1 /\ \A i \in 1..n - 1 : h[i] = grammar[i]
    BY <1>1, <1>5, FrontOf
  <1>7. n \in Nat /\ n >= 2 /\ grammar[1] = "end" /\ heap[c[2]].parent = Nil
    BY <1>3 DEF Ladder
  <1>8. Place(heap, h, doc, heap[node].parent)
    <2>1. CASE n = 2
      <3>1. heap[node].parent = Nil
        BY <1>4, <1>7, <2>1
      <3>2. h = <<"end">>
        BY <1>6, <1>7, <2>1
      <3> QED
        BY <1>2, <3>1, <3>2 DEF Place
    <2>2. CASE n > 2
      <3>1. n \in 3..n /\ n - 1 \in 2..n
        BY <1>7, <2>2
      <3>2. heap[node].parent = c[n - 1] /\ c[n - 1] \in ThereIn(heap)
        BY <1>3, <1>4, <3>1 DEF Ladder
      <3>3. c[n - 1] # Nil
        BY <3>2, NilAssumption DEF ThereIn
      <3>4. \E b : Ladder(heap, h, b) /\ AtTop(heap, h, b, c[n - 1])
        BY <1>1, <1>3, <1>5, <2>2, LadderCloses
      <3> QED
        BY <1>2, <3>2, <3>3, <3>4 DEF Place
    <2>3. n = 2 \/ n > 2
      <3>1. \A k \in Nat : k >= 2 => k = 2 \/ k > 2
        OBVIOUS
      <3> QED
        BY <1>7, <3>1, Zenon
    <2> QED
      BY <2>1, <2>2, <2>3, Zenon
  <1>9. heap[node].parent # Nil => heap[node].parent \in Reached(KidsIn(heap), doc)
    BY <1>1, ParentIsReached
  <1> HIDE DEF n
  <1> QED
    BY <1>1, <1>5, <1>6, <1>8, <1>9, InvOfALoop

-----------------------------------------------------------------------------
LEMMA InitInv == ASSUME YamlInit PROVE YamlInv
  <1>1. /\ heap = [n \in Ids |-> Freed] /\ docs = <<>> /\ doc = Nil /\ node = Nil
        /\ grammar = <<>> /\ lost = {}
    BY DEF YamlInit
  <1>2. ThereIn(heap) = {} /\ ToSet(docs) = {} /\ Roots = {}
    BY <1>1 DEF ThereIn, ToSet, Roots
  <1>3. Tabled(heap)
    BY <1>1, <1>2 DEF Tabled
  <1>4. /\ KidsIn(heap) \in Graphs /\ ParentsIn(heap) \in [Ids -> Ids \cup {Nil}]
        /\ \A n \in Ids : KidsIn(heap)[n] = {}
    BY <1>1, <1>3, KidsAreIds, FreedIsNoNode DEF KidsIn
  <1>5. Trees(KidsIn(heap), {}) = {}
    BY DEF Trees
  <1>6. Grove(KidsIn(heap), ParentsIn(heap), {}, {}, {})
    BY <1>4, <1>5 DEF Grove
  <1>7. docs \in Seq(Ids) /\ IsInjective(docs) /\ grammar \in Seq(Levels)
    BY <1>1 DEF IsInjective
  <1> QED
    BY <1>1, <1>2, <1>3, <1>6, <1>7 DEF YamlInv, Place

LEMMA InvIsKept == ASSUME YamlInv, [YamlNext]_yamlVars PROVE YamlInv'
  <1>1. CASE UNCHANGED yamlVars
    BY <1>1 DEF yamlVars, YamlInv, Roots
  <1>2. CASE LoadSingleDoc \/ DestroyDocList
    BY <1>2, KeepInv DEF LoadSingleDoc, DestroyDocList
  <1>3. ASSUME NEW s \in Strings, Scalar(s) PROVE YamlInv'
    BY <1>3, ScalarInv
  <1> QED
    BY <1>1, <1>2, <1>3, DocumentStartInv, DocumentEndInv, MappingStartInv,
       SequenceStartInv, CollectionEndInv, ParseErrorInv DEF YamlNext

LEMMA InvHoldsTypes == ASSUME YamlInv PROVE YamlTypeOK
  <1>1. /\ Tabled(heap) /\ docs \in Seq(Ids)
        /\ Grove(KidsIn(heap), ParentsIn(heap), ThereIn(heap), Roots, lost)
        /\ node # Nil => node \in Reached(KidsIn(heap), doc)
    BY DEF YamlInv
  <1>2. ASSUME NEW n \in Live
        PROVE  /\ heap[n].type \in {"none", "scalar", "map", "seq"}
               /\ heap[n].parent \in Ids \cup {Nil}
               /\ heap[n].scalar \in Strings <=> heap[n].type = "scalar"
               /\ Children(n) \subseteq Live
    <2>1. n \in ThereIn(heap) /\ n \in Ids
      BY SubtreeIsReached DEF ThereIn
    <2>2. WellFormed(heap[n])
      BY <1>1, <2>1 DEF Tabled
    <2>3. heap[n].type \in NodeTypes /\ heap[n].parent \in Ids \cup {Nil}
      BY <2>2 DEF WellFormed, NodeRecords
    <2>4. Children(n) = KidsIn(heap)[n] /\ Live = ThereIn(heap)
      BY <2>1, SubtreeIsReached
    <2>5. Children(n) \subseteq Live
      BY <1>1, <2>1, <2>4 DEF Grove
    <2> QED
      BY <2>2, <2>3, <2>5 DEF WellFormed, NodeTypes
  <1>3. /\ ToSet(docs) \subseteq ThereIn(heap) /\ lost \subseteq ThereIn(heap)
        /\ {doc} \ {Nil} \subseteq ThereIn(heap)
    BY <1>1 DEF Grove, Roots
  <1>4. node # Nil => node \in ThereIn(heap)
    <2>1. CASE doc = Nil
      BY <1>1, <2>1, NullReachesNothing
    <2>2. CASE doc # Nil
      <3>1. doc \in Roots
        BY <2>2 DEF Roots
      <3> QED
        BY <1>1, <3>1, TreeOfGrove
    <2> QED
      BY <2>1, <2>2
  <1>5. ToSet(docs) \cup ({doc, node} \ {Nil}) \cup lost \subseteq Live
    BY <1>3, <1>4, SubtreeIsReached
  <1>6. (doc = Nil) = (grammar = <<>>)
    <2>1. Len(<<>>) = 0 /\ <<"root">> # <<>> /\ <<"end">> # <<>>
      OBVIOUS
    <2>2. Place(heap, grammar, doc, node)
      BY DEF YamlInv
    <2>3. (doc = Nil) <=> (grammar = <<>>)
      BY <2>1, <2>2 DEF Place, Ladder
    <2> QED
      BY <2>3
  <1> QED
    BY <1>2, <1>5, <1>6 DEF YamlTypeOK

LEMMA InvHoldsOnce == ASSUME YamlInv PROVE HeldOnce
  <1> DEFINE Holders(n) == {p \in Live : n \in Children(p)}
  <1>1. /\ Tabled(heap) /\ Live = ThereIn(heap)
        /\ Grove(KidsIn(heap), ParentsIn(heap), ThereIn(heap), Roots, lost)
    BY SubtreeIsReached DEF YamlInv
  <1>2. Forest(Roots) = Trees(KidsIn(heap), Roots)
    BY SubtreeIsReached DEF Forest, Trees
  <1>3. Live = Forest(Roots) \cup lost /\ Forest(Roots) \cap lost = {}
    BY <1>1, <1>2 DEF Grove
  <1>4. ASSUME NEW n \in Live PROVE Holders(n) = {heap[n].parent} \ {Nil}
    <2>1. n \in ThereIn(heap) /\ n \in Ids
      BY <1>1 DEF ThereIn
    <2>2. ParentsIn(heap)[n] = heap[n].parent
      BY <2>1 DEF ParentsIn, ThereIn
    <2>3. \A p \in Ids : n \in KidsIn(heap)[p] <=> p = heap[n].parent
      BY <1>1, <2>1, <2>2 DEF Grove
    <2>4. \A p \in Ids : p \notin Live => KidsIn(heap)[p] = {}
      BY <1>1 DEF Grove
    <2>5. \A p \in Ids : Children(p) = KidsIn(heap)[p]
      BY SubtreeIsReached
    <2>6. heap[n].parent \in Ids \cup {Nil}
      BY InvHoldsTypes DEF YamlTypeOK
    <2>7. Live \subseteq Ids /\ Nil \notin Ids
      BY NilAssumption DEF Live
    <2>8. \A p \in Ids : p \in Holders(n) <=> p = heap[n].parent
      BY <2>3, <2>4, <2>5, <2>7
    <2> QED
      BY <2>6, <2>7, <2>8
  <1>5. \A n \in Live : heap[n].type = "seq" => IsInjective(heap[n].sequence)
    BY <1>1 DEF Tabled, WellFormed
  <1>6. TakesValue /\ Expects # "item" => heap[node].type = "none"
    <2> SUFFICES ASSUME TakesValue, Expects # "item" PROVE heap[node].type = "none"
      OBVIOUS
    <2>1. grammar # <<>> /\ Expects \in {"root", "value"}
      BY DEF TakesValue
    <2>2. \/ grammar = <<"root">> /\ heap[node].type = "none"
          \/ /\ Expects \in {"key", "value", "item"}
             /\ heap[node].type = IF Expects = "value" THEN "none" ELSE LevelType(Expects)
      BY <2>1, AtAnEvent
    <2> QED
      BY <2>1, <2>2
  <1> QED
    BY <1>3, <1>4, <1>5, <1>6, InvHoldsTypes DEF HeldOnce, Roots

(* Whatever events the loop gets, wherever an error ends a document, and   *)
(* whichever documents the caller destroys, no node is leaked, shared, or  *)
(* freed twice: each that is allocated is in one document or among the     *)
(* lost, held by its parent alone, and is given its value once.            *)
THEOREM EveryNodeIsHeldOnce == YamlSpec => []HeldOnce
  <1>1. YamlInit => YamlInv
    BY InitInv
  <1>2. YamlInv /\ [YamlNext]_yamlVars => YamlInv'
    BY InvIsKept
  <1>3. YamlInv => HeldOnce
    BY InvHoldsOnce
  <1> QED
    BY <1>1, <1>2, <1>3, PTL DEF YamlSpec

=============================================================================
