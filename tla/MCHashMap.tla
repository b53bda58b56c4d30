----------------------------- MODULE MCHashMap -----------------------------
(***************************************************************************)
(* Three keys under every hash function whose values fall on the first or  *)
(* the last slot of a table, at every size from 2 to 16.                   *)
(***************************************************************************)
EXTENDS HashMapStats, TLC

CONSTANTS k1, k2, k3, v, w

MCKeys == {k1, k2, k3}
MCHashes == {0, 7, 15}
MCValues == {v, w, Null}
MCSizes == {2}

(* A table in which three sets need no growth.                             *)
MCRoomy == {16}

MCNoAltValues == {}
MCAltValues == {w}

(* All hash functions are initial states, so keys are alike; so are v and  *)
(* w where neither is handed over.                                         *)
MCSymmetry == Permutations(MCKeys) \cup Permutations({v, w})

=============================================================================
