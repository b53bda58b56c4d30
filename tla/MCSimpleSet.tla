---------------------------- MODULE MCSimpleSet ----------------------------
(* Three keys under every hash function onto the first and the last slot   *)
(* of the tables, which grow from one slot to eight: keys collide, and     *)
(* runs of nodes wrap.                                                     *)
EXTENDS SimpleSet, TLC

CONSTANTS k1, k2, k3

MCKeys == {k1, k2, k3}
MCHashes == {0, 7}
MCSizes == {1}
MCSymmetry == Permutations(MCKeys)

=============================================================================
