------------------------------ MODULE MCVector ------------------------------
(* Vectors of both forms, with storage that grows twice from one slot.     *)
EXTENDS Vector
=============================================================================
