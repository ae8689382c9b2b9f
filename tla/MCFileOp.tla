------------------------------ MODULE MCFileOp ------------------------------
(***************************************************************************)
(* Instances of FileOp for TLC.                                            *)
(***************************************************************************)
EXTENDS FileOp, TLC

Symmetry == Permutations(Reqs) \cup Permutations(Names)
=============================================================================
