----------------------------- MODULE MCFileOps -----------------------------
(* FileOps for TLC: a few names, which are interchangeable. *)
EXTENDS FileOps

NameSymmetry == Permutations(Names)
=============================================================================
