--------------------------- MODULE MCDirSizeCache ---------------------------
(* DirSizeCache on small instances, with its implementation of             *)
(* DirSizeService as a property.                                           *)
EXTENDS DirSizeCache, TLC

(* The paths are interchangeable: used by the run without liveness.         *)
PathSymmetry == Permutations(Paths)
=============================================================================
