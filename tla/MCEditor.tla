------------------------------ MODULE MCEditor ------------------------------
(* Editor on small instances.                                              *)
EXTENDS Editor, TLC

(* The contents are interchangeable, and so are the paths: used by runs     *)
(* without liveness.                                                       *)
EditorSymmetry == Permutations(Docs) \cup Permutations(Files)
=============================================================================
