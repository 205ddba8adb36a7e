------------------------- MODULE MCWorkspaceFiles -------------------------
(* Instances of WorkspaceFiles for TLC: each item on a volume of its own.  *)
EXTENDS WorkspaceFiles, TLC

CONSTANTS i1, C, D

Volumes == [i \in Item |-> IF i = i1 THEN C ELSE D]
Symmetry == Permutations(Op)
=============================================================================
