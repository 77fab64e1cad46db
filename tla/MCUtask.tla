-------------------------------- MODULE MCUtask --------------------------------
(* Three tasks, which are alike, and stacks for two of them. *)
EXTENDS Utask

Symmetry == Permutations(Tasks)
===============================================================================
