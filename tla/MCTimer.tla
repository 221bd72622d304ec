------------------------------ MODULE MCTimer ------------------------------
(* Instances of Timer for TLC.                                              *)
EXTENDS Timer, TLC

\* The slab hands out any free token.
Symmetry == Permutations(Tokens)

=============================================================================
