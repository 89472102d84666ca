------------------------------- MODULE MCCart -------------------------------
(* Instances of Cart for TLC.                                               *)
EXTENDS Cart, TLC

Symmetry == Permutations(Slot) \union Permutations(Product)
=============================================================================
