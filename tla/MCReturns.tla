----------------------------- MODULE MCReturns ------------------------------
(* Instances of Returns for TLC.                                            *)
EXTENDS Returns, TLC

Symmetry == Permutations(Claim) \union Permutations(Slot)
=============================================================================
