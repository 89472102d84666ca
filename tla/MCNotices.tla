------------------------------ MODULE MCNotices ------------------------------
(* Instances of Notices for TLC.                                            *)
EXTENDS Notices, TLC

Symmetry == Permutations(Slot)
=============================================================================
