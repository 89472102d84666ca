----------------------------- MODULE MCInventory -----------------------------
(***************************************************************************)
(* Small instances of Inventory for TLC.                                   *)
(***************************************************************************)
EXTENDS Inventory, TLC

\* Every row exists and holds two units, one above the threshold.
FullShelves == Loc
TwoEach     == [l \in Loc |-> 2]

\* One warehouse is stocked, the other has never held the product.
MCStocked(w) == {l \in Loc : l[2] = w}
MCFirst      == CHOOSE w \in Warehouse : TRUE
OneStocked   == MCStocked(MCFirst)
OneStockedQ  == [l \in Loc |-> IF l[2] = MCFirst THEN 2 ELSE 0]

Symmetry == Permutations(Call)
=============================================================================
