------------------------------- MODULE MCOrders -------------------------------
(***************************************************************************)
(* Small instances of Orders for TLC.                                      *)
(***************************************************************************)
EXTENDS Orders, TLC

CONSTANTS w1, p1, stocked

\* One warehouse stocks every product; "MCSeed" units of each.
MCRows  == Product \X {w1}
MCSeed1 == [l \in Product \X Warehouse |-> 1]
MCSeed2 == [l \in Product \X Warehouse |-> 2]

\* Every order is for one unit of one product, or of each product.
MCOne  == [o \in Order |-> <<[item |-> p1, qty |-> 1]>>]
MCEach == [o \in Order |->
             LET s == CHOOSE s \in [1 .. Cardinality(Product) -> Product] :
                        \A i, j \in DOMAIN s : i # j => s[i] # s[j]
             IN [i \in DOMAIN s |-> [item |-> s[i], qty |-> 1]]]
MCTwice == [o \in Order |-> <<[item |-> p1, qty |-> 1], [item |-> p1, qty |-> 1]>>]

\* All of them are filled from the warehouse, or only those in "stocked".
MCFrom  == [o \in Order |-> w1]
MCMixed == [o \in Order |-> IF o \in stocked THEN w1 ELSE NoWarehouse]
Symmetry == Permutations(Worker) \cup Permutations(Call)
\* Sound where the orders differ in nothing.
SymmetryAll == Symmetry \cup Permutations(Order)
=============================================================================
