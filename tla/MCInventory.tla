----------------------------- MODULE MCInventory -----------------------------
(***************************************************************************)
(* Model checking of Inventory: a product with a variant and a second      *)
(* product; one order takes the variant and both products, the other takes *)
(* two units of the second product, so that they compete and each can fail *)
(* on one row after another was decremented.                               *)
(***************************************************************************)
EXTENDS Inventory

CONSTANTS o1, o2, shirt, shirtM, mug

MCDemand ==
  [o \in {o1, o2} |->
    IF o = o1 THEN [s \in {shirt, shirtM, mug} |-> 1]
              ELSE [s \in {shirt, shirtM, mug} |-> IF s = mug THEN 2 ELSE 0]]

MCOwner == [s \in {shirt, shirtM, mug} |-> IF s = mug THEN mug ELSE shirt]

=============================================================================
