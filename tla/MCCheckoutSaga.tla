--------------------------- MODULE MCCheckoutSaga ---------------------------
(***************************************************************************)
(* Model checking of CheckoutSaga: one order of one unit, the shop having  *)
(* none or one, so that reservation may fail or succeed.                   *)
(***************************************************************************)
EXTENDS CheckoutSaga

CONSTANTS o1, i1, mug

MCDemand == [o \in {o1} |-> [s \in {mug} |-> 1]]
MCOwner == [s \in {mug} |-> mug]
MCIntentOf == [o \in {o1} |-> i1]

=============================================================================
