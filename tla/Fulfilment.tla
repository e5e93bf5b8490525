----------------------------- MODULE Fulfilment -----------------------------
(***************************************************************************)
(* One confirmed order with the two services that fulfil it: the supplier  *)
(* service places its CJ lines at CJ (CJOrder), the shipping service ships *)
(* its catalog lines (Shipping).  Both consume the order service's events; *)
(* a failure at CJ cancels the order and with it the shipment.             *)
(***************************************************************************)
EXTENDS CJOrder

VARIABLES handled, rejected, catalog, shipment, patch, cancelling, events,
          overtook, stale

Ship == INSTANCE Shipping

shipVars == <<handled, rejected, catalog, shipment, patch, cancelling, events,
              overtook, stale>>

FulfilmentTypeOK == TypeOK /\ Ship!TypeOK

FulfilmentInit == Init /\ Ship!Init

\* An order event reaches both services' queues at once.
FulfilmentNext ==
  \/ (Confirming \/ Cancelling \/ Failing \/ Ordering) /\ UNCHANGED shipVars
  \/ (Ship!Administer \/ Ship!Consume) /\ UNCHANGED vars

FulfilmentSpec == FulfilmentInit /\ [][FulfilmentNext]_<<vars, shipVars>>

-----------------------------------------------------------------------------

\* A cancelled order, whoever cancelled it, leaves no shipment on its way.
ShipmentStopsWithOrder == Ship!ShipmentStopsWithOrder

=============================================================================
