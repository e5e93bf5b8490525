------------------------------ MODULE Shipping ------------------------------
(***************************************************************************)
(* The shipping service's shipment of one order: created on                *)
(* order.confirmed, cancelled on order.cancelled, moved on by an           *)
(* administrator.  The service reads a shipment, checks the transition and *)
(* writes it back without a lock, so two transactions may overlap.         *)
(*                                                                         *)
(* The shipment.* events it writes reach nobody (Messaging).               *)
(***************************************************************************)

VARIABLES
  published,   \* order events in the order service's outbox
  handled,     \* those the shipping service is done with
  rejected,    \* those whose handler raised
  catalog,     \* the order has a line this application ships itself
  shipment,    \* shipments.status, "none" without a row
  patch,       \* an administrator's open transaction: status read, status to write
  cancelling,  \* status that an open cancellation has read, "none" without one
  events,      \* shipment.* events in the shipping service's outbox
  overtook,    \* history: a cancellation found no shipment
  stale        \* history: a transaction wrote a status over one it had not read

shippingVars == <<handled, rejected, shipment, patch, cancelling, events>>
orderVars == <<published, catalog>>
noteVars == <<overtook, stale>>
vars == <<shippingVars, orderVars, noteVars>>

OrderEvents == {"confirmed", "cancelled"}
Status == {"pending", "shipped", "delivered", "cancelled"}

ValidTransitions ==
  {<<"pending", "shipped">>, <<"pending", "cancelled">>,
   <<"shipped", "delivered">>, <<"shipped", "cancelled">>}

NoPatch == [seen |-> "none", to |-> "none"]

TypeOK ==
  /\ published \subseteq OrderEvents /\ handled \subseteq published
  /\ rejected \subseteq published
  /\ catalog \in BOOLEAN
  /\ shipment \in Status \cup {"none"}
  /\ patch \in {NoPatch} \cup [seen : Status, to : Status]
  /\ cancelling \in Status \cup {"none"}
  /\ events \subseteq {"created", "shipped", "delivered", "cancelled"}
  /\ overtook \in BOOLEAN /\ stale \in BOOLEAN

\* The order has just been confirmed.
Init ==
  /\ published = {"confirmed"} /\ handled = {} /\ rejected = {}
  /\ catalog \in BOOLEAN
  /\ shipment = "none" /\ patch = NoPatch /\ cancelling = "none"
  /\ events = {}
  /\ overtook = FALSE /\ stale = FALSE

Waiting(e) == e \in published \ handled

-----------------------------------------------------------------------------

\* handle_order_confirmed: no line of ours, no active method, a row that is
\* already there, or a new row with its event.
CreateFromOrder ==
  /\ Waiting("confirmed")
  /\ \/ catalog /\ shipment = "none"
        /\ shipment' = "pending" /\ events' = events \cup {"created"}
     \/ UNCHANGED <<shipment, events>>
  /\ handled' = handled \cup {"confirmed"}
  /\ UNCHANGED <<rejected, patch, cancelling, orderVars, noteVars>>

\* POST /shipments, which writes no event.
CreateManually ==
  /\ shipment = "none"
  /\ shipment' = "pending"
  /\ UNCHANGED <<handled, rejected, patch, cancelling, events, orderVars, noteVars>>

\* update_shipment: read and check ...
BeginUpdate(to) ==
  /\ patch = NoPatch
  /\ shipment # "none"
  /\ to = shipment \/ <<shipment, to>> \in ValidTransitions
  /\ patch' = [seen |-> shipment, to |-> to]
  /\ UNCHANGED <<handled, rejected, shipment, cancelling, events, orderVars, noteVars>>

\* ... then write.  An unchanged status is not written, but still announced.
CommitUpdate ==
  /\ patch # NoPatch
  /\ shipment' = IF patch.to = patch.seen THEN shipment ELSE patch.to
  /\ events' = events \cup ({patch.to} \cap {"shipped", "delivered"})
  /\ stale' = (stale \/ shipment # patch.seen)
  /\ patch' = NoPatch
  /\ UNCHANGED <<handled, rejected, cancelling, orderVars, overtook>>

\* Mutant of BeginCancel: a shipment that has left is not cancellable either.
BeginCancelUnshipped ==
  /\ Waiting("cancelled")
  /\ cancelling = "none"
  /\ \/ shipment = "pending" /\ cancelling' = shipment
        /\ UNCHANGED <<handled, rejected, overtook>>
     \/ shipment \in {"shipped", "delivered", "cancelled"} /\ rejected' = rejected \cup {"cancelled"}
        /\ handled' = handled \cup {"cancelled"} /\ UNCHANGED <<cancelling, overtook>>
     \/ shipment = "none" /\ handled' = handled \cup {"cancelled"} /\ overtook' = TRUE
        /\ UNCHANGED <<cancelling, rejected>>
  /\ UNCHANGED <<shipment, patch, events, orderVars, stale>>

\* handle_order_cancelled, cancel_shipment_by_order_id: no shipment, one that
\* is not cancellable (the handler raises), or read and check ...
BeginCancel ==
  /\ Waiting("cancelled")
  /\ cancelling = "none"
  /\ \/ shipment \in {"pending", "shipped"} /\ cancelling' = shipment
        /\ UNCHANGED <<handled, rejected, overtook>>
     \/ shipment \in {"delivered", "cancelled"} /\ rejected' = rejected \cup {"cancelled"}
        /\ handled' = handled \cup {"cancelled"} /\ UNCHANGED <<cancelling, overtook>>
     \/ shipment = "none" /\ handled' = handled \cup {"cancelled"} /\ overtook' = TRUE
        /\ UNCHANGED <<cancelling, rejected>>
  /\ UNCHANGED <<shipment, patch, events, orderVars, stale>>

\* ... then write.
CommitCancel ==
  /\ cancelling # "none"
  /\ shipment' = "cancelled"
  /\ events' = events \cup {"cancelled"}
  /\ stale' = (stale \/ shipment # cancelling)
  /\ handled' = handled \cup {"cancelled"}
  /\ cancelling' = "none"
  /\ UNCHANGED <<rejected, patch, orderVars, overtook>>

\* The handler's transaction rolls back; the message comes back.
CancelFails ==
  /\ cancelling # "none"
  /\ cancelling' = "none"
  /\ UNCHANGED <<handled, rejected, shipment, patch, events, orderVars, noteVars>>

-----------------------------------------------------------------------------
(* The order service.                                                       *)

CancelOrder ==
  /\ "cancelled" \notin published
  /\ published' = OrderEvents
  /\ UNCHANGED <<shippingVars, catalog, noteVars>>

Administer ==
  CreateManually \/ CommitUpdate \/ \E to \in Status : BeginUpdate(to)

Consume == CreateFromOrder \/ BeginCancel \/ CommitCancel \/ CancelFails

Next == Administer \/ Consume \/ CancelOrder

Spec == Init /\ [][Next]_vars

-----------------------------------------------------------------------------
(* Properties.                                                              *)

\* Once the cancellation of an order is handled, no shipment of it is on its
\* way, whoever created it, unless the cancellation came before the shipment or
\* an update overwrote it.
ShipmentStopsWithOrder ==
  "cancelled" \in handled =>
    shipment \notin {"pending", "shipped"} \/ overtook \/ stale

=============================================================================
