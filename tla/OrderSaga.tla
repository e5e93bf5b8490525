------------------------------ MODULE OrderSaga ------------------------------
(***************************************************************************)
(* The order service's saga: the rows of orders, order_saga_states and     *)
(* custom_production_jobs, the order outbox, and every handler that writes *)
(* them.  The world outside is open: any participant may report any        *)
(* outcome for any order, at any time and any number of times, so what is  *)
(* shown here does not rest on the other services or on the broker.        *)
(*                                                                         *)
(* Each handler runs in one database transaction under a lock on the       *)
(* order's saga row and is therefore one action.  UpdateOrder and          *)
(* DeleteOrder take no such lock; the first writes a column whose value no *)
(* locked handler writes and the second conflicts with every row write, so *)
(* both are serialisable with the others.                                  *)
(***************************************************************************)
EXTENDS Naturals, Sequences, FiniteSets

CONSTANTS
  Orders,           \* orders; an id that is posted again after its order was
                    \* deleted is a new member, as are its row and outbox rows
  Intents,          \* Stripe payment intent ids
  NoIntent,         \* orders.payment_intent_id IS NULL
  InventoryOrders,  \* orders with a line of another type than "custom"
  CustomOrders,     \* orders with a "custom" line
  ExpiryLimit       \* rows one run of the timeout worker takes (50)

ASSUME OrderAssumption ==
  /\ InventoryOrders \subseteq Orders
  /\ CustomOrders \subseteq Orders
  /\ Orders = InventoryOrders \cup CustomOrders
  /\ NoIntent \notin Intents
  /\ ExpiryLimit \in Nat \ {0}

VARIABLES
  orderStatus,        \* orders.status; "absent" before INSERT, "deleted" after DELETE
  deliveryStatus,     \* orders.delivery_status
  intentOf,           \* orders.payment_intent_id
  inventoryStatus,    \* order_saga_states.inventory_status
  paymentStatus,      \* order_saga_states.payment_status
  fulfillmentStatus,  \* order_saga_states.fulfillment_status
  production,         \* custom_production_jobs.status of the order's jobs
  outbox,             \* per order, the event types of its outbox rows, oldest first
  expired             \* orders whose saga row is older than the timeout cutoff

sagaVars == <<inventoryStatus, paymentStatus, fulfillmentStatus>>
vars == <<orderStatus, deliveryStatus, intentOf, sagaVars, production, outbox, expired>>

OrderStatus == {"PENDING", "CONFIRMED", "CANCELLED"}
DeliveryStatus == {"PENDING", "DISPATCHED", "DELIVERED", "CANCELLED"}
InventoryStatus ==
  {"pending", "not_required", "reserved", "failed", "release_requested", "released"}
OutboxEvent ==
  {"order.created", "order.confirmed", "order.cancelled",
   "inventory.reserve.requested", "inventory.release.requested"}

TypeOK ==
  /\ orderStatus \in [Orders -> OrderStatus \cup {"absent", "deleted"}]
  /\ deliveryStatus \in [Orders -> DeliveryStatus]
  /\ intentOf \in [Orders -> Intents \cup {NoIntent}]
  /\ inventoryStatus \in [Orders -> InventoryStatus]
  /\ paymentStatus \in [Orders -> {"pending", "succeeded", "failed"}]
  /\ fulfillmentStatus \in [Orders -> {"pending", "ready", "failed", "cancelled"}]
  /\ production \in [Orders -> {"none", "queued", "cancelled"}]
  /\ outbox \in [Orders -> Seq(OutboxEvent)]
  /\ expired \subseteq Orders

InitialInventory(o) == IF o \in InventoryOrders THEN "pending" ELSE "not_required"

Init ==
  /\ orderStatus = [o \in Orders |-> "absent"]
  /\ deliveryStatus = [o \in Orders |-> "PENDING"]
  /\ intentOf = [o \in Orders |-> NoIntent]
  /\ inventoryStatus = [o \in Orders |-> InitialInventory(o)]
  /\ paymentStatus = [o \in Orders |-> "pending"]
  /\ fulfillmentStatus = [o \in Orders |-> "pending"]
  /\ production = [o \in Orders |-> "none"]
  /\ outbox = [o \in Orders |-> <<>>]
  /\ expired = {}

-----------------------------------------------------------------------------
(* Rows and outbox helpers shared by the handlers.                          *)

Exists(o) == orderStatus[o] \in OrderStatus

\* orders.payment_intent_id is UNIQUE among the rows present.
IntentFree(o, i) ==
  i = NoIntent \/ \A p \in Orders \ {o} : Exists(p) => intentOf[p] # i

ReleaseEvent(o) ==
  IF o \in InventoryOrders THEN <<"inventory.release.requested">> ELSE <<>>

\* _cancel_locked for every order of S.  inv is the saga's inventory status as
\* the calling handler has left it; release is the release_inventory argument.
CancelLocked(S, inv, release) ==
  LET held == {o \in S : release /\ inv[o] = "reserved"}
  IN  /\ orderStatus' = [o \in Orders |-> IF o \in S THEN "CANCELLED" ELSE orderStatus[o]]
      /\ fulfillmentStatus' =
           [o \in Orders |-> IF o \in S THEN "cancelled" ELSE fulfillmentStatus[o]]
      /\ inventoryStatus' =
           [o \in Orders |-> IF o \in held THEN "release_requested" ELSE inv[o]]
      /\ outbox' = [o \in Orders |->
           IF o \notin S THEN outbox[o]
           ELSE Append(outbox[o], "order.cancelled")
                  \o (IF o \in held THEN ReleaseEvent(o) ELSE <<>>)]
      /\ production' = [o \in Orders |->
           IF o \in S /\ production[o] = "queued" THEN "cancelled" ELSE production[o]]

\* Mutants of Ready: one forgets the stock, one forgets the order's own status.
ReadyOncePaid(o, inv, pay) == orderStatus[o] = "PENDING" /\ pay = "succeeded"
ReadyInAnyStatus(o, inv, pay) == pay = "succeeded" /\ inv \in {"reserved", "not_required"}

\* _confirm_if_ready and _queue_custom_production, on the saga columns the
\* calling handler has just written.
Ready(o, inv, pay) ==
  /\ orderStatus[o] = "PENDING"
  /\ pay = "succeeded"
  /\ inv \in {"reserved", "not_required"}

ConfirmIfReady(o, inv, pay) ==
  \/ /\ Ready(o, inv, pay)
     /\ orderStatus' = [orderStatus EXCEPT ![o] = "CONFIRMED"]
     /\ fulfillmentStatus' = [fulfillmentStatus EXCEPT ![o] = "ready"]
     /\ production' = [production EXCEPT
          ![o] = IF o \in CustomOrders /\ @ = "none" THEN "queued" ELSE @]
     /\ outbox' = [outbox EXCEPT ![o] = Append(@, "order.confirmed")]
  \/ /\ ~Ready(o, inv, pay)
     /\ UNCHANGED <<orderStatus, fulfillmentStatus, production, outbox>>

-----------------------------------------------------------------------------
(* HTTP requests.                                                           *)

\* Mutant of CreateOrder: a repeated POST overwrites the order.
CreateOrderUpsert(o, i) ==
  /\ orderStatus[o] = "absent" \/ Exists(o)
  /\ IntentFree(o, i)
  /\ orderStatus' = [orderStatus EXCEPT ![o] = "PENDING"]
  /\ intentOf' = [intentOf EXCEPT ![o] = i]
  /\ outbox' = [outbox EXCEPT ![o] = Append(@, "order.created")]
  /\ UNCHANGED <<deliveryStatus, sagaVars, production, expired>>

CreateOrder(o, i) ==
  /\ orderStatus[o] = "absent"
  /\ IntentFree(o, i)
  /\ orderStatus' = [orderStatus EXCEPT ![o] = "PENDING"]
  /\ intentOf' = [intentOf EXCEPT ![o] = i]
  /\ outbox' = [outbox EXCEPT ![o] =
       <<"order.created">> \o
         (IF o \in InventoryOrders THEN <<"inventory.reserve.requested">> ELSE <<>>)]
  /\ UNCHANGED <<deliveryStatus, sagaVars, production, expired>>

CancelOrder(o) ==
  /\ Exists(o)
  /\ orderStatus[o] # "CANCELLED"
  /\ deliveryStatus[o] # "DELIVERED"
  /\ CancelLocked({o}, inventoryStatus, TRUE)
  /\ UNCHANGED <<deliveryStatus, intentOf, paymentStatus, expired>>

\* The administrative PATCH: any delivery status, in any state of the saga.
UpdateOrder(o, d) ==
  /\ Exists(o)
  /\ deliveryStatus' = [deliveryStatus EXCEPT ![o] = d]
  /\ UNCHANGED <<orderStatus, intentOf, sagaVars, production, outbox, expired>>

\* Removes the order and, by cascade, its saga and production rows.  Nothing is
\* written to the outbox, and the outbox rows stay.
DeleteOrder(o) ==
  /\ Exists(o)
  /\ orderStatus' = [orderStatus EXCEPT ![o] = "deleted"]
  /\ production' = [production EXCEPT ![o] = "none"]
  /\ UNCHANGED <<deliveryStatus, intentOf, sagaVars, outbox, expired>>

-----------------------------------------------------------------------------
(* Saga participants' answers.                                              *)

\* Mutant of RecordInventorySucceeded: stores the answer, whatever became of the
\* order meanwhile, and leaves confirming it to the payment's answer.
StoreInventorySucceeded(o) ==
  /\ Exists(o)
  /\ inventoryStatus' = [inventoryStatus EXCEPT ![o] = "reserved"]
  /\ UNCHANGED <<orderStatus, deliveryStatus, intentOf, paymentStatus,
                 fulfillmentStatus, production, outbox, expired>>

RecordInventorySucceeded(o) ==
  /\ Exists(o)
  /\ \/ /\ orderStatus[o] = "CANCELLED"
        /\ inventoryStatus[o] \notin {"released", "release_requested"}
        /\ inventoryStatus' = [inventoryStatus EXCEPT ![o] = "release_requested"]
        /\ outbox' = [outbox EXCEPT ![o] = @ \o ReleaseEvent(o)]
        /\ UNCHANGED <<orderStatus, fulfillmentStatus, production>>
     \/ /\ orderStatus[o] = "CANCELLED"
        /\ inventoryStatus[o] \in {"released", "release_requested"}
        /\ UNCHANGED <<orderStatus, inventoryStatus, fulfillmentStatus, production, outbox>>
     \/ /\ orderStatus[o] # "CANCELLED"
        /\ inventoryStatus' = [inventoryStatus EXCEPT ![o] = "reserved"]
        /\ ConfirmIfReady(o, "reserved", paymentStatus[o])
  /\ UNCHANGED <<deliveryStatus, intentOf, paymentStatus, expired>>

\* Mutant of RecordInventoryFailed: asks for a release and does not cancel.
ReleaseOnInventoryFailed(o) ==
  /\ Exists(o)
  /\ inventoryStatus' = [inventoryStatus EXCEPT ![o] = "failed"]
  /\ outbox' = [outbox EXCEPT ![o] = @ \o ReleaseEvent(o)]
  /\ UNCHANGED <<orderStatus, deliveryStatus, intentOf, paymentStatus,
                 fulfillmentStatus, production, expired>>

RecordInventoryFailed(o) ==
  /\ Exists(o)
  /\ LET inv == [inventoryStatus EXCEPT ![o] = "failed"]
     IN  \/ /\ orderStatus[o] # "CANCELLED"
            /\ CancelLocked({o}, inv, FALSE)
         \/ /\ orderStatus[o] = "CANCELLED"
            /\ inventoryStatus' = inv
            /\ UNCHANGED <<orderStatus, fulfillmentStatus, production, outbox>>
  /\ UNCHANGED <<deliveryStatus, intentOf, paymentStatus, expired>>

\* matches: the event carries the order's user, amount and currency.
RecordPaymentSucceeded(o, i, matches) ==
  /\ Exists(o)
  /\ \/ /\ orderStatus[o] = "CANCELLED"
        /\ UNCHANGED <<orderStatus, intentOf, sagaVars, production, outbox>>
     \/ /\ orderStatus[o] # "CANCELLED"
        /\ ~matches \/ intentOf[o] \notin {NoIntent, i}
        /\ CancelLocked({o}, inventoryStatus, TRUE)
        /\ UNCHANGED <<intentOf, paymentStatus>>
     \/ /\ orderStatus[o] # "CANCELLED"
        /\ matches /\ intentOf[o] \in {NoIntent, i}
        /\ IntentFree(o, i)
        /\ intentOf' = [intentOf EXCEPT ![o] = i]
        /\ paymentStatus' = [paymentStatus EXCEPT ![o] = "succeeded"]
        /\ ConfirmIfReady(o, inventoryStatus[o], "succeeded")
        /\ UNCHANGED inventoryStatus
  /\ UNCHANGED <<deliveryStatus, expired>>

\* payment.failed and payment.cancelled are recorded alike.
RecordPaymentFailed(o) ==
  /\ Exists(o)
  /\ paymentStatus' = [paymentStatus EXCEPT ![o] = "failed"]
  /\ \/ /\ orderStatus[o] # "CANCELLED"
        /\ CancelLocked({o}, inventoryStatus, TRUE)
     \/ /\ orderStatus[o] = "CANCELLED"
        /\ UNCHANGED <<orderStatus, inventoryStatus, fulfillmentStatus, production, outbox>>
  /\ UNCHANGED <<deliveryStatus, intentOf, expired>>

RecordFulfillmentFailed(o) ==
  /\ Exists(o)
  /\ \/ /\ orderStatus[o] # "CANCELLED"
        /\ CancelLocked({o}, inventoryStatus, TRUE)
     \/ /\ orderStatus[o] = "CANCELLED"
        /\ fulfillmentStatus' = [fulfillmentStatus EXCEPT ![o] = "failed"]
        /\ UNCHANGED <<orderStatus, inventoryStatus, production, outbox>>
  /\ UNCHANGED <<deliveryStatus, intentOf, paymentStatus, expired>>

-----------------------------------------------------------------------------
(* The timeout worker.                                                      *)

TimeoutElapses(o) ==
  /\ orderStatus[o] = "PENDING"
  /\ o \notin expired
  /\ expired' = expired \cup {o}
  /\ UNCHANGED <<orderStatus, deliveryStatus, intentOf, sagaVars, production, outbox>>

\* Mutants of ExpireOnce: one keeps the stock of the orders it cancels, one
\* spares the orders that were paid.
ExpireOnceKeepingStock ==
  \E o \in expired :
    /\ orderStatus[o] = "PENDING"
    /\ CancelLocked({o}, inventoryStatus, FALSE)
    /\ UNCHANGED <<deliveryStatus, intentOf, paymentStatus, expired>>

ExpireOnceUnpaid ==
  \E o \in expired :
    /\ orderStatus[o] = "PENDING" /\ paymentStatus[o] # "succeeded"
    /\ CancelLocked({o}, inventoryStatus, TRUE)
    /\ UNCHANGED <<deliveryStatus, intentOf, paymentStatus, expired>>

\* One transaction cancels a batch of expired PENDING orders.  SKIP LOCKED may
\* leave any of them to the next run.
ExpireOnce ==
  \E batch \in SUBSET {o \in expired : orderStatus[o] = "PENDING"} :
    /\ batch # {}
    /\ Cardinality(batch) <= ExpiryLimit
    /\ CancelLocked(batch, inventoryStatus, TRUE)
    /\ UNCHANGED <<deliveryStatus, intentOf, paymentStatus, expired>>

-----------------------------------------------------------------------------

Request(o) ==
  \/ \E i \in Intents \cup {NoIntent} : CreateOrder(o, i)
  \/ CancelOrder(o)
  \/ \E d \in DeliveryStatus : UpdateOrder(o, d)
  \/ DeleteOrder(o)

\* Inventory answers exist only for orders that asked for a reservation.
Answer(o) ==
  \/ o \in InventoryOrders /\ RecordInventorySucceeded(o)
  \/ o \in InventoryOrders /\ RecordInventoryFailed(o)
  \/ \E i \in Intents, matches \in BOOLEAN : RecordPaymentSucceeded(o, i, matches)
  \/ RecordPaymentFailed(o)
  \/ RecordFulfillmentFailed(o)

Next ==
  \/ \E o \in Orders : Request(o) \/ Answer(o) \/ TimeoutElapses(o)
  \/ ExpireOnce

Spec == Init /\ [][Next]_vars

\* Time passes, and the worker's loop runs expire_once every 30 seconds.
FairSpec ==
  /\ Spec
  /\ \A o \in Orders : WF_vars(TimeoutElapses(o))
  /\ WF_vars(ExpireOnce)

-----------------------------------------------------------------------------
(* Properties.                                                              *)

Decision == {"order.confirmed", "order.cancelled"}

Emitted(o, e) == \E n \in 1..Len(outbox[o]) : outbox[o][n] = e

\* Goods are promised only for money and stock: while an order is CONFIRMED
\* its saga records a successful payment and a held (or unneeded) reservation,
\* and its custom lines are queued for production, whatever answers arrived
\* before or since.  FLOWS.md and the docstring of
\* handle_inventory_reserve_succeeded confirm on the reservation alone; the
\* code does not.
ConfirmedMeansReady ==
  \A o \in Orders : orderStatus[o] = "CONFIRMED" =>
    /\ paymentStatus[o] = "succeeded"
    /\ inventoryStatus[o] \in {"reserved", "not_required"}
    /\ fulfillmentStatus[o] = "ready"
    /\ o \in CustomOrders => production[o] = "queued"

\* The outbox announces each decision at most once, and a cancellation is
\* never followed by a confirmation: consumers that see the rows in order can
\* treat the last decision as final.  FLOWS.md shows order.confirmed a second
\* time, on the payment; the code writes it once.
DecisionsInOrder ==
  \A o \in Orders : \A m, n \in 1..Len(outbox[o]) :
    m < n /\ outbox[o][m] \in Decision /\ outbox[o][n] \in Decision
      => outbox[o][m] = "order.confirmed" /\ outbox[o][n] = "order.cancelled"

\* The transactional outbox and the rows agree: a decision is announced
\* exactly when the order's status says so.
StatusMatchesOutbox ==
  \A o \in Orders :
    /\ orderStatus[o] = "absent" => outbox[o] = <<>>
    /\ orderStatus[o] = "PENDING" => \A e \in Decision : ~Emitted(o, e)
    /\ orderStatus[o] = "CONFIRMED" =>
         Emitted(o, "order.confirmed") /\ ~Emitted(o, "order.cancelled")
    /\ orderStatus[o] = "CANCELLED" => Emitted(o, "order.cancelled")

\* Stock is given back only for an order whose cancellation was announced
\* first: no sequence of answers frees the stock of a live order.
ReleaseFollowsCancel ==
  \A o \in Orders : \A n \in 1..Len(outbox[o]) :
    outbox[o][n] = "inventory.release.requested" =>
      \E m \in 1..(n - 1) : outbox[o][m] = "order.cancelled"

\* A cancelled order holds no reservation it knows of and no production job,
\* and a saga that says the release was requested did request it.
CancelledHoldsNothing ==
  \A o \in Orders :
    /\ orderStatus[o] = "CANCELLED" =>
         inventoryStatus[o] # "reserved" /\ production[o] # "queued"
    /\ inventoryStatus[o] = "release_requested" =>
         Emitted(o, "inventory.release.requested")

\* An order only moves forward: a cancelled or confirmed order never becomes
\* pending again, and a cancelled one is never confirmed by a late answer.
StatusForward ==
  [][\A o \in Orders :
       /\ orderStatus'[o] = "PENDING" => orderStatus[o] \in {"absent", "PENDING"}
       /\ orderStatus'[o] = "CONFIRMED" => orderStatus[o] \in {"PENDING", "CONFIRMED"}
       /\ orderStatus[o] = "CANCELLED" => orderStatus'[o] \in {"CANCELLED", "deleted"}
    ]_vars

\* A step cancels an order that holds stock, other than the step that records
\* the product service's own report that it holds none.
CancelsHolding(o) ==
  /\ orderStatus[o] # "CANCELLED"
  /\ orderStatus'[o] = "CANCELLED"
  /\ inventoryStatus[o] = "reserved"
  /\ inventoryStatus'[o] # "failed"

\* The step that cancels an order holding stock asks for its release in the
\* same transaction, right after the cancellation.
CancelReleasesStock ==
  [][\A o \in Orders : CancelsHolding(o) =>
       /\ Len(outbox'[o]) = Len(outbox[o]) + 2
       /\ outbox'[o][Len(outbox'[o])] = "inventory.release.requested"
    ]_vars

\* No order waits for ever: with the timeout worker running, every pending
\* order is decided (or deleted) even if no participant ever answers.
PendingIsDecided ==
  \A o \in Orders : orderStatus[o] = "PENDING" ~> orderStatus[o] # "PENDING"

=============================================================================
