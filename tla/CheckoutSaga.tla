---------------------------- MODULE CheckoutSaga ----------------------------
(***************************************************************************)
(* The checkout: OrderSaga, Inventory and Payment joined by their outboxes.*)
(* Every outbox row is delivered to its consumer as EventChannel promises: *)
(* some time after it was written, in any order, with one effect; up to    *)
(* MaxLost rows or webhooks are lost to a claim that nobody releases.      *)
(* A row of the product service may take effect again, up to MaxRepeats    *)
(* times: its publisher gives every publication a new event_id, so the     *)
(* order service cannot recognise the second one.                          *)
(*                                                                         *)
(* The catalog is left alone here (see Inventory).                         *)
(***************************************************************************)
EXTENDS Naturals, Sequences

CONSTANTS
  Orders, Intents, NoIntent, InventoryOrders, CustomOrders, ExpiryLimit,
  Stock, Products, Owner, Demand, MaxStock, MaxAnswers,
  Requests, MaxDeclines,
  IntentOf,    \* the Stripe intent of an order
  MaxOutbox,   \* bound: rows of an order in the order service's outbox
  MaxLost,     \* bound: deliveries lost in crashes
  MaxRepeats   \* bound: answers of the product service delivered again

ASSUME CheckoutAssumption ==
  /\ InventoryOrders \subseteq Orders
  /\ IntentOf \in [Orders -> Intents]

VARIABLES
  orderStatus, deliveryStatus, intentOf, inventoryStatus, paymentStatus,
  fulfillmentStatus, production, outbox, expired,           \* order service
  quantity, sellable, present, ledger, answers, supply,     \* product service
  payment, paymentOutbox, creator, cancelMsg, saw, outcome, \* payment service
  intent, refund, declines, hook,                           \* Stripe
  honest,     \* orders whose intent was requested for the order's own amount
  handled,    \* rows <<outbox, order, position>> their consumer is done with
  early,      \* history: orders charged before they were posted, whose
              \* payment.succeeded the order service has dropped
  lost,       \* deliveries lost so far
  repeats     \* answers repeated so far

Ord == INSTANCE OrderSaga
Asked == {o \in Orders : \E n \in 1..Len(outbox[o]) :
            outbox[o][n] = "inventory.release.requested"}
Inv == INSTANCE Inventory WITH Orders <- InventoryOrders, asked <- Asked
Pay == INSTANCE Payment WITH outbox <- paymentOutbox

orderVars == <<orderStatus, deliveryStatus, intentOf, inventoryStatus, paymentStatus,
               fulfillmentStatus, production, outbox, expired>>
inventoryVars == <<quantity, sellable, present, ledger, answers, supply>>
paymentVars == <<payment, paymentOutbox, creator, cancelMsg, saw, outcome,
                 intent, refund, declines, hook>>
channelVars == <<honest, handled, early, lost, repeats>>
vars == <<orderVars, inventoryVars, paymentVars, channelVars>>

Rows == {"order", "inventory", "payment"} \X Orders \X (1..(MaxOutbox + MaxAnswers + 8))

TypeOK ==
  /\ Ord!TypeOK /\ Inv!TypeOK /\ Pay!TypeOK
  /\ honest \subseteq Orders
  /\ handled \subseteq Rows
  /\ early \subseteq Orders
  /\ lost \in 0..MaxLost
  /\ repeats \in 0..MaxRepeats

Init ==
  /\ Ord!Init /\ Inv!Init /\ Pay!Init
  /\ sellable = Stock
  /\ honest \in SUBSET Orders
  /\ handled = {} /\ early = {}
  /\ lost = 0 /\ repeats = 0

-----------------------------------------------------------------------------
(* Deliveries.                                                              *)

\* Row n of order o in a service's outbox is on its way to its consumer.
Due(service, box, o, n) ==
  /\ n \in 1..Len(box[o])
  /\ <<service, o, n>> \notin handled

Done(service, o, n) ==
  /\ handled' = handled \cup {<<service, o, n>>}
  /\ UNCHANGED <<honest, lost, repeats>>

Answered(service, o, n) == Done(service, o, n) /\ UNCHANGED early

OrderRow(o, n, event) == Due("order", outbox, o, n) /\ outbox[o][n] = event

\* The events the product and payment services subscribe to; the consumers of
\* the others change nothing here.
Consumed ==
  {"inventory.reserve.requested", "inventory.release.requested", "order.cancelled"}

ProductReserves(o, n) ==
  /\ OrderRow(o, n, "inventory.reserve.requested")
  /\ UNCHANGED <<orderVars, paymentVars>>
  /\ Inv!Reserve(o)
  /\ Answered("order", o, n)

ProductReleases(o, n) ==
  /\ OrderRow(o, n, "inventory.release.requested")
  /\ UNCHANGED <<orderVars, paymentVars>>
  /\ \/ Inv!Release(o)
     \/ ledger[o] # "reserved" /\ UNCHANGED inventoryVars
  /\ Answered("order", o, n)

PaymentTakesCancel(o, n) ==
  /\ OrderRow(o, n, "order.cancelled")
  /\ Pay!OrderCancelled(o)
  /\ Answered("order", o, n)
  /\ UNCHANGED <<orderVars, inventoryVars>>

\* An answer about an order that does not exist, no longer or not yet, is
\* logged and done with.
OrderTakes(o, answer) ==
  \/ /\ Ord!Exists(o)
     /\ \/ answer = "inventory.reserve.succeeded" /\ Ord!RecordInventorySucceeded(o)
        \/ answer = "inventory.reserve.failed" /\ Ord!RecordInventoryFailed(o)
        \/ /\ answer = "payment.succeeded"
           /\ Ord!RecordPaymentSucceeded(o, IntentOf[o], o \in honest)
        \/ /\ answer \in {"payment.failed", "payment.cancelled"}
           /\ Ord!RecordPaymentFailed(o)
        \/ answer = "payment.refunded" /\ UNCHANGED orderVars
  \/ ~Ord!Exists(o) /\ UNCHANGED orderVars

OrderTakesReply(o, n) ==
  /\ Due("inventory", answers, o, n)
  /\ OrderTakes(o, answers[o][n])
  /\ UNCHANGED <<inventoryVars, paymentVars, honest, early, lost>>
  /\ \/ handled' = handled \cup {<<"inventory", o, n>>} /\ UNCHANGED repeats
     \/ repeats < MaxRepeats /\ repeats' = repeats + 1 /\ UNCHANGED handled

OrderTakesPayment(o, n) ==
  /\ Due("payment", paymentOutbox, o, n)
  /\ OrderTakes(o, paymentOutbox[o][n])
  /\ Done("payment", o, n)
  /\ early' = IF orderStatus[o] = "absent" /\ paymentOutbox[o][n] = "payment.succeeded"
              THEN early \cup {o} ELSE early
  /\ UNCHANGED <<inventoryVars, paymentVars>>

\* The consumer died between its claim and its commit, or could not release its
\* claim after an error: every redelivery is answered as a duplicate.
LoseDelivery(o, n) ==
  /\ lost < MaxLost
  /\ lost' = lost + 1
  /\ \/ /\ \E event \in Consumed : OrderRow(o, n, event)
        /\ handled' = handled \cup {<<"order", o, n>>}
     \/ Due("inventory", answers, o, n) /\ handled' = handled \cup {<<"inventory", o, n>>}
     \/ Due("payment", paymentOutbox, o, n) /\ handled' = handled \cup {<<"payment", o, n>>}
  /\ UNCHANGED <<orderVars, inventoryVars, paymentVars, honest, early, repeats>>

Deliver(o, n) ==
  \/ o \in InventoryOrders /\ (ProductReserves(o, n) \/ ProductReleases(o, n))
  \/ o \in InventoryOrders /\ OrderTakesReply(o, n)
  \/ PaymentTakesCancel(o, n)
  \/ OrderTakesPayment(o, n)

-----------------------------------------------------------------------------
(* Each service's own steps.                                                *)

OrderStep ==
  /\ \/ \E o \in Orders :
          \/ Ord!CreateOrder(o, NoIntent) \/ Ord!CreateOrder(o, IntentOf[o])
          \/ Ord!CancelOrder(o)
          \/ Ord!DeleteOrder(o)
          \/ Ord!TimeoutElapses(o)
          \* the supplier refuses a confirmed order
          \/ /\ \E n \in 1..Len(outbox[o]) : outbox[o][n] = "order.confirmed"
             /\ Ord!RecordFulfillmentFailed(o)
     \/ Ord!ExpireOnce
  /\ \A o \in Orders : Len(outbox'[o]) <= MaxOutbox
  /\ UNCHANGED <<inventoryVars, paymentVars, channelVars>>

\* The shop asks for the intent before it posts the order, under an id that the
\* gateway has made up; the payment service never asks whether it exists.
PaymentStep(o) ==
  /\ \/ Pay!Stripe(o)
     \/ Pay!Request(o)
     \/ Pay!ReadRefunded(o)
     \/ \E h \in Pay!HookIds : Pay!MarkWebhook(o, h) \/ Pay!CommitWebhook(o, h)
     \/ Pay!RefundRead(o) \/ Pay!RefundCall(o) \/ Pay!RefundCommit(o)
  /\ UNCHANGED <<orderVars, inventoryVars, channelVars>>

LosePayment(o) ==
  /\ lost < MaxLost
  /\ lost' = lost + 1
  /\ \/ \E h \in Pay!HookIds : Pay!LoseWebhook(o, h)
     \/ Pay!RefundFails(o) \/ Pay!RefundCrash(o)
  /\ UNCHANGED <<orderVars, inventoryVars, honest, handled, early, repeats>>

MaxRow == MaxOutbox + MaxAnswers + 8

Next ==
  \/ OrderStep
  \/ \E o \in Orders :
       \/ PaymentStep(o)
       \/ LosePayment(o)
       \/ \E n \in 1..MaxRow : Deliver(o, n) \/ LoseDelivery(o, n)

Spec == Init /\ [][Next]_vars

-----------------------------------------------------------------------------
(* Properties.                                                              *)

\* What an order promises its customer is backed by the other services' own
\* records at every moment: a confirmed order has been charged for, and its
\* stock is held in the product service's ledger.  (FLOWS.md has it confirmed
\* before it is paid.)
ConfirmedIsBacked ==
  \A o \in Orders : orderStatus[o] = "CONFIRMED" =>
    /\ intent[o] = "succeeded"
    /\ o \in InventoryOrders => ledger[o] = "reserved"

\* Nothing is on its way to any service.
Quiet(o) ==
  /\ \A n \in 1..Len(outbox[o]) : outbox[o][n] \in Consumed => <<"order", o, n>> \in handled
  /\ o \in InventoryOrders =>
       \A n \in 1..Len(answers[o]) : <<"inventory", o, n>> \in handled
  /\ \A n \in 1..Len(paymentOutbox[o]) : <<"payment", o, n>> \in handled
  /\ \A h \in Pay!HookIds : hook[o][h] \notin {"sent", "read", "marked"}
  /\ \A r \in Requests : creator[o][r] = "idle"
  /\ cancelMsg[o] \in {"none", "done", "dead", "lost"}

\* Compensation across services: once everything in flight is handled and
\* nothing was lost, a cancelled order holds no stock, whoever cancelled it,
\* whenever, and however the answers crossed.
CancelledFreesStock ==
  \A o \in InventoryOrders :
    Quiet(o) /\ lost = 0 /\ orderStatus[o] = "CANCELLED" => ledger[o] # "reserved"

\* A paid order whose stock is held is not left pending, unless it was charged
\* before it was posted.
PaidAndHeldIsDecided ==
  \A o \in InventoryOrders \ early :
    /\ Quiet(o) /\ lost = 0
    /\ payment[o] = "SUCCEEDED" /\ ledger[o] = "reserved"
    => orderStatus[o] # "PENDING"

\* What the docstring of handle_payment_succeeded says: "Ensures an order does
\* not stay PENDING after Stripe confirms payment."  Nothing is lost, the stock
\* is held, and no answer is on its way.
PaidIsNotPending ==
  \A o \in InventoryOrders :
    /\ Quiet(o) /\ lost = 0
    /\ payment[o] = "SUCCEEDED" /\ ledger[o] = "reserved"
    => orderStatus[o] # "PENDING"

\* The product service's part of the checkout is a behaviour of Inventory.  Its
\* own code does not ask who may release what: that a release is requested only
\* of stock it said it holds, and for good, is up to the order service.
ImplementsInventory == Inv!Spec

\* FLOWS.md: an order's cancellation leads to its refund.
CancelledIsRefunded ==
  \A o \in Orders :
    /\ Quiet(o) /\ lost = 0
    /\ orderStatus[o] = "CANCELLED" /\ intent[o] = "succeeded"
    => refund[o] # "none"

=============================================================================
