------------------------- MODULE CheckoutSagaProofs -------------------------
(***************************************************************************)
(* Theorems about the checkout, for every set of orders, any stock and any *)
(* number of lost and repeated deliveries.  The services are followed      *)
(* through what their steps do to one order: to its saga row and outbox in *)
(* the order service, its ledger row and answers in the product service,   *)
(* its payment and events in the payment service.                          *)
(***************************************************************************)
EXTENDS CheckoutSaga, SequenceTheorems, TLAPS

-----------------------------------------------------------------------------
(* The inductive invariant.                                                 *)

Success == "inventory.reserve.succeeded"
Failure == "inventory.reserve.failed"
Reserving == "inventory.reserve.requested"
Releasing == "inventory.release.requested"
PaidHook == <<"succeeded", 1>>

\* The columns the three services decide by, apart from everything else.
OrderTypes ==
  /\ orderStatus \in [Orders -> Ord!OrderStatus \cup {"absent", "deleted"}]
  /\ inventoryStatus \in [Orders -> {"pending", "not_required", "reserved", "failed",
                                     "release_requested"}]
  /\ paymentStatus \in [Orders -> {"pending", "succeeded", "failed"}]
  /\ outbox \in [Orders -> Seq(Ord!OutboxEvent)]

StockTypes ==
  /\ ledger \in [InventoryOrders -> {"none", "reserved", "released"}]
  /\ answers \in [InventoryOrders -> Seq(Inv!Reply)]

PaymentTypes ==
  /\ payment \in [Orders -> Pay!Status \cup {"none"}]
  /\ paymentOutbox \in [Orders -> Seq(Pay!PaymentEvent)]
  /\ outcome \in [Orders -> {"none", "CANCELLED", "REFUNDED"}]
  /\ intent \in [Orders -> {"none", "open", "succeeded", "canceled"}]
  /\ hook \in [Orders -> [Pay!HookIds -> Pay!HookState]]

\* A saga row and its outbox: the order is confirmed exactly when it is paid
\* and held, and a release is asked for only by a cancellation.
RowOK(o) ==
  /\ orderStatus[o] = "absent" => outbox[o] = <<>> /\ paymentStatus[o] = "pending"
  /\ orderStatus[o] = "PENDING" =>
       ~(paymentStatus[o] = "succeeded" /\ inventoryStatus[o] \in {"reserved", "not_required"})
  /\ orderStatus[o] = "CONFIRMED" =>
       paymentStatus[o] = "succeeded" /\ inventoryStatus[o] \in {"reserved", "not_required"}
  /\ orderStatus[o] = "CANCELLED" => inventoryStatus[o] # "reserved"
  /\ o \in Asked => orderStatus[o] \in {"CANCELLED", "deleted"}
  /\ \A n \in 1..Len(outbox[o]) : outbox[o][n] = Reserving => n = 2

\* Positions that were handled were written.
HandledOK(o) ==
  /\ \A n \in Nat : <<"order", o, n>> \in handled => n \in 1..Len(outbox[o])
  /\ o \in InventoryOrders =>
       \A n \in Nat : <<"inventory", o, n>> \in handled => n \in 1..Len(answers[o])
  /\ \A n \in Nat : <<"payment", o, n>> \in handled => n \in 1..Len(paymentOutbox[o])

\* An order's one request got at most one answer, and the ledger agrees with it.
StockOK(o) ==
  /\ inventoryStatus[o] # "not_required"
  /\ inventoryStatus[o] = "release_requested" => o \in Asked
  /\ \/ answers[o] = <<>> /\ ledger[o] = "none"
     \/ /\ answers[o] = <<Success>> /\ ledger[o] \in {"reserved", "released"}
        /\ <<"order", o, 2>> \in handled
     \/ /\ answers[o] = <<Failure>> /\ ledger[o] = "none"
        /\ <<"order", o, 2>> \in handled
  /\ ledger[o] = "released" => o \in Asked
  /\ o \in Asked \/ inventoryStatus[o] = "reserved" => answers[o] = <<Success>>
  /\ orderStatus[o] = "absent" => answers[o] = <<>>

\* Without a loss, a success that was handled is known to the saga or led to a
\* release, and a release that was handled freed the stock.
FlowOK(o) ==
  /\ /\ lost = 0 /\ ledger[o] = "reserved" /\ Ord!Exists(o)
     /\ <<"inventory", o, 1>> \in handled
     => inventoryStatus[o] = "reserved" \/ o \in Asked
  /\ lost = 0 =>
       \A n \in 1..Len(outbox[o]) :
         outbox[o][n] = Releasing /\ <<"order", o, n>> \in handled => ledger[o] = "released"

\* Everyone who says an order was paid for has it from Stripe.
MoneyOK(o) ==
  /\ hook[o][PaidHook] # "unsent" => intent[o] = "succeeded"
  /\ \A n \in 1..Len(paymentOutbox[o]) :
       paymentOutbox[o][n] = "payment.succeeded" => intent[o] = "succeeded"
  /\ payment[o] = "SUCCEEDED" =>
       \E n \in 1..Len(paymentOutbox[o]) : paymentOutbox[o][n] = "payment.succeeded"
  /\ paymentStatus[o] = "succeeded" => intent[o] = "succeeded"

\* Without a loss, a pending order knows of the success it was told of, and an
\* order that is not posted yet was told of none: early are those that were.
PaidOK(o) ==
  lost = 0 /\ o \notin early /\ orderStatus[o] \in {"absent", "PENDING"} =>
    \A n \in 1..Len(paymentOutbox[o]) :
      /\ paymentOutbox[o][n] = "payment.succeeded"
      /\ <<"payment", o, n>> \in handled
      => paymentStatus[o] = "succeeded"

\* All of it, for one order.
OrderOK(o) ==
  /\ RowOK(o) /\ HandledOK(o) /\ MoneyOK(o) /\ PaidOK(o)
  /\ o \in InventoryOrders => StockOK(o) /\ FlowOK(o)

\* The inductive invariant.
IInv ==
  /\ OrderTypes /\ StockTypes /\ PaymentTypes /\ lost \in Nat
  /\ \A o \in Orders : OrderOK(o)

-----------------------------------------------------------------------------
(* Outboxes only grow.                                                      *)

\* t is s followed by the events of E and no others.
Extended(s, t, E) ==
  /\ Len(s) <= Len(t)
  /\ \A n \in 1..Len(s) : t[n] = s[n]
  /\ \A n \in 1..Len(t) : n > Len(s) => t[n] \in E
  /\ \A e \in E : \E n \in 1..Len(t) : t[n] = e

\* An outbox that is left alone.
LEMMA ExtendedByNone ==
  ASSUME NEW S, NEW s \in Seq(S)
  PROVE  Extended(s, s, {})
BY LenProperties DEF Extended

\* A row appended.
LEMMA ExtendedByOne ==
  ASSUME NEW S, NEW s \in Seq(S), NEW e \in S
  PROVE  Append(s, e) \in Seq(S) /\ Extended(s, Append(s, e), {e})
<1> DEFINE t == Append(s, e)
<1>1. /\ t \in Seq(S)
      /\ Len(s) \in Nat
      /\ Len(t) = Len(s) + 1
      /\ t[Len(s) + 1] = e
      /\ \A n \in 1..Len(s) : t[n] = s[n]
  BY AppendProperties
<1> HIDE DEF t
<1>2. Extended(s, t, {e})
  BY <1>1 DEF Extended
<1> QED BY <1>1, <1>2 DEF t

\* Two rows of one transaction.
LEMMA ExtendedByTwo ==
  ASSUME NEW S, NEW s \in Seq(S), NEW e \in S, NEW f \in S
  PROVE  /\ Append(s, e) \o <<f>> \in Seq(S)
         /\ Extended(s, Append(s, e) \o <<f>>, {e, f})
<1> DEFINE t == Append(Append(s, e), f)
<1>1. /\ Append(s, e) \in Seq(S)
      /\ Len(s) \in Nat
      /\ Len(Append(s, e)) = Len(s) + 1
      /\ Append(s, e)[Len(s) + 1] = e
      /\ \A n \in 1..Len(s) : Append(s, e)[n] = s[n]
  BY AppendProperties
<1>2. /\ t \in Seq(S)
      /\ Len(t) = Len(s) + 2
      /\ t[Len(s) + 2] = f
      /\ \A n \in 1..(Len(s) + 1) : t[n] = Append(s, e)[n]
  BY <1>1, AppendProperties
<1>3. Append(s, e) \o <<f>> = t
  BY <1>1
<1>4. /\ t[Len(s) + 1] = e
      /\ \A n \in 1..Len(s) : t[n] = s[n]
  BY <1>1, <1>2
<1> HIDE DEF t
<1>5. Extended(s, t, {e, f})
  BY <1>1, <1>2, <1>4 DEF Extended
<1> QED BY <1>2, <1>3, <1>5

-----------------------------------------------------------------------------
(* What a step of the order service does to one order.                      *)

Stays(o) ==
  /\ orderStatus'[o] = orderStatus[o]
  /\ inventoryStatus'[o] = inventoryStatus[o]
  /\ paymentStatus'[o] = paymentStatus[o]
  /\ outbox'[o] = outbox[o]

Created(o) ==
  /\ orderStatus[o] = "absent" /\ orderStatus'[o] = "PENDING"
  /\ inventoryStatus'[o] = inventoryStatus[o]
  /\ paymentStatus'[o] = paymentStatus[o]
  /\ \A n \in 1..Len(outbox'[o]) :
       outbox'[o][n] # Releasing /\ (outbox'[o][n] = Reserving => n = 2)

Deleted(o) ==
  /\ Ord!Exists(o) /\ orderStatus'[o] = "deleted"
  /\ inventoryStatus'[o] = inventoryStatus[o]
  /\ paymentStatus'[o] = paymentStatus[o]
  /\ outbox'[o] = outbox[o]

Releases(o) == IF o \in InventoryOrders THEN {Releasing} ELSE {}

\* Cancelled by anything but the product service's refusal.
Cancelled(o) ==
  /\ Ord!Exists(o) /\ orderStatus[o] # "CANCELLED" /\ orderStatus'[o] = "CANCELLED"
  /\ paymentStatus'[o] \in {paymentStatus[o], "failed"}
  /\ \/ /\ inventoryStatus[o] = "reserved" /\ inventoryStatus'[o] = "release_requested"
        /\ Extended(outbox[o], outbox'[o], {"order.cancelled"} \cup Releases(o))
     \/ /\ inventoryStatus[o] # "reserved" /\ inventoryStatus'[o] = inventoryStatus[o]
        /\ Extended(outbox[o], outbox'[o], {"order.cancelled"})

\* Told that its stock was refused.
Refused(o) ==
  /\ Ord!Exists(o) /\ orderStatus'[o] = "CANCELLED"
  /\ inventoryStatus'[o] = "failed"
  /\ paymentStatus'[o] = paymentStatus[o]
  /\ \E E \in SUBSET {"order.cancelled"} : Extended(outbox[o], outbox'[o], E)

\* Told of a failed payment after its cancellation.
Noted(o) ==
  /\ orderStatus[o] = "CANCELLED" /\ orderStatus'[o] = "CANCELLED"
  /\ inventoryStatus'[o] = inventoryStatus[o]
  /\ paymentStatus'[o] = "failed"
  /\ outbox'[o] = outbox[o]

\* Confirmed if the columns just written allow it.
Settled(o) ==
  \/ /\ Ord!Ready(o, inventoryStatus'[o], paymentStatus'[o])
     /\ orderStatus'[o] = "CONFIRMED"
     /\ Extended(outbox[o], outbox'[o], {"order.confirmed"})
  \/ /\ ~Ord!Ready(o, inventoryStatus'[o], paymentStatus'[o])
     /\ orderStatus'[o] = orderStatus[o]
     /\ outbox'[o] = outbox[o]

\* Told that its stock is held.
Held(o) ==
  /\ Ord!Exists(o)
  /\ paymentStatus'[o] = paymentStatus[o]
  /\ \/ /\ orderStatus[o] = "CANCELLED" /\ orderStatus'[o] = "CANCELLED"
        /\ inventoryStatus'[o] = "release_requested"
        /\ Extended(outbox[o], outbox'[o], Releases(o))
     \/ /\ orderStatus[o] = "CANCELLED" /\ inventoryStatus[o] = "release_requested"
        /\ Stays(o)
     \/ /\ orderStatus[o] # "CANCELLED"
        /\ inventoryStatus'[o] = "reserved"
        /\ Settled(o)

\* Told that it is paid.
Paid(o) ==
  /\ Ord!Exists(o) /\ orderStatus[o] # "CANCELLED"
  /\ paymentStatus'[o] = "succeeded"
  /\ inventoryStatus'[o] = inventoryStatus[o]
  /\ Settled(o)

\* A transaction that cancels the orders of S and may record a failed payment.
LEMMA CancelLockedMoves ==
  ASSUME OrderTypes, NEW S,
         \A o \in Orders \cap S : Ord!Exists(o) /\ orderStatus[o] # "CANCELLED",
         Ord!CancelLocked(S, inventoryStatus, TRUE),
         paymentStatus' \in [Orders -> {"pending", "succeeded", "failed"}],
         \A o \in Orders \cap S : paymentStatus'[o] \in {paymentStatus[o], "failed"},
         \A o \in Orders \ S : paymentStatus'[o] = paymentStatus[o]
  PROVE  /\ OrderTypes'
         /\ \A o \in Orders : IF o \in S THEN Cancelled(o) ELSE Stays(o)
<1> DEFINE T == Ord!OutboxEvent
<1>1. /\ orderStatus' = [o \in Orders |-> IF o \in S THEN "CANCELLED" ELSE orderStatus[o]]
      /\ inventoryStatus' = [o \in Orders |->
           IF o \in {p \in S : TRUE /\ inventoryStatus[p] = "reserved"}
             THEN "release_requested" ELSE inventoryStatus[o]]
      /\ outbox' = [o \in Orders |->
           IF o \notin S THEN outbox[o]
           ELSE Append(outbox[o], "order.cancelled")
                  \o (IF o \in {p \in S : TRUE /\ inventoryStatus[p] = "reserved"}
                        THEN Ord!ReleaseEvent(o) ELSE <<>>)]
  BY DEF Ord!CancelLocked
<1>2. /\ orderStatus' \in [Orders -> Ord!OrderStatus \cup {"absent", "deleted"}]
      /\ inventoryStatus' \in [Orders -> {"pending", "not_required", "reserved", "failed",
                                          "release_requested"}]
  BY <1>1 DEF OrderTypes, Ord!OrderStatus
<1>3. ASSUME NEW o \in Orders \ S
      PROVE  outbox'[o] \in Seq(T) /\ Stays(o)
  BY <1>1 DEF Stays, OrderTypes
<1>4. ASSUME NEW o \in Orders \cap S
      PROVE  outbox'[o] \in Seq(T) /\ Cancelled(o)
  <2>1. outbox[o] \in Seq(T) /\ "order.cancelled" \in T /\ Releasing \in T
    BY DEF OrderTypes, Ord!OutboxEvent, Releasing
  <2>2. /\ Append(outbox[o], "order.cancelled") \in Seq(T)
        /\ Extended(outbox[o], Append(outbox[o], "order.cancelled"), {"order.cancelled"})
        /\ Append(outbox[o], "order.cancelled") \o <<>> = Append(outbox[o], "order.cancelled")
    <3>1. Append(outbox[o], "order.cancelled") \in Seq(T)
      BY <2>1
    <3> QED BY <2>1, <3>1, ExtendedByOne
  <2>3. /\ Append(outbox[o], "order.cancelled") \o <<Releasing>> \in Seq(T)
        /\ Extended(outbox[o], Append(outbox[o], "order.cancelled") \o <<Releasing>>,
                    {"order.cancelled", Releasing})
    BY <2>1, ExtendedByTwo
  <2>4. CASE inventoryStatus[o] = "reserved" /\ o \in InventoryOrders
    <3>1. outbox'[o] = Append(outbox[o], "order.cancelled") \o <<Releasing>>
      BY <1>1, <2>4 DEF Ord!ReleaseEvent, Releasing
    <3>2. {"order.cancelled"} \cup Releases(o) = {"order.cancelled", Releasing}
      BY <2>4 DEF Releases
    <3> QED BY <1>1, <2>3, <2>4, <3>1, <3>2 DEF Cancelled
  <2>5. CASE inventoryStatus[o] = "reserved" /\ o \notin InventoryOrders
    <3>1. outbox'[o] = Append(outbox[o], "order.cancelled")
      BY <1>1, <2>2, <2>5 DEF Ord!ReleaseEvent
    <3>2. {"order.cancelled"} \cup Releases(o) = {"order.cancelled"}
      BY <2>5 DEF Releases
    <3> QED BY <1>1, <2>2, <2>5, <3>1, <3>2 DEF Cancelled
  <2>6. CASE inventoryStatus[o] # "reserved"
    <3>1. outbox'[o] = Append(outbox[o], "order.cancelled")
      BY <1>1, <2>2, <2>6
    <3> QED BY <1>1, <2>2, <2>6, <3>1 DEF Cancelled
  <2> QED BY <2>4, <2>5, <2>6
<1>5. outbox' \in [Orders -> Seq(T)]
  BY <1>1, <1>3, <1>4
<1> QED BY <1>2, <1>3, <1>4, <1>5 DEF OrderTypes

\* Handlers that leave the columns alone.
LEMMA UnchangedStays ==
  ASSUME OrderTypes, UNCHANGED <<orderStatus, inventoryStatus, paymentStatus, outbox>>
  PROVE  OrderTypes' /\ \A o \in Orders : Stays(o)
BY DEF OrderTypes, Stays

\* A handler that cancels one order.
LEMMA CancelOneMoves ==
  ASSUME OrderTypes, NEW o \in Orders, Ord!Exists(o), orderStatus[o] # "CANCELLED",
         Ord!CancelLocked({o}, inventoryStatus, TRUE),
         \/ paymentStatus' = paymentStatus
         \/ paymentStatus' = [paymentStatus EXCEPT ![o] = "failed"]
  PROVE  /\ OrderTypes' /\ Cancelled(o)
         /\ \A p \in Orders \ {o} : Stays(p)
<1>1. /\ paymentStatus' \in [Orders -> {"pending", "succeeded", "failed"}]
      /\ paymentStatus'[o] \in {paymentStatus[o], "failed"}
      /\ \A p \in Orders \ {o} : paymentStatus'[p] = paymentStatus[p]
  BY DEF OrderTypes
<1>2. /\ \A p \in {o} : Ord!Exists(p) /\ orderStatus[p] # "CANCELLED"
      /\ \A p \in {o} : paymentStatus'[p] \in {paymentStatus[p], "failed"}
  BY <1>1
<1>3. /\ OrderTypes'
      /\ \A p \in Orders : IF p \in {o} THEN Cancelled(p) ELSE Stays(p)
  BY <1>1, <1>2, CancelLockedMoves
<1> QED BY <1>3

\* The order service's own steps.
LEMMA OrderStepMoves ==
  ASSUME OrderTypes, OrderStep
  PROVE  /\ OrderTypes'
         /\ \A o \in Orders : Stays(o) \/ Created(o) \/ Deleted(o) \/ Cancelled(o)
<1>1. ASSUME NEW o \in Orders, NEW i, Ord!CreateOrder(o, i)
      PROVE  /\ OrderTypes'
             /\ \A p \in Orders : Stays(p) \/ Created(p)
  <2> DEFINE row == <<"order.created">> \o
                      (IF o \in InventoryOrders THEN <<"inventory.reserve.requested">> ELSE <<>>)
  <2>1. /\ orderStatus[o] = "absent"
        /\ orderStatus' = [orderStatus EXCEPT ![o] = "PENDING"]
        /\ outbox' = [outbox EXCEPT ![o] = row]
        /\ inventoryStatus' = inventoryStatus /\ paymentStatus' = paymentStatus
    BY <1>1 DEF Ord!CreateOrder, Ord!sagaVars
  <2>2. /\ row \in Seq(Ord!OutboxEvent)
        /\ \A n \in 1..Len(row) : row[n] # Releasing /\ (row[n] = Reserving => n = 2)
    <3> DEFINE s == <<"order.created">>
               t == <<"inventory.reserve.requested">>
    <3>1. /\ s \in Seq(Ord!OutboxEvent) /\ Len(s) = 1 /\ s[1] = "order.created"
          /\ t \in Seq(Ord!OutboxEvent) /\ Len(t) = 1 /\ t[1] = "inventory.reserve.requested"
          /\ <<>> \in Seq(Ord!OutboxEvent) /\ Len(<<>>) = 0
      BY DEF Ord!OutboxEvent
    <3>2. row = s \o (IF o \in InventoryOrders THEN t ELSE <<>>)
      OBVIOUS
    <3> HIDE DEF s, t, row
    <3>3. CASE o \in InventoryOrders
      <4>1. row = s \o t
        BY <3>2, <3>3
      <4>2. /\ row \in Seq(Ord!OutboxEvent) /\ Len(row) = 2
            /\ row[1] = "order.created" /\ row[2] = "inventory.reserve.requested"
        BY <3>1, <4>1, ConcatProperties
      <4> QED BY <4>2 DEF Releasing, Reserving
    <3>4. CASE o \notin InventoryOrders
      <4>1. row = s \o <<>>
        BY <3>2, <3>4
      <4>2. row \in Seq(Ord!OutboxEvent) /\ Len(row) = 1 /\ row[1] = "order.created"
        BY <3>1, <4>1, ConcatProperties
      <4> QED BY <4>2 DEF Releasing, Reserving
    <3> QED BY <3>3, <3>4
  <2> HIDE DEF row
  <2>4. OrderTypes'
    BY <2>1, <2>2 DEF OrderTypes, Ord!OrderStatus
  <2>5. ASSUME NEW p \in Orders
        PROVE  Stays(p) \/ Created(p)
    BY <2>1, <2>2 DEF OrderTypes, Stays, Created
  <2> QED BY <2>4, <2>5
<1>2. ASSUME NEW o \in Orders, Ord!CancelOrder(o)
      PROVE  /\ OrderTypes'
             /\ \A p \in Orders : Stays(p) \/ Cancelled(p)
  <2>1. /\ Ord!Exists(o) /\ orderStatus[o] # "CANCELLED"
        /\ Ord!CancelLocked({o}, inventoryStatus, TRUE)
        /\ paymentStatus' = paymentStatus
    BY <1>2 DEF Ord!CancelOrder
  <2> QED BY <2>1, CancelOneMoves
<1>3. ASSUME NEW o \in Orders, Ord!DeleteOrder(o)
      PROVE  /\ OrderTypes'
             /\ \A p \in Orders : Stays(p) \/ Deleted(p)
  BY <1>3 DEF Ord!DeleteOrder, Ord!sagaVars, OrderTypes, Stays, Deleted
<1>4. ASSUME NEW o \in Orders, Ord!TimeoutElapses(o)
      PROVE  /\ OrderTypes'
             /\ \A p \in Orders : Stays(p)
  BY <1>4, UnchangedStays DEF Ord!TimeoutElapses, Ord!sagaVars
<1>5. ASSUME NEW o \in Orders, Ord!RecordFulfillmentFailed(o)
      PROVE  /\ OrderTypes'
             /\ \A p \in Orders : Stays(p) \/ Cancelled(p)
  <2>1. CASE orderStatus[o] # "CANCELLED"
    <3>1. /\ Ord!Exists(o)
          /\ Ord!CancelLocked({o}, inventoryStatus, TRUE)
          /\ paymentStatus' = paymentStatus
      BY <1>5, <2>1 DEF Ord!RecordFulfillmentFailed
    <3> QED BY <2>1, <3>1, CancelOneMoves
  <2>2. CASE orderStatus[o] = "CANCELLED"
    <3>1. UNCHANGED <<orderStatus, inventoryStatus, paymentStatus, outbox>>
      BY <1>5, <2>2 DEF Ord!RecordFulfillmentFailed
    <3> QED BY <3>1, UnchangedStays
  <2> QED BY <2>1, <2>2
<1>6. ASSUME Ord!ExpireOnce
      PROVE  /\ OrderTypes'
             /\ \A p \in Orders : Stays(p) \/ Cancelled(p)
  <2>1. PICK batch \in SUBSET {o \in expired : orderStatus[o] = "PENDING"} :
          /\ Ord!CancelLocked(batch, inventoryStatus, TRUE)
          /\ paymentStatus' = paymentStatus
    BY <1>6 DEF Ord!ExpireOnce
  <2>2. \A o \in batch : Ord!Exists(o) /\ orderStatus[o] # "CANCELLED"
    BY DEF Ord!Exists, Ord!OrderStatus
  <2>3. /\ paymentStatus' \in [Orders -> {"pending", "succeeded", "failed"}]
        /\ \A o \in Orders : paymentStatus'[o] = paymentStatus[o]
    BY <2>1 DEF OrderTypes
  <2>4. /\ OrderTypes'
        /\ \A p \in Orders : IF p \in batch THEN Cancelled(p) ELSE Stays(p)
    BY <2>1, <2>2, <2>3, CancelLockedMoves
  <2> QED BY <2>4
<1> QED BY <1>1, <1>2, <1>3, <1>4, <1>5, <1>6 DEF OrderStep

\* _confirm_if_ready, on the columns a handler has just written.
LEMMA ConfirmMoves ==
  ASSUME OrderTypes, NEW o \in Orders, NEW inv, NEW pay, Ord!ConfirmIfReady(o, inv, pay),
         \/ inventoryStatus' = [inventoryStatus EXCEPT ![o] = "reserved"]
            /\ paymentStatus' = paymentStatus
         \/ inventoryStatus' = inventoryStatus
            /\ paymentStatus' = [paymentStatus EXCEPT ![o] = "succeeded"],
         inventoryStatus'[o] = inv, paymentStatus'[o] = pay
  PROVE  /\ OrderTypes' /\ Settled(o)
         /\ \A p \in Orders \ {o} : Stays(p)
<1>1. /\ inventoryStatus' \in [Orders -> {"pending", "not_required", "reserved", "failed",
                                        "release_requested"}]
      /\ paymentStatus' \in [Orders -> {"pending", "succeeded", "failed"}]
      /\ \A p \in Orders \ {o} : /\ inventoryStatus'[p] = inventoryStatus[p]
                                 /\ paymentStatus'[p] = paymentStatus[p]
  BY DEF OrderTypes
<1>2. CASE Ord!Ready(o, inv, pay)
  <2> DEFINE t == Append(outbox[o], "order.confirmed")
  <2>1. /\ orderStatus' = [orderStatus EXCEPT ![o] = "CONFIRMED"]
        /\ outbox' = [outbox EXCEPT ![o] = t]
    BY <1>2 DEF Ord!ConfirmIfReady
  <2>2. t \in Seq(Ord!OutboxEvent) /\ Extended(outbox[o], t, {"order.confirmed"})
    <3>1. outbox[o] \in Seq(Ord!OutboxEvent) /\ "order.confirmed" \in Ord!OutboxEvent
      BY DEF OrderTypes, Ord!OutboxEvent
    <3> QED BY <3>1, ExtendedByOne
  <2> HIDE DEF t
  <2> QED BY <1>1, <1>2, <2>1, <2>2 DEF OrderTypes, Ord!OrderStatus, Stays, Settled
<1>3. CASE ~Ord!Ready(o, inv, pay)
  <2>1. orderStatus' = orderStatus /\ outbox' = outbox
    BY <1>3 DEF Ord!ConfirmIfReady
  <2> QED BY <1>1, <1>3, <2>1 DEF OrderTypes, Stays, Settled
<1> QED BY <1>2, <1>3

\* The product service's refusal cancels the order, without a release.
LEMMA RefusalMoves ==
  ASSUME OrderTypes, NEW o \in Orders, Ord!RecordInventoryFailed(o)
  PROVE  /\ OrderTypes' /\ Refused(o)
         /\ \A p \in Orders \ {o} : Stays(p)
<1> DEFINE inv == [inventoryStatus EXCEPT ![o] = "failed"]
           t == Append(outbox[o], "order.cancelled")
<1>1. Ord!Exists(o) /\ paymentStatus' = paymentStatus
  BY DEF Ord!RecordInventoryFailed
<1>2. outbox[o] \in Seq(Ord!OutboxEvent) /\ "order.cancelled" \in Ord!OutboxEvent
  BY DEF OrderTypes, Ord!OutboxEvent
<1>3. CASE orderStatus[o] # "CANCELLED"
  <2>1. Ord!CancelLocked({o}, inv, FALSE)
    BY <1>3 DEF Ord!RecordInventoryFailed
  <2>2. /\ orderStatus' = [p \in Orders |-> IF p \in {o} THEN "CANCELLED" ELSE orderStatus[p]]
        /\ inventoryStatus' = [p \in Orders |->
             IF p \in {q \in {o} : FALSE /\ inv[q] = "reserved"} THEN "release_requested"
             ELSE inv[p]]
        /\ outbox' = [p \in Orders |->
             IF p \notin {o} THEN outbox[p]
             ELSE t \o (IF p \in {q \in {o} : FALSE /\ inv[q] = "reserved"}
                          THEN Ord!ReleaseEvent(p) ELSE <<>>)]
    BY <2>1 DEF Ord!CancelLocked
  <2>3. /\ t \in Seq(Ord!OutboxEvent) /\ Extended(outbox[o], t, {"order.cancelled"})
        /\ t \o <<>> = t
    <3>1. t \in Seq(Ord!OutboxEvent)
      BY <1>2
    <3> QED BY <1>2, <3>1, ExtendedByOne
  <2>4. outbox' = [p \in Orders |-> IF p = o THEN t ELSE outbox[p]]
    BY <2>2, <2>3
  <2>5. inventoryStatus' = [inventoryStatus EXCEPT ![o] = "failed"]
    BY <2>2 DEF OrderTypes
  <2> HIDE DEF t
  <2>6. OrderTypes' /\ \A p \in Orders \ {o} : Stays(p)
    BY <1>1, <2>2, <2>3, <2>4, <2>5 DEF OrderTypes, Ord!OrderStatus, Stays
  <2>7. /\ orderStatus'[o] = "CANCELLED" /\ inventoryStatus'[o] = "failed"
        /\ paymentStatus'[o] = paymentStatus[o] /\ outbox'[o] = t
    BY <1>1, <2>2, <2>4, <2>5 DEF OrderTypes
  <2> QED BY <1>1, <2>3, <2>6, <2>7 DEF Refused
<1>4. CASE orderStatus[o] = "CANCELLED"
  <2>1. /\ inventoryStatus' = inv
        /\ UNCHANGED <<orderStatus, outbox>>
    BY <1>4 DEF Ord!RecordInventoryFailed
  <2>2. Extended(outbox[o], outbox[o], {})
    BY <1>2, ExtendedByNone
  <2>3. OrderTypes' /\ \A p \in Orders \ {o} : Stays(p)
    BY <1>1, <2>1 DEF OrderTypes, Stays
  <2>4. inventoryStatus'[o] = "failed"
    BY <2>1 DEF OrderTypes
  <2>5. {} \in SUBSET {"order.cancelled"}
    OBVIOUS
  <2> QED BY <1>1, <1>4, <2>1, <2>2, <2>3, <2>4, <2>5 DEF Refused
<1> QED BY <1>3, <1>4

\* An answer the order service takes changes its own order only, as the answer
\* says.
LEMMA TakesMoves ==
  ASSUME OrderTypes, NEW o \in Orders, NEW answer, OrderTakes(o, answer)
  PROVE  /\ OrderTypes'
         /\ \A p \in Orders \ {o} : Stays(p)
         /\ \/ ~Ord!Exists(o) /\ Stays(o)
            \/ answer = Success /\ Held(o)
            \/ answer = Failure /\ Refused(o)
            \/ /\ answer = "payment.succeeded"
               /\ \/ orderStatus[o] = "CANCELLED" /\ Stays(o)
                  \/ Cancelled(o) \/ Paid(o)
            \/ answer \in {"payment.failed", "payment.cancelled"} /\ (Cancelled(o) \/ Noted(o))
            \/ answer = "payment.refunded" /\ Stays(o)
<1> DEFINE Others == \A p \in Orders \ {o} : Stays(p)
<1>1. ASSUME Ord!RecordInventorySucceeded(o)
      PROVE  OrderTypes' /\ Others /\ Held(o)
  <2>1. CASE orderStatus[o] = "CANCELLED" /\ inventoryStatus[o] # "release_requested"
    <3>1. /\ Ord!Exists(o)
          /\ inventoryStatus' = [inventoryStatus EXCEPT ![o] = "release_requested"]
          /\ outbox' = [outbox EXCEPT ![o] = @ \o Ord!ReleaseEvent(o)]
          /\ orderStatus' = orderStatus /\ paymentStatus' = paymentStatus
      BY <1>1, <2>1 DEF Ord!RecordInventorySucceeded, OrderTypes
    <3>2. /\ outbox[o] \o Ord!ReleaseEvent(o) \in Seq(Ord!OutboxEvent)
          /\ Extended(outbox[o], outbox[o] \o Ord!ReleaseEvent(o), Releases(o))
      <4>1. outbox[o] \in Seq(Ord!OutboxEvent) /\ Releasing \in Ord!OutboxEvent
        BY DEF OrderTypes, Ord!OutboxEvent, Releasing
      <4>2. CASE o \in InventoryOrders
        <5>1. outbox[o] \o Ord!ReleaseEvent(o) = Append(outbox[o], Releasing)
          BY <4>1, <4>2 DEF Ord!ReleaseEvent, Releasing
        <5>2. Releases(o) = {Releasing}
          BY <4>2 DEF Releases
        <5> QED BY <4>1, <5>1, <5>2, ExtendedByOne
      <4>3. CASE o \notin InventoryOrders
        <5>1. outbox[o] \o Ord!ReleaseEvent(o) = outbox[o]
          BY <4>1, <4>3 DEF Ord!ReleaseEvent
        <5>2. Releases(o) = {}
          BY <4>3 DEF Releases
        <5> QED BY <4>1, <5>1, <5>2, ExtendedByNone
      <4> QED BY <4>2, <4>3
    <3> DEFINE t == outbox[o] \o Ord!ReleaseEvent(o)
    <3>3. outbox' = [outbox EXCEPT ![o] = t]
      BY <3>1
    <3> HIDE DEF t
    <3>4. OrderTypes' /\ Others
      BY <3>1, <3>2, <3>3 DEF OrderTypes, Stays, t
    <3>5. outbox'[o] = t
      BY <3>3 DEF OrderTypes
    <3> QED BY <2>1, <3>1, <3>2, <3>4, <3>5 DEF Held, OrderTypes, t
  <2>2. CASE orderStatus[o] = "CANCELLED" /\ inventoryStatus[o] = "release_requested"
    <3>1. /\ Ord!Exists(o)
          /\ UNCHANGED <<orderStatus, inventoryStatus, paymentStatus, outbox>>
      BY <1>1, <2>2 DEF Ord!RecordInventorySucceeded
    <3>2. OrderTypes' /\ Others /\ Stays(o) /\ paymentStatus'[o] = paymentStatus[o]
      BY <3>1, UnchangedStays
    <3> QED BY <2>2, <3>1, <3>2 DEF Held
  <2>3. CASE orderStatus[o] # "CANCELLED"
    <3>1. /\ Ord!Exists(o)
          /\ inventoryStatus' = [inventoryStatus EXCEPT ![o] = "reserved"]
          /\ Ord!ConfirmIfReady(o, "reserved", paymentStatus[o])
          /\ paymentStatus' = paymentStatus
      BY <1>1, <2>3 DEF Ord!RecordInventorySucceeded
    <3>2. inventoryStatus'[o] = "reserved" /\ paymentStatus'[o] = paymentStatus[o]
      BY <3>1 DEF OrderTypes
    <3>3. /\ OrderTypes' /\ Others /\ Settled(o)
      BY <3>1, <3>2, ConfirmMoves
    <3> QED BY <2>3, <3>1, <3>2, <3>3 DEF Held
  <2> QED BY <2>1, <2>2, <2>3
<1>2. ASSUME Ord!RecordInventoryFailed(o)
      PROVE  OrderTypes' /\ Others /\ Refused(o)
  BY <1>2, RefusalMoves
<1>3. ASSUME NEW i, NEW matches, Ord!RecordPaymentSucceeded(o, i, matches)
      PROVE  /\ OrderTypes' /\ Others
             /\ \/ orderStatus[o] = "CANCELLED" /\ Stays(o)
                \/ Cancelled(o) \/ Paid(o)
  <2>1. CASE orderStatus[o] = "CANCELLED"
    <3>1. UNCHANGED <<orderStatus, inventoryStatus, paymentStatus, outbox>>
      BY <1>3, <2>1 DEF Ord!RecordPaymentSucceeded, Ord!sagaVars
    <3> QED BY <2>1, <3>1, UnchangedStays
  <2>2. CASE orderStatus[o] # "CANCELLED" /\ (~matches \/ intentOf[o] \notin {NoIntent, i})
    <3>1. /\ Ord!Exists(o) /\ Ord!CancelLocked({o}, inventoryStatus, TRUE)
          /\ paymentStatus' = paymentStatus
      BY <1>3, <2>2 DEF Ord!RecordPaymentSucceeded
    <3> QED BY <2>2, <3>1, CancelOneMoves
  <2>3. CASE orderStatus[o] # "CANCELLED" /\ matches /\ intentOf[o] \in {NoIntent, i}
    <3>1. /\ Ord!Exists(o)
          /\ paymentStatus' = [paymentStatus EXCEPT ![o] = "succeeded"]
          /\ Ord!ConfirmIfReady(o, inventoryStatus[o], "succeeded")
          /\ inventoryStatus' = inventoryStatus
      BY <1>3, <2>3 DEF Ord!RecordPaymentSucceeded
    <3>2. inventoryStatus'[o] = inventoryStatus[o] /\ paymentStatus'[o] = "succeeded"
      BY <3>1 DEF OrderTypes
    <3>3. OrderTypes' /\ Others /\ Settled(o)
      BY <3>1, <3>2, ConfirmMoves
    <3> QED BY <2>3, <3>1, <3>2, <3>3 DEF Paid
  <2> QED BY <2>1, <2>2, <2>3
<1>4. ASSUME Ord!RecordPaymentFailed(o)
      PROVE  OrderTypes' /\ Others /\ (Cancelled(o) \/ Noted(o))
  <2>1. /\ Ord!Exists(o)
        /\ paymentStatus' = [paymentStatus EXCEPT ![o] = "failed"]
    BY <1>4 DEF Ord!RecordPaymentFailed
  <2>2. CASE orderStatus[o] # "CANCELLED"
    <3>1. Ord!CancelLocked({o}, inventoryStatus, TRUE)
      BY <1>4, <2>2 DEF Ord!RecordPaymentFailed
    <3> QED BY <2>1, <2>2, <3>1, CancelOneMoves
  <2>3. CASE orderStatus[o] = "CANCELLED"
    BY <1>4, <2>1, <2>3 DEF Ord!RecordPaymentFailed, OrderTypes, Stays, Noted
  <2> QED BY <2>2, <2>3
<1>5. ASSUME UNCHANGED orderVars
      PROVE  OrderTypes' /\ Others /\ Stays(o)
  <2>1. UNCHANGED <<orderStatus, inventoryStatus, paymentStatus, outbox>>
    BY <1>5 DEF orderVars
  <2> QED BY <2>1, UnchangedStays
<1>6. CASE answer = Success /\ Ord!RecordInventorySucceeded(o)
  BY <1>1, <1>6
<1>7. CASE answer = Failure /\ Ord!RecordInventoryFailed(o)
  BY <1>2, <1>7
<1>8. CASE answer = "payment.succeeded" /\ Ord!RecordPaymentSucceeded(o, IntentOf[o], o \in honest)
  BY <1>3, <1>8
<1>9. CASE answer \in {"payment.failed", "payment.cancelled"} /\ Ord!RecordPaymentFailed(o)
  BY <1>4, <1>9
<1>10. CASE answer = "payment.refunded" /\ UNCHANGED orderVars
  BY <1>5, <1>10
<1>11. CASE ~Ord!Exists(o) /\ UNCHANGED orderVars
  BY <1>5, <1>11
<1> QED BY <1>6, <1>7, <1>8, <1>9, <1>10, <1>11 DEF OrderTakes, Success, Failure

-----------------------------------------------------------------------------
(* The invariant of one order.                                              *)

\* What the order service does unasked, and what it may do.
OwnMove(o) == Stays(o) \/ Created(o) \/ Deleted(o) \/ Cancelled(o)
OrderMove(o) == OwnMove(o) \/ Refused(o) \/ Noted(o) \/ Held(o) \/ Paid(o)

\* An outbox keeps the rows it has.
Grows(s, t) == Len(s) <= Len(t) /\ \A n \in 1..Len(s) : t[n] = s[n]

\* An order that moved asked for a release exactly when the move extended its
\* outbox with one, and asked for a reservation nowhere but when created.
LEMMA AskedGrows ==
  ASSUME OrderTypes, OrderTypes', NEW o \in Orders, NEW E, RowOK(o),
         Extended(outbox[o], outbox'[o], E), Reserving \notin E
  PROVE  /\ (o \in Asked)' <=> o \in Asked \/ Releasing \in E
         /\ \A n \in 1..Len(outbox'[o]) : outbox'[o][n] = Reserving => n = 2
         /\ Grows(outbox[o], outbox'[o])
<1>1. outbox[o] \in Seq(Ord!OutboxEvent) /\ outbox'[o] \in Seq(Ord!OutboxEvent)
  BY DEF OrderTypes
<1>2. (\E n \in 1..Len(outbox'[o]) : outbox'[o][n] = Releasing)
        <=> (\E n \in 1..Len(outbox[o]) : outbox[o][n] = Releasing) \/ Releasing \in E
  <2>1. Len(outbox[o]) \in Nat /\ Len(outbox'[o]) \in Nat
    BY <1>1
  <2> QED BY <2>1 DEF Extended
<1>3. (o \in Asked)' <=> o \in Asked \/ Releasing \in E
  BY <1>2 DEF Asked, Releasing
<1>4. Len(outbox[o]) \in Nat /\ Len(outbox'[o]) \in Nat
  BY <1>1
<1>5. ASSUME NEW n \in 1..Len(outbox'[o]), outbox'[o][n] = Reserving
      PROVE  n = 2
  <2>1. CASE n \in 1..Len(outbox[o])
    BY <1>5, <2>1 DEF Extended, RowOK
  <2>2. CASE n > Len(outbox[o])
    BY <1>5, <2>2 DEF Extended
  <2> QED BY <1>4, <2>1, <2>2
<1> QED BY <1>3, <1>5 DEF Extended, Grows

\* What every move does to what the order asked for.
LEMMA MoveAsks ==
  ASSUME OrderTypes, OrderTypes', NEW o \in Orders, RowOK(o), OrderMove(o)
  PROVE  /\ \A n \in 1..Len(outbox'[o]) : outbox'[o][n] = Reserving => n = 2
         /\ Grows(outbox[o], outbox'[o])
         /\ o \in Asked => (o \in Asked)'
         /\ Stays(o) \/ Created(o) \/ Deleted(o) \/ Refused(o) \/ Noted(o) \/ Paid(o) =>
              ((o \in Asked)' <=> o \in Asked)
         /\ Cancelled(o) => ((o \in Asked)' <=>
              o \in Asked \/ (inventoryStatus[o] = "reserved" /\ o \in InventoryOrders))
         /\ Held(o) /\ orderStatus[o] # "CANCELLED" => ((o \in Asked)' <=> o \in Asked)
         /\ Held(o) /\ orderStatus[o] = "CANCELLED" /\ ~Stays(o) => ((o \in Asked)' <=>
              o \in Asked \/ o \in InventoryOrders)
<1> DEFINE Result ==
             /\ \A n \in 1..Len(outbox'[o]) : outbox'[o][n] = Reserving => n = 2
             /\ Grows(outbox[o], outbox'[o])
<1>1. ASSUME outbox'[o] = outbox[o]
      PROVE  Result /\ ((o \in Asked)' <=> o \in Asked)
  <2> DEFINE E == {}
  <2>1. Extended(outbox[o], outbox'[o], E) /\ Reserving \notin E /\ Releasing \notin E
    BY <1>1, ExtendedByNone DEF OrderTypes
  <2> HIDE DEF E
  <2> QED BY <2>1, AskedGrows
<1>2. ASSUME Created(o)
      PROVE  Result /\ ~(o \in Asked)' /\ o \notin Asked
  <2>1. outbox[o] = <<>> /\ Len(outbox[o]) = 0 /\ Len(outbox'[o]) \in Nat
    BY <1>2 DEF Created, RowOK, OrderTypes
  <2>2. Result
    BY <1>2, <2>1 DEF Created, Grows
  <2>3. o \notin Asked
    BY <2>1 DEF Asked
  <2>4. ~(o \in Asked)'
    BY <1>2 DEF Created, Asked, Releasing
  <2> QED BY <2>2, <2>3, <2>4
<1>3. ASSUME Cancelled(o)
      PROVE  Result /\ ((o \in Asked)' <=>
               o \in Asked \/ (inventoryStatus[o] = "reserved" /\ o \in InventoryOrders))
  <2>1. CASE inventoryStatus[o] = "reserved"
    <3> DEFINE E == {"order.cancelled"} \cup Releases(o)
    <3>1. Extended(outbox[o], outbox'[o], E) /\ Reserving \notin E
          /\ (Releasing \in E <=> o \in InventoryOrders)
      BY <1>3, <2>1 DEF Cancelled, Releases, Releasing, Reserving
    <3> HIDE DEF E
    <3> QED BY <2>1, <3>1, AskedGrows
  <2>2. CASE inventoryStatus[o] # "reserved"
    <3>1. /\ Extended(outbox[o], outbox'[o], {"order.cancelled"})
          /\ Reserving \notin {"order.cancelled"} /\ Releasing \notin {"order.cancelled"}
      BY <1>3, <2>2 DEF Cancelled, Releasing, Reserving
    <3> QED BY <2>2, <3>1, AskedGrows
  <2> QED BY <2>1, <2>2
<1>4. ASSUME Refused(o)
      PROVE  Result /\ ((o \in Asked)' <=> o \in Asked)
  <2>1. PICK E \in SUBSET {"order.cancelled"} : Extended(outbox[o], outbox'[o], E)
    BY <1>4 DEF Refused
  <2>2. Reserving \notin E /\ Releasing \notin E
    BY DEF Releasing, Reserving
  <2> QED BY <2>1, <2>2, AskedGrows
<1>5. ASSUME Settled(o)
      PROVE  Result /\ ((o \in Asked)' <=> o \in Asked)
  <2>1. CASE Extended(outbox[o], outbox'[o], {"order.confirmed"})
    <3>1. Reserving \notin {"order.confirmed"} /\ Releasing \notin {"order.confirmed"}
      BY DEF Releasing, Reserving
    <3> QED BY <2>1, <3>1, AskedGrows
  <2> QED BY <1>1, <1>5, <2>1 DEF Settled
<1>6. ASSUME Extended(outbox[o], outbox'[o], Releases(o))
      PROVE  Result /\ ((o \in Asked)' <=> o \in Asked \/ o \in InventoryOrders)
  <2>1. Reserving \notin Releases(o) /\ (Releasing \in Releases(o) <=> o \in InventoryOrders)
    BY DEF Releases, Releasing, Reserving
  <2> QED BY <1>6, <2>1, AskedGrows
<1>7. Stays(o) \/ Deleted(o) \/ Noted(o) => Result /\ ((o \in Asked)' <=> o \in Asked)
  BY <1>1 DEF Stays, Deleted, Noted
<1>8. Paid(o) => Result /\ ((o \in Asked)' <=> o \in Asked)
  BY <1>5 DEF Paid
<1>9. Held(o) /\ orderStatus[o] # "CANCELLED" => Result /\ ((o \in Asked)' <=> o \in Asked)
  BY <1>5 DEF Held
<1>10. Held(o) /\ orderStatus[o] = "CANCELLED" /\ ~Stays(o) =>
         Result /\ ((o \in Asked)' <=> o \in Asked \/ o \in InventoryOrders)
  BY <1>6 DEF Held
<1> HIDE DEF Result
<1>11. Result /\ (o \in Asked => (o \in Asked)')
  BY <1>2, <1>3, <1>4, <1>7, <1>8, <1>9, <1>10 DEF OrderMove, OwnMove
<1> QED BY <1>2, <1>3, <1>4, <1>7, <1>8, <1>9, <1>10, <1>11 DEF Result

\* A saga row stays consistent with its outbox through every move.
LEMMA RowStep ==
  ASSUME OrderTypes, OrderTypes', NEW o \in Orders, RowOK(o), OrderMove(o)
  PROVE  RowOK(o)'
<1>1. \A n \in 1..Len(outbox'[o]) : outbox'[o][n] = Reserving => n = 2
  BY MoveAsks
<1>2. CASE Stays(o) \/ Deleted(o) \/ Noted(o)
  <2>1. ((o \in Asked)' <=> o \in Asked) /\ outbox'[o] = outbox[o]
    BY <1>2, MoveAsks DEF Stays, Deleted, Noted
  <2> QED BY <1>1, <1>2, <2>1 DEF Stays, Deleted, Noted, RowOK, Ord!Exists, Ord!OrderStatus
<1>3. CASE Created(o)
  <2>1. ~(o \in Asked)'
    BY <1>3 DEF Created, Asked, Releasing
  <2> QED BY <1>1, <1>3, <2>1 DEF Created, RowOK
<1>4. CASE Cancelled(o)
  BY <1>1, <1>4 DEF Cancelled, RowOK
<1>5. CASE Refused(o)
  BY <1>1, <1>5 DEF Refused, RowOK
<1>6. CASE Paid(o) \/ (Held(o) /\ orderStatus[o] # "CANCELLED")
  <2>1. /\ (o \in Asked)' <=> o \in Asked
        /\ Settled(o) /\ Ord!Exists(o) /\ orderStatus[o] # "CANCELLED"
        /\ \/ paymentStatus'[o] = "succeeded" /\ inventoryStatus'[o] = inventoryStatus[o]
           \/ paymentStatus'[o] = paymentStatus[o] /\ inventoryStatus'[o] = "reserved"
    BY <1>6, MoveAsks DEF Paid, Held
  <2>2. CASE orderStatus'[o] = "CONFIRMED" /\ Ord!Ready(o, inventoryStatus'[o], paymentStatus'[o])
    BY <1>1, <2>1, <2>2 DEF RowOK, Ord!Ready
  <2>3. CASE orderStatus'[o] = orderStatus[o]
             /\ ~Ord!Ready(o, inventoryStatus'[o], paymentStatus'[o])
    BY <1>1, <2>1, <2>3 DEF RowOK, Ord!Ready, Ord!Exists, Ord!OrderStatus
  <2> QED BY <2>1, <2>2, <2>3 DEF Settled
<1>7. CASE Held(o) /\ orderStatus[o] = "CANCELLED" /\ ~Stays(o)
  BY <1>1, <1>7 DEF Held, RowOK
<1> QED BY <1>2, <1>3, <1>4, <1>5, <1>6, <1>7 DEF OrderMove, OwnMove

StockKept(o) == ledger'[o] = ledger[o] /\ answers'[o] = answers[o]

\* An order that moves keeps what its stock is known by.
LEMMA StockStep ==
  ASSUME OrderTypes, OrderTypes', StockTypes, NEW o \in InventoryOrders, RowOK(o), StockOK(o),
         \/ OwnMove(o) \/ Noted(o) \/ Paid(o) \/ Refused(o)
         \/ Held(o) /\ answers[o] = <<Success>>,
         StockKept(o),
         <<"order", o, 2>> \in handled => <<"order", o, 2>> \in handled'
  PROVE  StockOK(o)'
<1>1. o \in Orders /\ OrderMove(o)
  BY CheckoutAssumption DEF CheckoutAssumption, OrderMove
<1>2. o \in Asked => (o \in Asked)'
  BY <1>1, MoveAsks
<1>3. CASE Stays(o) \/ Deleted(o) \/ Noted(o)
  <2>1. /\ (o \in Asked)' <=> o \in Asked
        /\ orderStatus'[o] = "absent" => orderStatus[o] = "absent"
        /\ inventoryStatus'[o] = inventoryStatus[o]
    BY <1>1, <1>3, MoveAsks DEF Stays, Deleted, Noted
  <2> QED BY <2>1 DEF StockKept, StockOK
<1>4. CASE Created(o) \/ Paid(o)
  <2>1. /\ (o \in Asked)' <=> o \in Asked
        /\ orderStatus'[o] # "absent"
        /\ inventoryStatus'[o] = inventoryStatus[o]
    BY <1>1, <1>4, MoveAsks DEF Created, Paid, Settled, Ord!Exists, Ord!OrderStatus
  <2> QED BY <2>1 DEF StockKept, StockOK
<1>5. CASE Refused(o)
  <2>1. /\ (o \in Asked)' <=> o \in Asked
        /\ orderStatus'[o] # "absent" /\ inventoryStatus'[o] = "failed"
    BY <1>1, <1>5, MoveAsks DEF Refused
  <2> QED BY <2>1 DEF StockKept, StockOK
<1>6. CASE Cancelled(o)
  <2>1. /\ (o \in Asked)' <=> o \in Asked \/ inventoryStatus[o] = "reserved"
        /\ orderStatus'[o] # "absent"
        /\ \/ inventoryStatus[o] = "reserved" /\ inventoryStatus'[o] = "release_requested"
           \/ inventoryStatus[o] # "reserved" /\ inventoryStatus'[o] = inventoryStatus[o]
    BY <1>1, <1>6, MoveAsks DEF Cancelled
  <2> QED BY <2>1 DEF StockKept, StockOK
<1>7. CASE Held(o) /\ ~Stays(o) /\ answers[o] = <<Success>>
  <2>1. /\ orderStatus'[o] # "absent"
        /\ inventoryStatus'[o] \in {"reserved", "release_requested"}
        /\ inventoryStatus'[o] = "release_requested" => (o \in Asked)'
    BY <1>1, <1>7, MoveAsks DEF Held, Settled, Ord!Exists, Ord!OrderStatus
  <2> QED BY <1>2, <1>7, <2>1 DEF StockKept, StockOK
<1> QED BY <1>3, <1>4, <1>5, <1>6, <1>7 DEF OrderMove, OwnMove

\* The answer and the releases an order was told of are where they were, and a
\* newly handled answer is known to its saga.
LEMMA FlowStep ==
  ASSUME OrderTypes, OrderTypes', StockTypes, NEW o \in InventoryOrders,
         RowOK(o), HandledOK(o), StockOK(o), FlowOK(o), StockKept(o), lost' = lost,
         \/ OwnMove(o) \/ Noted(o) \/ Paid(o) \/ Held(o)
         \/ Refused(o) /\ answers[o] # <<Success>>,
         \A n \in Nat : <<"order", o, n>> \in handled' => <<"order", o, n>> \in handled,
         \/ <<"inventory", o, 1>> \in handled' => <<"inventory", o, 1>> \in handled
         \/ Held(o) \/ answers[o] # <<Success>> \/ (~Ord!Exists(o) /\ Stays(o))
  PROVE  FlowOK(o)'
<1>1. o \in Orders /\ outbox[o] \in Seq(Ord!OutboxEvent) /\ outbox'[o] \in Seq(Ord!OutboxEvent)
  BY CheckoutAssumption DEF CheckoutAssumption, OrderTypes
<1>2. Len(outbox[o]) \in Nat /\ Len(outbox'[o]) \in Nat
  BY <1>1
<1>3. OrderMove(o) /\ Grows(outbox[o], outbox'[o]) /\ (o \in Asked => (o \in Asked)')
  <2>1. OrderMove(o)
    BY DEF OrderMove
  <2> QED BY <1>1, <2>1, MoveAsks
<1>4. ASSUME lost' = 0, NEW n \in 1..Len(outbox'[o]), outbox'[o][n] = Releasing,
             <<"order", o, n>> \in handled'
      PROVE  ledger'[o] = "released"
  <2>1. n \in Nat /\ <<"order", o, n>> \in handled
    BY <1>2, <1>4
  <2>2. n \in 1..Len(outbox[o])
    BY <2>1 DEF HandledOK
  <2>3. outbox[o][n] = Releasing
    BY <1>3, <1>4, <2>2 DEF Grows
  <2> QED BY <1>4, <2>1, <2>2, <2>3 DEF FlowOK, StockKept
<1>5. ASSUME lost' = 0, ledger'[o] = "reserved", Ord!Exists(o)',
             <<"inventory", o, 1>> \in handled'
      PROVE  inventoryStatus'[o] = "reserved" \/ (o \in Asked)'
  <2>1. lost = 0 /\ ledger[o] = "reserved" /\ answers[o] = <<Success>>
        /\ (o \in Asked => (o \in Asked)')
    BY <1>3, <1>5 DEF StockKept, StockOK
  <2>2. CASE Held(o)
    <3>1. CASE Stays(o)
      BY <1>5, <2>1, <2>2, <3>1 DEF Held, Stays, StockOK, Settled, Ord!Ready
    <3>2. CASE orderStatus[o] # "CANCELLED"
      BY <2>2, <3>2 DEF Held
    <3>3. CASE orderStatus[o] = "CANCELLED" /\ ~Stays(o)
      BY <1>1, <1>3, <2>2, <3>3, MoveAsks
    <3> QED BY <3>1, <3>2, <3>3
  <2>3. CASE ~Held(o)
    <3>1. Ord!Exists(o)' /\ Stays(o) => Ord!Exists(o)
      BY DEF Ord!Exists, Stays
    <3>2. <<"inventory", o, 1>> \in handled
      BY <1>5, <2>1, <2>3, <3>1
    <3>3. Ord!Exists(o) => inventoryStatus[o] = "reserved" \/ o \in Asked
      BY <2>1, <3>2 DEF FlowOK
    <3>4. CASE Stays(o)
      BY <1>5, <2>1, <3>1, <3>3, <3>4 DEF Stays
    <3>5. CASE Deleted(o)
      BY <1>5, <3>5 DEF Deleted, Ord!Exists, Ord!OrderStatus
    <3>6. CASE Created(o)
      BY <2>1, <3>6 DEF Created, StockOK, Success
    <3>7. CASE Noted(o) \/ Paid(o)
      BY <2>1, <3>3, <3>7 DEF Noted, Paid, Ord!Exists, Ord!OrderStatus
    <3>8. CASE Cancelled(o)
      <4>1. inventoryStatus[o] = "reserved" => (o \in Asked)'
        BY <1>1, <1>3, <3>8, MoveAsks
      <4> QED BY <2>1, <3>3, <3>8, <4>1 DEF Cancelled
    <3> QED BY <2>1, <2>3, <3>4, <3>5, <3>6, <3>7, <3>8 DEF OwnMove
  <2> QED BY <2>2, <2>3
<1> QED BY <1>4, <1>5 DEF FlowOK

\* A handled row is one that was written.
LEMMA HandledStep ==
  ASSUME OrderTypes, OrderTypes', StockTypes, StockTypes', PaymentTypes, PaymentTypes',
         NEW o \in Orders, HandledOK(o),
         Grows(outbox[o], outbox'[o]),
         o \in InventoryOrders => Grows(answers[o], answers'[o]),
         Grows(paymentOutbox[o], paymentOutbox'[o]),
         \A n \in Nat : <<"order", o, n>> \in handled' =>
           <<"order", o, n>> \in handled \/ n \in 1..Len(outbox[o]),
         o \in InventoryOrders =>
           \A n \in Nat : <<"inventory", o, n>> \in handled' =>
             <<"inventory", o, n>> \in handled \/ n \in 1..Len(answers[o]),
         \A n \in Nat : <<"payment", o, n>> \in handled' =>
           <<"payment", o, n>> \in handled \/ n \in 1..Len(paymentOutbox[o])
  PROVE  HandledOK(o)'
<1>1. /\ Len(outbox[o]) \in Nat /\ Len(outbox'[o]) \in Nat
      /\ Len(paymentOutbox[o]) \in Nat /\ Len(paymentOutbox'[o]) \in Nat
      /\ o \in InventoryOrders => Len(answers[o]) \in Nat /\ Len(answers'[o]) \in Nat
  BY DEF OrderTypes, StockTypes, PaymentTypes
<1> QED BY <1>1 DEF HandledOK, Grows

PaymentKept(o) ==
  /\ payment'[o] = payment[o] /\ paymentOutbox'[o] = paymentOutbox[o]
  /\ intent'[o] = intent[o] /\ hook'[o] = hook[o]

\* An order charged before it was posted stays one.
EarlyKept(o) == o \in early => o \in early'

\* A saga learns of a payment from the payment service only.
LEMMA MoneyStep ==
  ASSUME NEW o \in Orders, MoneyOK(o), PaymentKept(o),
         \/ OwnMove(o) \/ Refused(o) \/ Noted(o) \/ Held(o)
         \/ Paid(o) /\ intent[o] = "succeeded"
  PROVE  MoneyOK(o)'
<1>1. paymentStatus'[o] = "succeeded" =>
        paymentStatus[o] = "succeeded" \/ intent[o] = "succeeded"
  BY DEF OrderMove, OwnMove, Stays, Created, Deleted, Cancelled, Refused, Noted, Held
<1> QED BY <1>1 DEF MoneyOK, PaymentKept

\* A pending order that is told of a success knows of it.
LEMMA PaidStep ==
  ASSUME OrderTypes, PaymentTypes, NEW o \in Orders, PaidOK(o), OrderMove(o),
         PaymentKept(o), EarlyKept(o), lost' = lost,
         \/ \A n \in Nat : <<"payment", o, n>> \in handled' => <<"payment", o, n>> \in handled
         \/ \A n \in Nat : <<"payment", o, n>> \in handled' =>
              <<"payment", o, n>> \in handled \/ paymentOutbox[o][n] # "payment.succeeded"
         \/ Paid(o) \/ Cancelled(o)
         \/ Stays(o) /\ (orderStatus[o] \in {"absent", "PENDING"} => o \in early')
  PROVE  PaidOK(o)'
<1> SUFFICES ASSUME lost' = 0, o \notin early', orderStatus'[o] \in {"absent", "PENDING"},
                    NEW n \in 1..Len(paymentOutbox'[o]),
                    paymentOutbox'[o][n] = "payment.succeeded",
                    <<"payment", o, n>> \in handled'
             PROVE  paymentStatus'[o] = "succeeded"
  BY DEF PaidOK
<1>1. n \in Nat /\ n \in 1..Len(paymentOutbox[o]) /\ Len(paymentOutbox[o]) \in Nat
  BY DEF PaymentKept, PaymentTypes
<1>2. CASE Paid(o)
  BY <1>2 DEF Paid
<1>3. CASE ~Paid(o)
  <2>1. <<"payment", o, n>> \in handled
    BY <1>1, <1>3 DEF PaymentKept, Cancelled, Stays
  <2>2. orderStatus[o] \in {"absent", "PENDING"} => paymentStatus[o] = "succeeded"
    BY <1>1, <2>1 DEF PaidOK, PaymentKept, EarlyKept
  <2> QED
    BY <1>3, <2>2
       DEF OrderMove, OwnMove, Stays, Created, Deleted, Cancelled, Refused, Noted, Held, Settled
<1> QED BY <1>2, <1>3

RowsKept(o) ==
  \A box \in {"order", "inventory", "payment"}, n \in Nat :
    <<box, o, n>> \in handled' <=> <<box, o, n>> \in handled

Typed == OrderTypes /\ StockTypes /\ PaymentTypes /\ lost \in Nat

\* An outbox left alone keeps its rows.
LEMMA GrowsSelf == ASSUME NEW S, NEW s \in Seq(S) PROVE Grows(s, s)
BY DEF Grows

\* A step of the order service, and every step that is about another order.
LEMMA OwnStep ==
  ASSUME Typed, Typed', NEW o \in Orders, OrderOK(o), OwnMove(o),
         o \in InventoryOrders => StockKept(o), PaymentKept(o), RowsKept(o), EarlyKept(o),
         lost' = lost
  PROVE  OrderOK(o)'
<1> USE DEF Typed
<1>1. OrderMove(o) /\ RowOK(o)
  BY DEF OrderMove, OrderOK
<1>2. RowOK(o)'
  BY <1>1, RowStep
<1>3. /\ \A n \in Nat : <<"order", o, n>> \in handled' <=> <<"order", o, n>> \in handled
      /\ \A n \in Nat : <<"inventory", o, n>> \in handled' <=> <<"inventory", o, n>> \in handled
      /\ \A n \in Nat : <<"payment", o, n>> \in handled' <=> <<"payment", o, n>> \in handled
  BY DEF RowsKept
<1>4. /\ Grows(outbox[o], outbox'[o]) /\ Grows(paymentOutbox[o], paymentOutbox'[o])
      /\ o \in InventoryOrders => Grows(answers[o], answers'[o])
  BY <1>1, MoveAsks, GrowsSelf DEF PaymentKept, StockKept, StockTypes, PaymentTypes
<1>5. HandledOK(o)'
  BY <1>3, <1>4, HandledStep DEF OrderOK
<1>6. MoneyOK(o)'
  BY MoneyStep DEF OrderOK
<1>7. PaidOK(o)'
  BY <1>1, <1>3, PaidStep DEF OrderOK
<1>8. ASSUME o \in InventoryOrders
      PROVE  StockOK(o)' /\ FlowOK(o)'
  <2>1. StockOK(o) /\ FlowOK(o) /\ HandledOK(o) /\ StockKept(o)
    BY <1>8 DEF OrderOK
  <2>2. StockOK(o)'
    BY <1>1, <1>3, <1>8, <2>1, StockStep
  <2>3. FlowOK(o)'
    BY <1>1, <1>3, <1>8, <2>1, FlowStep
  <2> QED BY <2>2, <2>3
<1> QED BY <1>2, <1>5, <1>6, <1>7, <1>8 DEF OrderOK

\* A delivery that is lost: nothing is claimed any more of what was handled.
LEMMA LostStep ==
  ASSUME Typed, Typed', NEW o \in Orders, OrderOK(o), Stays(o),
         o \in InventoryOrders => StockKept(o),
         payment'[o] = payment[o], paymentOutbox'[o] = paymentOutbox[o],
         intent'[o] = intent[o],
         hook'[o][PaidHook] # "unsent" =>
           hook[o][PaidHook] # "unsent" \/ intent'[o] = "succeeded",
         lost' = lost + 1, handled \subseteq handled',
         \A n \in Nat : <<"order", o, n>> \in handled' =>
           <<"order", o, n>> \in handled \/ n \in 1..Len(outbox[o]),
         o \in InventoryOrders =>
           \A n \in Nat : <<"inventory", o, n>> \in handled' =>
             <<"inventory", o, n>> \in handled \/ n \in 1..Len(answers[o]),
         \A n \in Nat : <<"payment", o, n>> \in handled' =>
           <<"payment", o, n>> \in handled \/ n \in 1..Len(paymentOutbox[o])
  PROVE  OrderOK(o)'
<1> USE DEF Typed
<1>1. OrderMove(o) /\ OwnMove(o) /\ RowOK(o) /\ outbox'[o] = outbox[o]
  BY DEF OrderMove, OwnMove, OrderOK, Stays
<1>2. RowOK(o)'
  BY <1>1, RowStep
<1>3. /\ Grows(outbox[o], outbox'[o]) /\ Grows(paymentOutbox[o], paymentOutbox'[o])
      /\ o \in InventoryOrders => Grows(answers[o], answers'[o])
  BY <1>1, GrowsSelf DEF StockKept, OrderTypes, StockTypes, PaymentTypes
<1>4. HandledOK(o)'
  BY <1>3, HandledStep DEF OrderOK
<1>5. MoneyOK(o)'
  BY DEF OrderOK, MoneyOK, Stays
<1>6. lost' # 0
  OBVIOUS
<1>7. PaidOK(o)' /\ FlowOK(o)'
  BY <1>6 DEF PaidOK, FlowOK
<1>8. ASSUME o \in InventoryOrders
      PROVE  StockOK(o)'
  <2>1. StockOK(o) /\ StockKept(o)
    BY <1>8 DEF OrderOK
  <2> QED BY <1>1, <1>8, <2>1, StockStep
<1> QED BY <1>2, <1>4, <1>5, <1>7, <1>8 DEF OrderOK

-----------------------------------------------------------------------------
(* What a step of the payment service does to one order.                    *)

\* At most one event is announced, a success only once Stripe reported it.
PaymentMove(o) ==
  /\ intent[o] = "succeeded" => intent'[o] = "succeeded"
  /\ hook'[o][PaidHook] # "unsent" =>
       hook[o][PaidHook] # "unsent" \/ intent'[o] = "succeeded"
  /\ \/ /\ payment'[o] = "SUCCEEDED" => payment[o] = "SUCCEEDED"
        /\ paymentOutbox'[o] = paymentOutbox[o]
     \/ \E e \in Pay!PaymentEvent :
          /\ paymentOutbox'[o] = Append(paymentOutbox[o], e)
          /\ e = "payment.succeeded" => hook[o][PaidHook] # "unsent"
          /\ payment'[o] = "SUCCEEDED" => e = "payment.succeeded"

\* Steps that write no row, and what they may do at Stripe.
LEMMA StripeMoves ==
  ASSUME PaymentTypes, NEW o \in Orders,
         UNCHANGED <<payment, paymentOutbox>>,
         outcome' \in [Orders -> {"none", "CANCELLED", "REFUNDED"}],
         \/ intent' = intent
         \/ intent[o] # "succeeded" /\ \E s \in {"open", "succeeded", "canceled"} :
              intent' = [intent EXCEPT ![o] = s],
         \/ hook' = hook
         \/ \E h, s : /\ hook' = [hook EXCEPT ![o][h] = s] /\ s \in Pay!HookState
                      /\ h = PaidHook =>
                           hook[o][PaidHook] # "unsent" \/ intent'[o] = "succeeded"
  PROVE  /\ PaymentTypes' /\ PaymentMove(o)
         /\ \A p \in Orders \ {o} : PaymentKept(p)
<1> DEFINE HookMoves ==
             /\ hook' \in [Orders -> [Pay!HookIds -> Pay!HookState]]
             /\ \A p \in Orders \ {o} : hook'[p] = hook[p]
             /\ hook'[o][PaidHook] # "unsent" =>
                  hook[o][PaidHook] # "unsent" \/ intent'[o] = "succeeded"
<1>1. /\ intent' \in [Orders -> {"none", "open", "succeeded", "canceled"}]
      /\ \A p \in Orders \ {o} : intent'[p] = intent[p]
      /\ intent[o] = "succeeded" => intent'[o] = "succeeded"
  BY DEF PaymentTypes
<1>2. HookMoves
  <2>1. CASE hook' = hook
    BY <2>1 DEF PaymentTypes
  <2>2. ASSUME NEW h, NEW s \in Pay!HookState, hook' = [hook EXCEPT ![o][h] = s],
               h = PaidHook => hook[o][PaidHook] # "unsent" \/ intent'[o] = "succeeded"
        PROVE  HookMoves
    <3>1. PaidHook \in Pay!HookIds
      BY DEF PaidHook, Pay!HookIds
    <3> QED BY <2>2, <3>1 DEF PaymentTypes
  <2> QED BY <2>1, <2>2
<1> QED BY <1>1, <1>2 DEF PaymentTypes, PaymentMove, PaymentKept

\* A row is written and an event announced.
LEMMA RecordMoves ==
  ASSUME PaymentTypes, NEW o \in Orders,
         NEW status \in Pay!Status \cup {"none"}, NEW event \in Pay!PaymentEvent,
         payment' = [payment EXCEPT ![o] = status],
         paymentOutbox' = [paymentOutbox EXCEPT ![o] = Append(paymentOutbox[o], event)],
         UNCHANGED <<outcome, intent>>,
         \/ hook' = hook
         \/ \E h, s : /\ hook' = [hook EXCEPT ![o][h] = s] /\ s \in Pay!HookState
                      /\ hook[o][h] # "unsent",
         event = "payment.succeeded" => hook[o][PaidHook] # "unsent",
         status = "SUCCEEDED" => event = "payment.succeeded"
  PROVE  /\ PaymentTypes' /\ PaymentMove(o)
         /\ \A p \in Orders \ {o} : PaymentKept(p)
<1> DEFINE HookMoves ==
             /\ hook' \in [Orders -> [Pay!HookIds -> Pay!HookState]]
             /\ \A p \in Orders \ {o} : hook'[p] = hook[p]
             /\ hook'[o][PaidHook] # "unsent" => hook[o][PaidHook] # "unsent"
<1>1. HookMoves
  <2>1. CASE hook' = hook
    BY <2>1 DEF PaymentTypes
  <2>2. ASSUME NEW h, NEW s \in Pay!HookState, hook' = [hook EXCEPT ![o][h] = s],
               hook[o][h] # "unsent"
        PROVE  HookMoves
    <3>1. PaidHook \in Pay!HookIds
      BY DEF PaidHook, Pay!HookIds
    <3> QED BY <2>2, <3>1 DEF PaymentTypes
  <2> QED BY <2>1, <2>2
<1>2. Append(paymentOutbox[o], event) \in Seq(Pay!PaymentEvent)
  BY DEF PaymentTypes
<1> DEFINE t == Append(paymentOutbox[o], event)
<1>3. /\ paymentOutbox' = [paymentOutbox EXCEPT ![o] = t] /\ t \in Seq(Pay!PaymentEvent)
  BY <1>2
<1> HIDE DEF t
<1>4. /\ payment' \in [Orders -> Pay!Status \cup {"none"}]
      /\ paymentOutbox' \in [Orders -> Seq(Pay!PaymentEvent)]
      /\ paymentOutbox'[o] = t /\ payment'[o] = status
      /\ \A p \in Orders \ {o} : payment'[p] = payment[p] /\ paymentOutbox'[p] = paymentOutbox[p]
  BY <1>3 DEF PaymentTypes
<1> QED BY <1>1, <1>4 DEF PaymentTypes, PaymentMove, PaymentKept, t

\* The steps of the payment service, Stripe and the customer about an order.
LEMMA PaymentMoves ==
  ASSUME PaymentTypes, NEW o \in Orders,
         \/ Pay!Stripe(o) \/ Pay!Request(o) \/ Pay!ReadRefunded(o)
         \/ \E h \in Pay!HookIds : Pay!MarkWebhook(o, h) \/ Pay!CommitWebhook(o, h)
         \/ Pay!RefundRead(o) \/ Pay!RefundCall(o) \/ Pay!RefundCommit(o)
         \/ Pay!OrderCancelled(o)
         \/ \E h \in Pay!HookIds : Pay!LoseWebhook(o, h)
         \/ Pay!RefundFails(o) \/ Pay!RefundCrash(o)
  PROVE  /\ PaymentTypes' /\ PaymentMove(o)
         /\ \A p \in Orders \ {o} : PaymentKept(p)
<1> DEFINE Goal == /\ PaymentTypes' /\ PaymentMove(o)
                   /\ \A p \in Orders \ {o} : PaymentKept(p)
<1> HIDE DEF Goal
<1>types. /\ {"sent", "read", "marked", "done", "lost", "stuck"} \subseteq Pay!HookState
          /\ outcome \in [Orders -> {"none", "CANCELLED", "REFUNDED"}]
          /\ intent[o] \in {"none", "open", "succeeded", "canceled"}
  BY DEF Pay!HookState, PaymentTypes
<1>hooks. /\ <<"canceled", 1>> # PaidHook /\ Pay!RefundHook # PaidHook
          /\ \A n : <<"failed", n>> # PaidHook
  BY DEF PaidHook, Pay!RefundHook
<1>1. CASE Pay!Pay(o)
  <2>1. /\ UNCHANGED <<payment, paymentOutbox, outcome>>
        /\ intent[o] # "succeeded" /\ intent' = [intent EXCEPT ![o] = "succeeded"]
        /\ hook' = [hook EXCEPT ![o][PaidHook] = "sent"]
    BY <1>1 DEF Pay!Pay, Pay!Send, Pay!rowVars, Pay!consumerVars, PaidHook
  <2>2. intent'[o] = "succeeded"
    BY <2>1 DEF PaymentTypes
  <2> QED BY <1>types, <1>hooks, <2>1, <2>2, StripeMoves DEF Goal
<1>2. CASE Pay!Decline(o)
  <2>1. /\ UNCHANGED <<payment, paymentOutbox, outcome, intent>>
        /\ hook' = [hook EXCEPT ![o][<<"failed", declines[o] + 1>>] = "sent"]
    BY <1>2 DEF Pay!Decline, Pay!Send, Pay!rowVars, Pay!consumerVars
  <2> QED BY <1>types, <1>hooks, <2>1, StripeMoves DEF Goal
<1>3. CASE Pay!IntentExpires(o)
  <2>1. /\ UNCHANGED <<payment, paymentOutbox, outcome>>
        /\ intent[o] # "succeeded" /\ intent' = [intent EXCEPT ![o] = "canceled"]
        /\ hook' = [hook EXCEPT ![o][<<"canceled", 1>>] = "sent"]
    BY <1>3 DEF Pay!IntentExpires, Pay!Send, Pay!rowVars, Pay!consumerVars
  <2> QED BY <1>types, <1>hooks, <2>1, StripeMoves DEF Goal
<1>4. CASE Pay!ManualRefund(o)
  <2>1. UNCHANGED <<payment, paymentOutbox, outcome, intent, hook>>
    BY <1>4 DEF Pay!ManualRefund, Pay!rowVars, Pay!consumerVars
  <2> QED BY <1>types, <1>hooks, <2>1, StripeMoves DEF Goal
<1>5. CASE Pay!RefundSettles(o)
  <2>1. /\ UNCHANGED <<payment, paymentOutbox, outcome, intent>>
        /\ hook' = hook \/ hook' = [hook EXCEPT ![o][Pay!RefundHook] = "sent"]
    BY <1>5 DEF Pay!RefundSettles, Pay!Send, Pay!rowVars, Pay!consumerVars
  <2> QED BY <1>types, <1>hooks, <2>1, StripeMoves DEF Goal
<1>6. ASSUME NEW r \in Requests, Pay!CreateCall(o, r)
      PROVE  Goal
  <2>1. /\ UNCHANGED <<payment, paymentOutbox, outcome, hook>>
        /\ intent' = [intent EXCEPT ![o] = IF @ = "none" THEN "open" ELSE @]
    BY <1>6 DEF Pay!CreateCall, Pay!rowVars, Pay!consumerVars
  <2>2. intent' = intent \/ (intent[o] # "succeeded" /\ intent' = [intent EXCEPT ![o] = "open"])
    BY <2>1 DEF PaymentTypes
  <2> QED BY <1>types, <1>hooks, <2>1, <2>2, StripeMoves DEF Goal
<1>7. ASSUME NEW r \in Requests, Pay!CreateCommit(o, r)
      PROVE  Goal
  <2>1. /\ UNCHANGED <<paymentOutbox, outcome, intent, hook>>
        /\ payment' = payment \/ payment' = [payment EXCEPT ![o] = "PENDING"]
    BY <1>7 DEF Pay!CreateCommit, Pay!consumerVars, Pay!stripeVars
  <2> QED BY <2>1 DEF Goal, PaymentTypes, PaymentMove, PaymentKept, Pay!Status
<1>8. ASSUME NEW r \in Requests, Pay!CreateAborts(o, r)
      PROVE  Goal
  <2>1. UNCHANGED <<payment, paymentOutbox, outcome, intent, hook>>
    BY <1>8 DEF Pay!CreateAborts, Pay!rowVars, Pay!consumerVars, Pay!stripeVars
  <2> QED BY <1>types, <1>hooks, <2>1, StripeMoves DEF Goal
<1>9. CASE Pay!ReadRefunded(o)
  <2>1. /\ UNCHANGED <<payment, paymentOutbox, outcome, intent>>
        /\ \E s \in {"done", "read"} : hook' = [hook EXCEPT ![o][Pay!RefundHook] = s]
    BY <1>9 DEF Pay!ReadRefunded, Pay!rowVars, Pay!consumerVars, Pay!stripeVars
  <2> QED BY <1>types, <1>hooks, <2>1, StripeMoves DEF Goal
<1>10. ASSUME NEW h \in Pay!HookIds, Pay!MarkWebhook(o, h) \/ Pay!LoseWebhook(o, h)
       PROVE  Goal
  <2>1. /\ UNCHANGED <<payment, paymentOutbox, outcome, intent>>
        /\ hook[o][h] # "unsent"
        /\ \E s \in {"marked", "lost", "stuck"} : hook' = [hook EXCEPT ![o][h] = s]
    BY <1>10 DEF Pay!MarkWebhook, Pay!LoseWebhook, Pay!rowVars, Pay!consumerVars, Pay!stripeVars
  <2> QED BY <1>types, <1>hooks, <2>1, StripeMoves DEF Goal
<1>11. ASSUME NEW h \in Pay!HookIds, Pay!CommitWebhook(o, h)
       PROVE  Goal
  <2>1. /\ UNCHANGED <<outcome, intent>>
        /\ hook[o][h] # "unsent" /\ hook' = [hook EXCEPT ![o][h] = "done"]
        /\ Pay!ApplyWebhook(o, h[1])
    BY <1>11 DEF Pay!CommitWebhook, Pay!consumerVars, Pay!stripeVars
  <2>2. h[1] = "succeeded" => h = PaidHook
    BY DEF Pay!HookIds, Pay!RefundHook, PaidHook
  <2>3. PICK status \in Pay!Status, event \in Pay!PaymentEvent :
          /\ payment' = [payment EXCEPT ![o] = status]
          /\ paymentOutbox' = [paymentOutbox EXCEPT ![o] = Append(paymentOutbox[o], event)]
          /\ event = "payment.succeeded" => h[1] = "succeeded"
          /\ status = "SUCCEEDED" => event = "payment.succeeded"
    BY <2>1 DEF Pay!ApplyWebhook, Pay!HandleSucceeded, Pay!HandleFailed, Pay!HandleCancelled,
       Pay!HandleRefunded, Pay!Record, Pay!Status, Pay!PaymentEvent
  <2>4. event = "payment.succeeded" => hook[o][PaidHook] # "unsent"
    BY <2>1, <2>2, <2>3
  <2> QED BY <1>types, <1>hooks, <2>1, <2>3, <2>4, RecordMoves DEF Goal
<1>12. CASE Pay!RefundRead(o) \/ Pay!RefundFails(o) \/ Pay!RefundCrash(o) \/ Pay!OrderCancelled(o)
  <2>1. UNCHANGED <<payment, paymentOutbox, outcome, intent, hook>>
    BY <1>12 DEF Pay!RefundRead, Pay!RefundFails, Pay!RefundCrash, Pay!OrderCancelled,
       Pay!rowVars, Pay!stripeVars
  <2> QED BY <1>types, <1>hooks, <2>1, StripeMoves DEF Goal
<1>13. CASE Pay!RefundCall(o)
  <2>1. UNCHANGED <<payment, paymentOutbox>>
    BY <1>13 DEF Pay!RefundCall, Pay!rowVars
  <2>2. \E s \in {"CANCELLED", "REFUNDED"} : outcome' = [outcome EXCEPT ![o] = s]
    BY <1>13 DEF Pay!RefundCall, Pay!CancelIntent, Pay!FindCanceled, Pay!CreateRefund
  <2>3. outcome' \in [Orders -> {"none", "CANCELLED", "REFUNDED"}]
    BY <1>types, <1>hooks, <2>2
  <2>4. CASE Pay!CancelIntent(o)
    <3>1. /\ intent[o] # "succeeded" /\ intent' = [intent EXCEPT ![o] = "canceled"]
          /\ hook' = [hook EXCEPT ![o][<<"canceled", 1>>] = "sent"]
      BY <2>4 DEF Pay!CancelIntent, Pay!Send
    <3> QED BY <1>types, <1>hooks, <2>1, <2>3, <3>1, StripeMoves DEF Goal
  <2>5. CASE Pay!FindCanceled(o) \/ Pay!CreateRefund(o)
    <3>1. intent' = intent /\ hook' = hook
      BY <2>5 DEF Pay!FindCanceled, Pay!CreateRefund, Pay!stripeVars
    <3> QED BY <1>types, <1>hooks, <2>1, <2>3, <3>1, StripeMoves DEF Goal
  <2> QED BY <1>13, <2>4, <2>5 DEF Pay!RefundCall
<1>14. CASE Pay!RefundCommit(o)
  <2> DEFINE event == IF outcome[o] = "CANCELLED" THEN "payment.cancelled" ELSE "payment.refunded"
  <2>1. /\ payment' = [payment EXCEPT ![o] = outcome[o]]
        /\ paymentOutbox' = [paymentOutbox EXCEPT ![o] = Append(paymentOutbox[o], event)]
        /\ UNCHANGED <<outcome, intent, hook>>
    BY <1>14 DEF Pay!RefundCommit, Pay!Record, Pay!stripeVars
  <2>2. /\ event \in Pay!PaymentEvent /\ event # "payment.succeeded"
        /\ outcome[o] \in Pay!Status \cup {"none"} /\ outcome[o] # "SUCCEEDED"
    BY <1>types DEF Pay!PaymentEvent, Pay!Status
  <2> HIDE DEF event
  <2> QED BY <2>1, <2>2, RecordMoves DEF Goal
<1>15. Pay!Stripe(o) => Goal
  BY <1>1, <1>2, <1>3, <1>4, <1>5 DEF Pay!Stripe, Goal
<1>16. Pay!Request(o) => Goal
  BY <1>6, <1>7, <1>8 DEF Pay!Request
<1>17. Goal
  BY <1>9, <1>10, <1>11, <1>12, <1>13, <1>14, <1>15, <1>16 DEF Goal
<1> QED BY <1>17 DEF Goal

-----------------------------------------------------------------------------
(* Every step preserves the invariant of the orders it touches.             *)

\* The payment service announces a success only after the charge.
LEMMA PaymentMoveStep ==
  ASSUME Typed, Typed', NEW o \in Orders, OrderOK(o), Stays(o),
         o \in InventoryOrders => StockKept(o), PaymentMove(o), RowsKept(o), EarlyKept(o),
         lost' = lost
  PROVE  OrderOK(o)'
<1> USE DEF Typed
<1>1. OrderMove(o) /\ OwnMove(o) /\ RowOK(o) /\ outbox'[o] = outbox[o]
  BY DEF OrderMove, OwnMove, OrderOK, Stays
<1>2. RowOK(o)'
  BY <1>1, RowStep
<1>3. /\ \A n \in Nat : <<"order", o, n>> \in handled' <=> <<"order", o, n>> \in handled
      /\ \A n \in Nat : <<"inventory", o, n>> \in handled' <=> <<"inventory", o, n>> \in handled
      /\ \A n \in Nat : <<"payment", o, n>> \in handled' <=> <<"payment", o, n>> \in handled
  BY DEF RowsKept
<1> DEFINE s == paymentOutbox[o]
           t == paymentOutbox'[o]
           Announces ==
             /\ Grows(s, t) /\ s \in Seq(Pay!PaymentEvent)
             /\ \/ /\ payment'[o] = "SUCCEEDED" => payment[o] = "SUCCEEDED"
                   /\ t = s
                \/ /\ Len(t) = Len(s) + 1
                   /\ t[Len(s) + 1] = "payment.succeeded" => hook[o][PaidHook] # "unsent"
                   /\ payment'[o] = "SUCCEEDED" => t[Len(s) + 1] = "payment.succeeded"
<1>4. Announces
  <2>1. s \in Seq(Pay!PaymentEvent)
    BY DEF PaymentTypes
  <2>2. CASE (payment'[o] = "SUCCEEDED" => payment[o] = "SUCCEEDED") /\ t = s
    BY <2>1, <2>2, GrowsSelf
  <2>3. ASSUME NEW e \in Pay!PaymentEvent, t = Append(s, e),
               e = "payment.succeeded" => hook[o][PaidHook] # "unsent",
               payment'[o] = "SUCCEEDED" => e = "payment.succeeded"
        PROVE  Announces
    <3>1. /\ Len(t) = Len(s) + 1 /\ t[Len(s) + 1] = e
          /\ \A n \in 1..Len(s) : t[n] = s[n]
      BY <2>1, <2>3, AppendProperties
    <3> HIDE DEF s, t
    <3>2. Len(s) \in Nat
      BY <2>1
    <3> QED BY <2>1, <2>3, <3>1, <3>2 DEF Grows
  <2> QED BY <2>2, <2>3 DEF PaymentMove
<1>5. /\ Grows(outbox[o], outbox'[o])
      /\ o \in InventoryOrders => Grows(answers[o], answers'[o])
  BY <1>1, GrowsSelf DEF StockKept, OrderTypes, StockTypes
<1>6. HandledOK(o)'
  BY <1>3, <1>4, <1>5, HandledStep DEF OrderOK
<1>7. Len(s) \in Nat
  BY <1>4
<1>8. MoneyOK(o)'
  <2>1. MoneyOK(o)
    BY DEF OrderOK
  <2>2. hook[o][PaidHook] # "unsent" => intent[o] = "succeeded"
    BY <2>1 DEF MoneyOK
  <2>3. hook'[o][PaidHook] # "unsent" => intent'[o] = "succeeded"
    BY <2>2 DEF PaymentMove
  <2>4. ASSUME NEW n \in 1..Len(t), t[n] = "payment.succeeded"
        PROVE  intent'[o] = "succeeded"
    <3>1. n \in 1..Len(s) => s[n] = t[n]
      BY <1>4 DEF Grows
    <3> QED BY <1>4, <1>7, <2>1, <2>2, <2>4, <3>1 DEF MoneyOK, PaymentMove
  <2>5. payment'[o] = "SUCCEEDED" => \E n \in 1..Len(t) : t[n] = "payment.succeeded"
    BY <1>4, <1>7, <2>1 DEF MoneyOK, Grows
  <2>6. paymentStatus'[o] = "succeeded" => intent'[o] = "succeeded"
    BY <2>1 DEF MoneyOK, Stays, PaymentMove
  <2> QED BY <2>3, <2>4, <2>5, <2>6 DEF MoneyOK, Stays
<1>9. PaidOK(o)'
  <2> SUFFICES ASSUME lost' = 0, o \notin early', orderStatus'[o] \in {"absent", "PENDING"},
                      NEW n \in 1..Len(t), t[n] = "payment.succeeded", <<"payment", o, n>> \in handled'
               PROVE  paymentStatus'[o] = "succeeded"
    BY DEF PaidOK
  <2>1. Len(t) \in Nat
    BY DEF PaymentTypes
  <2>2. n \in Nat /\ <<"payment", o, n>> \in handled
    BY <1>3, <2>1
  <2>3. n \in 1..Len(s)
    BY <2>2 DEF OrderOK, HandledOK
  <2>4. s[n] = t[n]
    BY <1>4, <2>3 DEF Grows
  <2> QED BY <2>2, <2>3, <2>4 DEF OrderOK, PaidOK, Stays, EarlyKept
<1>10. ASSUME o \in InventoryOrders
       PROVE  StockOK(o)' /\ FlowOK(o)'
  <2>1. StockOK(o) /\ FlowOK(o) /\ HandledOK(o) /\ StockKept(o)
    BY <1>10 DEF OrderOK
  <2>2. StockOK(o)'
    BY <1>1, <1>3, <1>10, <2>1, StockStep
  <2>3. FlowOK(o)'
    BY <1>1, <1>3, <1>10, <2>1, FlowStep
  <2> QED BY <2>2, <2>3
<1> QED BY <1>2, <1>6, <1>8, <1>9, <1>10 DEF OrderOK

\* The payment service has taken an order's cancellation.
LEMMA CancelTakenStep ==
  ASSUME Typed, Typed', NEW o \in Orders, OrderOK(o), Stays(o),
         o \in InventoryOrders => StockKept(o), PaymentKept(o), EarlyKept(o), lost' = lost,
         NEW m \in 1..Len(outbox[o]), outbox[o][m] # Releasing,
         handled' = handled \cup {<<"order", o, m>>}
  PROVE  OrderOK(o)'
<1> USE DEF Typed
<1>1. OrderMove(o) /\ OwnMove(o) /\ RowOK(o) /\ outbox'[o] = outbox[o]
  BY DEF OrderMove, OwnMove, OrderOK, Stays
<1>2. RowOK(o)'
  BY <1>1, RowStep
<1>3. /\ \A n \in Nat : <<"order", o, n>> \in handled' <=> <<"order", o, n>> \in handled \/ n = m
      /\ \A n \in Nat : <<"inventory", o, n>> \in handled' <=> <<"inventory", o, n>> \in handled
      /\ \A n \in Nat : <<"payment", o, n>> \in handled' <=> <<"payment", o, n>> \in handled
  OBVIOUS
<1>4. /\ Grows(outbox[o], outbox'[o]) /\ Grows(paymentOutbox[o], paymentOutbox'[o])
      /\ o \in InventoryOrders => Grows(answers[o], answers'[o])
  BY <1>1, GrowsSelf DEF PaymentKept, StockKept, OrderTypes, StockTypes, PaymentTypes
<1>5. HandledOK(o)'
  BY <1>3, <1>4, HandledStep DEF OrderOK
<1>6. MoneyOK(o)'
  BY <1>1, MoneyStep DEF OrderOK
<1>7. PaidOK(o)'
  BY <1>1, <1>3, PaidStep DEF OrderOK
<1>8. ASSUME o \in InventoryOrders
      PROVE  StockOK(o)' /\ FlowOK(o)'
  <2>1. StockOK(o) /\ FlowOK(o) /\ StockKept(o) /\ 2 \in Nat /\ 1 \in Nat
    BY <1>8 DEF OrderOK
  <2>2. StockOK(o)'
    BY <1>1, <1>3, <1>8, <2>1, StockStep
  <2>3. Ord!Exists(o)' <=> Ord!Exists(o)
    BY DEF Ord!Exists, Stays
  <2>4. (o \in Asked)' <=> o \in Asked
    BY <1>1, MoveAsks DEF Stays
  <2>5. Len(outbox[o]) \in Nat
    BY DEF OrderTypes
  <2>6. /\ lost' = 0 /\ ledger'[o] = "reserved" /\ Ord!Exists(o)'
        /\ <<"inventory", o, 1>> \in handled'
        => inventoryStatus'[o] = "reserved" \/ (o \in Asked)'
    BY <1>3, <2>1, <2>3, <2>4 DEF FlowOK, StockKept, Stays
  <2>7. lost' = 0 => \A n \in 1..Len(outbox'[o]) :
          outbox'[o][n] = Releasing /\ <<"order", o, n>> \in handled' => ledger'[o] = "released"
    BY <1>1, <1>3, <2>1, <2>5 DEF FlowOK, StockKept
  <2> QED BY <2>2, <2>6, <2>7 DEF FlowOK
<1> QED BY <1>2, <1>5, <1>6, <1>7, <1>8 DEF OrderOK

\* The first answer of the product service to an order's request.
LEMMA ReserveMoves ==
  ASSUME StockTypes, NEW o \in InventoryOrders, ledger[o] = "none", answers[o] = <<>>,
         Inv!Reserve(o)
  PROVE  /\ StockTypes'
         /\ \A p \in InventoryOrders \ {o} : StockKept(p)
         /\ \/ answers'[o] = <<Success>> /\ ledger'[o] = "reserved"
            \/ answers'[o] = <<Failure>> /\ ledger'[o] = "none"
<1>1. /\ Success \in Inv!Reply /\ Failure \in Inv!Reply
      /\ Append(<<>>, Success) = <<Success>> /\ Append(<<>>, Failure) = <<Failure>>
  BY DEF Inv!Reply, Success, Failure
<1>2. ~Inv!ReserveAgain(o)
  BY DEF Inv!ReserveAgain
<1>3. CASE Inv!ReserveFresh(o)
  <2>1. /\ ledger' = [ledger EXCEPT ![o] = "reserved"]
        /\ answers' = [answers EXCEPT ![o] = <<Success>>]
    BY <1>1, <1>3 DEF Inv!ReserveFresh, Inv!Answer, Success
  <2>2. <<Success>> \in Seq(Inv!Reply)
    BY <1>1
  <2> QED BY <2>1, <2>2 DEF StockTypes, StockKept
<1>4. CASE Inv!ReserveRejected(o)
  <2>1. /\ ledger' = ledger
        /\ answers' = [answers EXCEPT ![o] = <<Failure>>]
    BY <1>1, <1>4 DEF Inv!ReserveRejected, Inv!Answer, Failure
  <2>2. <<Failure>> \in Seq(Inv!Reply)
    BY <1>1
  <2> QED BY <2>1, <2>2 DEF StockTypes, StockKept
<1> QED BY <1>2, <1>3, <1>4 DEF Inv!Reserve

\* A reservation or a release the product service has served, and what it leaves
\* the order with.
LEMMA ServedStep ==
  ASSUME Typed, Typed', NEW o \in InventoryOrders, OrderOK(o), Stays(o), PaymentKept(o),
         EarlyKept(o), lost' = lost,
         NEW m \in 1..Len(outbox[o]), <<"order", o, m>> \notin handled,
         handled' = handled \cup {<<"order", o, m>>},
         \/ /\ outbox[o][m] = Reserving
            /\ \/ answers'[o] = <<Success>> /\ ledger'[o] = "reserved"
               \/ answers'[o] = <<Failure>> /\ ledger'[o] = "none"
         \/ /\ outbox[o][m] = Releasing
            /\ answers'[o] = answers[o]
            /\ \/ ledger[o] = "reserved" /\ ledger'[o] = "released"
               \/ ledger[o] # "reserved" /\ ledger'[o] = ledger[o]
  PROVE  OrderOK(o)'
<1> USE DEF Typed
<1>1. /\ o \in Orders /\ OrderMove(o) /\ OwnMove(o) /\ RowOK(o) /\ outbox'[o] = outbox[o]
      /\ StockOK(o) /\ FlowOK(o) /\ HandledOK(o)
  BY CheckoutAssumption DEF CheckoutAssumption, OrderMove, OwnMove, OrderOK, Stays
<1>2. RowOK(o)'
  BY <1>1, RowStep
<1>3. /\ \A n \in Nat : <<"order", o, n>> \in handled' <=> <<"order", o, n>> \in handled \/ n = m
      /\ \A n \in Nat : <<"inventory", o, n>> \in handled' <=> <<"inventory", o, n>> \in handled
      /\ \A n \in Nat : <<"payment", o, n>> \in handled' <=> <<"payment", o, n>> \in handled
  OBVIOUS
<1>4. Len(outbox[o]) \in Nat /\ m \in Nat
  BY <1>1 DEF OrderTypes
<1>5. MoneyOK(o)'
  BY <1>1, MoneyStep DEF OrderOK
<1>6. PaidOK(o)'
  BY <1>1, <1>3, PaidStep DEF OrderOK
<1>7. /\ (o \in Asked)' <=> o \in Asked
      /\ Ord!Exists(o)' <=> Ord!Exists(o)
      /\ outbox[o][m] = Releasing => o \in Asked
      /\ orderStatus[o] # "absent"
  <2>1. (o \in Asked)' <=> o \in Asked
    BY <1>1, MoveAsks DEF Stays
  <2>2. outbox[o] # <<>>
    BY <1>4
  <2> QED BY <1>1, <2>1, <2>2 DEF Ord!Exists, Stays, Asked, Releasing, RowOK
<1>8. CASE outbox[o][m] = Reserving
  <2>1. m = 2 /\ answers[o] = <<>> /\ ledger[o] = "none"
    BY <1>1, <1>8 DEF RowOK, StockOK
  <2>2. /\ ~(o \in Asked)' /\ inventoryStatus[o] \notin {"reserved", "release_requested"}
        /\ <<"order", o, 2>> \in handled'
    <3>1. <<>> # <<Success>>
      BY DEF Success
    <3> QED BY <1>1, <1>3, <1>7, <2>1, <3>1 DEF StockOK
  <2>3. <<"inventory", o, 1>> \notin handled /\ <<"inventory", o, 1>> \notin handled'
    <3>1. Len(answers[o]) = 0
      BY <2>1
    <3>2. 1 \notin 1..Len(answers[o])
      BY <3>1
    <3> QED BY <1>1, <1>3, <3>2 DEF HandledOK
  <2>4. Len(answers[o]) = 0 /\ Grows(answers[o], answers'[o])
    <3>1. Len(answers[o]) = 0 /\ Len(answers'[o]) \in Nat
      BY <2>1 DEF StockTypes
    <3> QED BY <3>1 DEF Grows
  <2>5. StockOK(o)'
    BY <1>1, <1>7, <1>8, <2>1, <2>2 DEF StockOK, Stays, Reserving, Releasing
  <2>6. ASSUME lost' = 0, NEW n \in 1..Len(outbox'[o]), outbox'[o][n] = Releasing,
               <<"order", o, n>> \in handled'
        PROVE  FALSE
    <3>1. n # m
      BY <1>1, <1>8, <2>6 DEF Reserving, Releasing
    <3>2. n \in 1..Len(outbox[o]) /\ n \in Nat /\ outbox[o][n] = Releasing
      BY <1>1, <1>4, <2>6
    <3> QED BY <1>1, <1>3, <2>1, <2>6, <3>1, <3>2 DEF FlowOK
  <2>7. FlowOK(o)'
    BY <2>3, <2>6 DEF FlowOK
  <2>8. HandledOK(o)'
    <3>1. Grows(outbox[o], outbox'[o]) /\ Grows(paymentOutbox[o], paymentOutbox'[o])
      BY <1>1, GrowsSelf DEF PaymentKept, OrderTypes, PaymentTypes
    <3> QED BY <1>1, <1>3, <2>4, <3>1, HandledStep
  <2> QED BY <1>2, <1>5, <1>6, <2>5, <2>7, <2>8 DEF OrderOK
<1>9. CASE outbox[o][m] = Releasing
  <2>1. o \in Asked /\ answers[o] = <<Success>> /\ answers'[o] = answers[o]
    BY <1>1, <1>7, <1>9 DEF StockOK, Reserving, Releasing
  <2>2. ledger'[o] = "released" /\ <<"order", o, 2>> \in handled'
    <3>1. <<Success>> # <<>> /\ <<Success>> # <<Failure>>
      BY DEF Success, Failure
    <3> QED BY <1>1, <1>3, <1>9, <2>1, <3>1 DEF StockOK, Reserving, Releasing
  <2>3. StockOK(o)'
    BY <1>1, <1>7, <2>1, <2>2 DEF StockOK, Stays
  <2>4. FlowOK(o)'
    BY <2>2 DEF FlowOK
  <2>5. HandledOK(o)'
    <3>1. /\ Grows(outbox[o], outbox'[o]) /\ Grows(paymentOutbox[o], paymentOutbox'[o])
          /\ Grows(answers[o], answers'[o])
      BY <1>1, <2>1, GrowsSelf DEF PaymentKept, OrderTypes, PaymentTypes, StockTypes
    <3> QED BY <1>1, <1>3, <3>1, HandledStep
  <2> QED BY <1>2, <1>5, <1>6, <2>3, <2>4, <2>5 DEF OrderOK
<1> QED BY <1>8, <1>9

\* The order service has taken the product service's answer, for the first time
\* or again.
LEMMA ReplyStep ==
  ASSUME Typed, Typed', NEW o \in InventoryOrders, OrderOK(o), StockKept(o), PaymentKept(o),
         EarlyKept(o), lost' = lost, NEW m \in 1..Len(answers[o]),
         \/ ~Ord!Exists(o) /\ Stays(o)
         \/ answers[o][m] = Success /\ Held(o)
         \/ answers[o][m] = Failure /\ Refused(o),
         handled' = handled \/ handled' = handled \cup {<<"inventory", o, m>>}
  PROVE  OrderOK(o)'
<1> USE DEF Typed
<1>1. /\ o \in Orders /\ OrderMove(o) /\ RowOK(o) /\ StockOK(o) /\ FlowOK(o) /\ HandledOK(o)
  BY CheckoutAssumption DEF CheckoutAssumption, OrderMove, OwnMove, OrderOK
<1>2. RowOK(o)'
  BY <1>1, RowStep
<1>3. /\ \A n \in Nat : <<"order", o, n>> \in handled' <=> <<"order", o, n>> \in handled
      /\ \A n \in Nat : <<"inventory", o, n>> \in handled' =>
           <<"inventory", o, n>> \in handled \/ n = m
      /\ \A n \in Nat : <<"payment", o, n>> \in handled' <=> <<"payment", o, n>> \in handled
  OBVIOUS
<1>4. /\ Grows(outbox[o], outbox'[o]) /\ Grows(paymentOutbox[o], paymentOutbox'[o])
      /\ Grows(answers[o], answers'[o])
  BY <1>1, MoveAsks, GrowsSelf DEF PaymentKept, StockKept, StockTypes, PaymentTypes
<1>5. HandledOK(o)'
  BY <1>1, <1>3, <1>4, HandledStep
<1>6. /\ Len(<<Success>>) = 1 /\ <<Success>>[1] = Success
      /\ Len(<<Failure>>) = 1 /\ <<Failure>>[1] = Failure
      /\ Len(<<>>) = 0 /\ Success # Failure /\ <<Success>> # <<Failure>>
  BY DEF Success, Failure
<1>7. \/ OwnMove(o) /\ ~Ord!Exists(o) /\ Stays(o)
      \/ Held(o) /\ answers[o] = <<Success>>
      \/ Refused(o) /\ answers[o] = <<Failure>>
  BY <1>1, <1>6 DEF StockOK, OwnMove
<1>8. MoneyOK(o)'
  BY <1>1, <1>7, MoneyStep DEF OrderOK
<1>9. PaidOK(o)'
  BY <1>1, <1>3, PaidStep DEF OrderOK
<1>10. StockOK(o)'
  BY <1>1, <1>3, <1>7, StockStep
<1>11. FlowOK(o)'
  <2>1. /\ \/ OwnMove(o) \/ Noted(o) \/ Paid(o) \/ Held(o)
           \/ Refused(o) /\ answers[o] # <<Success>>
        /\ Held(o) \/ answers[o] # <<Success>> \/ (~Ord!Exists(o) /\ Stays(o))
    BY <1>6, <1>7
  <2>2. \A n \in Nat : <<"order", o, n>> \in handled' => <<"order", o, n>> \in handled
    BY <1>3
  <2> QED BY <1>1, <2>1, <2>2, FlowStep
<1> QED BY <1>2, <1>5, <1>8, <1>9, <1>10, <1>11 DEF OrderOK

\* The order service has taken an event of the payment service.
LEMMA PaymentTakenStep ==
  ASSUME Typed, Typed', NEW o \in Orders, OrderOK(o),
         o \in InventoryOrders => StockKept(o), PaymentKept(o),
         EarlyKept(o), lost' = lost, NEW m \in 1..Len(paymentOutbox[o]),
         orderStatus[o] = "absent" /\ paymentOutbox[o][m] = "payment.succeeded" => o \in early',
         \/ ~Ord!Exists(o) /\ Stays(o)
         \/ /\ paymentOutbox[o][m] = "payment.succeeded"
            /\ \/ orderStatus[o] = "CANCELLED" /\ Stays(o)
               \/ Cancelled(o) \/ Paid(o)
         \/ paymentOutbox[o][m] # "payment.succeeded" /\ (OwnMove(o) \/ Noted(o)),
         handled' = handled \cup {<<"payment", o, m>>}
  PROVE  OrderOK(o)'
<1> USE DEF Typed
<1>1. /\ OrderMove(o) /\ RowOK(o) /\ MoneyOK(o)
      /\ OwnMove(o) \/ Noted(o) \/ (Paid(o) /\ paymentOutbox[o][m] = "payment.succeeded")
  BY DEF OrderMove, OwnMove, OrderOK
<1>2. RowOK(o)'
  BY <1>1, RowStep
<1>3. /\ \A n \in Nat : <<"order", o, n>> \in handled' <=> <<"order", o, n>> \in handled
      /\ \A n \in Nat : <<"inventory", o, n>> \in handled' <=> <<"inventory", o, n>> \in handled
      /\ \A n \in Nat : <<"payment", o, n>> \in handled' => <<"payment", o, n>> \in handled \/ n = m
  OBVIOUS
<1>4. /\ Grows(outbox[o], outbox'[o]) /\ Grows(paymentOutbox[o], paymentOutbox'[o])
      /\ o \in InventoryOrders => Grows(answers[o], answers'[o])
  BY <1>1, MoveAsks, GrowsSelf DEF PaymentKept, StockKept, StockTypes, PaymentTypes
<1>5. HandledOK(o)'
  BY <1>3, <1>4, HandledStep DEF OrderOK
<1>6. MoneyOK(o)'
  <2>1. paymentOutbox[o][m] = "payment.succeeded" => intent[o] = "succeeded"
    BY <1>1 DEF MoneyOK
  <2> QED BY <1>1, <2>1, MoneyStep
<1>7. PaidOK(o)'
  <2>1. PaidOK(o)
    BY DEF OrderOK
  <2>2. CASE paymentOutbox[o][m] # "payment.succeeded"
    <3>1. \A n \in Nat : <<"payment", o, n>> \in handled' =>
            <<"payment", o, n>> \in handled \/ paymentOutbox[o][n] # "payment.succeeded"
      BY <1>3, <2>2
    <3> QED BY <1>1, <2>1, <3>1, PaidStep
  <2>3. CASE paymentOutbox[o][m] = "payment.succeeded"
    <3>1. \/ Paid(o) \/ Cancelled(o)
          \/ Stays(o) /\ (orderStatus[o] \in {"absent", "PENDING"} => o \in early')
      BY <2>3 DEF Ord!Exists, Ord!OrderStatus
    <3> QED BY <1>1, <2>1, <3>1, PaidStep
  <2> QED BY <2>2, <2>3
<1>8. ASSUME o \in InventoryOrders
      PROVE  StockOK(o)' /\ FlowOK(o)'
  <2>1. StockOK(o) /\ FlowOK(o) /\ HandledOK(o) /\ StockKept(o)
    BY <1>8 DEF OrderOK
  <2>2. StockOK(o)'
    BY <1>1, <1>3, <1>8, <2>1, StockStep
  <2>3. FlowOK(o)'
    BY <1>1, <1>3, <1>8, <2>1, FlowStep
  <2> QED BY <2>2, <2>3
<1> QED BY <1>2, <1>5, <1>6, <1>7, <1>8 DEF OrderOK

-----------------------------------------------------------------------------
(* Every step preserves the invariant.                                      *)

\* Deliveries lost in a crash, of a row or of a webhook.
LEMMA LossKeeps ==
  ASSUME IInv, NEW o \in Orders,
         LosePayment(o) \/ \E n \in 1..MaxRow : LoseDelivery(o, n)
  PROVE  IInv'
<1>1. /\ UNCHANGED <<orderStatus, inventoryStatus, paymentStatus, outbox, ledger, answers>>
      /\ lost' = lost + 1
  BY DEF LosePayment, LoseDelivery, orderVars, inventoryVars
<1>2. /\ OrderTypes' /\ StockTypes' /\ lost' \in Nat /\ Typed
      /\ \A p \in Orders : Stays(p) /\ (p \in InventoryOrders => StockKept(p))
  BY <1>1, UnchangedStays DEF IInv, StockTypes, StockKept, Typed
<1>3. CASE LosePayment(o)
  <2>1. /\ PaymentTypes' /\ PaymentMove(o)
        /\ \A p \in Orders \ {o} : PaymentKept(p)
    BY <1>3, PaymentMoves DEF LosePayment, IInv
  <2>2. payment' = payment /\ paymentOutbox' = paymentOutbox /\ intent' = intent /\ handled' = handled
    BY <1>3 DEF LosePayment, Pay!LoseWebhook, Pay!RefundFails, Pay!RefundCrash, Pay!rowVars,
       Pay!stripeVars
  <2>3. ASSUME NEW p \in Orders
        PROVE  OrderOK(p)'
    <3>1. hook'[p][PaidHook] # "unsent" =>
            hook[p][PaidHook] # "unsent" \/ intent'[p] = "succeeded"
      BY <2>1 DEF PaymentKept, PaymentMove
    <3>2. Typed' /\ OrderOK(p)
      BY <1>2, <2>1 DEF Typed, IInv
    <3> QED BY <1>1, <1>2, <2>2, <3>1, <3>2, LostStep
  <2> QED BY <1>2, <2>1, <2>3 DEF IInv
<1>4. ASSUME NEW n \in 1..MaxRow, LoseDelivery(o, n)
      PROVE  IInv'
  <2>1. UNCHANGED <<payment, paymentOutbox, outcome, intent, hook>>
    BY <1>4 DEF LoseDelivery, paymentVars
  <2>2. PaymentTypes'
    BY <2>1 DEF IInv, PaymentTypes
  <2>3. \E box \in {"order", "inventory", "payment"} :
          /\ handled' = handled \cup {<<box, o, n>>}
          /\ box = "order" => n \in 1..Len(outbox[o])
          /\ box = "inventory" => n \in 1..Len(answers[o])
          /\ box = "payment" => n \in 1..Len(paymentOutbox[o])
    BY <1>4 DEF LoseDelivery, OrderRow, Due
  <2>4. ASSUME NEW p \in Orders
        PROVE  OrderOK(p)'
    <3>1. /\ handled \subseteq handled'
          /\ \A m \in Nat : <<"order", p, m>> \in handled' =>
               <<"order", p, m>> \in handled \/ m \in 1..Len(outbox[p])
          /\ \A m \in Nat : <<"inventory", p, m>> \in handled' =>
               <<"inventory", p, m>> \in handled \/ m \in 1..Len(answers[p])
          /\ \A m \in Nat : <<"payment", p, m>> \in handled' =>
               <<"payment", p, m>> \in handled \/ m \in 1..Len(paymentOutbox[p])
      BY <2>3
    <3>2. Typed' /\ OrderOK(p)
      BY <1>2, <2>2 DEF Typed, IInv
    <3> QED BY <1>1, <1>2, <2>1, <3>1, <3>2, LostStep
  <2> QED BY <1>2, <2>2, <2>4 DEF IInv
<1> QED BY <1>3, <1>4

\* The order service's own steps.
LEMMA OrderKeeps ==
  ASSUME IInv, OrderStep
  PROVE  IInv'
<1>1. /\ OrderTypes'
      /\ \A o \in Orders : OwnMove(o)
  BY OrderStepMoves DEF IInv, OwnMove
<1>2. /\ UNCHANGED <<payment, paymentOutbox, outcome, intent, hook, ledger, answers>>
      /\ UNCHANGED <<handled, early, lost>>
  BY DEF OrderStep, inventoryVars, paymentVars, channelVars
<1>3. /\ StockTypes' /\ PaymentTypes' /\ lost' \in Nat
      /\ \A o \in Orders : StockKept(o) /\ PaymentKept(o) /\ RowsKept(o) /\ EarlyKept(o)
  BY <1>2 DEF IInv, StockTypes, PaymentTypes, StockKept, PaymentKept, RowsKept, EarlyKept
<1>4. \A o \in Orders : OrderOK(o)'
  BY <1>1, <1>2, <1>3, OwnStep DEF IInv, Typed
<1> QED BY <1>1, <1>3, <1>4 DEF IInv

\* The payment service's, Stripe's and the customer's.
LEMMA PaymentKeeps ==
  ASSUME IInv, NEW o \in Orders, PaymentStep(o)
  PROVE  IInv'
<1>1. /\ UNCHANGED <<orderStatus, inventoryStatus, paymentStatus, outbox, ledger, answers>>
      /\ UNCHANGED <<handled, early, lost>>
  BY DEF PaymentStep, orderVars, inventoryVars, channelVars
<1>2. /\ OrderTypes' /\ StockTypes' /\ lost' \in Nat /\ Typed
      /\ \A p \in Orders : /\ Stays(p) /\ OwnMove(p) /\ RowsKept(p) /\ EarlyKept(p)
                           /\ p \in InventoryOrders => StockKept(p)
  BY <1>1, UnchangedStays DEF IInv, StockTypes, StockKept, Typed, RowsKept, OwnMove, EarlyKept
<1>3. /\ PaymentTypes' /\ PaymentMove(o)
      /\ \A p \in Orders \ {o} : PaymentKept(p)
  BY PaymentMoves DEF PaymentStep, IInv
<1>4. Typed' /\ \A p \in Orders : OrderOK(p)
  BY <1>2, <1>3 DEF Typed, IInv
<1>5. OrderOK(o)'
  BY <1>1, <1>2, <1>3, <1>4, PaymentMoveStep
<1>6. \A p \in Orders \ {o} : OrderOK(p)'
  BY <1>1, <1>2, <1>3, <1>4, OwnStep
<1> QED BY <1>4, <1>5, <1>6 DEF IInv, Typed

\* Deliveries to the product and the payment service.
LEMMA ServiceKeeps ==
  ASSUME IInv, NEW o \in Orders, NEW n \in Nat,
         \/ o \in InventoryOrders /\ (ProductReserves(o, n) \/ ProductReleases(o, n))
         \/ PaymentTakesCancel(o, n)
  PROVE  IInv'
<1>1. /\ UNCHANGED <<orderStatus, inventoryStatus, paymentStatus, outbox>>
      /\ UNCHANGED <<early, lost>> /\ handled' = handled \cup {<<"order", o, n>>}
      /\ n \in 1..Len(outbox[o]) /\ <<"order", o, n>> \notin handled
  BY DEF ProductReserves, ProductReleases, PaymentTakesCancel, orderVars, OrderRow, Due, Done,
     Answered
<1>2. /\ OrderTypes' /\ lost' \in Nat /\ Typed /\ \A p \in Orders : OrderOK(p)
      /\ \A p \in Orders : Stays(p) /\ OwnMove(p) /\ EarlyKept(p)
      /\ \A p \in Orders \ {o} : RowsKept(p)
  BY <1>1, UnchangedStays DEF IInv, Typed, RowsKept, OwnMove, EarlyKept
<1>3. ASSUME o \in InventoryOrders, ProductReserves(o, n) \/ ProductReleases(o, n)
      PROVE  IInv'
  <2>1. UNCHANGED <<payment, paymentOutbox, outcome, intent, hook>>
    BY <1>3 DEF ProductReserves, ProductReleases, paymentVars
  <2>2. PaymentTypes' /\ \A p \in Orders : PaymentKept(p)
    BY <2>1 DEF IInv, PaymentTypes, PaymentKept
  <2>3. /\ StockTypes'
        /\ \A p \in InventoryOrders \ {o} : StockKept(p)
        /\ \/ /\ outbox[o][n] = Reserving
              /\ \/ answers'[o] = <<Success>> /\ ledger'[o] = "reserved"
                 \/ answers'[o] = <<Failure>> /\ ledger'[o] = "none"
           \/ /\ outbox[o][n] = Releasing
              /\ answers'[o] = answers[o]
              /\ \/ ledger[o] = "reserved" /\ ledger'[o] = "released"
                 \/ ledger[o] # "reserved" /\ ledger'[o] = ledger[o]
    <3>1. CASE ProductReserves(o, n)
      <4>1. outbox[o][n] = Reserving /\ Inv!Reserve(o)
        BY <3>1 DEF ProductReserves, OrderRow, Reserving
      <4>2. ledger[o] = "none" /\ answers[o] = <<>>
        <5>1. RowOK(o) /\ StockOK(o)
          BY <1>2, <1>3 DEF OrderOK
        <5>2. n = 2
          BY <1>1, <4>1, <5>1 DEF RowOK
        <5> QED BY <1>1, <5>1, <5>2 DEF StockOK
      <4> QED BY <1>3, <4>1, <4>2, ReserveMoves DEF IInv
    <3>2. CASE ProductReleases(o, n)
      <4>1. /\ outbox[o][n] = Releasing
            /\ Inv!Release(o) \/ (ledger[o] # "reserved" /\ UNCHANGED <<ledger, answers>>)
        BY <3>2 DEF ProductReleases, OrderRow, Releasing, inventoryVars
      <4>2. \/ /\ ledger[o] = "reserved" /\ ledger' = [ledger EXCEPT ![o] = "released"]
               /\ answers' = answers
            \/ ledger[o] # "reserved" /\ UNCHANGED <<ledger, answers>>
        BY <4>1 DEF Inv!Release
      <4> QED BY <1>3, <4>1, <4>2 DEF IInv, StockTypes, StockKept
    <3> QED BY <1>3, <3>1, <3>2
  <2>4. Typed'
    BY <1>2, <2>2, <2>3 DEF Typed
  <2>5. OrderOK(o)'
    BY <1>1, <1>2, <1>3, <2>2, <2>3, <2>4, ServedStep
  <2>6. \A p \in Orders \ {o} : OrderOK(p)'
    BY <1>1, <1>2, <2>2, <2>3, <2>4, OwnStep
  <2> QED BY <2>4, <2>5, <2>6 DEF IInv, Typed
<1>4. ASSUME PaymentTakesCancel(o, n)
      PROVE  IInv'
  <2>1. /\ UNCHANGED <<ledger, answers>> /\ outbox[o][n] # Releasing
        /\ UNCHANGED <<payment, paymentOutbox, outcome, intent, hook>>
    BY <1>4 DEF PaymentTakesCancel, inventoryVars, OrderRow, Releasing, Pay!OrderCancelled,
       Pay!rowVars, Pay!stripeVars
  <2>2. /\ PaymentTypes' /\ StockTypes'
        /\ \A p \in Orders : PaymentKept(p) /\ StockKept(p)
    BY <2>1 DEF IInv, PaymentTypes, StockTypes, PaymentKept, StockKept
  <2>3. Typed'
    BY <1>2, <2>2 DEF Typed
  <2>4. OrderOK(o)'
    BY <1>1, <1>2, <2>1, <2>2, <2>3, CancelTakenStep
  <2>5. \A p \in Orders \ {o} : OrderOK(p)'
    BY <1>1, <1>2, <2>2, <2>3, OwnStep
  <2> QED BY <2>3, <2>4, <2>5 DEF IInv, Typed
<1> QED BY <1>3, <1>4

\* Deliveries to the order service.
LEMMA AnswerKeeps ==
  ASSUME IInv, NEW o \in Orders, NEW n \in Nat,
         \/ o \in InventoryOrders /\ OrderTakesReply(o, n)
         \/ OrderTakesPayment(o, n)
  PROVE  IInv'
<1>1. /\ UNCHANGED <<ledger, answers, lost>>
      /\ UNCHANGED <<payment, paymentOutbox, outcome, intent, hook>>
      /\ \A p \in Orders : EarlyKept(p)
  BY DEF OrderTakesReply, OrderTakesPayment, inventoryVars, paymentVars, Done, EarlyKept
<1>2. /\ PaymentTypes' /\ StockTypes' /\ lost' \in Nat
      /\ \A p \in Orders : PaymentKept(p) /\ StockKept(p)
      /\ Typed /\ \A p \in Orders : OrderOK(p)
  BY <1>1 DEF IInv, PaymentTypes, StockTypes, PaymentKept, StockKept, Typed
<1>3. ASSUME o \in InventoryOrders, OrderTakesReply(o, n)
      PROVE  IInv'
  <2>1. /\ OrderTakes(o, answers[o][n]) /\ n \in 1..Len(answers[o])
        /\ handled' = handled \/ handled' = handled \cup {<<"inventory", o, n>>}
    BY <1>3 DEF OrderTakesReply, Due
  <2>2. answers[o][n] \in {Success, Failure}
    <3>1. answers[o] \in Seq(Inv!Reply)
      BY <1>3 DEF IInv, StockTypes
    <3> QED BY <2>1, <3>1 DEF Inv!Reply, Success, Failure
  <2>3. /\ OrderTypes'
        /\ \A p \in Orders \ {o} : OwnMove(p)
        /\ \/ ~Ord!Exists(o) /\ Stays(o)
           \/ answers[o][n] = Success /\ Held(o)
           \/ answers[o][n] = Failure /\ Refused(o)
    BY <2>1, <2>2, TakesMoves DEF IInv, OwnMove, Success, Failure
  <2>4. Typed'
    BY <1>2, <2>3 DEF Typed
  <2>5. OrderOK(o)'
    BY <1>1, <1>2, <1>3, <2>1, <2>3, <2>4, ReplyStep
  <2>6. \A p \in Orders \ {o} : RowsKept(p)
    BY <2>1 DEF RowsKept
  <2>7. \A p \in Orders \ {o} : OrderOK(p)'
    BY <1>1, <1>2, <2>3, <2>4, <2>6, OwnStep
  <2> QED BY <2>4, <2>5, <2>7 DEF IInv, Typed
<1>4. ASSUME OrderTakesPayment(o, n)
      PROVE  IInv'
  <2>1. /\ OrderTakes(o, paymentOutbox[o][n]) /\ n \in 1..Len(paymentOutbox[o])
        /\ handled' = handled \cup {<<"payment", o, n>>}
        /\ orderStatus[o] = "absent" /\ paymentOutbox[o][n] = "payment.succeeded" => o \in early'
    BY <1>4 DEF OrderTakesPayment, Due, Done
  <2>2. paymentOutbox[o][n] \in Pay!PaymentEvent
    <3>1. paymentOutbox[o] \in Seq(Pay!PaymentEvent)
      BY DEF IInv, PaymentTypes
    <3> QED BY <2>1, <3>1
  <2>3. /\ OrderTypes'
        /\ \A p \in Orders \ {o} : OwnMove(p)
        /\ \/ ~Ord!Exists(o) /\ Stays(o)
           \/ /\ paymentOutbox[o][n] = "payment.succeeded"
              /\ \/ orderStatus[o] = "CANCELLED" /\ Stays(o)
                 \/ Cancelled(o) \/ Paid(o)
           \/ paymentOutbox[o][n] # "payment.succeeded" /\ (OwnMove(o) \/ Noted(o))
    BY <2>1, <2>2, TakesMoves DEF IInv, OwnMove, Success, Failure, Pay!PaymentEvent
  <2>4. Typed'
    BY <1>2, <2>3 DEF Typed
  <2>5. OrderOK(o)'
    BY <1>1, <1>2, <2>1, <2>3, <2>4, PaymentTakenStep
  <2>6. \A p \in Orders \ {o} : RowsKept(p)
    BY <2>1 DEF RowsKept
  <2>7. \A p \in Orders \ {o} : OrderOK(p)'
    BY <1>1, <1>2, <2>3, <2>4, <2>6, OwnStep
  <2> QED BY <2>4, <2>5, <2>7 DEF IInv, Typed
<1> QED BY <1>3, <1>4

\* Nothing has happened to any order yet.
LEMMA Start == Init => IInv
<1> SUFFICES ASSUME Init
             PROVE  IInv
  OBVIOUS
<1>1. /\ OrderTypes
      /\ \A o \in Orders : /\ orderStatus[o] = "absent" /\ paymentStatus[o] = "pending"
                           /\ outbox[o] = <<>>
                           /\ inventoryStatus[o] \in {"pending", "not_required"}
                           /\ o \in InventoryOrders => inventoryStatus[o] = "pending"
  <2>1. <<>> \in Seq(Ord!OutboxEvent)
    OBVIOUS
  <2> QED BY <2>1 DEF Init, Ord!Init, Ord!InitialInventory, Ord!OrderStatus, OrderTypes
<1>2. /\ StockTypes
      /\ \A o \in InventoryOrders : ledger[o] = "none" /\ answers[o] = <<>>
  <2>1. <<>> \in Seq(Inv!Reply)
    OBVIOUS
  <2> QED BY <2>1 DEF Init, Inv!Init, StockTypes
<1>3. /\ PaymentTypes
      /\ \A o \in Orders : /\ payment[o] = "none" /\ paymentOutbox[o] = <<>>
                           /\ hook[o][PaidHook] = "unsent"
  <2>1. <<>> \in Seq(Pay!PaymentEvent) /\ PaidHook \in Pay!HookIds
    BY DEF PaidHook, Pay!HookIds
  <2> QED BY <2>1 DEF Init, Pay!Init, Pay!Status, Pay!HookState, PaymentTypes
<1>4. handled = {} /\ lost = 0 /\ Len(<<>>) = 0
  BY DEF Init
<1>5. ASSUME NEW o \in Orders
      PROVE  OrderOK(o)
  <2>1. o \notin Asked
    BY <1>1, <1>4 DEF Asked
  <2>2. RowOK(o) /\ HandledOK(o) /\ MoneyOK(o) /\ PaidOK(o)
    BY <1>1, <1>3, <1>4, <2>1 DEF RowOK, HandledOK, MoneyOK, PaidOK
  <2>3. ASSUME o \in InventoryOrders
        PROVE  StockOK(o) /\ FlowOK(o)
    <3>1. <<>> # <<Success>>
      BY DEF Success
    <3> QED BY <1>1, <1>2, <1>4, <2>1, <2>3, <3>1 DEF StockOK, FlowOK
  <2> QED BY <2>2, <2>3 DEF OrderOK
<1> QED BY <1>1, <1>2, <1>3, <1>4, <1>5 DEF IInv

\* One case per action of Next.
LEMMA Step == IInv /\ [Next]_vars => IInv'
<1> SUFFICES ASSUME IInv, [Next]_vars
             PROVE  IInv'
  OBVIOUS
<1>1. CASE OrderStep
  BY <1>1, OrderKeeps
<1>2. ASSUME NEW o \in Orders, PaymentStep(o)
      PROVE  IInv'
  BY <1>2, PaymentKeeps
<1>3. ASSUME NEW o \in Orders, LosePayment(o) \/ \E n \in 1..MaxRow : LoseDelivery(o, n)
      PROVE  IInv'
  BY <1>3, LossKeeps
<1>4. ASSUME NEW o \in Orders, NEW n \in 1..MaxRow, Deliver(o, n)
      PROVE  IInv'
  <2>1. n \in Nat
    OBVIOUS
  <2>2. CASE \/ o \in InventoryOrders /\ (ProductReserves(o, n) \/ ProductReleases(o, n))
             \/ PaymentTakesCancel(o, n)
    BY <2>1, <2>2, ServiceKeeps
  <2>3. CASE \/ o \in InventoryOrders /\ OrderTakesReply(o, n)
             \/ OrderTakesPayment(o, n)
    BY <2>1, <2>3, AnswerKeeps
  <2> QED BY <1>4, <2>2, <2>3 DEF Deliver
<1>5. CASE UNCHANGED vars
  <2>1. /\ UNCHANGED <<orderStatus, inventoryStatus, paymentStatus, outbox, ledger, answers>>
        /\ UNCHANGED <<payment, paymentOutbox, outcome, intent, hook, handled, early, lost>>
    BY <1>5 DEF vars, orderVars, inventoryVars, paymentVars, channelVars
  <2>2. OrderTypes' /\ StockTypes' /\ PaymentTypes' /\ lost' \in Nat
    BY <2>1 DEF IInv, OrderTypes, StockTypes, PaymentTypes
  <2>3. \A o \in Orders : /\ OwnMove(o) /\ StockKept(o) /\ PaymentKept(o)
                         /\ RowsKept(o) /\ EarlyKept(o)
    BY <2>1 DEF OwnMove, Stays, StockKept, PaymentKept, RowsKept, EarlyKept
  <2>4. \A o \in Orders : OrderOK(o)'
    BY <2>1, <2>2, <2>3, OwnStep DEF IInv, Typed
  <2> QED BY <2>2, <2>4 DEF IInv
<1> QED BY <1>1, <1>2, <1>3, <1>4, <1>5 DEF Next

\* Nothing in flight and nothing lost: the saga of an order whose stock is held
\* knows of it, or has asked for its release.
LEMMA HeldIsKnown ==
  ASSUME NEW o \in InventoryOrders, StockOK(o), FlowOK(o), Quiet(o), lost = 0,
         ledger[o] = "reserved", Ord!Exists(o)
  PROVE  inventoryStatus[o] = "reserved" \/ o \in Asked
<1>1. answers[o] = <<Success>>
  BY DEF StockOK
<1>2. 1 \in 1..Len(answers[o])
  BY <1>1
<1>3. <<"inventory", o, 1>> \in handled
  BY <1>2 DEF Quiet
<1> QED BY <1>3 DEF FlowOK

-----------------------------------------------------------------------------
(* Theorems.                                                                *)

\* The inductive invariant holds in every reachable state.
THEOREM Inductive == Spec => []IInv
<1> QED BY Start, Step, PTL DEF Spec

\* _confirm_if_ready across the services: a confirmed order was charged at
\* Stripe and its stock is held in the ledger, whatever was lost or repeated.
THEOREM ConfirmedOrdersAreBacked == Spec => []ConfirmedIsBacked
<1>1. IInv => ConfirmedIsBacked
  <2> SUFFICES ASSUME IInv, NEW o \in Orders, orderStatus[o] = "CONFIRMED"
               PROVE  intent[o] = "succeeded" /\ (o \in InventoryOrders => ledger[o] = "reserved")
    BY DEF ConfirmedIsBacked
  <2>1. RowOK(o) /\ MoneyOK(o) /\ (o \in InventoryOrders => StockOK(o))
    BY DEF IInv, OrderOK
  <2>2. intent[o] = "succeeded"
    BY <2>1 DEF RowOK, MoneyOK
  <2>3. ASSUME o \in InventoryOrders
        PROVE  ledger[o] = "reserved"
    <3>1. inventoryStatus[o] = "reserved" /\ o \notin Asked
      BY <2>1, <2>3 DEF RowOK, StockOK
    <3>2. answers[o] = <<Success>> /\ <<Success>> # <<>> /\ <<Success>> # <<Failure>>
      BY <2>1, <2>3, <3>1 DEF StockOK, Success, Failure
    <3> QED BY <2>1, <2>3, <3>1, <3>2 DEF StockOK
  <2> QED BY <2>2, <2>3
<1> QED BY <1>1, Inductive, PTL

\* Compensation across the services: once nothing is in flight and nothing was
\* lost, a cancelled order holds no stock.
THEOREM CancelledOrdersFreeStock == Spec => []CancelledFreesStock
<1>1. IInv => CancelledFreesStock
  <2> SUFFICES ASSUME IInv, NEW o \in InventoryOrders, Quiet(o), lost = 0,
                      orderStatus[o] = "CANCELLED", ledger[o] = "reserved"
               PROVE  FALSE
    BY DEF CancelledFreesStock
  <2>1. o \in Orders
    BY CheckoutAssumption DEF CheckoutAssumption
  <2>2. RowOK(o) /\ StockOK(o) /\ FlowOK(o)
    BY <2>1 DEF IInv, OrderOK
  <2>3. inventoryStatus[o] = "reserved" \/ o \in Asked
    BY <2>2, HeldIsKnown DEF Ord!Exists, Ord!OrderStatus
  <2>4. o \in Asked
    BY <2>2, <2>3 DEF RowOK
  <2>5. PICK n \in 1..Len(outbox[o]) : outbox[o][n] = Releasing
    BY <2>4 DEF Asked, Releasing
  <2>6. <<"order", o, n>> \in handled
    BY <2>5 DEF Quiet, Consumed, Releasing
  <2> QED BY <2>2, <2>5, <2>6 DEF FlowOK
<1> QED BY <1>1, Inductive, PTL

\* The last of the two answers an order waits for decides it: paid and held,
\* with nothing in flight or lost, it is not left pending, unless it was charged
\* before it was posted.
THEOREM PaidAndHeldOrdersAreDecided == Spec => []PaidAndHeldIsDecided
<1>1. IInv => PaidAndHeldIsDecided
  <2> SUFFICES ASSUME IInv, NEW o \in InventoryOrders \ early, Quiet(o), lost = 0,
                      payment[o] = "SUCCEEDED", ledger[o] = "reserved",
                      orderStatus[o] = "PENDING"
               PROVE  FALSE
    BY DEF PaidAndHeldIsDecided
  <2>1. o \in Orders
    BY CheckoutAssumption DEF CheckoutAssumption
  <2>2. RowOK(o) /\ StockOK(o) /\ FlowOK(o) /\ MoneyOK(o) /\ PaidOK(o)
    BY <2>1 DEF IInv, OrderOK
  <2>3. inventoryStatus[o] = "reserved" \/ o \in Asked
    BY <2>2, HeldIsKnown DEF Ord!Exists, Ord!OrderStatus
  <2>4. inventoryStatus[o] = "reserved"
    BY <2>2, <2>3 DEF RowOK
  <2>5. PICK n \in 1..Len(paymentOutbox[o]) : paymentOutbox[o][n] = "payment.succeeded"
    BY <2>2 DEF MoneyOK
  <2>6. <<"payment", o, n>> \in handled
    BY <2>5 DEF Quiet
  <2>7. paymentStatus[o] = "succeeded"
    BY <2>2, <2>5, <2>6 DEF PaidOK
  <2> QED BY <2>2, <2>4, <2>7 DEF RowOK
<1> QED BY <1>1, Inductive, PTL

-----------------------------------------------------------------------------
(* The services on their own.  Each service's variables follow that        *)
(* service's own specification, so what is proved of it against an open    *)
(* environment is true of it in the checkout.                              *)

\* Every step moves each order as the order service moves orders.
LEMMA EveryMove ==
  ASSUME IInv, [Next]_vars
  PROVE  OrderTypes' /\ \A o \in Orders : OrderMove(o)
<1>1. OrderTypes
  BY DEF IInv
<1>2. CASE UNCHANGED <<orderStatus, inventoryStatus, paymentStatus, outbox>>
  BY <1>1, <1>2, UnchangedStays DEF OrderMove, OwnMove
<1>3. CASE OrderStep
  BY <1>1, <1>3, OrderStepMoves DEF OrderMove, OwnMove
<1>4. ASSUME NEW o \in Orders, NEW answer, OrderTakes(o, answer)
      PROVE  OrderTypes' /\ \A p \in Orders : OrderMove(p)
  BY <1>1, <1>4, TakesMoves DEF OrderMove, OwnMove
<1>5. ASSUME NEW o \in Orders, NEW n \in 1..MaxRow, Deliver(o, n)
      PROVE  \/ UNCHANGED <<orderStatus, inventoryStatus, paymentStatus, outbox>>
             \/ \E answer : OrderTakes(o, answer)
  BY <1>5 DEF Deliver, ProductReserves, ProductReleases, PaymentTakesCancel,
     OrderTakesReply, OrderTakesPayment, orderVars
<1>6. ASSUME NEW o \in Orders,
             \/ PaymentStep(o) \/ LosePayment(o)
             \/ \E n \in 1..MaxRow : LoseDelivery(o, n)
      PROVE  UNCHANGED <<orderStatus, inventoryStatus, paymentStatus, outbox>>
  BY <1>6 DEF PaymentStep, LosePayment, LoseDelivery, orderVars
<1>7. CASE UNCHANGED vars
  BY <1>2, <1>7 DEF vars, orderVars
<1> QED BY <1>2, <1>3, <1>4, <1>5, <1>6, <1>7 DEF Next

\* Only an order with stock asks for a release.
AskedHeld == Asked \subseteq InventoryOrders

\* What was asked stays asked, and a new request is for stock that the product
\* service had said it holds.
LEMMA AskedStep ==
  ASSUME IInv, AskedHeld, [Next]_vars
  PROVE  Asked \subseteq Asked' /\ AskedHeld'
<1>1. OrderTypes /\ OrderTypes' /\ \A o \in Orders : OrderMove(o) /\ RowOK(o)
  BY EveryMove DEF IInv, OrderOK
<1>2. ASSUME NEW o \in Orders
      PROVE  /\ o \in Asked => (o \in Asked)'
             /\ (o \in Asked)' => o \in InventoryOrders
  <2>1. o \in Asked => o \in InventoryOrders
    BY DEF AskedHeld
  <2>2. Held(o) => Stays(o) \/ ~Stays(o)
    OBVIOUS
  <2> QED BY <1>1, <2>1, <2>2, MoveAsks DEF OrderMove, OwnMove
<1>3. Asked \subseteq Orders /\ Asked' \subseteq Orders
  BY DEF Asked
<1> QED BY <1>2, <1>3 DEF AskedHeld

\* The checkout delivers to the order service what its own specification says
\* it may be told, and lets it do nothing else.
THEOREM OrderServiceRuns == Spec => Ord!Spec
<1>1. Init => Ord!Init
  BY DEF Init
<1>2. ASSUME IInv, [Next]_vars
      PROVE  [Ord!Next]_(Ord!vars)
  <2>1. CASE UNCHANGED orderVars
    BY <2>1 DEF orderVars, Ord!vars, Ord!sagaVars
  <2>2. CASE OrderStep
    <3>1. CASE \E o \in Orders : Ord!CreateOrder(o, NoIntent) \/ Ord!CreateOrder(o, IntentOf[o])
      BY <3>1, CheckoutAssumption DEF CheckoutAssumption, Ord!Next, Ord!Request
    <3>2. CASE \E o \in Orders : Ord!CancelOrder(o) \/ Ord!DeleteOrder(o)
      BY <3>2 DEF Ord!Next, Ord!Request
    <3>3. CASE \E o \in Orders : Ord!TimeoutElapses(o) \/ Ord!RecordFulfillmentFailed(o)
      BY <3>3 DEF Ord!Next, Ord!Answer
    <3>4. CASE Ord!ExpireOnce
      BY <3>4 DEF Ord!Next
    <3> QED BY <2>2, <3>1, <3>2, <3>3, <3>4 DEF OrderStep
  <2>3. ASSUME NEW o \in Orders, NEW answer, OrderTakes(o, answer),
               answer \in {Success, Failure} => o \in InventoryOrders
        PROVE  [Ord!Next]_(Ord!vars)
    <3>1. CASE Ord!RecordInventorySucceeded(o) /\ o \in InventoryOrders
      BY <3>1 DEF Ord!Next, Ord!Answer
    <3>2. CASE Ord!RecordInventoryFailed(o) /\ o \in InventoryOrders
      BY <3>2 DEF Ord!Next, Ord!Answer
    <3>3. CASE Ord!RecordPaymentSucceeded(o, IntentOf[o], o \in honest)
      <4>1. IntentOf[o] \in Intents /\ (o \in honest) \in BOOLEAN
        BY CheckoutAssumption DEF CheckoutAssumption
      <4>2. Ord!Answer(o)
        BY <3>3, <4>1 DEF Ord!Answer
      <4> QED BY <4>2 DEF Ord!Next
    <3>4. CASE Ord!RecordPaymentFailed(o)
      BY <3>4 DEF Ord!Next, Ord!Answer
    <3> QED BY <2>1, <2>3, <3>1, <3>2, <3>3, <3>4 DEF OrderTakes, Success, Failure
  <2>4. ASSUME NEW o \in Orders, NEW n \in 1..MaxRow, Deliver(o, n)
        PROVE  [Ord!Next]_(Ord!vars)
    <3>1. CASE o \in InventoryOrders /\ OrderTakesReply(o, n)
      BY <2>3, <3>1 DEF OrderTakesReply
    <3>2. CASE OrderTakesPayment(o, n)
      <4>1. /\ n \in 1..Len(paymentOutbox[o]) /\ OrderTakes(o, paymentOutbox[o][n])
            /\ paymentOutbox[o] \in Seq(Pay!PaymentEvent)
        BY <1>2, <3>2 DEF OrderTakesPayment, Due, IInv, PaymentTypes
      <4>2. paymentOutbox[o][n] \notin {Success, Failure}
        <5>1. paymentOutbox[o][n] \in Pay!PaymentEvent
          BY <4>1
        <5> QED BY <5>1 DEF Pay!PaymentEvent, Success, Failure
      <4> QED BY <2>3, <4>1, <4>2
    <3> QED BY <2>1, <2>4, <3>1, <3>2
        DEF Deliver, ProductReserves, ProductReleases, PaymentTakesCancel
  <2>5. ASSUME NEW o \in Orders,
               \/ PaymentStep(o) \/ LosePayment(o)
               \/ \E n \in 1..MaxRow : LoseDelivery(o, n)
        PROVE  UNCHANGED orderVars
    BY <2>5 DEF PaymentStep, LosePayment, LoseDelivery
  <2>6. CASE UNCHANGED vars
    BY <2>1, <2>6 DEF vars
  <2> QED BY <1>2, <2>1, <2>2, <2>4, <2>5, <2>6 DEF Next
<1>3. IInv /\ [Next]_vars => [Ord!Next]_(Ord!vars)
  BY <1>2
<1> QED BY <1>1, <1>3, Inductive, PTL DEF Spec, Ord!Spec

\* The payment service, Stripe and the customer act as Payment lets them.
THEOREM PaymentServiceRuns == Spec => Pay!Spec
<1>1. Init => Pay!Init
  BY DEF Init
<1>2. ASSUME [Next]_vars
      PROVE  [Pay!Next]_(Pay!vars)
  <2>1. CASE UNCHANGED paymentVars
    BY <2>1 DEF paymentVars, Pay!vars, Pay!rowVars, Pay!consumerVars, Pay!stripeVars
  <2>2. ASSUME NEW o \in Orders, PaymentStep(o)
        PROVE  Pay!Next
    BY <2>2 DEF PaymentStep, Pay!Next, Pay!Webhook, Pay!Settle
  <2>3. ASSUME NEW o \in Orders, LosePayment(o)
        PROVE  Pay!Next
    BY <2>3 DEF LosePayment, Pay!Next, Pay!Webhook, Pay!Settle
  <2>4. ASSUME NEW o \in Orders, NEW n, PaymentTakesCancel(o, n)
        PROVE  Pay!Next
    BY <2>4 DEF PaymentTakesCancel, Pay!Next, Pay!Settle
  <2>5. ASSUME NEW o \in Orders, NEW n \in 1..MaxRow, Deliver(o, n) \/ LoseDelivery(o, n)
        PROVE  UNCHANGED paymentVars \/ PaymentTakesCancel(o, n)
    BY <2>5 DEF Deliver, ProductReserves, ProductReleases, OrderTakesReply,
       OrderTakesPayment, LoseDelivery
  <2>6. CASE OrderStep
    BY <2>1, <2>6 DEF OrderStep
  <2>7. CASE UNCHANGED vars
    BY <2>1, <2>7 DEF vars
  <2> QED BY <1>2, <2>1, <2>2, <2>3, <2>4, <2>5, <2>6, <2>7 DEF Next
<1>3. [Next]_vars => [Pay!Next]_(Pay!vars)
  BY <1>2
<1> QED BY <1>1, <1>3, PTL DEF Spec, Pay!Spec

\* The product service is asked to release only what it said it holds, one
\* order at a time or a whole batch of the timeout worker: it behaves as
\* Inventory, whose results hold of it.
THEOREM ProductServiceRuns == Spec => ImplementsInventory
<1>1. Init => Inv!Init /\ AskedHeld
  <2> SUFFICES ASSUME Init
               PROVE  Inv!Init /\ AskedHeld
    OBVIOUS
  <2>1. Asked = {}
    BY DEF Init, Inv!Init
  <2> QED BY <2>1 DEF Init, AskedHeld
<1>2. ASSUME IInv, IInv', AskedHeld, [Next]_vars
      PROVE  [Inv!Next]_(Inv!vars)
  <2>1. CASE UNCHANGED inventoryVars
    <3> DEFINE new == Asked' \ Asked
    <3>1. Asked' = Asked \cup new /\ new \subseteq InventoryOrders
      BY <1>2, AskedStep DEF AskedHeld
    <3>2. ASSUME NEW o \in new
          PROVE  \E n \in 1..Len(answers[o]) : answers[o][n] = "inventory.reserve.succeeded"
      <4>1. o \in InventoryOrders /\ (o \in Asked)' /\ StockOK(o)'
        <5>1. o \in InventoryOrders /\ o \in Orders
          BY <3>1, CheckoutAssumption DEF CheckoutAssumption
        <5> QED BY <1>2, <5>1 DEF IInv, OrderOK
      <4>2. answers'[o] = <<Success>>
        BY <4>1 DEF StockOK
      <4>3. answers[o] = <<Success>>
        BY <2>1, <4>2 DEF inventoryVars
      <4>4. 1 \in 1..Len(answers[o]) /\ answers[o][1] = "inventory.reserve.succeeded"
        BY <4>3 DEF Success
      <4> QED BY <4>4
    <3>3. CASE new = {}
      BY <2>1, <3>1, <3>3 DEF inventoryVars, Inv!vars, Inv!stockVars
    <3>4. CASE new # {}
      <4>1. new \in SUBSET InventoryOrders /\ \A o \in new : o \notin Asked
        BY <3>1
      <4>2. UNCHANGED <<Inv!stockVars, ledger, answers, supply>>
        BY <2>1 DEF inventoryVars, Inv!stockVars
      <4> HIDE DEF new
      <4>3. Inv!RequestRelease(new)
        BY <3>1, <3>2, <3>4, <4>1, <4>2 DEF Inv!RequestRelease
      <4> QED BY <4>1, <4>3 DEF Inv!Next
    <3> QED BY <3>3, <3>4
  <2>2. ASSUME NEW o \in InventoryOrders, NEW n \in 1..MaxRow,
               ProductReserves(o, n) \/ ProductReleases(o, n)
        PROVE  UNCHANGED inventoryVars \/ Inv!Next
    BY <2>2 DEF ProductReserves, ProductReleases, Inv!Next
  <2>3. ASSUME NEW o \in Orders, NEW n \in 1..MaxRow, Deliver(o, n) \/ LoseDelivery(o, n)
        PROVE  UNCHANGED inventoryVars \/ Inv!Next
    BY <2>2, <2>3 DEF Deliver, PaymentTakesCancel, OrderTakesReply, OrderTakesPayment,
       LoseDelivery
  <2>4. ASSUME NEW o \in Orders, PaymentStep(o) \/ LosePayment(o)
        PROVE  UNCHANGED inventoryVars
    BY <2>4 DEF PaymentStep, LosePayment
  <2>5. CASE OrderStep
    BY <2>1, <2>5 DEF OrderStep
  <2>6. CASE UNCHANGED vars
    BY <2>1, <2>6 DEF vars
  <2> QED BY <1>2, <2>1, <2>3, <2>4, <2>5, <2>6 DEF Next
<1>3. IInv /\ (IInv)' /\ AskedHeld /\ [Next]_vars => [Inv!Next]_(Inv!vars)
  BY <1>2
<1>4. IInv /\ AskedHeld /\ [Next]_vars => AskedHeld'
  BY AskedStep
<1> QED BY <1>1, <1>3, <1>4, Inductive, PTL DEF Spec, ImplementsInventory, Inv!Spec

=============================================================================
