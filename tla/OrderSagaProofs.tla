--------------------------- MODULE OrderSagaProofs ---------------------------
(***************************************************************************)
(* Theorems about OrderSaga, for every set of orders and intents and every *)
(* batch limit.                                                            *)
(***************************************************************************)
EXTENDS OrderSaga, SequenceTheorems, TLAPS

\* Appending rows to an outbox keeps it a sequence of outbox events.
LEMMA ReleaseEventType ==
  ASSUME NEW o
  PROVE  ReleaseEvent(o) \in Seq(OutboxEvent)
<1>1. "inventory.release.requested" \in OutboxEvent
  BY DEF OutboxEvent
<1>2. <<"inventory.release.requested">> \in Seq(OutboxEvent)
  BY <1>1
<1>3. <<>> \in Seq(OutboxEvent)
  BY EmptySeq
<1> QED BY <1>2, <1>3 DEF ReleaseEvent

\* _cancel_locked leaves every column it writes in its type.
LEMMA CancelLockedType ==
  ASSUME TypeOK, NEW S \in SUBSET Orders, NEW inv \in [Orders -> InventoryStatus],
         NEW release \in BOOLEAN, CancelLocked(S, inv, release)
  PROVE  /\ orderStatus' \in [Orders -> OrderStatus \cup {"absent", "deleted"}]
         /\ inventoryStatus' \in [Orders -> InventoryStatus]
         /\ fulfillmentStatus' \in [Orders -> {"pending", "ready", "failed", "cancelled"}]
         /\ production' \in [Orders -> {"none", "queued", "cancelled"}]
         /\ outbox' \in [Orders -> Seq(OutboxEvent)]
<1> DEFINE held == {o \in S : release /\ inv[o] = "reserved"}
           row(o) == IF o \notin S THEN outbox[o]
                     ELSE Append(outbox[o], "order.cancelled")
                            \o (IF o \in held THEN ReleaseEvent(o) ELSE <<>>)
<1>1. orderStatus' \in [Orders -> OrderStatus \cup {"absent", "deleted"}]
  BY DEF CancelLocked, TypeOK, OrderStatus
<1>2. inventoryStatus' \in [Orders -> InventoryStatus]
  BY DEF CancelLocked, TypeOK, InventoryStatus
<1>3. /\ fulfillmentStatus' \in [Orders -> {"pending", "ready", "failed", "cancelled"}]
      /\ production' \in [Orders -> {"none", "queued", "cancelled"}]
  BY DEF CancelLocked, TypeOK
<1>4. outbox' \in [Orders -> Seq(OutboxEvent)]
  <2>1. ASSUME NEW o \in Orders PROVE row(o) \in Seq(OutboxEvent)
    <3>1. /\ outbox[o] \in Seq(OutboxEvent)
          /\ "order.cancelled" \in OutboxEvent
      BY DEF TypeOK, OutboxEvent
    <3>2. Append(outbox[o], "order.cancelled") \in Seq(OutboxEvent)
      BY <3>1
    <3>3. QED BY <3>1, <3>2, ReleaseEventType
  <2>2. outbox' = [o \in Orders |-> row(o)]
    BY DEF CancelLocked
  <2> QED BY <2>1, <2>2
<1> QED BY <1>1, <1>2, <1>3, <1>4

\* So does _confirm_if_ready.
LEMMA ConfirmIfReadyType ==
  ASSUME TypeOK, NEW o \in Orders, NEW inv, NEW pay, ConfirmIfReady(o, inv, pay)
  PROVE  /\ orderStatus' \in [Orders -> OrderStatus \cup {"absent", "deleted"}]
         /\ fulfillmentStatus' \in [Orders -> {"pending", "ready", "failed", "cancelled"}]
         /\ production' \in [Orders -> {"none", "queued", "cancelled"}]
         /\ outbox' \in [Orders -> Seq(OutboxEvent)]
<1>1. CASE UNCHANGED <<orderStatus, fulfillmentStatus, production, outbox>>
  BY <1>1 DEF TypeOK
<1>2. CASE Ready(o, inv, pay)
  <2>1. /\ outbox[o] \in Seq(OutboxEvent)
        /\ "order.confirmed" \in OutboxEvent
    BY DEF TypeOK, OutboxEvent
  <2>2. Append(outbox[o], "order.confirmed") \in Seq(OutboxEvent)
    BY <2>1
  <2>3. outbox' \in [Orders -> Seq(OutboxEvent)]
    BY <1>2, <2>2 DEF ConfirmIfReady, TypeOK
  <2> QED BY <1>2, <2>3 DEF ConfirmIfReady, TypeOK, OrderStatus
<1> QED BY <1>1, <1>2 DEF ConfirmIfReady

\* Every column keeps its type.
THEOREM TypeCorrect == Spec => []TypeOK
<1>1. Init => TypeOK
  BY OrderAssumption
     DEF Init, TypeOK, InitialInventory, InventoryStatus, DeliveryStatus, OrderStatus
<1>2. TypeOK /\ [Next]_vars => TypeOK'
  <2> SUFFICES ASSUME TypeOK, [Next]_vars
               PROVE  TypeOK'
    OBVIOUS
  <2> USE DEF sagaVars
  <2>1. ASSUME NEW o \in Orders, NEW i \in Intents \cup {NoIntent}, CreateOrder(o, i)
        PROVE  TypeOK'
    <3>1. <<"order.created">> \o
            (IF o \in InventoryOrders THEN <<"inventory.reserve.requested">> ELSE <<>>)
            \in Seq(OutboxEvent)
      <4>1. /\ "order.created" \in OutboxEvent
            /\ "inventory.reserve.requested" \in OutboxEvent
        BY DEF OutboxEvent
      <4>2. /\ <<"order.created">> \in Seq(OutboxEvent)
            /\ <<"inventory.reserve.requested">> \in Seq(OutboxEvent)
            /\ <<>> \in Seq(OutboxEvent)
        BY <4>1
      <4> QED BY <4>2
    <3> QED BY <2>1, <3>1 DEF CreateOrder, TypeOK, OrderStatus
  <2>2. ASSUME NEW o \in Orders, CancelOrder(o)
        PROVE  TypeOK'
    <3>1. inventoryStatus \in [Orders -> InventoryStatus]
      BY DEF TypeOK
    <3>2. CancelLocked({o}, inventoryStatus, TRUE)
      BY <2>2 DEF CancelOrder
    <3> QED BY <2>2, <3>1, <3>2, CancelLockedType DEF CancelOrder, TypeOK
  <2>3. ASSUME NEW o \in Orders, NEW d \in DeliveryStatus, UpdateOrder(o, d)
        PROVE  TypeOK'
    BY <2>3 DEF UpdateOrder, TypeOK
  <2>4. ASSUME NEW o \in Orders, DeleteOrder(o)
        PROVE  TypeOK'
    BY <2>4 DEF DeleteOrder, TypeOK
  <2>5. ASSUME NEW o \in Orders, RecordInventorySucceeded(o)
        PROVE  TypeOK'
    <3>1. [inventoryStatus EXCEPT ![o] = "reserved"] \in [Orders -> InventoryStatus]
      BY DEF TypeOK, InventoryStatus
    <3>2. outbox[o] \o ReleaseEvent(o) \in Seq(OutboxEvent)
      BY ReleaseEventType DEF TypeOK
    <3>3. CASE orderStatus[o] = "CANCELLED"
      BY <2>5, <3>2, <3>3 DEF RecordInventorySucceeded, TypeOK, InventoryStatus
    <3>4. CASE orderStatus[o] # "CANCELLED"
      BY <2>5, <3>1, <3>4, ConfirmIfReadyType DEF RecordInventorySucceeded, TypeOK
    <3> QED BY <3>3, <3>4
  <2>6. ASSUME NEW o \in Orders, RecordInventoryFailed(o)
        PROVE  TypeOK'
    <3> DEFINE inv == [inventoryStatus EXCEPT ![o] = "failed"]
    <3>1. inv \in [Orders -> InventoryStatus]
      BY DEF TypeOK, InventoryStatus
    <3>2. CASE orderStatus[o] = "CANCELLED"
      BY <2>6, <3>1, <3>2 DEF RecordInventoryFailed, TypeOK
    <3>3. CASE orderStatus[o] # "CANCELLED"
      <4>1. CancelLocked({o}, inv, FALSE)
        BY <2>6, <3>3 DEF RecordInventoryFailed
      <4> HIDE DEF inv
      <4> QED BY <2>6, <3>1, <4>1, CancelLockedType DEF RecordInventoryFailed, TypeOK
    <3> QED BY <3>2, <3>3
  <2>7. ASSUME NEW o \in Orders, NEW i \in Intents, NEW matches \in BOOLEAN,
               RecordPaymentSucceeded(o, i, matches)
        PROVE  TypeOK'
    <3>1. inventoryStatus \in [Orders -> InventoryStatus]
      BY DEF TypeOK
    <3>2. CASE UNCHANGED <<orderStatus, intentOf, sagaVars, production, outbox>>
      BY <2>7, <3>2 DEF RecordPaymentSucceeded, TypeOK
    <3>3. CASE /\ CancelLocked({o}, inventoryStatus, TRUE)
               /\ UNCHANGED <<intentOf, paymentStatus>>
      BY <2>7, <3>1, <3>3, CancelLockedType DEF RecordPaymentSucceeded, TypeOK
    <3>4. CASE /\ intentOf' = [intentOf EXCEPT ![o] = i]
               /\ paymentStatus' = [paymentStatus EXCEPT ![o] = "succeeded"]
               /\ ConfirmIfReady(o, inventoryStatus[o], "succeeded")
               /\ UNCHANGED inventoryStatus
      BY <2>7, <3>4, ConfirmIfReadyType DEF RecordPaymentSucceeded, TypeOK
    <3> QED BY <2>7, <3>2, <3>3, <3>4 DEF RecordPaymentSucceeded
  <2>8. ASSUME NEW o \in Orders, RecordPaymentFailed(o)
        PROVE  TypeOK'
    <3>1. inventoryStatus \in [Orders -> InventoryStatus]
      BY DEF TypeOK
    <3> QED BY <2>8, <3>1, CancelLockedType DEF RecordPaymentFailed, TypeOK
  <2>9. ASSUME NEW o \in Orders, RecordFulfillmentFailed(o)
        PROVE  TypeOK'
    <3>1. inventoryStatus \in [Orders -> InventoryStatus]
      BY DEF TypeOK
    <3> QED BY <2>9, <3>1, CancelLockedType DEF RecordFulfillmentFailed, TypeOK
  <2>10. ASSUME NEW o \in Orders, TimeoutElapses(o)
         PROVE  TypeOK'
    BY <2>10 DEF TimeoutElapses, TypeOK
  <2>11. CASE ExpireOnce
    <3>1. PICK batch \in SUBSET Orders :
            /\ CancelLocked(batch, inventoryStatus, TRUE)
            /\ UNCHANGED <<deliveryStatus, intentOf, paymentStatus, expired>>
      BY <2>11 DEF ExpireOnce, TypeOK
    <3>2. inventoryStatus \in [Orders -> InventoryStatus]
      BY DEF TypeOK
    <3> QED BY <3>1, <3>2, CancelLockedType DEF TypeOK
  <2>12. CASE UNCHANGED vars
    BY <2>12 DEF vars, TypeOK
  <2> QED
    BY <2>1, <2>2, <2>3, <2>4, <2>5, <2>6, <2>7, <2>8, <2>9, <2>10, <2>11, <2>12
       DEF Next, Request, Answer
<1> QED BY <1>1, <1>2, PTL DEF Spec

-----------------------------------------------------------------------------
(* The inductive invariant: what one order's rows and outbox say together.  *)

Has(s, e) == \E n \in 1..Len(s) : s[n] = e

Ordered(s) ==
  /\ \A m, n \in 1..Len(s) :
       m < n /\ s[m] \in Decision /\ s[n] \in Decision
         => s[m] = "order.confirmed" /\ s[n] = "order.cancelled"
  /\ \A n \in 1..Len(s) : s[n] = "inventory.release.requested" =>
       \E m \in 1..(n - 1) : s[m] = "order.cancelled"

RowInv(o) ==
  /\ o \notin InventoryOrders => inventoryStatus[o] = "not_required"
  /\ Ordered(outbox[o])
  /\ orderStatus[o] = "absent" => outbox[o] = <<>>
  /\ orderStatus[o] \in {"absent", "PENDING"} => production[o] = "none"
  /\ orderStatus[o] = "PENDING" =>
       ~Has(outbox[o], "order.confirmed") /\ ~Has(outbox[o], "order.cancelled")
  /\ orderStatus[o] = "CONFIRMED" =>
       /\ Has(outbox[o], "order.confirmed") /\ ~Has(outbox[o], "order.cancelled")
       /\ paymentStatus[o] = "succeeded"
       /\ inventoryStatus[o] \in {"reserved", "not_required"}
       /\ fulfillmentStatus[o] = "ready"
       /\ o \in CustomOrders => production[o] = "queued"
  /\ orderStatus[o] = "CANCELLED" =>
       /\ Has(outbox[o], "order.cancelled")
       /\ inventoryStatus[o] # "reserved" /\ production[o] # "queued"
  /\ inventoryStatus[o] = "release_requested" =>
       Has(outbox[o], "inventory.release.requested")

IInv == TypeOK /\ \A o \in Orders : RowInv(o)

\* A row appended to an outbox keeps what was there and is itself there.
LEMMA HasAppend ==
  ASSUME NEW s \in Seq(OutboxEvent), NEW e \in OutboxEvent, NEW f \in OutboxEvent
  PROVE  Has(Append(s, e), f) <=> Has(s, f) \/ e = f
<1> DEFINE t == Append(s, e)
<1>1. /\ Len(s) \in Nat
      /\ Len(t) = Len(s) + 1
      /\ t[Len(s) + 1] = e
      /\ \A n \in 1..Len(s) : t[n] = s[n]
  BY AppendProperties
<1> HIDE DEF t
<1>2. Has(t, f) => Has(s, f) \/ e = f
  BY <1>1 DEF Has
<1>3. Has(s, f) => Has(t, f)
  BY <1>1 DEF Has
<1>4. e = f => Has(t, f)
  BY <1>1 DEF Has
<1> QED BY <1>2, <1>3, <1>4 DEF t

\* A confirmation may be appended to an outbox without any decision.
LEMMA OrderedAppendConfirmed ==
  ASSUME NEW s \in Seq(OutboxEvent), Ordered(s),
         ~Has(s, "order.confirmed"), ~Has(s, "order.cancelled")
  PROVE  Ordered(Append(s, "order.confirmed"))
<1> DEFINE t == Append(s, "order.confirmed")
<1>1. /\ Len(s) \in Nat
      /\ Len(t) = Len(s) + 1
      /\ t[Len(s) + 1] = "order.confirmed"
      /\ \A n \in 1..Len(s) : t[n] = s[n]
  BY AppendProperties DEF OutboxEvent
<1> HIDE DEF t
<1> QED BY <1>1 DEF Ordered, Has, Decision, t

\* A cancellation may be appended to an outbox without a cancellation.
LEMMA OrderedAppendCancelled ==
  ASSUME NEW s \in Seq(OutboxEvent), Ordered(s), ~Has(s, "order.cancelled")
  PROVE  Ordered(Append(s, "order.cancelled"))
<1> DEFINE t == Append(s, "order.cancelled")
<1>1. /\ Len(s) \in Nat
      /\ Len(t) = Len(s) + 1
      /\ t[Len(s) + 1] = "order.cancelled"
      /\ \A n \in 1..Len(s) : t[n] = s[n]
  BY AppendProperties DEF OutboxEvent
<1> HIDE DEF t
<1> QED BY <1>1 DEF Ordered, Has, Decision, t

\* A release may be appended to an outbox with a cancellation.
LEMMA OrderedAppendRelease ==
  ASSUME NEW s \in Seq(OutboxEvent), Ordered(s), Has(s, "order.cancelled")
  PROVE  Ordered(Append(s, "inventory.release.requested"))
<1> DEFINE t == Append(s, "inventory.release.requested")
<1>1. /\ Len(s) \in Nat
      /\ Len(t) = Len(s) + 1
      /\ t[Len(s) + 1] = "inventory.release.requested"
      /\ \A n \in 1..Len(s) : t[n] = s[n]
  BY AppendProperties DEF OutboxEvent
<1> HIDE DEF t
<1> QED BY <1>1 DEF Ordered, Has, Decision, t

\* For an order with inventory, the release adds exactly one row.
LEMMA ReleaseAppends ==
  ASSUME NEW o \in InventoryOrders, NEW s \in Seq(OutboxEvent)
  PROVE  s \o ReleaseEvent(o) = Append(s, "inventory.release.requested")
BY AppendIsConcat DEF ReleaseEvent, OutboxEvent

\* An order none of whose columns changed keeps its invariant.
LEMMA RowUnchanged ==
  ASSUME NEW p \in Orders, RowInv(p),
         orderStatus'[p] = orderStatus[p], inventoryStatus'[p] = inventoryStatus[p],
         paymentStatus'[p] = paymentStatus[p],
         fulfillmentStatus'[p] = fulfillmentStatus[p],
         production'[p] = production[p], outbox'[p] = outbox[p]
  PROVE  RowInv(p)'
BY DEF RowInv

\* Cancelling live orders keeps the invariant of every order.
LEMMA CancelLockedRow ==
  ASSUME IInv, NEW S \in SUBSET Orders, NEW inv \in [Orders -> InventoryStatus],
         NEW release \in BOOLEAN, CancelLocked(S, inv, release),
         \A o \in S : orderStatus[o] \in {"PENDING", "CONFIRMED"},
         \A o \in S : release \/ inv[o] = "failed",
         \A o \in Orders : \/ inv[o] = inventoryStatus[o]
                           \/ o \in S \cap InventoryOrders /\ inv[o] = "failed",
         \A o \in Orders \ S : paymentStatus'[o] = paymentStatus[o],
         NEW p \in Orders
  PROVE  RowInv(p)'
<1>1. RowInv(p) /\ outbox[p] \in Seq(OutboxEvent)
  BY DEF IInv, TypeOK
<1>2. CASE p \notin S
  <2>1. /\ orderStatus'[p] = orderStatus[p]
        /\ inventoryStatus'[p] = inventoryStatus[p]
        /\ fulfillmentStatus'[p] = fulfillmentStatus[p]
        /\ production'[p] = production[p]
        /\ outbox'[p] = outbox[p]
        /\ paymentStatus'[p] = paymentStatus[p]
    BY <1>2 DEF CancelLocked
  <2> QED BY <1>1, <2>1, RowUnchanged
<1>3. CASE p \in S
  <2> DEFINE s == Append(outbox[p], "order.cancelled")
  <2>1. /\ orderStatus'[p] = "CANCELLED"
        /\ production'[p] # "queued"
    BY <1>3 DEF CancelLocked
  <2>2. orderStatus[p] \in {"PENDING", "CONFIRMED"}
    BY <1>3
  <2>3. ~Has(outbox[p], "order.cancelled")
    BY <1>1, <2>2 DEF RowInv
  <2>4. "order.cancelled" \in OutboxEvent /\ "inventory.release.requested" \in OutboxEvent
    BY DEF OutboxEvent
  <2>5. s \in Seq(OutboxEvent) /\ Ordered(s) /\ Has(s, "order.cancelled")
    BY <1>1, <2>3, <2>4, OrderedAppendCancelled, HasAppend DEF RowInv
  <2>6. CASE release /\ inv[p] = "reserved"
    <3>1. p \in InventoryOrders
      BY <1>1, <2>6 DEF RowInv
    <3>2. outbox'[p] = s \o ReleaseEvent(p)
      BY <1>3, <2>6 DEF CancelLocked
    <3>3. outbox'[p] = Append(s, "inventory.release.requested")
      BY <3>1, <3>2, <2>5, ReleaseAppends
    <3>4. /\ Ordered(outbox'[p])
          /\ Has(outbox'[p], "order.cancelled")
          /\ Has(outbox'[p], "inventory.release.requested")
      <4> HIDE DEF s
      <4>1. Ordered(Append(s, "inventory.release.requested"))
        BY <2>5, OrderedAppendRelease
      <4>2. /\ Has(Append(s, "inventory.release.requested"), "order.cancelled")
            /\ Has(Append(s, "inventory.release.requested"), "inventory.release.requested")
        BY <2>4, <2>5, HasAppend
      <4> QED BY <3>3, <4>1, <4>2
    <3>5. inventoryStatus'[p] = "release_requested"
      BY <1>3, <2>6 DEF CancelLocked
    <3> QED BY <2>1, <3>1, <3>4, <3>5 DEF RowInv
  <2>7. CASE ~(release /\ inv[p] = "reserved")
    <3>1. outbox'[p] = s \o <<>>
      BY <1>3, <2>7 DEF CancelLocked
    <3>2. outbox'[p] = s
      BY <3>1, <2>5, ConcatEmptySeq
    <3>3. inventoryStatus'[p] = inv[p] /\ inv[p] # "reserved"
      BY <1>3, <2>7 DEF CancelLocked
    <3>4. p \notin InventoryOrders => inv[p] = "not_required"
      BY <1>1 DEF RowInv
    <3>5. inv[p] = "release_requested" => Has(outbox'[p], "inventory.release.requested")
      BY <1>1, <2>4, <3>2, HasAppend DEF RowInv
    <3> QED BY <2>1, <2>5, <3>2, <3>3, <3>4, <3>5 DEF RowInv
  <2> QED BY <2>6, <2>7
<1> QED BY <1>2, <1>3

\* The common case: the handler cancels with the saga's own inventory status.
LEMMA CancelOwnRow ==
  ASSUME IInv, NEW S \in SUBSET Orders, CancelLocked(S, inventoryStatus, TRUE),
         \A o \in S : orderStatus[o] \in {"PENDING", "CONFIRMED"},
         \A o \in Orders \ S : paymentStatus'[o] = paymentStatus[o],
         NEW p \in Orders
  PROVE  RowInv(p)'
<1>1. inventoryStatus \in [Orders -> InventoryStatus]
  BY DEF IInv, TypeOK
<1> QED BY <1>1, CancelLockedRow

\* Cancelling a single order, as the request and answer handlers do.
LEMMA CancelOneRow ==
  ASSUME IInv, NEW o \in Orders, CancelLocked({o}, inventoryStatus, TRUE),
         orderStatus[o] \in {"PENDING", "CONFIRMED"},
         \A q \in Orders : q # o => paymentStatus'[q] = paymentStatus[q],
         NEW p \in Orders
  PROVE  RowInv(p)'
<1> DEFINE S == {o}
<1>1. /\ S \in SUBSET Orders
      /\ \A q \in S : orderStatus[q] \in {"PENDING", "CONFIRMED"}
      /\ \A q \in Orders \ S : paymentStatus'[q] = paymentStatus[q]
      /\ CancelLocked(S, inventoryStatus, TRUE)
  OBVIOUS
<1> HIDE DEF S
<1> QED BY <1>1, CancelOwnRow

\* Cancelling an order whose reservation was just recorded as failed.
LEMMA CancelFailedRow ==
  ASSUME IInv, NEW o \in InventoryOrders,
         CancelLocked({o}, [inventoryStatus EXCEPT ![o] = "failed"], FALSE),
         orderStatus[o] \in {"PENDING", "CONFIRMED"},
         paymentStatus' = paymentStatus,
         NEW p \in Orders
  PROVE  RowInv(p)'
<1> DEFINE S == {o}
           inv == [inventoryStatus EXCEPT ![o] = "failed"]
<1>1. /\ S \in SUBSET Orders
      /\ inv \in [Orders -> InventoryStatus]
      /\ \A q \in S : orderStatus[q] \in {"PENDING", "CONFIRMED"}
      /\ \A q \in S : FALSE \/ inv[q] = "failed"
      /\ \A q \in Orders : \/ inv[q] = inventoryStatus[q]
                           \/ q \in S \cap InventoryOrders /\ inv[q] = "failed"
      /\ \A q \in Orders \ S : paymentStatus'[q] = paymentStatus[q]
      /\ CancelLocked(S, inv, FALSE)
  BY OrderAssumption DEF IInv, TypeOK, InventoryStatus
<1> HIDE DEF S, inv
<1> QED BY <1>1, CancelLockedRow

\* Recording a success and confirming the order when both gates are open.
LEMMA ConfirmIfReadyRow ==
  ASSUME IInv, NEW o \in Orders, NEW inv \in InventoryStatus, NEW pay,
         ConfirmIfReady(o, inv, pay),
         inventoryStatus'[o] = inv, paymentStatus'[o] = pay,
         \A q \in Orders : q # o => /\ inventoryStatus'[q] = inventoryStatus[q]
                                   /\ paymentStatus'[q] = paymentStatus[q],
         orderStatus[o] \in {"PENDING", "CONFIRMED"},
         inv = inventoryStatus[o] \/ (inv = "reserved" /\ o \in InventoryOrders),
         pay = paymentStatus[o] \/ pay = "succeeded",
         NEW p \in Orders
  PROVE  RowInv(p)'
<1>1. RowInv(p) /\ outbox[p] \in Seq(OutboxEvent)
  BY DEF IInv, TypeOK
<1>2. CASE p # o
  <2>1. /\ orderStatus'[p] = orderStatus[p]
        /\ inventoryStatus'[p] = inventoryStatus[p]
        /\ paymentStatus'[p] = paymentStatus[p]
        /\ fulfillmentStatus'[p] = fulfillmentStatus[p]
        /\ production'[p] = production[p]
        /\ outbox'[p] = outbox[p]
    BY <1>2 DEF ConfirmIfReady, IInv, TypeOK
  <2> QED BY <1>1, <2>1, RowUnchanged
<1>3. CASE p = o
  <2>1. inventoryStatus'[p] = inv /\ paymentStatus'[p] = pay
    BY <1>3
  <2>2. p \notin InventoryOrders => inv = "not_required"
    BY <1>1, <1>3 DEF RowInv
  <2>3. CASE Ready(o, inv, pay)
    <3>1. /\ orderStatus'[p] = "CONFIRMED"
          /\ fulfillmentStatus'[p] = "ready"
          /\ outbox'[p] = Append(outbox[p], "order.confirmed")
          /\ production'[p] = IF p \in CustomOrders /\ production[p] = "none"
                                THEN "queued" ELSE production[p]
      BY <1>3, <2>3 DEF ConfirmIfReady, IInv, TypeOK
    <3>2. /\ ~Has(outbox[p], "order.confirmed")
          /\ ~Has(outbox[p], "order.cancelled")
          /\ Ordered(outbox[p])
          /\ production[p] = "none"
      BY <1>1, <1>3, <2>3 DEF RowInv, Ready
    <3>3. /\ Ordered(outbox'[p])
          /\ Has(outbox'[p], "order.confirmed")
          /\ ~Has(outbox'[p], "order.cancelled")
      BY <1>1, <3>1, <3>2, OrderedAppendConfirmed, HasAppend DEF OutboxEvent
    <3>4. inv \in {"reserved", "not_required"} /\ pay = "succeeded"
      BY <2>3 DEF Ready
    <3> QED BY <2>1, <2>2, <3>1, <3>2, <3>3, <3>4 DEF RowInv
  <2>4. CASE ~Ready(o, inv, pay)
    <3>1. /\ orderStatus'[p] = orderStatus[p]
          /\ fulfillmentStatus'[p] = fulfillmentStatus[p]
          /\ production'[p] = production[p]
          /\ outbox'[p] = outbox[p]
      BY <2>4 DEF ConfirmIfReady
    <3> QED BY <1>1, <1>3, <2>1, <2>2, <3>1 DEF RowInv
  <2> QED BY <2>3, <2>4
<1> QED BY <1>2, <1>3

\* The empty tables satisfy the invariant.
LEMMA InitIInv == Init => IInv
<1> SUFFICES ASSUME Init PROVE IInv
  OBVIOUS
<1>1. TypeOK
  BY OrderAssumption
     DEF Init, TypeOK, InitialInventory, InventoryStatus, DeliveryStatus, OrderStatus
<1>2. ASSUME NEW o \in Orders PROVE RowInv(o)
  <2>1. /\ orderStatus[o] = "absent" /\ outbox[o] = <<>> /\ production[o] = "none"
        /\ inventoryStatus[o] = InitialInventory(o)
    BY DEF Init
  <2>2. Ordered(<<>>)
    BY DEF Ordered
  <2> QED BY <2>1, <2>2 DEF RowInv, InitialInventory
<1> QED BY <1>1, <1>2 DEF IInv

\* Every handler preserves the invariant.
LEMMA StepIInv == IInv /\ TypeOK' /\ [Next]_vars => IInv'
<1> SUFFICES ASSUME IInv, TypeOK', [Next]_vars, NEW p \in Orders
             PROVE  RowInv(p)'
  BY DEF IInv
<1> USE DEF sagaVars
<1>0. TypeOK /\ RowInv(p) /\ outbox[p] \in Seq(OutboxEvent)
  BY DEF IInv, TypeOK
<1>1. ASSUME NEW o \in Orders, NEW i \in Intents \cup {NoIntent}, CreateOrder(o, i)
      PROVE  RowInv(p)'
  <2>1. CASE p # o
    BY <1>0, <1>1, <2>1, RowUnchanged DEF CreateOrder, TypeOK
  <2>2. CASE p = o
    <3> DEFINE s == <<"order.created">>
               t == Append(s, "inventory.reserve.requested")
    <3>1. outbox'[p] \in {s, t}
      <4>1. outbox'[p] = <<"order.created">> \o
              (IF p \in InventoryOrders THEN <<"inventory.reserve.requested">> ELSE <<>>)
        BY <1>0, <1>1, <2>2 DEF CreateOrder, TypeOK
      <4>2. <<"order.created">> \o <<>> = s
        OBVIOUS
      <4>3. <<"order.created">> \o <<"inventory.reserve.requested">> = t
        BY AppendIsConcat DEF OutboxEvent
      <4> QED BY <4>1, <4>2, <4>3
    <3>2. /\ s \in Seq(OutboxEvent) /\ Len(s) = 1 /\ s[1] = "order.created"
          /\ "inventory.reserve.requested" \in OutboxEvent
      BY DEF OutboxEvent
    <3>3. /\ Len(t) = 2 /\ t[1] = "order.created" /\ t[2] = "inventory.reserve.requested"
      BY <3>2, AppendProperties
    <3>4. /\ ~Has(outbox'[p], "order.confirmed")
          /\ ~Has(outbox'[p], "order.cancelled")
          /\ Ordered(outbox'[p])
      <4> HIDE DEF s, t
      <4>1. Ordered(s) /\ ~Has(s, "order.confirmed") /\ ~Has(s, "order.cancelled")
        BY <3>2 DEF Ordered, Decision, Has
      <4>2. Ordered(t) /\ ~Has(t, "order.confirmed") /\ ~Has(t, "order.cancelled")
        BY <3>3 DEF Ordered, Decision, Has
      <4> QED BY <3>1, <4>1, <4>2
    <3>5. /\ orderStatus'[p] = "PENDING"
          /\ production'[p] = "none"
          /\ inventoryStatus'[p] = inventoryStatus[p]
      BY <1>0, <1>1, <2>2 DEF CreateOrder, TypeOK, RowInv
    <3>6. inventoryStatus[p] # "release_requested"
      BY <1>0, <1>1, <2>2 DEF CreateOrder, RowInv, Has
    <3> QED BY <1>0, <3>4, <3>5, <3>6 DEF RowInv
  <2> QED BY <2>1, <2>2
<1>2. ASSUME NEW o \in Orders, CancelOrder(o)
      PROVE  RowInv(p)'
  <2>1. /\ CancelLocked({o}, inventoryStatus, TRUE)
        /\ orderStatus[o] \in {"PENDING", "CONFIRMED"}
        /\ paymentStatus' = paymentStatus
    BY <1>2 DEF CancelOrder, Exists, OrderStatus
  <2> QED BY <2>1, CancelOneRow
<1>3. ASSUME NEW o \in Orders, NEW d \in DeliveryStatus, UpdateOrder(o, d)
      PROVE  RowInv(p)'
  BY <1>0, <1>3, RowUnchanged DEF UpdateOrder
<1>4. ASSUME NEW o \in Orders, DeleteOrder(o)
      PROVE  RowInv(p)'
  <2>1. CASE p # o
    BY <1>0, <1>4, <2>1, RowUnchanged DEF DeleteOrder, TypeOK
  <2>2. CASE p = o
    BY <1>0, <1>4, <2>2 DEF DeleteOrder, TypeOK, RowInv
  <2> QED BY <2>1, <2>2
<1>5. ASSUME NEW o \in InventoryOrders, RecordInventorySucceeded(o)
      PROVE  RowInv(p)'
  <2>0. o \in Orders
    BY OrderAssumption
  <2>1. CASE orderStatus[o] # "CANCELLED"
    <3>1. /\ ConfirmIfReady(o, "reserved", paymentStatus[o])
          /\ inventoryStatus'[o] = "reserved" /\ paymentStatus'[o] = paymentStatus[o]
          /\ \A q \in Orders : q # o => /\ inventoryStatus'[q] = inventoryStatus[q]
                                        /\ paymentStatus'[q] = paymentStatus[q]
          /\ orderStatus[o] \in {"PENDING", "CONFIRMED"}
      BY <1>0, <1>5, <2>0, <2>1 DEF RecordInventorySucceeded, Exists, OrderStatus, TypeOK
    <3>2. PICK inv, pay : inv = "reserved" /\ pay = paymentStatus[o]
      OBVIOUS
    <3>3. inv \in InventoryStatus /\ ConfirmIfReady(o, inv, pay)
      BY <3>1, <3>2 DEF InventoryStatus, ConfirmIfReady, Ready
    <3>4. /\ inventoryStatus'[o] = inv /\ paymentStatus'[o] = pay
          /\ pay = paymentStatus[o] \/ pay = "succeeded"
          /\ inv = inventoryStatus[o] \/ (inv = "reserved" /\ o \in InventoryOrders)
      BY <1>5, <3>1, <3>2
    <3> QED BY <2>0, <3>1, <3>3, <3>4, ConfirmIfReadyRow
  <2>2. CASE orderStatus[o] = "CANCELLED" /\ inventoryStatus' = inventoryStatus
    <3>1. [inventoryStatus EXCEPT ![o] = "release_requested"] = inventoryStatus
            => inventoryStatus[o] = "release_requested"
      BY <1>0, <2>0 DEF TypeOK
    <3>2. /\ UNCHANGED <<orderStatus, fulfillmentStatus, production, outbox>>
          /\ paymentStatus' = paymentStatus
      BY <1>5, <2>2, <3>1 DEF RecordInventorySucceeded
    <3> QED BY <1>0, <2>2, <3>2, RowUnchanged
  <2>3. CASE orderStatus[o] = "CANCELLED" /\ outbox' # outbox
    <3>1. /\ inventoryStatus' = [inventoryStatus EXCEPT ![o] = "release_requested"]
          /\ outbox' = [outbox EXCEPT ![o] = @ \o ReleaseEvent(o)]
          /\ UNCHANGED <<orderStatus, fulfillmentStatus, production, paymentStatus>>
      BY <1>5, <2>3 DEF RecordInventorySucceeded
    <3>2. CASE p # o
      BY <1>0, <3>1, <3>2, RowUnchanged DEF TypeOK
    <3>3. CASE p = o
      <4>1. outbox'[p] = Append(outbox[p], "inventory.release.requested")
        BY <1>0, <3>1, <3>3, ReleaseAppends DEF TypeOK
      <4>2. Ordered(outbox[p]) /\ Has(outbox[p], "order.cancelled")
        BY <1>0, <2>3, <3>3 DEF RowInv
      <4>3. /\ Ordered(outbox'[p])
            /\ Has(outbox'[p], "order.cancelled")
            /\ Has(outbox'[p], "inventory.release.requested")
        BY <1>0, <4>1, <4>2, OrderedAppendRelease, HasAppend DEF OutboxEvent
      <4>4. inventoryStatus'[p] = "release_requested" /\ orderStatus'[p] = "CANCELLED"
        BY <1>0, <2>0, <2>3, <3>1, <3>3 DEF TypeOK
      <4>5. production'[p] # "queued"
        BY <1>0, <2>3, <3>1, <3>3 DEF RowInv
      <4> QED BY <3>3, <4>3, <4>4, <4>5 DEF RowInv
    <3> QED BY <3>2, <3>3
  <2>4. orderStatus[o] = "CANCELLED" => inventoryStatus' = inventoryStatus \/ outbox' # outbox
    <3>1. outbox[o] \in Seq(OutboxEvent)
      BY <1>0, <2>0 DEF TypeOK
    <3>2. Append(outbox[o], "inventory.release.requested") # outbox[o]
      BY <3>1
    <3>3. outbox[o] \o ReleaseEvent(o) # outbox[o]
      BY <3>1, <3>2, ReleaseAppends
    <3> QED BY <1>0, <1>5, <2>0, <3>3 DEF RecordInventorySucceeded, TypeOK
  <2> QED BY <2>1, <2>2, <2>3, <2>4
<1>6. ASSUME NEW o \in InventoryOrders, RecordInventoryFailed(o)
      PROVE  RowInv(p)'
  <2>0. o \in Orders
    BY OrderAssumption
  <2>1. inventoryStatus' = [inventoryStatus EXCEPT ![o] = "failed"] => inventoryStatus'[o] = "failed"
    BY <1>0, <2>0 DEF TypeOK
  <2>2. CASE orderStatus[o] # "CANCELLED"
    <3>1. /\ CancelLocked({o}, [inventoryStatus EXCEPT ![o] = "failed"], FALSE)
          /\ orderStatus[o] \in {"PENDING", "CONFIRMED"}
          /\ paymentStatus' = paymentStatus
      BY <1>6, <2>2 DEF RecordInventoryFailed, Exists, OrderStatus
    <3> QED BY <3>1, CancelFailedRow
  <2>3. CASE orderStatus[o] = "CANCELLED"
    <3>1. /\ inventoryStatus' = [inventoryStatus EXCEPT ![o] = "failed"]
          /\ UNCHANGED <<orderStatus, paymentStatus, fulfillmentStatus, production, outbox>>
      BY <1>6, <2>3 DEF RecordInventoryFailed
    <3>2. CASE p # o
      BY <1>0, <3>1, <3>2, RowUnchanged DEF TypeOK
    <3>3. CASE p = o
      BY <1>0, <1>6, <2>1, <2>3, <3>1, <3>3 DEF RowInv
    <3> QED BY <3>2, <3>3
  <2> QED BY <2>2, <2>3
<1>7. ASSUME NEW o \in Orders, NEW i \in Intents, NEW matches \in BOOLEAN,
             RecordPaymentSucceeded(o, i, matches)
      PROVE  RowInv(p)'
  <2>1. CASE orderStatus[o] = "CANCELLED"
    BY <1>0, <1>7, <2>1, RowUnchanged DEF RecordPaymentSucceeded
  <2>2. CASE /\ orderStatus[o] # "CANCELLED"
             /\ CancelLocked({o}, inventoryStatus, TRUE)
             /\ UNCHANGED <<intentOf, paymentStatus>>
    <3>1. orderStatus[o] \in {"PENDING", "CONFIRMED"} /\ paymentStatus' = paymentStatus
      BY <1>7, <2>2 DEF RecordPaymentSucceeded, Exists, OrderStatus
    <3> QED BY <2>2, <3>1, CancelOneRow
  <2>3. CASE /\ orderStatus[o] # "CANCELLED"
             /\ paymentStatus' = [paymentStatus EXCEPT ![o] = "succeeded"]
             /\ ConfirmIfReady(o, inventoryStatus[o], "succeeded")
             /\ UNCHANGED inventoryStatus
    <3>1. /\ orderStatus[o] \in {"PENDING", "CONFIRMED"}
          /\ inventoryStatus[o] \in InventoryStatus
          /\ inventoryStatus'[o] = inventoryStatus[o] /\ paymentStatus'[o] = "succeeded"
          /\ \A q \in Orders : q # o => /\ inventoryStatus'[q] = inventoryStatus[q]
                                        /\ paymentStatus'[q] = paymentStatus[q]
      BY <1>0, <1>7, <2>3 DEF RecordPaymentSucceeded, Exists, OrderStatus, TypeOK
    <3>2. PICK inv, pay : inv = inventoryStatus[o] /\ pay = "succeeded"
      OBVIOUS
    <3>3. inv \in InventoryStatus /\ ConfirmIfReady(o, inv, pay)
      BY <2>3, <3>1, <3>2 DEF ConfirmIfReady, Ready
    <3>4. /\ inventoryStatus'[o] = inv /\ paymentStatus'[o] = pay
          /\ pay = paymentStatus[o] \/ pay = "succeeded"
          /\ inv = inventoryStatus[o] \/ (inv = "reserved" /\ o \in InventoryOrders)
      BY <3>1, <3>2
    <3> QED BY <3>1, <3>3, <3>4, ConfirmIfReadyRow
  <2> QED BY <1>7, <2>1, <2>2, <2>3 DEF RecordPaymentSucceeded
<1>8. ASSUME NEW o \in Orders, RecordPaymentFailed(o)
      PROVE  RowInv(p)'
  <2>1. paymentStatus' = [paymentStatus EXCEPT ![o] = "failed"]
    BY <1>8 DEF RecordPaymentFailed
  <2>2. CASE orderStatus[o] # "CANCELLED"
    <3>1. /\ CancelLocked({o}, inventoryStatus, TRUE)
          /\ orderStatus[o] \in {"PENDING", "CONFIRMED"}
          /\ \A q \in Orders : q # o => paymentStatus'[q] = paymentStatus[q]
      BY <1>0, <1>8, <2>1, <2>2 DEF RecordPaymentFailed, Exists, OrderStatus, TypeOK
    <3> QED BY <3>1, CancelOneRow
  <2>3. CASE orderStatus[o] = "CANCELLED"
    <3>1. UNCHANGED <<orderStatus, inventoryStatus, fulfillmentStatus, production, outbox>>
      BY <1>8, <2>3 DEF RecordPaymentFailed
    <3>2. CASE p # o
      BY <1>0, <2>1, <3>1, <3>2, RowUnchanged DEF TypeOK
    <3>3. CASE p = o
      BY <1>0, <2>3, <3>1, <3>3 DEF RowInv
    <3> QED BY <3>2, <3>3
  <2> QED BY <2>2, <2>3
<1>9. ASSUME NEW o \in Orders, RecordFulfillmentFailed(o)
      PROVE  RowInv(p)'
  <2>2. CASE orderStatus[o] # "CANCELLED"
    <3>1. /\ CancelLocked({o}, inventoryStatus, TRUE)
          /\ orderStatus[o] \in {"PENDING", "CONFIRMED"}
          /\ paymentStatus' = paymentStatus
      BY <1>9, <2>2 DEF RecordFulfillmentFailed, Exists, OrderStatus
    <3> QED BY <3>1, CancelOneRow
  <2>3. CASE orderStatus[o] = "CANCELLED"
    <3>1. /\ fulfillmentStatus' = [fulfillmentStatus EXCEPT ![o] = "failed"]
          /\ UNCHANGED <<orderStatus, inventoryStatus, paymentStatus, production, outbox>>
      BY <1>9, <2>3 DEF RecordFulfillmentFailed
    <3>2. CASE p # o
      BY <1>0, <3>1, <3>2, RowUnchanged DEF TypeOK
    <3>3. CASE p = o
      BY <1>0, <2>3, <3>1, <3>3 DEF RowInv
    <3> QED BY <3>2, <3>3
  <2> QED BY <2>2, <2>3
<1>10. ASSUME NEW o \in Orders, TimeoutElapses(o)
       PROVE  RowInv(p)'
  BY <1>0, <1>10, RowUnchanged DEF TimeoutElapses
<1>11. CASE ExpireOnce
  <2>1. PICK batch \in SUBSET {o \in expired : orderStatus[o] = "PENDING"} :
          /\ CancelLocked(batch, inventoryStatus, TRUE)
          /\ UNCHANGED <<deliveryStatus, intentOf, paymentStatus, expired>>
    BY <1>11 DEF ExpireOnce
  <2>2. batch \in SUBSET Orders /\ \A o \in batch : orderStatus[o] \in {"PENDING", "CONFIRMED"}
    BY <1>0 DEF TypeOK
  <2> QED BY <2>1, <2>2, CancelOwnRow
<1>12. CASE UNCHANGED vars
  BY <1>0, <1>12, RowUnchanged DEF vars
<1> QED
  BY <1>1, <1>2, <1>3, <1>4, <1>5, <1>6, <1>7, <1>8, <1>9, <1>10, <1>11, <1>12
     DEF Next, Request, Answer

\* Every row keeps RowInv, whatever the participants answer and in whatever order.
THEOREM Inductive == Spec => []IInv
BY InitIInv, StepIInv, TypeCorrect, PTL DEF Spec

-----------------------------------------------------------------------------
(* The properties.                                                          *)

\* A confirmed order is paid, holds its stock (or needs none) and has its
\* custom lines queued: _confirm_if_ready opens only on both gates, and every
\* answer that closes one of them cancels the order in the same transaction.
THEOREM ConfirmedIsReady == Spec => []ConfirmedMeansReady
<1>1. IInv => ConfirmedMeansReady
  BY DEF IInv, RowInv, ConfirmedMeansReady
<1> QED BY <1>1, Inductive, PTL

\* The order outbox holds at most one confirmation and one cancellation of an
\* order, in that order.
THEOREM DecisionsOrdered == Spec => []DecisionsInOrder
<1>1. IInv => DecisionsInOrder
  BY DEF IInv, RowInv, Ordered, DecisionsInOrder
<1> QED BY <1>1, Inductive, PTL

\* Order rows and announced decisions agree.
THEOREM StatusAnnounced == Spec => []StatusMatchesOutbox
<1>1. IInv => StatusMatchesOutbox
  BY DEF IInv, RowInv, Has, StatusMatchesOutbox, Emitted, Decision
<1> QED BY <1>1, Inductive, PTL

\* A release request is preceded by the order's cancellation.
THEOREM ReleaseAfterCancel == Spec => []ReleaseFollowsCancel
<1>1. IInv => ReleaseFollowsCancel
  BY DEF IInv, RowInv, Ordered, ReleaseFollowsCancel
<1> QED BY <1>1, Inductive, PTL

\* A cancelled order holds neither stock its saga knows of nor a queued
\* production job.
THEOREM CancelledHoldsNone == Spec => []CancelledHoldsNothing
<1>1. IInv => CancelledHoldsNothing
  BY DEF IInv, RowInv, Has, CancelledHoldsNothing, Emitted
<1> QED BY <1>1, Inductive, PTL

\* No handler, and no order of handlers, moves an order backwards.
THEOREM StatusMovesForward == Spec => StatusForward
<1>1. ASSUME TypeOK, [Next]_vars, NEW p \in Orders
      PROVE  /\ orderStatus'[p] = "PENDING" => orderStatus[p] \in {"absent", "PENDING"}
             /\ orderStatus'[p] = "CONFIRMED" => orderStatus[p] \in {"PENDING", "CONFIRMED"}
             /\ orderStatus[p] = "CANCELLED" => orderStatus'[p] \in {"CANCELLED", "deleted"}
  <2> USE <1>1 DEF TypeOK
  <2>1. CASE orderStatus' = orderStatus
    BY <2>1
  <2>2. CASE \E o \in Orders : /\ orderStatus[o] = "PENDING"
                               /\ orderStatus' = [orderStatus EXCEPT ![o] = "CONFIRMED"]
    BY <2>2
  <2>3. CASE \E o \in Orders : /\ orderStatus[o] = "absent"
                               /\ orderStatus' = [orderStatus EXCEPT ![o] = "PENDING"]
    BY <2>3
  <2>4. CASE \E o \in Orders : orderStatus' = [orderStatus EXCEPT ![o] = "deleted"]
    BY <2>4
  <2>5. CASE \E S \in SUBSET Orders :
               orderStatus' = [o \in Orders |-> IF o \in S THEN "CANCELLED" ELSE orderStatus[o]]
    BY <2>5
  <2>6. \/ orderStatus' = orderStatus
        \/ \E o \in Orders : \/ /\ orderStatus[o] = "PENDING"
                               /\ orderStatus' = [orderStatus EXCEPT ![o] = "CONFIRMED"]
                            \/ /\ orderStatus[o] = "absent"
                               /\ orderStatus' = [orderStatus EXCEPT ![o] = "PENDING"]
                            \/ orderStatus' = [orderStatus EXCEPT ![o] = "deleted"]
        \/ \E S \in SUBSET Orders :
             orderStatus' = [o \in Orders |-> IF o \in S THEN "CANCELLED" ELSE orderStatus[o]]
    <3>1. ASSUME NEW o \in Orders, Request(o)
          PROVE  \/ orderStatus' = orderStatus
                 \/ /\ orderStatus[o] = "absent"
                    /\ orderStatus' = [orderStatus EXCEPT ![o] = "PENDING"]
                 \/ orderStatus' = [orderStatus EXCEPT ![o] = "deleted"]
                 \/ orderStatus' =
                      [q \in Orders |-> IF q \in {o} THEN "CANCELLED" ELSE orderStatus[q]]
      BY <3>1 DEF Request, CreateOrder, CancelOrder, UpdateOrder, DeleteOrder, CancelLocked
    <3>2. ASSUME NEW o \in Orders, Answer(o)
          PROVE  \/ orderStatus' = orderStatus
                 \/ /\ orderStatus[o] = "PENDING"
                    /\ orderStatus' = [orderStatus EXCEPT ![o] = "CONFIRMED"]
                 \/ orderStatus' =
                      [q \in Orders |-> IF q \in {o} THEN "CANCELLED" ELSE orderStatus[q]]
      BY <3>2 DEF Answer, RecordInventorySucceeded, RecordInventoryFailed,
                  RecordPaymentSucceeded, RecordPaymentFailed, RecordFulfillmentFailed,
                  CancelLocked, ConfirmIfReady, Ready
    <3>3. ASSUME ExpireOnce
          PROVE  \E S \in SUBSET Orders : orderStatus' =
                   [q \in Orders |-> IF q \in S THEN "CANCELLED" ELSE orderStatus[q]]
      BY <3>3 DEF ExpireOnce, CancelLocked
    <3>4. ASSUME NEW o \in Orders, TimeoutElapses(o)
          PROVE  orderStatus' = orderStatus
      BY <3>4 DEF TimeoutElapses
    <3>5. \A o \in Orders : {o} \in SUBSET Orders
      OBVIOUS
    <3> QED BY <3>1, <3>2, <3>3, <3>4, <3>5 DEF Next, vars
  <2> QED BY <2>1, <2>2, <2>3, <2>4, <2>5, <2>6
<1>2. TypeOK /\ [Next]_vars =>
        [\A o \in Orders :
          /\ orderStatus'[o] = "PENDING" => orderStatus[o] \in {"absent", "PENDING"}
          /\ orderStatus'[o] = "CONFIRMED" => orderStatus[o] \in {"PENDING", "CONFIRMED"}
          /\ orderStatus[o] = "CANCELLED" => orderStatus'[o] \in {"CANCELLED", "deleted"}
        ]_vars
  BY <1>1
<1> QED BY <1>2, TypeCorrect, PTL DEF Spec, StatusForward

\* A cancellation of an order that holds stock, unless the product service has
\* just reported that it holds none, goes through _cancel_locked with release.
LEMMA CancelsThroughRelease ==
  ASSUME TypeOK, [Next]_vars, NEW p \in Orders, CancelsHolding(p)
  PROVE  \E S \in SUBSET Orders : p \in S /\ CancelLocked(S, inventoryStatus, TRUE)
<1> USE DEF CancelsHolding
<1>0. ASSUME NEW o \in Orders, CancelLocked({o}, inventoryStatus, TRUE)
      PROVE  \E S \in SUBSET Orders : p \in S /\ CancelLocked(S, inventoryStatus, TRUE)
  <2>1. p \in {o}
    BY <1>0 DEF CancelLocked
  <2> QED BY <1>0, <2>1
<1>1. ASSUME NEW o \in Orders, NEW e \in {"CONFIRMED", "PENDING", "deleted"},
             orderStatus' = [orderStatus EXCEPT ![o] = e] \/ orderStatus' = orderStatus
      PROVE  FALSE
  BY <1>1 DEF TypeOK
<1>2. ASSUME NEW o \in Orders, Request(o)
      PROVE  \E S \in SUBSET Orders : p \in S /\ CancelLocked(S, inventoryStatus, TRUE)
  <2>1. CancelOrder(o)
    BY <1>1, <1>2 DEF Request, CreateOrder, UpdateOrder, DeleteOrder
  <2> QED BY <1>0, <2>1 DEF CancelOrder
<1>3. ASSUME NEW o \in Orders, Answer(o)
      PROVE  \E S \in SUBSET Orders : p \in S /\ CancelLocked(S, inventoryStatus, TRUE)
  <2>1. ASSUME NEW inv, NEW pay, ConfirmIfReady(o, inv, pay)
        PROVE  FALSE
    BY <1>1, <2>1 DEF ConfirmIfReady
  <2>2. ~RecordInventorySucceeded(o)
    BY <1>1, <2>1 DEF RecordInventorySucceeded
  <2>3. ASSUME RecordInventoryFailed(o)
        PROVE  FALSE
    <3> DEFINE inv == [inventoryStatus EXCEPT ![o] = "failed"]
    <3>1. CASE orderStatus[o] = "CANCELLED"
      BY <1>1, <2>3, <3>1 DEF RecordInventoryFailed
    <3>2. CASE orderStatus[o] # "CANCELLED"
      <4>1. CancelLocked({o}, inv, FALSE) /\ inv[o] = "failed"
        BY <2>3, <3>2 DEF RecordInventoryFailed, TypeOK
      <4> HIDE DEF inv
      <4>2. p = o
        BY <4>1 DEF CancelLocked
      <4>3. inventoryStatus'[o] = "failed"
        BY <4>1 DEF CancelLocked
      <4> QED BY <4>2, <4>3
    <3> QED BY <3>1, <3>2
  <2>4. CASE \E i \in Intents, matches \in BOOLEAN : RecordPaymentSucceeded(o, i, matches)
    BY <1>0, <1>1, <2>1, <2>4 DEF RecordPaymentSucceeded
  <2>5. CASE RecordPaymentFailed(o)
    BY <1>0, <1>1, <2>5 DEF RecordPaymentFailed
  <2>6. CASE RecordFulfillmentFailed(o)
    BY <1>0, <1>1, <2>6 DEF RecordFulfillmentFailed
  <2> QED BY <1>3, <2>2, <2>3, <2>4, <2>5, <2>6 DEF Answer
<1>4. CASE ExpireOnce
  <2>1. PICK batch \in SUBSET {o \in expired : orderStatus[o] = "PENDING"} :
          CancelLocked(batch, inventoryStatus, TRUE)
    BY <1>4 DEF ExpireOnce
  <2>2. p \in batch
    BY <2>1 DEF CancelLocked
  <2>3. batch \in SUBSET Orders
    BY DEF TypeOK
  <2> QED BY <2>1, <2>2, <2>3
<1>5. ~(UNCHANGED vars) /\ ~(\E o \in Orders : TimeoutElapses(o))
  BY <1>1 DEF vars, TimeoutElapses
<1> QED BY <1>2, <1>3, <1>4, <1>5 DEF Next

\* The step that cancels an order holding stock writes the cancellation and,
\* right after it, the release of its stock: no handler, and no batch of the
\* timeout worker, leaves the reservation behind.
THEOREM CancelReleases == Spec => CancelReleasesStock
<1>1. ASSUME IInv, [Next]_vars, NEW p \in Orders, CancelsHolding(p)
      PROVE  /\ Len(outbox'[p]) = Len(outbox[p]) + 2
             /\ outbox'[p][Len(outbox'[p])] = "inventory.release.requested"
  <2> DEFINE s == Append(outbox[p], "order.cancelled")
  <2>1. PICK S \in SUBSET Orders : p \in S /\ CancelLocked(S, inventoryStatus, TRUE)
    BY <1>1, CancelsThroughRelease DEF IInv
  <2>2. p \in InventoryOrders /\ outbox[p] \in Seq(OutboxEvent)
    BY <1>1 DEF IInv, RowInv, TypeOK, CancelsHolding
  <2>3. outbox'[p] = s \o ReleaseEvent(p)
    BY <1>1, <2>1 DEF CancelLocked, CancelsHolding
  <2>4. s \in Seq(OutboxEvent) /\ Len(s) = Len(outbox[p]) + 1
    BY <2>2 DEF OutboxEvent
  <2>5. outbox'[p] = Append(s, "inventory.release.requested")
    BY <2>2, <2>3, <2>4, ReleaseAppends
  <2> HIDE DEF s
  <2> QED BY <2>2, <2>4, <2>5, AppendProperties DEF OutboxEvent
<1>2. IInv /\ [Next]_vars =>
        [\A o \in Orders : CancelsHolding(o) =>
           /\ Len(outbox'[o]) = Len(outbox[o]) + 2
           /\ outbox'[o][Len(outbox'[o])] = "inventory.release.requested"]_vars
  BY <1>1
<1> QED BY <1>2, Inductive, PTL DEF Spec, CancelReleasesStock

=============================================================================
