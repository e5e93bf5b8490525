----------------------------- MODULE Messaging -----------------------------
(***************************************************************************)
(* The wiring of the events: which types each service's relay can publish, *)
(* to which exchange, which queues are bound to it by which pattern, what  *)
(* body each subscriber declares and which types its consumer has a branch *)
(* for.  The journey of one outbox row is followed through it.  A relay    *)
(* that dies between publishing and marking publishes the row again.       *)
(*                                                                         *)
(* A type, a routing key and a pattern are sequences of words.             *)
(***************************************************************************)
EXTENDS Naturals, Sequences, SequencesExt, FiniteSets

CONSTANT MaxCopies   \* bound: times one row is published

VARIABLES
  row,       \* [service, type]: the observed outbox row
  processed, \* the row is marked
  copies,    \* times it was published
  waiting,   \* ids of the copies waiting in each queue
  claims,    \* ids each service has claimed
  heard,     \* times each queue's consumer acted
  dead       \* copies each queue has dead-lettered

vars == <<row, processed, copies, waiting, claims, heard, dead>>

-----------------------------------------------------------------------------
(* What the relays route.                                                   *)

Types(prefix, endings) == {prefix \o e : e \in endings}

OrderTypes ==
  Types(<<"order">>, {<<"created">>, <<"confirmed">>, <<"cancelled">>}) \cup
  Types(<<"inventory">>, {<<"reserve", "requested">>, <<"release", "requested">>})
PaymentTypes ==
  Types(<<"payment">>, {<<"succeeded">>, <<"failed">>, <<"refunded">>, <<"cancelled">>})
ProductTypes ==
  {<<"inventory", "reserve", "succeeded">>, <<"inventory", "reserve", "failed">>,
   <<"supplier", "product", "import", "completed">>,
   <<"supplier", "product", "import", "failed">>}
SupplierTypes ==
  {<<"supplier", "products", "fetched">>, <<"cj", "order", "created">>, <<"cj", "order", "failed">>}
ShippingTypes ==
  Types(<<"shipment">>, {<<"created">>, <<"shipped">>, <<"delivered">>, <<"cancelled">>})
UserTypes ==
  Types(<<"user">>, {<<"registered">>, <<"email", "verified">>, <<"logged", "in">>,
                     <<"password", "reset", "request">>, <<"password", "reset", "success">>,
                     <<"deleted">>})

Rows ==
  {[service |-> s, type |-> t] : s \in {"order"}, t \in OrderTypes} \cup
  {[service |-> s, type |-> t] : s \in {"payment"}, t \in PaymentTypes} \cup
  {[service |-> s, type |-> t] : s \in {"product"}, t \in ProductTypes} \cup
  {[service |-> s, type |-> t] : s \in {"supplier"}, t \in SupplierTypes} \cup
  {[service |-> s, type |-> t] : s \in {"shipping"}, t \in ShippingTypes} \cup
  {[service |-> s, type |-> t] : s \in {"user"}, t \in UserTypes}

\* The exchange each publisher sends a type to.
OrderExchange(t) == IF Head(t) = "inventory" THEN "inventory" ELSE "order"
PaymentExchange(t) == "payment"
ProductExchange(t) == IF Head(t) = "inventory" THEN "inventory" ELSE "supplier"
SupplierExchange(t) == IF Head(t) = "cj" THEN "order" ELSE "supplier"
ShippingExchange(t) == "shipping"
UserExchange(t) == "user"

Exchange(r) ==
  CASE r.service = "order" -> OrderExchange(r.type)
    [] r.service = "payment" -> PaymentExchange(r.type)
    [] r.service = "product" -> ProductExchange(r.type)
    [] r.service = "supplier" -> SupplierExchange(r.type)
    [] r.service = "shipping" -> ShippingExchange(r.type)
    [] r.service = "user" -> UserExchange(r.type)

\* The product service's router builds these anew: each copy has its own
\* event_id.  Every other publisher keeps the payload's.
Reissued(r) == r.service = "product" /\ Head(r.type) = "inventory"

-----------------------------------------------------------------------------
(* The queues: exchange, pattern, declared body, branches.                  *)

Queue(service, exchange, pattern, body, branches) ==
  [service |-> service, exchange |-> exchange, pattern |-> pattern, body |-> body,
   branches |-> branches]

\* The branches of each consumer's match statement.
OrderInventoryBranches ==
  Types(<<"inventory", "reserve">>, {<<"succeeded">>, <<"failed">>})
OrderPaymentBranches == Types(<<"payment">>, {<<"succeeded">>, <<"failed">>, <<"cancelled">>})
OrderShippingBranches ==
  Types(<<"shipment">>, {<<"created">>, <<"shipped">>, <<"delivered">>, <<"cancelled">>})
OrderCJBranches == Types(<<"cj", "order">>, {<<"created">>, <<"failed">>})
PaymentBranches == {<<"order", "cancelled">>}
ProductInventoryBranches ==
  Types(<<"inventory">>, {<<"reserve", "requested">>, <<"release", "requested">>})
ProductImportBranches == {<<"supplier", "products", "fetched">>}
SupplierFeedbackBranches ==
  Types(<<"supplier", "product", "import">>, {<<"completed">>, <<"failed">>})
SupplierOrderBranches == Types(<<"order">>, {<<"confirmed">>, <<"cancelled">>})
ShippingBranches == Types(<<"order">>, {<<"confirmed">>, <<"cancelled">>})
CartBranches == Types(<<"order">>, {<<"created">>, <<"confirmed">>})
WishlistBranches == {<<"user", "deleted">>}
NotificationUserBranches == UserTypes \ {<<"user", "deleted">>}
NotificationOrderBranches == Types(<<"order">>, {<<"confirmed">>, <<"cancelled">>})
NotificationPaymentBranches == PaymentTypes

\* Mutant of OrderQueues: the CJ queue is bound by the order's own prefix.
OrderQueuesCJUnderOrder ==
  {Queue("order", "inventory", <<"inventory", "reserve", "*">>, "dict", OrderInventoryBranches),
   Queue("order", "payment", <<"payment", "*">>, "dict", OrderPaymentBranches),
   Queue("order", "shipping", <<"shipping", "*">>, "dict", OrderShippingBranches),
   Queue("order", "order", <<"order", "*">>, "dict", OrderCJBranches)}

OrderQueues ==
  {Queue("order", "inventory", <<"inventory", "reserve", "*">>, "dict", OrderInventoryBranches),
   Queue("order", "payment", <<"payment", "*">>, "dict", OrderPaymentBranches),
   Queue("order", "shipping", <<"shipping", "*">>, "dict", OrderShippingBranches),
   Queue("order", "order", <<"cj", "order", "*">>, "dict", OrderCJBranches)}
PaymentQueues == {Queue("payment", "order", <<"order", "cancelled">>, "str", PaymentBranches)}
ProductQueues ==
  {Queue("product", "inventory", <<"inventory", "*", "requested">>, "dict", ProductInventoryBranches),
   Queue("product", "supplier", <<"supplier", "products", "fetched">>, "dict", ProductImportBranches)}
SupplierQueues ==
  {Queue("supplier", "supplier", <<"supplier", "product", "import", "*">>, "dict",
         SupplierFeedbackBranches),
   Queue("supplier", "order", <<"order", "confirmed">>, "dict", SupplierOrderBranches),
   Queue("supplier", "order", <<"order", "cancelled">>, "dict", SupplierOrderBranches)}
ShippingQueues == {Queue("shipping", "order", <<"order", "*">>, "dict", ShippingBranches)}
CartQueues == {Queue("cart", "order", <<"order", "*">>, "dict", CartBranches)}
WishlistQueues == {Queue("wishlist", "user", <<"user", "deleted">>, "dict", WishlistBranches)}
NotificationQueues ==
  {Queue("notification", "user", <<"user", "#">>, "dict", NotificationUserBranches),
   Queue("notification", "order", <<"order", "#">>, "dict", NotificationOrderBranches),
   Queue("notification", "payment", <<"payment", "#">>, "dict", NotificationPaymentBranches)}

Queues ==
  UNION {OrderQueues, PaymentQueues, ProductQueues, SupplierQueues, ShippingQueues, CartQueues,
         WishlistQueues, NotificationQueues}

\* A topic exchange: "*" stands for one word, "#" for the rest of the key.
Matches(pattern, key) ==
  IF Last(pattern) = "#"
  THEN IsPrefix(Front(pattern), key)
  ELSE /\ Len(pattern) = Len(key)
       /\ \A i \in DOMAIN key : pattern[i] \in {"*", key[i]}

\* FastStream decodes a JSON message to a dict, which is no valid str.
Accepts(q) == q.body = "dict"

-----------------------------------------------------------------------------

Ids == 0..MaxCopies

TypeOK ==
  /\ row \in Rows
  /\ processed \in BOOLEAN
  /\ copies \in 0..MaxCopies
  /\ waiting \in [Queues -> SUBSET Ids]
  /\ claims \in [{q.service : q \in Queues} -> SUBSET Ids]
  /\ heard \in [Queues -> 0..MaxCopies]
  /\ dead \in [Queues -> 0..MaxCopies]

Init ==
  /\ row \in Rows
  /\ processed = FALSE /\ copies = 0
  /\ waiting = [q \in Queues |-> {}]
  /\ claims = [s \in {q.service : q \in Queues} |-> {}]
  /\ heard = [q \in Queues |-> 0]
  /\ dead = [q \in Queues |-> 0]

Bound(q) == q.exchange = Exchange(row) /\ Matches(q.pattern, row.type)

\* The relay routes a pending row; the exchange copies it to each bound queue.
\* Two copies of one id in a queue are one to an idempotent consumer.
Publish ==
  /\ ~processed /\ copies < MaxCopies
  /\ copies' = copies + 1
  /\ LET id == IF Reissued(row) THEN copies' ELSE 0
     IN  waiting' = [q \in Queues |-> IF Bound(q) THEN waiting[q] \cup {id} ELSE waiting[q]]
  /\ UNCHANGED <<row, processed, claims, heard, dead>>

\* The transaction that marks the row commits, or is lost with the relay.
MarkProcessed ==
  /\ ~processed /\ copies > 0
  /\ processed' = TRUE
  /\ UNCHANGED <<row, copies, waiting, claims, heard, dead>>

Take(q, id) == id \in waiting[q] /\ waiting' = [waiting EXCEPT ![q] = @ \ {id}]

\* The body is not what the subscriber declares: the message is rejected.
Reject(q, id) ==
  /\ ~Accepts(q)
  /\ Take(q, id)
  /\ dead' = [dead EXCEPT ![q] = @ + 1]
  /\ UNCHANGED <<row, processed, copies, claims, heard>>

\* No branch for the type.
Ignore(q, id) ==
  /\ Accepts(q) /\ row.type \notin q.branches
  /\ Take(q, id)
  /\ UNCHANGED <<row, processed, copies, claims, heard, dead>>

\* try_claim_event, whose key is of the service, decides.
Handle(q, id) ==
  /\ Accepts(q) /\ row.type \in q.branches
  /\ Take(q, id)
  /\ claims' = [claims EXCEPT ![q.service] = @ \cup {id}]
  /\ heard' = [heard EXCEPT ![q] = IF id \in claims[q.service] THEN @ ELSE @ + 1]
  /\ UNCHANGED <<row, processed, copies, dead>>

Relay == Publish \/ MarkProcessed
Deliver(q, id) == Reject(q, id) \/ Ignore(q, id) \/ Handle(q, id)

Next == Relay \/ \E q \in Queues, id \in Ids : Deliver(q, id)

Spec == Init /\ [][Next]_vars

-----------------------------------------------------------------------------
(* Properties.                                                              *)

Settled == processed /\ \A q \in Queues : waiting[q] = {}

\* Consumers that never hear what they have branches for: the payment service,
\* and the order service of shipments.
Deaf == PaymentQueues \cup {q \in OrderQueues : q.exchange = "shipping"}

\* The supplier service's two order queues have one consumer between them.
Listeners(service) == {q \in Queues : q.service = service /\ row.type \in q.branches}

\* Every service with a branch for a type hears each event of it, through one
\* of its queues only, and acts on it once however often the relay publishes
\* it, except where the product service's router gives each copy a new id.  The
\* two deaf consumers, and no others, never hear any.
ListenersHear ==
  /\ \A s \in {q.service : q \in Queues} :
       LET hearing == {q \in Listeners(s) : heard[q] > 0}
       IN  /\ Settled /\ Listeners(s) \ Deaf # {} => Cardinality(hearing) = 1
           /\ ~Reissued(row) => \A q \in hearing : heard[q] = 1
  /\ \A q \in Deaf : heard[q] = 0

\* What the consumers' own comments say of their branches, with no exception.
\* payment_service/events_consumer/app.py: "The payment service listens for
\* order.cancelled events so it can issue Stripe refunds"; and
\* order_event_consumer.py, of a shipment that left: "Update order
\* delivery_status to DISPATCHED."
EveryListenerHears ==
  Settled => \A s \in {q.service : q \in Queues} :
               Listeners(s) # {} => \E q \in Listeners(s) : heard[q] > 0

=============================================================================
