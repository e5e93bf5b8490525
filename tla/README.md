# Verification of the e-commerce back end

TLA+ models of the React/FastAPI e-commerce application in `src/`, the TLC runs
that check them on small instances, and TLAPS proofs about them. Paths below are
relative to `src/backend/` unless they start with `src/`.

## 1. The system

Nine FastAPI services, each with its own PostgreSQL database, talk over RabbitMQ
(FastStream) and share a Redis. An API gateway fronts them; a Next.js shop and a
TypeScript admin panel use the gateway.

| Component | State it keeps | Operations | Model |
|---|---|---|---|
| Order service | `orders`, `order_saga_states`, `custom_production_jobs`, outbox | create, cancel, patch, delete; answers of inventory, payment and fulfilment; saga timeout | `OrderSaga` |
| Event delivery (in every service) | outbox rows with `processed`, `attempts`, `next_retry_at`; the broker's queue; a Redis key per event | write, lock a batch, publish, mark, back off; claim, apply, mark, release | `EventDelivery`, `EventChannel` |
| Wiring of the events | exchanges, queues, bindings, subscribers and handler branches of every service | route a row to the handlers that have a branch for it | `Messaging` |
| Payment service | `payments`, outbox; the intent and refund at Stripe | create intent, five webhooks, refund on `order.cancelled` | `Payment` |
| Product service, stock | product and variant quantities, `inventory_reservations`, outbox | reserve, release, update, supplier upsert, delete | `Inventory` |
| Product service, image generation | quota counter, job and task in Redis | request, generate, poll | `ImageJobs` |
| Product service, the rest | products, categories, reviews, files | CRUD | what its routes change and which cached pages they clear: `Gateway` |
| Shipping service | `shipments` with a status machine, outbox | created and cancelled by order events, created and moved on by an administrator | `Shipping` |
| Supplier service, orders | `cj_order_attempts`, outbox; the order at CJ | place on `order.confirmed`, delete on `order.cancelled` | `CJOrder` |
| Supplier service, catalog | `supplier_sync_states`, outbox | scheduled and manual runs, batches, reports | `SupplierSync` |
| User service | `users`, refresh tokens, their index and one-time tokens in Redis | login, rotation, logout, reset, Google login, deletion; profile edits | `Sessions` (all but profile edits and lists) |
| Cart, wishlist | `cart_items`; `wishlists` and their items | CRUD; cleared or deleted by events | `Cart`, `Wishlist` |
| Notification service | `notifications`, an email task queue | one email and one row per event; read, delete | `Notifications` |
| API gateway | response cache and rate-limit windows in Redis | forward, authenticate, cache, invalidate, limit | `Gateway` (cache and invalidation) |
| The processes of all services | database pools, Redis, broker and HTTP clients | open, serve, drain, close | `Processes` |
| Shop front end, admin panel, deployment | none of protocol interest | | not modelled |

### How a checkout runs

    customer -> order service        POST order: order, saga row, order.created and
                                     inventory.reserve.requested in one transaction
    product service                  reserves, answers inventory.reserve.succeeded/failed
    customer -> payment service      POST intent, before or after the order; pays at Stripe;
                                     Stripe calls the webhook
    payment service                  payment.succeeded/failed/cancelled
    order service                    both gates open -> order.confirmed;
                                     any failure, a cancellation or 30 minutes -> order.cancelled
                                     and, if stock was held, inventory.release.requested
    payment service                  on order.cancelled cancels the intent or refunds the charge

Every arrow between services is the same path: a row in the producer's outbox
table written by the business transaction; a relay process that locks pending
rows with `FOR UPDATE SKIP LOCKED`, publishes them and marks them processed; a
RabbitMQ queue; a consumer that claims the event's id in Redis (`SET NX`, 72
hours), runs one database transaction and overwrites the key.

### What is hard here

* Answers of several services, the customer and a timeout reach one order in any
  order, some of them twice.
* The database transaction, the Redis key, Stripe and the broker are four
  different commits; a crash can fall between any two of them.
* Stripe is called between reading a row and writing it, and rows are read
  without locks in the payment service.
* Quantities are written as absolute numbers by the catalog while reservations
  hold part of them.
* CJ Dropshipping may accept an order and lose the answer, or accept it after
  the call has timed out; a refund must not be given for such an order.
* The answer of a request leaves before its transaction commits (the session of
  a FastAPI dependency commits on exit), so the gateway invalidates early.
* Refresh tokens live in Redis, the account in PostgreSQL, and a token is not
  unique within a second.

`PROJECT.json` lists each of these hazards at its line with the properties that
watch over it.

## 2. The modules

### `OrderSaga` (`order_service/`)

One action per handler of `OrderService`, plus the timeout worker. The
environment is open: any participant may report any outcome for any order at any
time and any number of times, so nothing shown here depends on the other
services or on the broker.

| Code | Model |
|---|---|
| `orders.status`, with row absent or deleted | `orderStatus` |
| `orders.delivery_status`, `payment_intent_id` | `deliveryStatus`, `intentOf` |
| `order_saga_states.*_status` | `inventoryStatus`, `paymentStatus`, `fulfillmentStatus` |
| `custom_production_jobs.status` | `production` |
| rows of the outbox table for the order | `outbox[o]`, a sequence of event types |
| `date_created` older than the cutoff | `expired` |

Each handler takes the saga row `FOR UPDATE` and commits once, and is therefore
one action. `UpdateOrder` and `DeleteOrder` do not take that lock: the first
writes a column no locked handler writes, the second conflicts with every row
write, so both serialise. A transaction that violates the unique index on
`payment_intent_id` aborts and changes nothing (`IntentFree` in the guard).

An order's id may be sent by the client (`order_service.py:94-95`), so a deleted
order's id can be posted again, beside the outbox rows of its first life. The
models create an order once; every property speaks of the first life of an id.

Abstracted: addresses, prices and lines. An order is in `InventoryOrders` if a
line needs stock and in `CustomOrders` if a line is made to order; `matches`
stands for the comparison of user, amount and currency. `outbox` holds every
event type the service writes.

### `EventChannel` and `EventDelivery` (`shared/`)

`EventChannel` is the abstract promise about one event: absent, written,
published, applied, each reached once and never undone. `EventDelivery` is the
mechanism: the relay's transaction in steps (`StartBatch`, `PublishNext`,
`PublishFails`, `CommitBatch`, `RelayCrash`), the queue as a count of copies, the
consumer's tasks (`Take`, `CommitEffect`, `MarkProcessed`, and the three places
where it can raise: `ClaimRaises`, `HandlerRaises`, `MarkFails`), `ConsumerCrash`
and the expiry of the key. The handler shape is that of
`payment_event_consumer.py`, which the other consumers repeat. Requeue or
dead-letter after an exception is the broker's policy and both are allowed
(`Nack`). A dead message is gone: the queues name a dead-letter exchange `dlx`
that nothing declares, so RabbitMQ drops what is sent there.

The history variables `abandoned`, `lapsed` and `stolen` name the three ways the
claim protocol can be defeated: a key left behind by a handler that never
committed, a key lost after its commit, a key deleted by a task that had not set
it. The invariants say that *only* these ways exist.

### `Payment` (`payment_service/`)

Rows are read without a lock, so every method that leaves the transaction is
split at that point:

| Code | Actions |
|---|---|
| `create_payment_intent` | `CreateCall` (read row, call Stripe), `CreateCommit`, `CreateAborts` |
| `stripe_webhook` | `ReadRefunded` (only the refund handler looks before it writes), `MarkWebhook` (handled, flushed, key set), `CommitWebhook`, `LoseWebhook`, `RefundHookFails` |
| `handle_order_cancelled` / `handle_payment_refund` | `OrderCancelled`, `RefundRead`, `RefundCall`, `RefundCommit`, `RefundFails`, `RefundCrash` |
| Stripe and the customer (external) | `Pay`, `Decline`, `IntentExpires`, `ManualRefund`, `RefundSettles` |

`RowFree` is PostgreSQL's row lock between a flushed UPDATE and its commit.
Stripe's idempotency keys are derived from the order id, so an order has one
intent and at most one refund made by the service. A manual refund stands for
one made in Stripe's dashboard, where a full refund cannot be made twice.

`Payment` and `CheckoutSaga` model the handler of `order.cancelled` as it is
written. Whether the message reaches it is the subject of `Messaging`
(`EveryListenerHears`).

### `Inventory` (`product_service/`)

A stock row is a product or a variant; `Demand[o][s]` is what the grouped lines
of an order take. `ReserveFresh`, `ReserveRejected` and `ReserveAgain` are the
three outcomes of `reserve_inventory`; each is atomic because the UPDATEs test
and change a row at once inside one transaction and a rejection rolls back to a
savepoint. `WriteStock` is any absolute write (`update_product`,
`upsert_product_by_pid`, `_sync_variants`). A variant whose number is unknown is
modelled as unsellable, which is what the UPDATE's comparison with NULL does.
Releases are requested for one order or, when the timeout worker cancels, for a
batch (`RequestRelease`). `HeldUnits(s)` names every unit of a row that a live
reservation holds; what is held is their number.

### `CheckoutSaga`

Instances of the three services, their outboxes delivered as `EventChannel`
promises: any order, one effect. Three deviations from it are bounded: `lost`
(what `EventDelivery` shows a crash can lose), `repeats` (the product service's
publisher gives each publication a new `event_id`, so the order service cannot
recognise a second copy), and deliveries about orders that do not exist, no longer
or not yet. `honest` are the orders whose intent was requested for the order's own
amount. What `Inventory` asks of its environment, `ImplementsInventory` shows of the
order service.

The payment service never asks whether an order exists, and the shop requests the
intent before it posts the order, so `PaymentStep` may come first. A
`payment.succeeded` that finds no order is marked processed and forgotten; `early`
remembers these orders, which `PaidAndHeldIsDecided` excepts and `PaidIsNotPending`
does not.

### `CJOrder`, `Shipping` and `Fulfilment` (`supplier_service/`, `shipping_service/`)

One confirmed order at the two services that fulfil it. In `CJOrder` the
handlers of `order.confirmed` and `order.cancelled`, which come from two queues,
run in any order and at the same time; each is a sequence of steps that ends at
a commit or at a call to CJ:

| Code (`supplier_event_consumer.py`) | Actions |
|---|---|
| `handle_order_confirmed`, the row it finds | `ReadAttempt`, `RecordFailed`, `CannotBuild` |
| the commit of `creating` | `RecordCreating` |
| the POST and what may come back | `PostAccepted`, `PostAcceptedWithoutId`, `PostRejected`, `PostErrsDefinitively`, `PostErrs` |
| the query that follows doubt | `QueryFinds`, `QueryFindsNone` |
| the final commit | `RecordCreated`, `RecordFailed` |
| `handle_order_cancelled` | `ReadNumber`, `DeleteAccepted`, `DeleteRefused`, `DeleteErrs`, `RecordCancelled` |
| delivery | `HandlerErrs` (which may be unable to release its claim), `Crash`, `Redeliver` |

CJ is external: `LateArrival` is a POST that timed out here and is carried out
there. `overtaken`, `misread` and `lapsed` name what the properties except. The
order service's reaction to a report is `OrderTakesReport`.

`Shipping` keeps the shipment with its transition table. The service reads,
checks and writes without a lock, so an administrator's update and a
cancellation may each hold a status they have read (`patch`, `cancelling`).
What it announces reaches nobody (`Messaging`), so the order service's handlers of
`shipment.*` are never called and are not modelled.

`Fulfilment` joins the two through the order service: a failure at CJ cancels
the order and the shipment with it.

### `Sessions` (`user_service/`)

The refresh tokens of one account. A refresh token's claims are the account,
`token_version` and an expiry in whole seconds, so a token is the pair
`<<version, second>>`, and two minted in one second are one token. Requests run
at once, and each is split where it awaits: read the account, write the row
(which locks it until the commit), read the set of tokens, delete their keys,
store a new one, commit. `epoch` counts revocations that have committed, and
`born` remembers in which of them a token's request had read the account; an
exchange of a token of an earlier one is a `leaked` session.

### The back office

Eight modules, each about one mechanism outside the checkout:

| Module | Code | What it follows |
|---|---|---|
| `SupplierSync` | `supplier_service/`, the product service's import | run rows, the call that checks and then inserts, batches, reports and the count that completes a run; calls, batches and reports may be lost |
| `Gateway` | `api_gateway/`, the routes of the services | one page, one cached entry, one reader and one write at a time; every route of the services with the kinds of rows it changes, `_INVALIDATION_NAMESPACE_MAP`, and the product consumer's own clearing; a deletion's empty answer never leads to a clearing |
| `Wishlist` | `wishlist_service/` | requests with a token that outlives the account against the deletion of the row |
| `Cart` | `cart_service/` | requests that read, then write, against the two clearings of an order |
| `Notifications` | `notification_service/` | claim, email task, row, mark; a crash or a failed release at each; the worker, whose task may raise (`unsent`); the customer |
| `ImageJobs` | `image_generation_*`, `image_tasks.py`, the shop's polling | INCR and EXPIRE, job, task, worker, browser; every call may be the last of its process |
| `Messaging` | every `relay`, `event_publisher` and `events_consumer/app.py` | the journey of one row of any type through the exchanges, bindings, declared bodies and branches |
| `Processes` | every `resources.py`, lifespan and worker entry point | the 25 processes of `docker-compose.yml`, of 16 shapes: what each opens and closes, in which order, when a step raises and while a handler still runs, finds its clients closed, or cannot reach Redis to claim, mark or release. The shipping, cart and wishlist consumers still take messages while they close (`late`), the others refuse them |

`BackOffice` instantiates all eight. They share no state: what one tells another
travels through event delivery, which has its own model. A behaviour of
`BackOffice` therefore explores one part, chosen at the start, while the others
rest in one initial state.

### Proof modules

`OrderSagaProofs`, `EventDeliveryProofs`, `PaymentProofs`, `InventoryProofs`,
`CheckoutSagaProofs`, `FulfilmentProofs`, `SessionsProofs` and `BackOfficeProofs`
extend the module they are named for (`FulfilmentProofs` covers `CJOrder` and
`Shipping`, `BackOfficeProofs` the eight modules of the back office); see section 5.

## 3. What the runs show

| Run | Result | Shows |
|---|---|---|
| `order_saga` | holds, 1.05 million states | status, saga columns, production jobs and outbox agree; a cancellation that drops held stock releases it in the same transaction; no order stays pending |
| `event_delivery` | holds, 0.23 million states | at most one effect while the key is its owner's; an event is lost only to an abandoned claim; refinement of `EventChannel`; every row is published |
| `event_loss` | violated | `NoDataLoss`: the relay's "at-least-once delivery rather than data loss" ends at the consumer's claim |
| `payment` | holds, 0.17 million states | announcements are true at Stripe; a settled cancellation keeps no money; what a crash of the cancellation leaves unwritten, a webhook still records |
| `inventory` | holds, 0.24 million states | stock is conserved, the last answer is true, releases are final |
| `checkout` | holds, 0.48 million states | a confirmed order is charged and stocked, a cancelled one holds nothing, a paid and stocked one is decided unless it was paid before it was posted; the product service behaves as `Inventory` says (`ImplementsInventory`) |
| `checkout_refund` | violated | `CancelledIsRefunded`: paid after a stockout, refunded by nobody |
| `checkout_early` | violated | `PaidIsNotPending`: charged before it was posted, an order stays pending |
| `fulfilment` | holds, 2.4 million states | CJ is asked for one order; a refund leaves none there; a cancellation reaches CJ and the shipment unless it overtook them |
| `sessions` | holds, 5.4 million states | a rotated token buys no second rotation; a revocation shuts out every older session unless two revocations read the same version |
| `back_office` | holds, 0.49 million states | a completed import saw every batch and no run hangs unexplained; a stale page is about to be cleared or is due to one of four named races; deleted users' wishlists and ordered lines go; at most one email and one row per event, and one of each that is called for once it is done, but for the exceptions named; quota windows hold and end; jobs end; every event has the listeners it was written for; processes end clean, and leave no claim but what their end or Redis cut off |
| `wiring` | violated | `EveryListenerHears`: `shipment.*` reaches no queue of the order service, and `order.cancelled` no handler of the payment service |

The four violations are disagreements between the code and what its own
documents say; `PROJECT.json` quotes each under `findings`. In short:

1. **A charge on a cancelled order is kept** (`order_service.py:201`). A stockout
   cancels the order before its payment row exists; `order.cancelled` finds
   nothing to refund; the customer, whose page still shows the checkout, pays;
   `payment.succeeded` meets a cancelled order and returns. `src/FLOWS.md:427`
   promises the refund.
2. **A consumer's crash loses its event** (`idempotency_service.py:40`). The claim
   outlives the handler, and the redelivery is dropped as a duplicate.
3. **Shipments are not heard of** (`order_service/events_consumer/app.py:101`).
   The queue is bound to `shipping.*`, the events are named `shipment.*`. This is the
   counterexample of `wiring`.
4. **The payment service cannot take a cancellation**
   (`payment_service/events_consumer/app.py:68`). Its subscriber declares a string
   body; events travel as JSON objects. `EveryListenerHears` fails for it too, and
   `ListenersHear`, which holds and is proved, says of this consumer and the one of
   item 3 that they never hear anything.
5. **An order paid too early stays pending** (`order_event_consumer.py:219-224`).
   The gateway makes up the order id of an intent (`payment_routes.py:46`) and the
   shop asks for the intent before it posts the order
   (`src/frontend/app/checkout/CheckoutClient.tsx`, lines 47-93 before 103-140). A
   `payment.succeeded` that overtakes the POST is skipped, and the handler's
   docstring, "Ensures an order does not stay PENDING after Stripe confirms
   payment", does not come true: the timeout cancels a paid order.

What else the documents say and the code does not do, where a property that holds
says the opposite:

* **A reservation does not confirm an order.** The docstring of
  `handle_inventory_reserve_succeeded` (`order_event_consumer.py:255-256`: "4. Update
  order status to CONFIRMED in database", "5. Publish OrderConfirmedEvent"), and
  `src/FLOWS.md:270-280` and `386-391`, confirm an order and publish `order.confirmed`
  on `inventory.reserve.succeeded`, before any payment. `_confirm_if_ready`
  (`order_service.py:255-262`) also asks for `payment_status == "succeeded"`.
  `ConfirmedMeansReady` and `ConfirmedIsBacked` state what the code does.
* **An order is confirmed once.** In `src/FLOWS.md:309-314` the payment of an order
  that line 279 has announced leads to "confirm order again (idempotent)" and to a
  second `order.confirmed`. `_confirm_if_ready` returns unless the order is pending
  (`order_service.py:258`), so the event is written once, on the later of the two
  answers. `DecisionsInOrder` states what the code does.
* **Password resets are not ignored.** `notification_service/events_consumer/app.py:105`
  says "password.reset.* events are ignored". Their type is `user.password.reset.*`,
  the queue's `user.#` brings them, and `event_handlers.py:103-108` emails and notifies.
  `ListenersHear` counts the notification service among their listeners.
* **The payment service does not consume `order.confirmed`**, although
  `order_event_consumer.py:282-283` ("notification_service and payment_service consume
  order.confirmed directly from the order.events.exchange") and `src/FLOWS.md:426` say
  so: its only queue is bound to `order.cancelled`
  (`payment_service/events_consumer/app.py:56-59`). In `ListenersHear` it is no listener
  of that event.

Smaller observations that the models reach and no run states as violated:

* `payment.refunded` may be announced twice for one refund
  (`payment_service.py:391`), and a webhook is marked in Redis before its
  transaction commits (`payment_routes.py:79`), so a commit that fails leaves it
  marked and unrecorded. Both are hazards with a note.
* The product service's relay publishes a row of `inventory.reserve.*` again
  under a new `event_id`, although `shared/outbox/relay.py:48-49` relies on
  consumers to recognise it. `CheckoutSaga` and `ListenersHear` allow for it.
* Every deletion that answers 204 is a 500 at the gateway: it parses the empty body
  and catches only `orjson.JSONEncodeError` (`apigateway.py:384-390`, `409-411`). What
  was deleted stays in the cache until its entry expires or another write clears it
  (`AnswerLost` is the only answer such a route, a `Deletion`, has).
* `src/FLOWS.md:430` lists the order service as the consumer of `payment.refunded`. Its
  queue brings the event, and its handler has no branch for it.
* `GatewayConfig` names no cart service, so its routes answer 404 at the gateway;
  no service writes `supplier.product.import.failed`; nobody listens for a release
  or a refund in the order service.
* The docstring of `image_tasks.py:18-20` speaks of a retry on failure, while
  `run_job` records the failure and the task is acknowledged.

Every property of a passing run has a mutant: a plausible bug in a mapped
definition (the operators commented `Mutant of ...`) under which the same run
finds the property violated.

### Bounds

| Bound | Value | Why it is enough |
|---|---|---|
| `Orders` (`order_saga`) | one mixed, one custom-only | the only columns orders share are the unique intent and the worker's batch; two orders, two intents and `ExpiryLimit = 1` exercise both |
| `MaxOutbox` | 6 rows per order | the longest useful history is created, reserve, confirmed, cancelled, release and one more release; the open environment could go on for ever |
| `NumEvents`, `Workers`, `BatchSize` | 2, 2, 2 | a batch with one success and one failure; two tasks on one event |
| `MaxApplied`, `MaxFaults` | 2, 1 | a second application is what the invariants forbid; one crash, failed publication or failed claim on top of handlers that raise, keys that expire and copies that are requeued, which are not counted. With `MaxFaults = 2`, a fault during the recovery from a fault, everything still holds (1.9 million states, two to four minutes) |
| `Requests`, `MaxDeclines` (`payment`) | 2, 2 | two concurrent first requests; a decline before and after another event |
| `Stock`, `MaxStock`, `MaxAnswers` (`inventory`) | 3 rows, 2, 2 | an order that takes a product and its variant and fails on the last row; two competing orders; one redelivery |
| `MaxLost`, `MaxRepeats` (`checkout`) | 1, 1 | one lost delivery is enough for each leak; a repeat of each answer in turn |
| `MaxPlaced`, `MaxFaults` (`fulfilment`) | 2, 2 | a second order at CJ is what must not be; one fault, then another while it is repaired |
| `Requests`, `MaxVersion`, `MaxSecond`, `MaxFaults` (`sessions`) | 2, 2, 2, 1 | every race is between two requests; one revocation; two tokens of a version, or one twice; one request that fails half-way. The two requests are symmetric |
| `Starters`, `MaxRuns`, `MaxBatches` | 2, 3, 2 | the scheduler and an administrator start at once, and again afterwards; a run whose batches end differently |
| `MaxVersion` (`Gateway`) | 2 | a write before and after a read |
| `Requests`, `Products`, `Events` | 2, 2, 2 | two requests that read the same rows; an item that is removed and one that stays |
| `Generations`, `Limit`, `MaxWindows` | 3, 1, 1 | one request too many, and a window after it |
| `MaxCopies` | 2 | one publication repeated |
| `LiveFaults`, `MaxFaults` (`back_office`) | 1, 2 | one fault where liveness is checked, two elsewhere; failures are never forced |

The checkout has one order: the services' rows are per order and the
interference between orders (stock, unique intents, worker batches) is covered
by the modules on their own. The catalog is left alone there, as are
administrative delivery statuses, which no decision but `CancelOrder` reads.

`CHECK_DEADLOCK FALSE` is used throughout: an event may be dead-lettered, an
order decided, a payment settled, a process ended, a session revoked and an import
completed, and then the system rightly rests.

### Fairness

* `OrderSaga`: time passes (`TimeoutElapses`) and the worker's loop runs
  `expire_once` every 30 seconds for ever (`saga_timeout_worker.py:50-63`). No
  fairness is assumed of participants: `PendingIsDecided` must hold without
  their answers.
* `EventDelivery`: the relay's loop polls for ever (`relay.py:87-97`), a back-off
  time passes, the container is restarted. Failures are bounded by `MaxFaults`
  and never forced. The consumer gets no fairness: nothing is promised of it.
* `BackOffice`: `SyncGoesOn` and `ImagesGoOn` say that the supplier and product
  services' processes and the image worker run, or are started again by Docker
  (`restart:` in `docker-compose.yml`), and take what waits for them. What was lost for
  good (`stuck`, `unwritten`) is excepted by the properties, not assumed away.

## 4. What is only model-checked

Every invariant and action property of a passing run is a theorem (section 5).
What remains with TLC:

* Liveness: `PendingIsDecided`, `EventuallyPublished`, `EveryRunEnds` and `JobEnds`.
  They rest on fairness, and fairness on ENABLED, which the prover does not handle.
* The four violations: TLC finds their counterexamples, and there is nothing to prove.
* That the invariants are not empty: TLC reaches every action of every module, and
  every property has a mutant that breaks it. The proofs say nothing of either.

## 5. What is proved

Eight modules hold the proofs: 64 theorems and 189 lemmas, in some nine thousand
obligations. Each theorem is for every value of the constants, from the one named
assumption of the module it is about (`OrderAssumption`, `DeliveryAssumption`,
`PaymentAssumption`, `InventoryAssumption`, `CheckoutAssumption`, `CJAssumption`,
`SessionsAssumption`, `BackOfficeAssumption`). They say no more than that bounds are
natural numbers, that requests are finitely many, and that the sets of names are
what the code can have; a quota, a batch count and a number of copies are at least
one. The bounds that TLC needs are constants of the theorems too, so nothing
depends on their size.

| Module | Theorem | States |
|---|---|---|
| `OrderSagaProofs` | `TypeCorrect`, `Inductive` | `Spec => []TypeOK`, `Spec => []IInv` |
| | `ConfirmedIsReady` | `Spec => []ConfirmedMeansReady` |
| | `DecisionsOrdered` | `Spec => []DecisionsInOrder` |
| | `StatusAnnounced` | `Spec => []StatusMatchesOutbox` |
| | `ReleaseAfterCancel` | `Spec => []ReleaseFollowsCancel` |
| | `CancelledHoldsNone` | `Spec => []CancelledHoldsNothing` |
| | `StatusMovesForward` | `Spec => StatusForward` |
| | `CancelReleases` | `Spec => CancelReleasesStock` |
| `EventDeliveryProofs` | `TypeCorrect`, `Inductive` | types and inductive invariant |
| | `Exclusive` | `Spec => []ExclusiveHandling` |
| | `AtMostOnce` | `Spec => []AppliedAtMostOnce` |
| | `LostOnly` | `Spec => []LostOnlyIfAbandoned` |
| | `Refinement` | `Spec => ImplementsChannel` |
| `PaymentProofs` | `TypeCorrect`, `Inductive` | types and inductive invariant |
| | `EventsAreTrue` | `Spec => []EventsTellTruth` |
| | `MoneyIsSettled` | `Spec => []CancelSettlesMoney` |
| | `CancellationsTraced`, `CrashIsTraced` | `Spec => []CancelTraced`, `Spec => []CrashLeavesTrace` |
| `InventoryProofs` | `Inductive` | inductive invariant of the ledger |
| | `AnswersAreTrue` | `Spec => []LatestAnswerIsTrue` |
| | `ReleaseIsFinal` | `Spec => ReleasedIsFinal` |
| | `StockIsConserved` | `Spec => []StockConserved` |
| `CheckoutSagaProofs` | `Inductive` | inductive invariant |
| | `ConfirmedOrdersAreBacked` | `Spec => []ConfirmedIsBacked` |
| | `CancelledOrdersFreeStock` | `Spec => []CancelledFreesStock` |
| | `PaidAndHeldOrdersAreDecided` | `Spec => []PaidAndHeldIsDecided` |
| | `OrderServiceRuns`, `PaymentServiceRuns`, `ProductServiceRuns` | `Spec => Ord!Spec`, `Spec => Pay!Spec`, `Spec => ImplementsInventory` |
| `FulfilmentProofs` | `TypeCorrect`, `Inductive` | types and inductive invariant of the supplier's part |
| | `OneCJOrder` | `Spec => []AtMostOneCJOrder` |
| | `RefundIsSafe` | `Spec => []RefundOnlyIfNoCJOrder` |
| | `CancellationReachesCJ` | `Spec => []CancelReachesCJ` |
| | `SupplierPartRuns`, `SupplierHolds` | `FulfilmentSpec => Spec`, and the three above of `FulfilmentSpec` |
| | `ShipmentInductive`, `FulfilmentTypeCorrect` | inductive invariant and types of both services |
| | `ShipmentStops` | `FulfilmentSpec => []ShipmentStopsWithOrder` |
| `SessionsProofs` | `TypeCorrect`, `Inductive` | types and inductive invariant |
| | `RotationIsFinal` | `Spec => []RotatedTokenIsDead` |
| | `RevocationIsFinal` | `Spec => []RevokedStaysOut` |
| `BackOfficeProofs` | `SyncInductive`, `GateInductive`, `WishInductive`, `CartInductive`, `NoticeInductive`, `ImagesInductive`, `WireInductive`, `ProcInductive` | the inductive invariant of each part |
| | `CompletedRunsSawAll` | `Spec => []CompletedSawEveryBatch` |
| | `StaleExplained` | `Spec => []StaleIsExplained` |
| | `WishlistGone` | `Spec => []WishlistGoneWithUser` |
| | `OrderedLinesGone` | `Spec => []OrderedLinesLeaveCart` |
| | `NoticeOncePerEvent` | `Spec => []OneNoticePerEvent` |
| | `QuotaAlwaysHolds` | `Spec => []QuotaHolds` |
| | `ListenersHearAll` | `Spec => []ListenersHear` |
| | `ProcessesCloseAll`, `ClaimsSettle` | `Spec => []NothingLeaks`, `Spec => []ShutdownSettlesClaims` |
| | `BackOfficeTyped` | `Spec => []BackOfficeTypeOK` |

The arguments:

* **OrderSaga.** None of the five invariants is inductive alone. That a confirmed
  order is ready needs to know which saga columns a *pending* order can have; that
  decisions are in order needs to know that a pending order's outbox holds none;
  that a release follows a cancellation needs to know in which states of the saga
  an order is cancelled. `RowInv(o)` collects these facts for one order. The
  argument follows the code: two lemmas describe `_cancel_locked` and
  `_confirm_if_ready`, which every handler ends in, three say what appending an
  event does to an outbox, and the step lemma has one case per handler.
  `CancelReleases` is about steps: `CancelsThroughRelease` shows that every handler
  that cancels does it through `_cancel_locked`.
* **EventDelivery.** `IInv` says where a published event is: in the queue, with a
  task, dead, abandoned or applied (`Published`); whose a key is
  (`ClaimExplained`: without it a dropped duplicate could be the only copy); that
  a committed task has applied its event; and that an applied event is under a key
  that keeps everybody out, unless it lapsed or was stolen. The refinement looks at
  one event at a time: an action either leaves its phase (`QuietStep`) or moves it
  to the next (`PhaseStep`).
* **Payment.** Webhooks report what happened (`HooksTrue`), and what the consumer
  is going to write was decided at Stripe (`OutcomeTrue`), however long ago it read
  the row. From these the truth of every outbox row and the settlement of the money
  follow, whatever the payment row says in between. `CancelTraced` adds that a
  cancelled intent has sent its webhook, and that the webhook, once done, has
  announced it.
* **Inventory.** The ledger and the answers move together whatever the catalog
  does; the lemma `Answered` says what an answer adds. For the stock, the units an
  order takes of a row are disjoint from every other order's (`UnitsOf`,
  `UnitsMove`), so a reservation and a release move exactly as many units as they
  write, for any number of orders.
* **CheckoutSaga.** The invariant is about one order at the three services and its
  events between them. `RowOK` is what the saga row and its outbox agree on,
  `StockOK` and `MoneyOK` what the other two services' rows and outboxes allow,
  `FlowOK` and `PaidOK` what has become of an event that was handled if nothing was
  lost. The services' steps are described by what they append to an outbox
  (`Extended`), and a delivery by the one position it handles, so the cases are the
  handlers of one service against the facts of the others. Three refinements close
  the composition: in it, each service is a behaviour of its own module, so the
  theorems about that module, proved against an environment that may do anything,
  hold of the checkout wherever its constants meet the module's assumption. For
  the product service that takes the invariant: whoever is newly asked to release
  has answered that it holds the stock.
* **CJOrder and Fulfilment.** Outside a lapsed claim, the attempt's status says at
  which step its handler can be and whether anything was sent (`PostedOnce`), a
  number in the row is one of CJ's (`NumberKept`), and a failure or a deletion is
  only recorded when nothing of the order can come to life at CJ any more
  (`FailureIsFinal`, `DeletionIsFinal`). Every step of the composition is one of
  the supplier's or leaves its variables alone (`SupplierPartRuns`), which carries
  these results over. The shipment needs that an open update was checked against
  the transition table (`PatchChecked`) and that a handled cancellation ended the
  shipment, found none, or was overwritten (`CancelEnds`).
* **Sessions.** As long as no two revocations overlapped, versions and epochs go in
  step: a holder of the row lock writes one version ahead, and what a request mints
  belongs to the epoch it read (`InStep`). Then a token that passes the version
  check was born in the current epoch. Rotation needs only that a request at its
  check holds a token it has consumed.
* **The back office.** A step of `BackOffice` is a step of one part and leaves the
  other parts alone, so each part has an invariant and a lemma that says it stays.
  - *SupplierSync*: a run counts a batch only on the first report of its import
    (`RunCounts`, `RunBatches`), so a run that counted as many as it sent counted
    them all.
  - *Gateway*: an answer read before a write is still with its reader, in the cache
    under a clearing that is to come, or explained (`GateCache`). The lemma
    `FirstHit` evaluates `_INVALIDATION_NAMESPACE_MAP` for every route.
  - *Wishlist, Cart*: what each open request and handler has read, and what can have
    been written since (`WishClaims`, `CartClaims`, `OrderedLeft`).
  - *Notifications*: the emails and rows of an event add up to what its history
    names (`NoticeBound`, `NoticeOnce`), and a handler past a step has left what
    that step makes, unless the email's task raised (`NoticeSome`).
  - *ImageJobs*: the admitted requests of a window took different places of the
    counter, all up to the limit (`Place`, `Places`); counting places gives the quota.
  - *Messaging*: `ListenersReached` derives from the exchanges, bindings and
    branches themselves that each listening service is reached through exactly one
    queue, `DeafUnreached` that two consumers are reached by nothing they have a branch
    for; `CopyCounts` and `HeardByQueues` follow one row through them.
  - *Processes*: `ProcessFacts` checks of every process that its close list names
    all it owns; what is open while it closes is then excused or still on the list. For the claims,
    every step that leaves a handler either settles its claim or sets `cut`.

Every invariant was also checked by TLC on the instances of section 3 before it was
proved.

## 6. What is not modelled, and why

* **Quote and pricing**: reads catalog prices over HTTP and multiplies them;
  nothing is kept between a quote and the order, which prices its lines again.
* **Catalog rows, categories, reviews, files, profile edits, shipping methods**:
  plain CRUD in one transaction, without state that another part reads, beyond the
  cached pages that `Gateway` follows.
* **Rate limiter**: one Lua script that Redis runs atomically, with a window per
  caller.
* **Authentication at the gateway**: a signature check and a role, without state.
  `Sessions` and `Wishlist` model what a token's validity is worth.
* **Front end and admin panel**: pages and generated screens; only the page that
  polls an image job takes part in a protocol (`ImageJobs`).
* **Settings, schemas, logging, telemetry, deployment files**: declarative. The
  commands of `docker-compose.yml` are in `Processes`.
* **PostgreSQL, RabbitMQ, Redis, Stripe, CJ, OpenRouter, SMTP**: external; modelled
  by what the code relies on, and marked so in `PROJECT.json`.
* **Price, address and quantity arithmetic**: amounts are compared for equality
  only, so `matches` and `honest` stand for them.

## 7. Running

    tlc -workers 2 -config MCOrderSaga.cfg MCOrderSaga
    tlc -workers 2 -config BackOffice.cfg BackOffice
    tlapm EventDeliveryProofs.tla

Each run's module and configuration are in `PROJECT.json`. The longest run,
`back_office`, takes about three minutes for its two liveness properties.
