------------------------------ MODULE Processes ------------------------------
(***************************************************************************)
(* One operating-system process of a service: it opens its resources,      *)
(* serves, and closes them when it is told to stop or cannot start.  The   *)
(* APIs and the shipping relay hold their resources in an AsyncExitStack,  *)
(* the others in a graph with a start and a close method.  In a consumer   *)
(* FastStream runs the shutdown hook before it stops the broker: the hook  *)
(* closes the resources under a handler that is still running, and         *)
(* messages keep arriving; three of the hooks drop the event consumer only *)
(* after that, the others before.                                          *)
(***************************************************************************)
EXTENDS Naturals, Sequences, SequencesExt, FiniteSets

CONSTANT MaxFaults   \* bound: steps that raise

VARIABLES
  process,   \* the process, a record of Processes
  phase,     \* "starting", "serving", "closing", "draining" or "ended"
  started,   \* resources that were started
  opened,    \* resources that are open
  closing,   \* resources still to be closed
  excused,   \* history: resources that refused to close, were never entered or
             \* opened again by a handler that outlived them
  message,   \* an event in the consumer's queue, and how far its handler is
  claim,     \* its key in Redis
  cut,       \* history: the handler that held the claim was cut off from it, by
             \* the end of the process or by a failure of Redis
  faults

vars == <<process, phase, started, opened, closing, excused, message, claim, cut, faults>>

-----------------------------------------------------------------------------
(* The processes.                                                           *)

\* Entered in this order, left in the reverse order.
Stack(resources) ==
  [role |-> "api", stack |-> TRUE, late |-> FALSE,
   starts |-> resources, closes |-> Reverse(resources)]

Graph(role, starts, closes) ==
  [role |-> role, stack |-> FALSE, late |-> FALSE, starts |-> starts, closes |-> closes]

GatewayApi == Stack(<<"cache", "limiter", "client">>)
UserApi == Stack(<<"database", "cache", "limiter", "google">>)
ProductApi == Stack(<<"database", "cache", "session", "taskiq">>)
OrderApi == Stack(<<"database", "catalog">>)
PaymentApi == Stack(<<"database", "idempotency">>)
SupplierApi == Stack(<<"database", "cj">>)
ShippingApi == Stack(<<"database", "publisher">>)
CartApi == Stack(<<"database">>)
WishlistApi == Stack(<<"database", "session">>)
NotificationApi == Stack(<<"database">>)

Relay == Graph("relay", <<"publisher">>, <<"publisher", "database">>)
UserRelay == Relay
ProductRelay == Relay
OrderRelay == Relay
PaymentRelay == Relay
SupplierRelay == Relay
ShippingRelay == [Stack(<<"database", "publisher">>) EXCEPT !.role = "relay"]
SagaTimeoutWorker == Relay

Consumer(starts, closes) == Graph("consumer", starts, closes)

\* Drops its event consumer when the resources are closed.
LateConsumer ==
  [Consumer(<<"idempotency">>, <<"idempotency", "database">>) EXCEPT !.late = TRUE]

OrderConsumer == Consumer(<<"idempotency">>, <<"idempotency", "database">>)
PaymentConsumer == Consumer(<<"idempotency">>, <<"idempotency", "database">>)
ShippingConsumer == LateConsumer
CartConsumer == LateConsumer
WishlistConsumer == LateConsumer
ProductConsumer == Consumer(<<"idempotency", "cache">>, <<"cache", "idempotency", "database">>)
SupplierConsumer ==
  Consumer(<<"idempotency", "cj", "products">>, <<"products", "cj", "idempotency", "database">>)
NotificationConsumer ==
  Consumer(<<"idempotency", "taskiq">>, <<"taskiq", "idempotency", "database">>)

Processes ==
  {GatewayApi, UserApi, ProductApi, OrderApi, PaymentApi, SupplierApi, ShippingApi, CartApi,
   WishlistApi, NotificationApi,
   UserRelay, ProductRelay, OrderRelay, PaymentRelay, SupplierRelay, ShippingRelay,
   SagaTimeoutWorker,
   OrderConsumer, PaymentConsumer, ShippingConsumer, CartConsumer, WishlistConsumer,
   ProductConsumer, SupplierConsumer, NotificationConsumer}

\* Whose start talks to Redis or RabbitMQ; the others only build an object.
Remote == {"cache", "limiter", "idempotency", "publisher", "taskiq"}

Owned(p) == ToSet(p.starts) \cup ToSet(p.closes)

\* Open as soon as it is constructed, before anything is started: the engine
\* of the database and aiohttp's session.
Constructed(p) == Owned(p) \cap {"database", "session"}

-----------------------------------------------------------------------------

TypeOK ==
  /\ process \in Processes
  /\ phase \in {"starting", "serving", "closing", "draining", "ended"}
  /\ started \in 0..Len(process.starts)
  /\ opened \subseteq Owned(process) /\ excused \subseteq Owned(process)
  /\ closing \in Seq(Owned(process))
  /\ message \in {"queued", "taken", "claimed", "open", "committed", "done", "dead"}
  /\ claim \in {"none", "processing", "processed"}
  /\ cut \in BOOLEAN
  /\ faults \in 0..MaxFaults

Init ==
  /\ process \in Processes
  /\ phase = "starting" /\ started = 0
  /\ opened = Constructed(process)
  /\ closing = <<>> /\ excused = {}
  /\ message = "queued" /\ claim = "none" /\ cut = FALSE
  /\ faults = 0

Fault == faults < MaxFaults /\ faults' = faults + 1

-----------------------------------------------------------------------------
(* Starting and stopping.                                                   *)

Starting == process.starts[started + 1]

StartNext ==
  /\ phase = "starting" /\ started < Len(process.starts)
  /\ opened' = opened \cup {Starting}
  /\ started' = started + 1
  /\ UNCHANGED <<process, phase, closing, excused, message, claim, cut, faults>>

\* A failed start cleans up after itself, except that connect() of a graph's
\* resource leaves its client to close().  A stack leaves what it has entered,
\* a graph closes all it owns.
StartFails ==
  /\ phase = "starting" /\ started < Len(process.starts)
  /\ Starting \in Remote
  /\ Fault
  /\ phase' = "closing"
  /\ IF process.stack
     THEN /\ closing' = Reverse(SubSeq(process.starts, 1, started))
          /\ excused' = Constructed(process) \ ToSet(closing')
          /\ UNCHANGED opened
     ELSE /\ closing' = process.closes
          /\ opened' = IF Starting = "publisher" THEN opened ELSE opened \cup {Starting}
          /\ UNCHANGED excused
  /\ UNCHANGED <<process, started, message, claim, cut>>

Serve ==
  /\ phase = "starting" /\ started = Len(process.starts)
  /\ phase' = "serving"
  /\ UNCHANGED <<process, started, opened, closing, excused, message, claim, cut, faults>>

\* init_db or the supplier's seeding raises in the lifespan.
InitialiseFails ==
  /\ phase = "starting" /\ started = Len(process.starts)
  /\ process.role = "api"
  /\ Fault
  /\ phase' = "closing" /\ closing' = process.closes
  /\ UNCHANGED <<process, started, opened, excused, message, claim, cut>>

\* SIGTERM: the hook begins.
Stop ==
  /\ phase = "serving"
  /\ phase' = "closing" /\ closing' = process.closes
  /\ UNCHANGED <<process, started, opened, excused, message, claim, cut, faults>>

CloseNext ==
  /\ phase = "closing" /\ closing # <<>>
  /\ opened' = opened \ {Head(closing)}
  /\ closing' = Tail(closing)
  /\ UNCHANGED <<process, phase, started, excused, message, claim, cut, faults>>

\* Mutant of CloseRaises: no finally around the next close.
CloseRaisesAndEnds ==
  /\ phase = "closing" /\ closing # <<>>
  /\ Fault
  /\ excused' = excused \cup {Head(closing)}
  /\ closing' = <<>>
  /\ UNCHANGED <<process, phase, started, opened, message, claim, cut>>

\* The rest is closed all the same.
CloseRaises ==
  /\ phase = "closing" /\ closing # <<>>
  /\ Fault
  /\ excused' = excused \cup {Head(closing)}
  /\ closing' = Tail(closing)
  /\ UNCHANGED <<process, phase, started, opened, message, claim, cut>>

\* The hook has returned: FastStream stops the broker, anything else is over.
HookEnds ==
  /\ phase = "closing" /\ closing = <<>>
  /\ phase' = IF process.role = "consumer" THEN "draining" ELSE "ended"
  /\ UNCHANGED <<process, started, opened, closing, excused, message, claim, cut, faults>>

\* The broker does not wait for a handler; its message goes back.
Exit ==
  /\ phase = "draining"
  /\ phase' = "ended"
  /\ cut' = (claim = "processing")
  /\ message' = IF message \in {"done", "dead"} THEN message ELSE "queued"
  /\ UNCHANGED <<process, started, opened, closing, excused, claim, faults>>

-----------------------------------------------------------------------------
(* A handler of the consumer.                                               *)

Running == process.role = "consumer" /\ phase # "ended"

\* The handler has an event consumer to call.
Take ==
  /\ Running /\ (phase = "serving" \/ (phase = "closing" /\ process.late))
  /\ started = Len(process.starts)
  /\ message = "queued"
  /\ message' = "taken"
  /\ UNCHANGED <<process, phase, started, opened, closing, excused, claim, cut, faults>>

\* The hook has dropped it: "consumer resources are not initialized".
TakeRefused ==
  /\ Running /\ (phase = "draining" \/ (phase = "closing" /\ ~process.late))
  /\ started = Len(process.starts)
  /\ message = "queued"
  /\ message' \in {"queued", "dead"}
  /\ UNCHANGED <<process, phase, started, opened, closing, excused, claim, cut, faults>>

\* RedisBase.redis builds a new client when there is none.
TouchRedis ==
  /\ opened' = opened \cup {"idempotency"}
  /\ excused' = IF "idempotency" \in opened THEN excused ELSE excused \cup {"idempotency"}

ClaimEvent ==
  /\ Running /\ message = "taken"
  /\ TouchRedis
  /\ IF claim = "none"
     THEN claim' = "processing" /\ message' = "claimed"
     ELSE message' = "done" /\ UNCHANGED claim
  /\ UNCHANGED <<process, phase, started, closing, cut, faults>>

\* Redis cannot be reached, though the SET may have been applied.  The except
\* branch deletes the key, whoever set it, or fails as well.
ClaimRaises ==
  /\ Running /\ message = "taken"
  /\ Fault
  /\ TouchRedis
  /\ \/ claim' = "none" /\ cut' = FALSE
     \/ claim = "none" /\ claim' = "processing" /\ cut' = TRUE
     \/ UNCHANGED <<claim, cut>>
  /\ message' \in {"queued", "dead"}
  /\ UNCHANGED <<process, phase, started, closing>>

\* A transaction needs the engine only to begin.
OpenTransaction ==
  /\ Running /\ message = "claimed" /\ "database" \in opened
  /\ message' = "open"
  /\ UNCHANGED <<process, phase, started, opened, closing, excused, claim, cut, faults>>

CommitWork ==
  /\ Running /\ message = "open"
  /\ message' = "committed"
  /\ UNCHANGED <<process, phase, started, opened, closing, excused, claim, cut, faults>>

\* Mutant of HandlerRaises: a closed Redis client stays closed, and the
\* release of the claim fails with it.
HandlerRaisesOnClosed ==
  /\ Running
  /\ \/ message = "claimed" /\ "database" \notin opened /\ UNCHANGED faults
     \/ message \in {"claimed", "open", "committed"} /\ Fault
  /\ claim' = IF "idempotency" \in opened THEN "none" ELSE claim
  /\ message' \in {"queued", "dead"}
  /\ UNCHANGED <<process, phase, started, opened, closing, excused, cut>>

\* "Session maker is not initialized", or the handler fails on its own: the
\* claim is released and the message requeued or dead-lettered.
HandlerRaises ==
  /\ Running
  /\ \/ message = "claimed" /\ "database" \notin opened /\ UNCHANGED faults
     \/ message \in {"claimed", "open", "committed"} /\ Fault
  /\ TouchRedis
  /\ claim' = "none"
  /\ message' \in {"queued", "dead"}
  /\ UNCHANGED <<process, phase, started, closing, cut>>

\* Redis cannot be reached: a handler that raises, or cannot mark its event,
\* raises again in its except branch, and the claim stays.
ReleaseFails ==
  /\ Running /\ message \in {"claimed", "open", "committed"}
  /\ Fault
  /\ TouchRedis
  /\ cut' = TRUE
  /\ message' \in {"queued", "dead"}
  /\ UNCHANGED <<process, phase, started, closing, claim>>

MarkEvent ==
  /\ Running /\ message = "committed"
  /\ TouchRedis
  /\ claim' = "processed" /\ message' = "done"
  /\ UNCHANGED <<process, phase, started, closing, cut, faults>>

-----------------------------------------------------------------------------

Lifecycle ==
  \/ StartNext \/ StartFails \/ Serve \/ InitialiseFails
  \/ Stop \/ CloseNext \/ CloseRaises \/ HookEnds \/ Exit

Handler ==
  \/ Take \/ TakeRefused \/ ClaimEvent \/ ClaimRaises \/ OpenTransaction \/ CommitWork
  \/ HandlerRaises \/ ReleaseFails \/ MarkEvent

Next == Lifecycle \/ Handler

Spec == Init /\ [][Next]_vars

-----------------------------------------------------------------------------
(* Properties.                                                              *)

\* Whatever failed, at whatever step, a process that has ended holds nothing
\* open but what refused to close, a session its stack never entered, or a
\* Redis client that a handler opened after the shutdown.
NothingLeaks == phase = "ended" => opened \subseteq excused

\* A handler overtaken by the shutdown hook still settles its claim, with the
\* clients it needs closed under it: a claim is only held by a handler that is
\* running, unless the process ended or Redis failed under the one that held it.
ShutdownSettlesClaims ==
  claim = "processing" => message \in {"claimed", "open", "committed"} \/ cut

=============================================================================
