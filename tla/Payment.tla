------------------------------ MODULE Payment ------------------------------
(***************************************************************************)
(* The payment service: one payments row per order, the Stripe intent and  *)
(* refund behind it (external), Stripe's webhooks, and the consumer of     *)
(* order.cancelled that cancels the intent or refunds the charge.          *)
(*                                                                         *)
(* Stripe replays the first response for an idempotency key, so an order   *)
(* has one intent and at most one refund.  Creating an intent and settling *)
(* a cancelled order call Stripe between reading the row and writing it    *)
(* and are several actions; a webhook is marked processed before its       *)
(* transaction commits and is two, three where it looks at the status it   *)
(* is going to overwrite.  Rows are read without a lock.                   *)
(***************************************************************************)
EXTENDS Naturals, Sequences

CONSTANTS
  Orders,
  Requests,     \* concurrent create-intent requests of an order
  MaxDeclines   \* bound: declined attempts on an order's intent

ASSUME PaymentAssumption == MaxDeclines \in Nat

VARIABLES
  payment,     \* payments.status, "none" before INSERT
  outbox,      \* per order, the event types of the service's outbox rows
  creator,     \* per order and request, the status create_payment_intent read, or "idle"
  cancelMsg,   \* the order.cancelled message, see below
  saw,         \* status the consumer's transaction read
  outcome,     \* status it is about to write, decided at Stripe
  intent,      \* Stripe: the order's payment intent
  refund,      \* Stripe: the refund of its charge
  declines,    \* Stripe: declined attempts so far
  hook         \* Stripe's webhook events and how far each got

rowVars == <<payment, outbox>>
consumerVars == <<cancelMsg, saw, outcome>>
stripeVars == <<intent, refund, declines>>
vars == <<rowVars, creator, consumerVars, stripeVars, hook>>

Status == {"PENDING", "SUCCEEDED", "FAILED", "CANCELLED", "REFUNDED"}
PaymentEvent ==
  {"payment.succeeded", "payment.failed", "payment.cancelled", "payment.refunded"}

\* Only the declines of an intent can be several events of one type.
RefundHook == <<"refunded", 1>>
HookIds ==
  {<<"succeeded", 1>>, <<"canceled", 1>>, RefundHook}
    \cup {<<"failed", n>> : n \in 1..MaxDeclines}

\* "sent": Stripe delivers it until it is answered 2xx.  "read": the handler
\* found a payment that is not refunded.  "marked": handled,
\* processed in Redis, transaction still open.  "lost": marked processed and
\* never committed; "stuck": claimed by a process that died.  Every further
\* delivery of a lost or stuck event is answered as a duplicate.
HookState == {"unsent", "sent", "read", "marked", "done", "lost", "stuck"}

\* "dead": rejected by a failed handler; "lost": claimed by a consumer that
\* died, every redelivery being a duplicate.
MessageState == {"none", "queued", "read", "called", "done", "dead", "lost"}

TypeOK ==
  /\ payment \in [Orders -> Status \cup {"none"}]
  /\ outbox \in [Orders -> Seq(PaymentEvent)]
  /\ creator \in [Orders -> [Requests -> {"idle", "none", "FAILED", "CANCELLED"}]]
  /\ cancelMsg \in [Orders -> MessageState]
  /\ saw \in [Orders -> {"none", "PENDING", "SUCCEEDED"}]
  /\ outcome \in [Orders -> {"none", "CANCELLED", "REFUNDED"}]
  /\ intent \in [Orders -> {"none", "open", "succeeded", "canceled"}]
  /\ refund \in [Orders -> {"none", "pending", "succeeded", "failed"}]
  /\ declines \in [Orders -> 0..MaxDeclines]
  /\ hook \in [Orders -> [HookIds -> HookState]]

Init ==
  /\ payment = [o \in Orders |-> "none"]
  /\ outbox = [o \in Orders |-> <<>>]
  /\ creator = [o \in Orders |-> [r \in Requests |-> "idle"]]
  /\ cancelMsg = [o \in Orders |-> "none"]
  /\ saw = [o \in Orders |-> "none"]
  /\ outcome = [o \in Orders |-> "none"]
  /\ intent = [o \in Orders |-> "none"]
  /\ refund = [o \in Orders |-> "none"]
  /\ declines = [o \in Orders |-> 0]
  /\ hook = [o \in Orders |-> [h \in HookIds |-> "unsent"]]

-----------------------------------------------------------------------------
(* Writing the row.                                                         *)

\* An open webhook transaction has flushed its UPDATE and holds the row's lock.
RowFree(o) == \A h \in HookIds : hook[o][h] # "marked"

Record(o, status, event) ==
  /\ payment' = [payment EXCEPT ![o] = status]
  /\ outbox' = [outbox EXCEPT ![o] = Append(@, event)]

Send(o, h) == hook' = [hook EXCEPT ![o][h] = "sent"]

-----------------------------------------------------------------------------
(* Stripe and the customer (external).                                      *)

\* The customer holds the client secret once the row was committed.
Pay(o) ==
  /\ intent[o] = "open"
  /\ payment[o] # "none"
  /\ intent' = [intent EXCEPT ![o] = "succeeded"]
  /\ Send(o, <<"succeeded", 1>>)
  /\ UNCHANGED <<rowVars, creator, consumerVars, refund, declines>>

Decline(o) ==
  /\ intent[o] = "open"
  /\ payment[o] # "none"
  /\ declines[o] < MaxDeclines
  /\ declines' = [declines EXCEPT ![o] = @ + 1]
  /\ Send(o, <<"failed", declines[o] + 1>>)
  /\ UNCHANGED <<rowVars, creator, consumerVars, intent, refund>>

\* Expired, or cancelled by hand.
IntentExpires(o) ==
  /\ intent[o] = "open"
  /\ intent' = [intent EXCEPT ![o] = "canceled"]
  /\ Send(o, <<"canceled", 1>>)
  /\ UNCHANGED <<rowVars, creator, consumerVars, refund, declines>>

\* A refund made by hand in Stripe's dashboard.
ManualRefund(o) ==
  /\ intent[o] = "succeeded"
  /\ refund[o] = "none"
  /\ refund' = [refund EXCEPT ![o] = "pending"]
  /\ UNCHANGED <<rowVars, creator, consumerVars, intent, declines, hook>>

\* charge.refund.updated of a refund that failed is acknowledged and ignored.
RefundSettles(o) ==
  /\ refund[o] = "pending"
  /\ \/ /\ refund' = [refund EXCEPT ![o] = "succeeded"]
        /\ Send(o, RefundHook)
     \/ /\ refund' = [refund EXCEPT ![o] = "failed"]
        /\ UNCHANGED hook
  /\ UNCHANGED <<rowVars, creator, consumerVars, intent, declines>>

-----------------------------------------------------------------------------
(* create_payment_intent.  Finalised and pending payments return without a  *)
(* write.                                                                   *)

CreateCall(o, r) ==
  /\ creator[o][r] = "idle"
  /\ payment[o] \in {"none", "FAILED", "CANCELLED"}
  /\ creator' = [creator EXCEPT ![o][r] = payment[o]]
  /\ intent' = [intent EXCEPT ![o] = IF @ = "none" THEN "open" ELSE @]
  /\ UNCHANGED <<rowVars, consumerVars, refund, declines, hook>>

\* Two first requests insert the same intent id, which is UNIQUE: the second
\* is rolled back.
CreateCommit(o, r) ==
  /\ creator[o][r] # "idle"
  /\ RowFree(o)
  /\ \/ /\ creator[o][r] # "none" \/ payment[o] = "none"
        /\ payment' = [payment EXCEPT ![o] = "PENDING"]
     \/ /\ creator[o][r] = "none" /\ payment[o] # "none"
        /\ UNCHANGED payment
  /\ creator' = [creator EXCEPT ![o][r] = "idle"]
  /\ UNCHANGED <<outbox, consumerVars, stripeVars, hook>>

\* The response or the commit is lost after Stripe created the intent.
CreateAborts(o, r) ==
  /\ creator[o][r] # "idle"
  /\ creator' = [creator EXCEPT ![o][r] = "idle"]
  /\ UNCHANGED <<rowVars, consumerVars, stripeVars, hook>>

-----------------------------------------------------------------------------
(* Webhooks.  A delivery that finds no row, or fails before it is marked,   *)
(* releases its claim and leaves the event to Stripe's next attempt.        *)

\* handle_charge_refund_updated compares the status before it writes it; the
\* other handlers overwrite it unseen.
ReadRefunded(o) ==
  /\ hook[o][RefundHook] = "sent"
  /\ payment[o] # "none"
  /\ hook' = [hook EXCEPT
       ![o][RefundHook] = IF payment[o] = "REFUNDED" THEN "done" ELSE "read"]
  /\ UNCHANGED <<rowVars, creator, consumerVars, stripeVars>>

MarkWebhook(o, h) ==
  /\ hook[o][h] = IF h = RefundHook THEN "read" ELSE "sent"
  /\ payment[o] # "none"
  /\ RowFree(o)
  /\ hook' = [hook EXCEPT ![o][h] = "marked"]
  /\ UNCHANGED <<rowVars, creator, consumerVars, stripeVars>>

HandleSucceeded(o) == Record(o, "SUCCEEDED", "payment.succeeded")
HandleFailed(o)    == Record(o, "FAILED", "payment.failed")
HandleCancelled(o) == Record(o, "CANCELLED", "payment.cancelled")
HandleRefunded(o)  == Record(o, "REFUNDED", "payment.refunded")

ApplyWebhook(o, type) ==
  \/ type = "succeeded" /\ HandleSucceeded(o)
  \/ type = "failed" /\ HandleFailed(o)
  \/ type = "canceled" /\ HandleCancelled(o)
  \/ type = "refunded" /\ HandleRefunded(o)

\* Mutant of CommitWebhook: acknowledges a cancelled intent and records nothing,
\* leaving that to the consumer.
CommitWebhookButCanceled(o, h) ==
  /\ hook[o][h] = "marked"
  /\ \/ h[1] = "canceled" /\ UNCHANGED rowVars
     \/ h[1] # "canceled" /\ ApplyWebhook(o, h[1])
  /\ hook' = [hook EXCEPT ![o][h] = "done"]
  /\ UNCHANGED <<creator, consumerVars, stripeVars>>

CommitWebhook(o, h) ==
  /\ hook[o][h] = "marked"
  /\ ApplyWebhook(o, h[1])
  /\ hook' = [hook EXCEPT ![o][h] = "done"]
  /\ UNCHANGED <<creator, consumerVars, stripeVars>>

RefundHookFails(o) ==
  /\ hook[o][RefundHook] = "read"
  /\ Send(o, RefundHook)
  /\ UNCHANGED <<rowVars, creator, consumerVars, stripeVars>>

\* The commit fails, or the process dies, with the key already set.
LoseWebhook(o, h) ==
  /\ \/ /\ hook[o][h] = "marked"
        /\ hook' = [hook EXCEPT ![o][h] = "lost"]
     \/ /\ hook[o][h] \in {"sent", "read"}
        /\ hook' = [hook EXCEPT ![o][h] = "stuck"]
  /\ UNCHANGED <<rowVars, creator, consumerVars, stripeVars>>

-----------------------------------------------------------------------------
(* The consumer of order.cancelled: handle_payment_refund.                  *)

\* The order service announces an order's cancellation once.
OrderCancelled(o) ==
  /\ cancelMsg[o] = "none"
  /\ cancelMsg' = [cancelMsg EXCEPT ![o] = "queued"]
  /\ UNCHANGED <<rowVars, creator, saw, outcome, stripeVars, hook>>

RefundRead(o) ==
  /\ cancelMsg[o] = "queued"
  /\ \/ /\ payment[o] \in {"PENDING", "SUCCEEDED"}
        /\ saw' = [saw EXCEPT ![o] = payment[o]]
        /\ cancelMsg' = [cancelMsg EXCEPT ![o] = "read"]
     \/ /\ payment[o] \notin {"PENDING", "SUCCEEDED"}
        /\ cancelMsg' = [cancelMsg EXCEPT ![o] = "done"]
        /\ UNCHANGED saw
  /\ UNCHANGED <<rowVars, creator, outcome, stripeVars, hook>>

CancelIntent(o) ==
  /\ saw[o] = "PENDING"
  /\ intent[o] = "open"
  /\ intent' = [intent EXCEPT ![o] = "canceled"]
  /\ Send(o, <<"canceled", 1>>)
  /\ outcome' = [outcome EXCEPT ![o] = "CANCELLED"]
  /\ UNCHANGED <<refund, declines>>

\* Mutant of FindCanceled: takes any refusal for "already cancelled".
FindFinal(o) ==
  /\ saw[o] = "PENDING"
  /\ intent[o] \in {"canceled", "succeeded"}
  /\ outcome' = [outcome EXCEPT ![o] = "CANCELLED"]
  /\ UNCHANGED <<stripeVars, hook>>

\* Stripe refuses to cancel; the intent turns out to be cancelled already.
FindCanceled(o) ==
  /\ saw[o] = "PENDING"
  /\ intent[o] = "canceled"
  /\ outcome' = [outcome EXCEPT ![o] = "CANCELLED"]
  /\ UNCHANGED <<stripeVars, hook>>

CreateRefund(o) ==
  /\ intent[o] = "succeeded"
  /\ refund' = [refund EXCEPT ![o] = IF @ = "none" THEN "pending" ELSE @]
  /\ outcome' = [outcome EXCEPT ![o] = "REFUNDED"]
  /\ UNCHANGED <<intent, declines, hook>>

RefundCall(o) ==
  /\ cancelMsg[o] = "read"
  /\ CancelIntent(o) \/ FindCanceled(o) \/ CreateRefund(o)
  /\ cancelMsg' = [cancelMsg EXCEPT ![o] = "called"]
  /\ UNCHANGED <<rowVars, creator, saw>>

\* Mutant of RefundCommit: announces by the status read before the Stripe call.
RefundCommitAsRead(o) ==
  /\ cancelMsg[o] = "called"
  /\ RowFree(o)
  /\ IF saw[o] = "PENDING" THEN Record(o, "CANCELLED", "payment.cancelled")
                            ELSE Record(o, "REFUNDED", "payment.refunded")
  /\ cancelMsg' = [cancelMsg EXCEPT ![o] = "done"]
  /\ UNCHANGED <<creator, saw, outcome, stripeVars, hook>>

RefundCommit(o) ==
  /\ cancelMsg[o] = "called"
  /\ RowFree(o)
  /\ Record(o, outcome[o],
       IF outcome[o] = "CANCELLED" THEN "payment.cancelled" ELSE "payment.refunded")
  /\ cancelMsg' = [cancelMsg EXCEPT ![o] = "done"]
  /\ UNCHANGED <<creator, saw, outcome, stripeVars, hook>>

\* Stripe unreachable, or the database: PaymentRefundError or a failed commit
\* releases the claim and rejects the message.
RefundFails(o) ==
  /\ cancelMsg[o] \in {"read", "called"}
  /\ cancelMsg' = [cancelMsg EXCEPT ![o] = "dead"]
  /\ UNCHANGED <<rowVars, creator, saw, outcome, stripeVars, hook>>

RefundCrash(o) ==
  /\ cancelMsg[o] \in {"queued", "read", "called"}
  /\ cancelMsg' = [cancelMsg EXCEPT ![o] = "lost"]
  /\ UNCHANGED <<rowVars, creator, saw, outcome, stripeVars, hook>>

-----------------------------------------------------------------------------

Stripe(o) ==
  Pay(o) \/ Decline(o) \/ IntentExpires(o) \/ ManualRefund(o) \/ RefundSettles(o)

Request(o) ==
  \E r \in Requests : CreateCall(o, r) \/ CreateCommit(o, r) \/ CreateAborts(o, r)

Webhook(o) ==
  \/ ReadRefunded(o) \/ RefundHookFails(o)
  \/ \E h \in HookIds : MarkWebhook(o, h) \/ CommitWebhook(o, h) \/ LoseWebhook(o, h)

Settle(o) ==
  \/ OrderCancelled(o)
  \/ RefundRead(o) \/ RefundCall(o) \/ RefundCommit(o)
  \/ RefundFails(o) \/ RefundCrash(o)

Next == \E o \in Orders : Stripe(o) \/ Request(o) \/ Webhook(o) \/ Settle(o)

Spec == Init /\ [][Next]_vars

-----------------------------------------------------------------------------
(* Properties.                                                              *)

Announced(o, e) == \E n \in 1..Len(outbox[o]) : outbox[o][n] = e

\* What the outbox tells the other services is true at Stripe, and stays true
\* in whatever order webhooks, requests and the consumer ran.
EventsTellTruth ==
  \A o \in Orders :
    /\ Announced(o, "payment.succeeded") => intent[o] = "succeeded"
    /\ Announced(o, "payment.cancelled") => intent[o] = "canceled"
    /\ Announced(o, "payment.refunded") => refund[o] # "none"
    /\ Announced(o, "payment.failed") => declines[o] > 0

\* A cancelled order whose consumer found a pending or charged payment keeps
\* no money: when the consumer is done the intent can no longer be paid or its
\* charge has a refund, even if the customer paid while it was deciding.
CancelSettlesMoney ==
  \A o \in Orders : cancelMsg[o] = "done" /\ saw[o] # "none" =>
    intent[o] = "canceled" \/ refund[o] # "none"

Undelivered(o) == \E h \in HookIds : hook[o][h] \in {"sent", "read", "marked"}

\* A crash of the consumer between its Stripe call and its commit loses only
\* bookkeeping: a webhook of the same event still records it.
CrashLeavesTrace ==
  \A o \in Orders :
    /\ cancelMsg[o] = "lost" /\ outcome[o] = "CANCELLED"
    /\ \A h \in HookIds : hook[o][h] \notin {"lost", "stuck"}
    /\ ~Undelivered(o)
    => Announced(o, "payment.cancelled")

=============================================================================
