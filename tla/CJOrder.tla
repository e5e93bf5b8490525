------------------------------ MODULE CJOrder ------------------------------
(***************************************************************************)
(* The supplier service's part of one order with CJ Dropshipping lines:    *)
(* order.confirmed places an order at CJ, order.cancelled deletes it.  The *)
(* two events come from two queues, so their handlers run in any order and *)
(* at the same time.  CJ is not transactional: every handler is split at   *)
(* its commits and at its calls to CJ.                                     *)
(*                                                                         *)
(* Claims give an event one handler at a time (EventDelivery); what is     *)
(* left of delivery here is where the event stands.                        *)
(***************************************************************************)
EXTENDS Naturals, FiniteSets

CONSTANTS
  MaxPlaced,   \* bound: orders CJ accepts under this order's number
  MaxFaults    \* bound: errors, crashes and lapsed claims, together

ASSUME CJAssumption == MaxPlaced \in Nat /\ MaxFaults \in Nat

VARIABLES
  published,   \* order events in the order service's outbox
  at,          \* per event: its message, or the step its handler is at
  attempt,     \* cj_order_attempts.status, "none" without a row
  number,      \* cj_order_attempts.cj_order_number, 0 for NULL
  held,        \* the number the order.confirmed handler got from CJ
  placed,      \* orders CJ accepted, numbered from 1
  live,        \* those of them not deleted
  late,        \* a POST that timed out here may still reach CJ
  reports,     \* the supplier's outbox: cj.order.created by number, Failure
  reported,    \* those the order service has handled
  cjNumber,    \* orders.cj_order_number
  overtaken,   \* history: a cancellation found no number to delete
  misread,     \* history: CJ's acceptance without an id was taken for a failure
  lapsed,      \* history: an event was handled again after its claim expired
  faults       \* history: faults so far

supplierVars == <<at, attempt, number, held, reports>>
remoteVars == <<placed, live, late>>
orderVars == <<published, reported, cjNumber>>
noteVars == <<overtaken, misread, lapsed>>
vars == <<supplierVars, remoteVars, orderVars, noteVars, faults>>

OrderEvents == {"confirmed", "cancelled"}
Numbers == 0..MaxPlaced
Failure == 0   \* stands for cj.order.failed among the reports
Steps == {"query", "build", "post", "requery", "store", "delete", "settle"}
Attempts == {"none", "creating", "created", "failed", "reconciliation_required", "cancelled"}

TypeOK ==
  /\ published \subseteq OrderEvents
  /\ at \in [OrderEvents -> {"queued", "done", "dead", "lost"} \cup Steps]
  /\ attempt \in Attempts
  /\ number \in Numbers /\ held \in Numbers /\ placed \in Numbers /\ cjNumber \in Numbers
  /\ live \subseteq 1..placed
  /\ late \in BOOLEAN /\ overtaken \in BOOLEAN /\ misread \in BOOLEAN /\ lapsed \in BOOLEAN
  /\ reports \subseteq Numbers /\ reported \subseteq reports
  /\ faults \in 0..MaxFaults

\* The order has just been confirmed.
Init ==
  /\ published = {"confirmed"}
  /\ at = [e \in OrderEvents |-> "queued"]
  /\ attempt = "none" /\ number = 0 /\ held = 0
  /\ placed = 0 /\ live = {} /\ late = FALSE
  /\ reports = {} /\ reported = {} /\ cjNumber = 0
  /\ overtaken = FALSE /\ misread = FALSE /\ lapsed = FALSE
  /\ faults = 0

Waiting(e) == e \in published /\ at[e] = "queued"
Go(e, step) == at' = [at EXCEPT ![e] = step]

\* release_claim and raise: the message comes back or goes to the dead letters.
Raise(e) == Go(e, "queued") \/ Go(e, "dead")

Fault == faults < MaxFaults /\ faults' = faults + 1

CJAccepts ==
  /\ placed < MaxPlaced
  /\ placed' = placed + 1
  /\ live' = live \cup {placed + 1}

-----------------------------------------------------------------------------
(* handle_order_confirmed.                                                  *)

\* Mutant of ReadAttempt: forgets that an interrupted attempt may have placed
\* an order.
ReadAttemptForgets ==
  /\ Waiting("confirmed")
  /\ Go("confirmed", IF attempt = "created" THEN "done"
                     ELSE IF attempt = "reconciliation_required" THEN "query" ELSE "build")
  /\ UNCHANGED <<attempt, number, held, reports, remoteVars, orderVars, noteVars, faults>>

ReadAttempt ==
  /\ Waiting("confirmed")
  /\ Go("confirmed", IF attempt = "created" THEN "done"
                     ELSE IF attempt \in {"creating", "reconciliation_required"} THEN "query"
                     ELSE "build")
  /\ UNCHANGED <<attempt, number, held, reports, remoteVars, orderVars, noteVars, faults>>

RecordFailed ==
  /\ attempt' = "failed"
  /\ reports' = reports \cup {Failure}
  /\ Go("confirmed", "done")

\* An incomplete address, a missing setting, an unmapped product, no live stock.
CannotBuild ==
  /\ at["confirmed"] = "build"
  /\ RecordFailed
  /\ UNCHANGED <<number, held, remoteVars, orderVars, noteVars, faults>>

\* The durable boundary: "creating" is committed before CJ is called.
RecordCreating ==
  /\ at["confirmed"] = "build"
  /\ attempt' = IF attempt = "created" THEN attempt ELSE "creating"
  /\ Go("confirmed", "post")
  /\ UNCHANGED <<number, held, reports, remoteVars, orderVars, noteVars, faults>>

PostAccepted ==
  /\ at["confirmed"] = "post"
  /\ CJAccepts
  /\ held' = placed'
  /\ Go("confirmed", "store")
  /\ UNCHANGED <<attempt, number, reports, late, orderVars, noteVars, faults>>

\* CJ accepted the order and its reply has no order id.
PostAcceptedWithoutId ==
  /\ at["confirmed"] = "post"
  /\ CJAccepts
  /\ RecordFailed
  /\ misread' = TRUE
  /\ UNCHANGED <<number, held, late, orderVars, overtaken, lapsed, faults>>

PostRejected ==
  /\ at["confirmed"] = "post"
  /\ RecordFailed
  /\ UNCHANGED <<number, held, remoteVars, orderVars, noteVars, faults>>

\* Mutant of PostErrs: takes every error for a rejection.
PostErrsDefinitively ==
  /\ at["confirmed"] = "post"
  /\ \/ UNCHANGED remoteVars
     \/ CJAccepts /\ UNCHANGED late
     \/ late' = TRUE /\ UNCHANGED <<placed, live>>
  /\ RecordFailed
  /\ UNCHANGED <<number, held, orderVars, noteVars, faults>>

\* A network error, an HTTP error or "result": false.  The POST may have reached
\* CJ, not have, or reach it later.
PostErrs ==
  /\ at["confirmed"] = "post"
  /\ \/ UNCHANGED remoteVars
     \/ CJAccepts /\ UNCHANGED late
     \/ late' = TRUE /\ UNCHANGED <<placed, live>>
  /\ Go("confirmed", "requery")
  /\ UNCHANGED <<attempt, number, held, reports, orderVars, noteVars, faults>>

\* _query_existing_cj_order finds an order under the local order's id.
QueryFinds ==
  /\ at["confirmed"] \in {"query", "requery"}
  /\ held' \in live
  /\ Go("confirmed", "store")
  /\ UNCHANGED <<attempt, number, reports, remoteVars, orderVars, noteVars, faults>>

\* It is told of none or cannot ask: the outcome stays unknown and nothing is
\* reported.  Only a retried attempt that CJ answered is marked.
QueryFindsNone ==
  /\ at["confirmed"] \in {"query", "requery"}
  /\ \/ at["confirmed"] = "query" /\ attempt' = "reconciliation_required"
     \/ UNCHANGED attempt
  /\ Raise("confirmed")
  /\ UNCHANGED <<number, held, reports, remoteVars, orderVars, noteVars, faults>>

RecordCreated ==
  /\ at["confirmed"] = "store"
  /\ attempt' = "created" /\ number' = held
  /\ reports' = reports \cup {held}
  /\ Go("confirmed", "done")
  /\ held' = 0
  /\ UNCHANGED <<remoteVars, orderVars, noteVars, faults>>

-----------------------------------------------------------------------------
(* handle_order_cancelled.                                                  *)

ReadNumber ==
  /\ Waiting("cancelled")
  /\ Go("cancelled", IF number = 0 \/ attempt = "cancelled" THEN "done" ELSE "delete")
  /\ overtaken' = (overtaken \/ number = 0)
  /\ UNCHANGED <<attempt, number, held, reports, remoteVars, orderVars, misread, lapsed, faults>>

\* Mutant of DeleteRefused: takes any reply for a deletion.
DeleteRefusedIgnored ==
  /\ at["cancelled"] = "delete"
  /\ Go("cancelled", "settle")
  /\ UNCHANGED <<attempt, number, held, reports, remoteVars, orderVars, noteVars, faults>>

DeleteAccepted ==
  /\ at["cancelled"] = "delete"
  /\ live' = live \ {number}
  /\ Go("cancelled", "settle")
  /\ UNCHANGED <<attempt, number, held, reports, placed, late, orderVars, noteVars, faults>>

\* CJ no longer deletes the order: it is marked for reconciliation.
DeleteRefused ==
  /\ at["cancelled"] = "delete"
  /\ attempt' = "reconciliation_required"
  /\ Raise("cancelled")
  /\ UNCHANGED <<number, held, reports, remoteVars, orderVars, noteVars, faults>>

\* The call fails, with or without the order deleted.
DeleteErrs ==
  /\ at["cancelled"] = "delete"
  /\ live' \in {live, live \ {number}}
  /\ Raise("cancelled")
  /\ UNCHANGED <<attempt, number, held, reports, placed, late, orderVars, noteVars, faults>>

RecordCancelled ==
  /\ at["cancelled"] = "settle"
  /\ attempt' = "cancelled"
  /\ Go("cancelled", "done")
  /\ UNCHANGED <<number, held, reports, remoteVars, orderVars, noteVars, faults>>

-----------------------------------------------------------------------------
(* Faults, CJ, and the order service.                                       *)

\* PostgreSQL or Redis fails under a handler: the claim is released, or stays
\* where Redis cannot be reached, and then no redelivery gets past it.
HandlerErrs(e) ==
  /\ at[e] \in Steps
  /\ Fault
  /\ Raise(e) \/ Go(e, "lost")
  /\ UNCHANGED <<attempt, number, held, reports, remoteVars, orderVars, noteVars>>

\* The consumer process dies: the claims survive it, and RabbitMQ's redelivery
\* is dropped as a duplicate.
Crash ==
  /\ \E e \in OrderEvents : at[e] \in Steps
  /\ Fault
  /\ at' = [e \in OrderEvents |-> IF at[e] \in Steps THEN "lost" ELSE at[e]]
  /\ UNCHANGED <<attempt, number, held, reports, remoteVars, orderVars, noteVars>>

\* A copy arrives after the claim's 72 hours.
Redeliver(e) ==
  /\ at[e] \in {"done", "lost"}
  /\ Fault
  /\ Go(e, "queued")
  /\ lapsed' = TRUE
  /\ UNCHANGED <<attempt, number, held, reports, remoteVars, orderVars, overtaken, misread>>

LateArrival ==
  /\ late
  /\ late' = FALSE
  /\ CJAccepts
  /\ UNCHANGED <<supplierVars, orderVars, noteVars, faults>>

\* A customer or an administrator cancels the confirmed order.
CancelOrder ==
  /\ published' = OrderEvents
  /\ published # OrderEvents
  /\ UNCHANGED <<supplierVars, remoteVars, reported, cjNumber, noteVars, faults>>

\* handle_cj_order_event: the number is kept, a failure cancels the order.
OrderTakesReport(n) ==
  /\ n \in reports \ reported
  /\ reported' = reported \cup {n}
  /\ \/ n = Failure /\ published' = OrderEvents /\ UNCHANGED cjNumber
     \/ n # Failure /\ cjNumber' = n /\ UNCHANGED published
  /\ UNCHANGED <<supplierVars, remoteVars, noteVars, faults>>

Confirming ==
  \/ ReadAttempt \/ CannotBuild \/ RecordCreating
  \/ PostAccepted \/ PostAcceptedWithoutId \/ PostRejected \/ PostErrs
  \/ QueryFinds \/ QueryFindsNone \/ RecordCreated

Cancelling ==
  ReadNumber \/ DeleteAccepted \/ DeleteRefused \/ DeleteErrs \/ RecordCancelled

Failing == Crash \/ LateArrival \/ \E e \in OrderEvents : HandlerErrs(e) \/ Redeliver(e)

Ordering == CancelOrder \/ \E n \in Numbers : OrderTakesReport(n)

Next == Confirming \/ Cancelling \/ Failing \/ Ordering

Spec == Init /\ [][Next]_vars

-----------------------------------------------------------------------------
(* Properties.                                                              *)

\* However often order.confirmed is redelivered, and whatever becomes of the
\* POST, CJ is asked for at most one order while the claim lasts.
AtMostOneCJOrder == ~lapsed => placed + (IF late THEN 1 ELSE 0) <= 1

\* "Query ... before doing anything that could refund a real remote order": a
\* failure is reported, and the customer refunded for it, only if there is no
\* order at CJ, unless CJ's acceptance carried no id.
RefundOnlyIfNoCJOrder ==
  Failure \in reports /\ ~misread /\ ~lapsed => live = {} /\ ~late

\* A cancelled order whose two events were handled leaves no order at CJ,
\* unless its cancellation found no number: it was handled before the number
\* was stored, or CJ's acceptance carried none.
CancelReachesCJ ==
  (\A e \in OrderEvents : e \in published /\ at[e] = "done") /\ ~lapsed =>
    live = {} \/ overtaken

=============================================================================
