--------------------------- MODULE Notifications ---------------------------
(***************************************************************************)
(* The notification service: a handler claims an event, queues the email   *)
(* task its type calls for, saves the notification in a transaction of its *)
(* own and marks the event; a TaskIQ worker sends the email.  The customer *)
(* reads and deletes notifications.                                        *)
(***************************************************************************)
EXTENDS Naturals, FiniteSets

CONSTANTS
  Events,     \* events the three queues deliver
  MaxFaults   \* bound: crashes, failed steps and repeated messages

VARIABLES
  type,     \* each event's type
  message,  \* its message, and how far its handler is
  claim,    \* its key in Redis
  task,     \* email tasks waiting in the TaskIQ queue, of each event
  sent,     \* emails sent for each event
  rows,     \* [unread, read, gone]: the notifications of each event
  redone,   \* history: events handled again after their task was queued
  resent,   \* history: events whose task ran again after its worker died
  unsent,   \* history: events one of whose email tasks raised
  faults

vars == <<type, message, claim, task, sent, rows, redone, resent, unsent, faults>>

\* What UserEventHandler, OrderEventHandler and PaymentEventHandler do with
\* each type: an email and a row, a row only, a mark only, nothing at all.
UserTypes ==
  [mail |-> {"user.registered", "user.email.verified", "user.logged.in",
             "user.password.reset.request", "user.password.reset.success"},
   record |-> {}, skip |-> {}, ignore |-> {"user.deleted"}]
OrderTypes ==
  [mail |-> {"order.confirmed", "order.cancelled"}, record |-> {},
   skip |-> {"order.created"}, ignore |-> {}]
PaymentTypes ==
  [mail |-> {}, record |-> {"payment.succeeded", "payment.failed", "payment.refunded",
                            "payment.cancelled"},
   skip |-> {}, ignore |-> {}]

Of(kind) == UserTypes[kind] \cup OrderTypes[kind] \cup PaymentTypes[kind]

\* One type of each kind tells the handlers' paths apart.
Kinds == {"mail", "record", "skip", "ignore"}
Types == {CHOOSE t \in Of(k) : TRUE : k \in Kinds}

Bound == MaxFaults + 1

TypeOK ==
  /\ type \in [Events -> Types]
  /\ message \in [Events -> {"none", "queued", "claimed", "mailed", "saved", "done", "dead"}]
  /\ claim \in [Events -> {"none", "processing", "processed"}]
  /\ task \in [Events -> 0..Bound] /\ sent \in [Events -> 0..2 * Bound]
  /\ rows \in [Events -> [unread : 0..Bound, read : 0..Bound, gone : 0..Bound]]
  /\ redone \subseteq Events /\ resent \subseteq Events /\ unsent \subseteq Events
  /\ faults \in 0..MaxFaults

Init ==
  /\ type \in [Events -> Types]
  /\ message = [e \in Events |-> "none"]
  /\ claim = [e \in Events |-> "none"]
  /\ task = [e \in Events |-> 0] /\ sent = [e \in Events |-> 0]
  /\ rows = [e \in Events |-> [unread |-> 0, read |-> 0, gone |-> 0]]
  /\ redone = {} /\ resent = {} /\ unsent = {}
  /\ faults = 0

Fault == faults < MaxFaults /\ faults' = faults + 1
Is(e, kind) == type[e] \in Of(kind)
Move(e, to) == message' = [message EXCEPT ![e] = to]
ClaimIs(e, value) == claim' = [claim EXCEPT ![e] = value]

-----------------------------------------------------------------------------
(* The handlers.                                                            *)

Publish(e) ==
  /\ message[e] = "none"
  /\ Move(e, "queued")
  /\ UNCHANGED <<type, claim, task, sent, rows, redone, resent, unsent, faults>>

\* Mutant of Claim: a plain SET.
ClaimAlways(e) ==
  /\ message[e] = "queued"
  /\ ClaimIs(e, "processing") /\ Move(e, "claimed")
  /\ UNCHANGED <<type, task, sent, rows, redone, resent, unsent, faults>>

\* SET NX: whoever finds the key set skips the event.
Claim(e) ==
  /\ message[e] = "queued"
  /\ IF claim[e] = "none"
     THEN ClaimIs(e, "processing") /\ Move(e, "claimed")
     ELSE Move(e, "done") /\ UNCHANGED claim
  /\ UNCHANGED <<type, task, sent, rows, redone, resent, unsent, faults>>

\* A user event of another type returns and leaves its claim.
IgnoreEvent(e) ==
  /\ message[e] = "claimed" /\ Is(e, "ignore")
  /\ Move(e, "done")
  /\ UNCHANGED <<type, claim, task, sent, rows, redone, resent, unsent, faults>>

QueueEmail(e) ==
  /\ message[e] = "claimed" /\ Is(e, "mail")
  /\ task' = [task EXCEPT ![e] = @ + 1]
  /\ Move(e, "mailed")
  /\ UNCHANGED <<type, claim, sent, rows, redone, resent, unsent, faults>>

\* _save_notification, after the email's task has been queued.
SaveNotification(e) ==
  /\ message[e] = IF Is(e, "record") THEN "claimed" ELSE "mailed"
  /\ rows' = [rows EXCEPT ![e].unread = @ + 1]
  /\ Move(e, "saved")
  /\ UNCHANGED <<type, claim, task, sent, redone, resent, unsent, faults>>

MarkProcessed(e) ==
  /\ message[e] = IF Is(e, "skip") THEN "claimed" ELSE "saved"
  /\ ClaimIs(e, "processed") /\ Move(e, "done")
  /\ UNCHANGED <<type, task, sent, rows, redone, resent, unsent, faults>>

Handling == {"claimed", "mailed", "saved"}
Redo(e) == redone' = IF message[e] = "claimed" THEN redone ELSE redone \cup {e}

\* The claim is released and the message requeued or dead-lettered: what has
\* been queued and saved stays.
HandlerRaises(e) ==
  /\ message[e] \in Handling
  /\ Fault
  /\ ClaimIs(e, "none")
  /\ \/ Move(e, "queued") /\ Redo(e)
     \/ Move(e, "dead") /\ UNCHANGED redone
  /\ UNCHANGED <<type, task, sent, rows, resent, unsent>>

\* The claim stays: the consumer dies, or its except branch cannot reach Redis
\* to release it.  The message returns and finds the claim, or is dead-lettered.
ConsumerCrashes(e) ==
  /\ message[e] \in Handling
  /\ Fault
  /\ Move(e, "queued") \/ Move(e, "dead")
  /\ UNCHANGED <<type, claim, task, sent, rows, redone, resent, unsent>>

\* The relay publishes the event a second time.
Republished(e) ==
  /\ message[e] = "done"
  /\ Fault
  /\ Move(e, "queued")
  /\ UNCHANGED <<type, claim, task, sent, rows, redone, resent, unsent>>

-----------------------------------------------------------------------------
(* The email worker.                                                        *)

SendEmail(e) ==
  /\ task[e] > 0
  /\ task' = [task EXCEPT ![e] = @ - 1]
  /\ sent' = [sent EXCEPT ![e] = @ + 1]
  /\ UNCHANGED <<type, message, claim, rows, redone, resent, unsent, faults>>

\* The task raises: TaskIQ stores the error and acknowledges the message.
SendFails(e) ==
  /\ task[e] > 0
  /\ Fault
  /\ task' = [task EXCEPT ![e] = @ - 1]
  /\ unsent' = unsent \cup {e}
  /\ UNCHANGED <<type, message, claim, sent, rows, redone, resent>>

\* The worker dies after the email went out, before the acknowledgement.
WorkerCrashes(e) ==
  /\ task[e] > 0
  /\ Fault
  /\ sent' = [sent EXCEPT ![e] = @ + 1]
  /\ resent' = resent \cup {e}
  /\ UNCHANGED <<type, message, claim, task, rows, redone, unsent>>

-----------------------------------------------------------------------------
(* The customer.                                                            *)

MarkAsRead(e) ==
  /\ rows[e].unread > 0
  /\ rows' = [rows EXCEPT ![e].unread = @ - 1, ![e].read = @ + 1]
  /\ UNCHANGED <<type, message, claim, task, sent, redone, resent, unsent, faults>>

MarkAllAsRead ==
  /\ \E e \in Events : rows[e].unread > 0
  /\ rows' = [e \in Events |->
       [rows[e] EXCEPT !.unread = 0, !.read = @ + rows[e].unread]]
  /\ UNCHANGED <<type, message, claim, task, sent, redone, resent, unsent, faults>>

DeleteNotification(e) ==
  /\ \E field \in {"unread", "read"} :
       /\ rows[e][field] > 0
       /\ rows' = [rows EXCEPT ![e][field] = @ - 1, ![e].gone = @ + 1]
  /\ UNCHANGED <<type, message, claim, task, sent, redone, resent, unsent, faults>>

-----------------------------------------------------------------------------

Handler(e) ==
  \/ Publish(e) \/ Claim(e) \/ IgnoreEvent(e) \/ QueueEmail(e) \/ SaveNotification(e)
  \/ MarkProcessed(e) \/ HandlerRaises(e) \/ ConsumerCrashes(e) \/ Republished(e)
Worker(e) == SendEmail(e) \/ SendFails(e) \/ WorkerCrashes(e)
Customer(e) == MarkAsRead(e) \/ DeleteNotification(e)

Next == (\E e \in Events : Handler(e) \/ Worker(e) \/ Customer(e)) \/ MarkAllAsRead

Spec == Init /\ [][Next]_vars

-----------------------------------------------------------------------------
(* Properties.                                                              *)

Saved(e) == rows[e].unread + rows[e].read + rows[e].gone

\* However often an event is delivered and whatever crashes, the customer gets
\* at most one notification for it and at most one email, unless its handler
\* failed after it had queued the email, or the email worker died.
\* And at least one of each that its type calls for, once its message is done,
\* unless a consumer left its claim behind, or the email's task raised.
\* An event of the other types leaves nothing.
OneNoticePerEvent ==
  \A e \in Events :
    /\ e \notin redone => Saved(e) <= 1 /\ (e \notin resent => sent[e] + task[e] <= 1)
    /\ message[e] = "done" /\ claim[e] # "processing" =>
         /\ Is(e, "mail") \/ Is(e, "record") => Saved(e) >= 1
         /\ Is(e, "mail") /\ e \notin unsent => sent[e] + task[e] >= 1
    /\ Is(e, "skip") \/ Is(e, "ignore") => Saved(e) + sent[e] + task[e] = 0

=============================================================================
