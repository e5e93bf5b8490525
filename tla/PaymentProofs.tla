--------------------------- MODULE PaymentProofs ---------------------------
(***************************************************************************)
(* Theorems about Payment, for any set of orders and of concurrent         *)
(* requests and any number of declined attempts.                           *)
(***************************************************************************)
EXTENDS Payment, SequenceTheorems, TLAPS

\* Stripe sends no webhook before what it reports happened.
HooksTrue ==
  \A o \in Orders :
    /\ hook[o][<<"succeeded", 1>>] # "unsent" => intent[o] = "succeeded"
    /\ hook[o][<<"canceled", 1>>] # "unsent" => intent[o] = "canceled"
    /\ hook[o][RefundHook] # "unsent" => refund[o] # "none"
    /\ \A n \in 1..MaxDeclines : hook[o][<<"failed", n>>] # "unsent" => declines[o] > 0

\* What the consumer is going to write was decided at Stripe.
OutcomeTrue ==
  \A o \in Orders :
    /\ outcome[o] = "CANCELLED" => intent[o] = "canceled"
    /\ outcome[o] = "REFUNDED" => refund[o] # "none"

\* The consumer has read nothing before it takes its message, and has decided
\* once it has called Stripe.
ConsumerStage ==
  \A o \in Orders :
    /\ cancelMsg[o] \in {"none", "queued"} => saw[o] = "none"
    /\ cancelMsg[o] = "called" \/ (cancelMsg[o] = "done" /\ saw[o] # "none") =>
         outcome[o] # "none"

\* The inductive invariant.
IInv == TypeOK /\ HooksTrue /\ OutcomeTrue /\ ConsumerStage /\ EventsTellTruth

-----------------------------------------------------------------------------
(* Facts about the operators.                                               *)

\* The webhooks of an order, and the type each reports.
LEMMA HookForm ==
  ASSUME NEW h \in HookIds
  PROVE  \/ h = <<"succeeded", 1>> /\ h[1] = "succeeded"
         \/ h = <<"canceled", 1>> /\ h[1] = "canceled"
         \/ h = RefundHook /\ h[1] = "refunded"
         \/ \E n \in 1..MaxDeclines : h = <<"failed", n>> /\ h[1] = "failed"
BY DEF HookIds, RefundHook

\* They are the events Stripe sends.
LEMMA HooksAre ==
  /\ <<"succeeded", 1>> \in HookIds /\ <<"canceled", 1>> \in HookIds
  /\ RefundHook \in HookIds
  /\ \A n \in 1..MaxDeclines : <<"failed", n>> \in HookIds
BY DEF HookIds

\* Record announces one event of one order, and keeps the types.
LEMMA Recorded ==
  ASSUME TypeOK, NEW o \in Orders, NEW status \in Status, NEW event \in PaymentEvent,
         Record(o, status, event)
  PROVE  /\ payment' \in [Orders -> Status \cup {"none"}]
         /\ outbox' \in [Orders -> Seq(PaymentEvent)]
         /\ \A p \in Orders, e \in PaymentEvent :
              Announced(p, e)' <=> Announced(p, e) \/ (p = o /\ e = event)
<1>1. payment' \in [Orders -> Status \cup {"none"}]
  BY DEF Record, TypeOK
<1>2. outbox[o] \in Seq(PaymentEvent) /\ outbox' = [outbox EXCEPT ![o] = Append(outbox[o], event)]
  BY DEF Record, TypeOK
<1>3. outbox' \in [Orders -> Seq(PaymentEvent)]
  BY <1>2 DEF TypeOK
<1>4. ASSUME NEW p \in Orders, NEW e \in PaymentEvent
      PROVE  Announced(p, e)' <=> Announced(p, e) \/ (p = o /\ e = event)
  <2>1. CASE p # o
    <3>1. outbox'[p] = outbox[p]
      BY <1>2, <2>1 DEF TypeOK
    <3> QED BY <2>1, <3>1 DEF Announced
  <2>2. CASE p = o
    <3> DEFINE s == outbox[o]
    <3>1. outbox'[o] = Append(s, event)
      BY <1>2 DEF TypeOK
    <3>2. /\ Len(Append(s, event)) = Len(s) + 1 /\ Len(s) \in Nat
          /\ \A n \in 1..Len(s) : Append(s, event)[n] = s[n]
          /\ Append(s, event)[Len(s) + 1] = event
      BY <1>2
    <3> HIDE DEF s
    <3>3. (\E n \in 1..(Len(s) + 1) : Append(s, event)[n] = e)
            <=> (\E n \in 1..Len(s) : s[n] = e) \/ e = event
      BY <3>2
    <3>4. Announced(p, e)' <=> \E n \in 1..(Len(s) + 1) : Append(s, event)[n] = e
      BY <2>2, <3>1, <3>2 DEF Announced
    <3>5. Announced(p, e) <=> \E n \in 1..Len(s) : s[n] = e
      BY <2>2 DEF Announced, s
    <3> QED BY <2>2, <3>3, <3>4, <3>5
  <2> QED BY <2>1, <2>2
<1> QED BY <1>1, <1>3, <1>4

\* Every webhook records a status and an event of the service.
LEMMA WebhookRecords ==
  ASSUME NEW o \in Orders, NEW h \in HookIds, ApplyWebhook(o, h[1])
  PROVE  \E status \in Status, event \in PaymentEvent :
           /\ Record(o, status, event)
           /\ \/ h = <<"succeeded", 1>> /\ event = "payment.succeeded"
              \/ h = <<"canceled", 1>> /\ event = "payment.cancelled"
              \/ h = RefundHook /\ event = "payment.refunded"
              \/ \E n \in 1..MaxDeclines : h = <<"failed", n>> /\ event = "payment.failed"
<1>1. CASE h[1] = "succeeded"
  BY <1>1, HookForm DEF ApplyWebhook, HandleSucceeded, Status, PaymentEvent
<1>2. CASE h[1] = "failed"
  BY <1>2, HookForm DEF ApplyWebhook, HandleFailed, Status, PaymentEvent
<1>3. CASE h[1] = "canceled"
  BY <1>3, HookForm DEF ApplyWebhook, HandleCancelled, Status, PaymentEvent
<1>4. CASE h[1] = "refunded"
  BY <1>4, HookForm DEF ApplyWebhook, HandleRefunded, Status, PaymentEvent
<1> QED BY <1>1, <1>2, <1>3, <1>4, HookForm

-----------------------------------------------------------------------------
(* The parts of the inductive invariant.                                    *)

\* Every handler keeps every variable in its type.
LEMMA TypeStep ==
  ASSUME TypeOK, ConsumerStage, [Next]_vars
  PROVE  TypeOK'
<1>1. ASSUME NEW o \in Orders, Pay(o)
      PROVE  TypeOK'
  BY <1>1, HooksAre, PaymentAssumption DEF Pay, Send, TypeOK, HookState, MessageState,
     Status, rowVars, consumerVars, stripeVars
<1>2. ASSUME NEW o \in Orders, Decline(o)
      PROVE  TypeOK'
  <2>1. <<"failed", declines[o] + 1>> \in HookIds /\ declines[o] + 1 \in 0..MaxDeclines
    BY <1>2, HooksAre, PaymentAssumption DEF Decline, TypeOK, PaymentAssumption
  <2> QED BY <1>2, <2>1 DEF Decline, Send, TypeOK, HookState, rowVars, consumerVars
<1>3. ASSUME NEW o \in Orders, IntentExpires(o)
      PROVE  TypeOK'
  BY <1>3, HooksAre, PaymentAssumption DEF IntentExpires, Send, TypeOK, HookState,
     MessageState, Status, rowVars, consumerVars, stripeVars
<1>4. ASSUME NEW o \in Orders, ManualRefund(o)
      PROVE  TypeOK'
  BY <1>4, HooksAre, PaymentAssumption DEF ManualRefund, TypeOK, HookState, MessageState,
     Status, rowVars, consumerVars, stripeVars
<1>5. ASSUME NEW o \in Orders, RefundSettles(o)
      PROVE  TypeOK'
  <2>1. CASE refund' = [refund EXCEPT ![o] = "succeeded"] /\ Send(o, RefundHook)
    BY <1>5, <2>1, HooksAre DEF RefundSettles, Send, TypeOK, HookState, MessageState,
       rowVars, consumerVars, stripeVars
  <2>2. CASE refund' = [refund EXCEPT ![o] = "failed"] /\ UNCHANGED hook
    BY <1>5, <2>2, HooksAre DEF RefundSettles, TypeOK, HookState, MessageState, rowVars,
       consumerVars, stripeVars
  <2> QED BY <1>5, <2>1, <2>2 DEF RefundSettles
<1>6. ASSUME NEW o \in Orders, NEW r \in Requests, CreateCall(o, r)
      PROVE  TypeOK'
  BY <1>6, HooksAre, PaymentAssumption DEF CreateCall, TypeOK, HookState, MessageState,
     Status, rowVars, consumerVars, stripeVars
<1>7. ASSUME NEW o \in Orders, NEW r \in Requests, CreateCommit(o, r)
      PROVE  TypeOK'
  BY <1>7, HooksAre, PaymentAssumption DEF CreateCommit, TypeOK, HookState, MessageState,
     Status, rowVars, consumerVars, stripeVars
<1>8. ASSUME NEW o \in Orders, NEW r \in Requests, CreateAborts(o, r)
      PROVE  TypeOK'
  BY <1>8, HooksAre, PaymentAssumption DEF CreateAborts, TypeOK, HookState, MessageState,
     Status, rowVars, consumerVars, stripeVars
<1>9. ASSUME NEW o \in Orders, ReadRefunded(o)
      PROVE  TypeOK'
  BY <1>9, HooksAre, PaymentAssumption DEF ReadRefunded, TypeOK, HookState, MessageState,
     Status, rowVars, consumerVars, stripeVars
<1>10. ASSUME NEW o \in Orders, NEW h \in HookIds, MarkWebhook(o, h)
      PROVE  TypeOK'
  BY <1>10, HooksAre, PaymentAssumption DEF MarkWebhook, TypeOK, HookState, MessageState,
     Status, rowVars, consumerVars, stripeVars
<1>11. ASSUME NEW o \in Orders, NEW h \in HookIds, CommitWebhook(o, h)
      PROVE  TypeOK'
  <2>1. PICK status \in Status, event \in PaymentEvent : Record(o, status, event)
    BY <1>11, WebhookRecords DEF CommitWebhook
  <2>2. /\ payment' \in [Orders -> Status \cup {"none"}]
        /\ outbox' \in [Orders -> Seq(PaymentEvent)]
    BY <2>1, Recorded
  <2> QED BY <1>11, <2>2 DEF CommitWebhook, TypeOK, HookState, consumerVars, stripeVars
<1>12. ASSUME NEW o \in Orders, RefundHookFails(o)
      PROVE  TypeOK'
  BY <1>12, HooksAre, PaymentAssumption DEF RefundHookFails, Send, TypeOK, HookState,
     MessageState, Status, rowVars, consumerVars, stripeVars
<1>13. ASSUME NEW o \in Orders, NEW h \in HookIds, LoseWebhook(o, h)
      PROVE  TypeOK'
  <2>1. PICK s \in {"lost", "stuck"} : hook' = [hook EXCEPT ![o][h] = s] /\ hook[o][h] # "unsent"
    BY <1>13 DEF LoseWebhook
  <2> QED
    BY <1>13, <2>1 DEF LoseWebhook, TypeOK, HookState, rowVars, consumerVars, stripeVars
<1>14. ASSUME NEW o \in Orders, OrderCancelled(o)
      PROVE  TypeOK'
  BY <1>14, HooksAre, PaymentAssumption DEF OrderCancelled, TypeOK, HookState,
     MessageState, Status, rowVars, consumerVars, stripeVars
<1>15. ASSUME NEW o \in Orders, RefundRead(o)
      PROVE  TypeOK'
  <2>1. CASE saw' = [saw EXCEPT ![o] = payment[o]] /\ payment[o] \in {"PENDING", "SUCCEEDED"}
              /\ cancelMsg' = [cancelMsg EXCEPT ![o] = "read"]
    BY <1>15, <2>1 DEF RefundRead, TypeOK, MessageState, rowVars, stripeVars
  <2>2. CASE saw' = saw /\ cancelMsg' = [cancelMsg EXCEPT ![o] = "done"]
    BY <1>15, <2>2 DEF RefundRead, TypeOK, MessageState, rowVars, stripeVars
  <2> QED BY <1>15, <2>1, <2>2 DEF RefundRead
<1>16. ASSUME NEW o \in Orders, RefundCall(o)
      PROVE  TypeOK'
  <2>1. CASE CancelIntent(o)
    BY <1>16, <2>1, HooksAre DEF RefundCall, CancelIntent, Send, TypeOK, HookState, MessageState, rowVars
  <2>2. CASE FindCanceled(o)
    BY <1>16, <2>2 DEF RefundCall, FindCanceled, TypeOK, MessageState, rowVars, stripeVars
  <2>3. CASE CreateRefund(o)
    BY <1>16, <2>3 DEF RefundCall, CreateRefund, TypeOK, MessageState, rowVars
  <2> QED BY <1>16, <2>1, <2>2, <2>3 DEF RefundCall
<1>17. ASSUME NEW o \in Orders, RefundCommit(o)
      PROVE  TypeOK'
  <2>0. outcome[o] \in {"CANCELLED", "REFUNDED"}
    BY <1>17 DEF RefundCommit, TypeOK, ConsumerStage
  <2>1. PICK status \in Status, event \in PaymentEvent : Record(o, status, event)
    BY <1>17, <2>0 DEF RefundCommit, Status, PaymentEvent
  <2>2. /\ payment' \in [Orders -> Status \cup {"none"}]
        /\ outbox' \in [Orders -> Seq(PaymentEvent)]
    BY <2>1, Recorded
  <2> QED BY <1>17, <2>2 DEF RefundCommit, TypeOK, MessageState, stripeVars
<1>18. ASSUME NEW o \in Orders, RefundFails(o)
      PROVE  TypeOK'
  BY <1>18, HooksAre, PaymentAssumption DEF RefundFails, TypeOK, HookState, MessageState,
     Status, rowVars, consumerVars, stripeVars
<1>19. ASSUME NEW o \in Orders, RefundCrash(o)
      PROVE  TypeOK'
  BY <1>19, HooksAre, PaymentAssumption DEF RefundCrash, TypeOK, HookState, MessageState,
     Status, rowVars, consumerVars, stripeVars
<1>20. CASE UNCHANGED vars
  BY <1>20 DEF vars, TypeOK, HookState, MessageState, Status, rowVars, consumerVars,
     stripeVars
<1> QED BY <1>1, <1>2, <1>3, <1>4, <1>5, <1>6, <1>7, <1>8, <1>9, <1>10, <1>11, <1>12,
         <1>13, <1>14, <1>15, <1>16, <1>17, <1>18, <1>19, <1>20 DEF Next, Stripe,
         Request, Webhook, Settle

\* What happened at Stripe is not undone.
LEMMA HooksStep ==
  ASSUME TypeOK, HooksTrue, [Next]_vars
  PROVE  HooksTrue'
<1>1. ASSUME NEW o \in Orders, Pay(o)
      PROVE  HooksTrue'
  BY <1>1, HooksAre DEF Pay, Send, HooksTrue, TypeOK, RefundHook, rowVars, consumerVars,
     stripeVars
<1>2. ASSUME NEW o \in Orders, Decline(o)
      PROVE  HooksTrue'
  BY <1>2, HooksAre DEF Decline, Send, HooksTrue, TypeOK, RefundHook, rowVars,
     consumerVars, stripeVars
<1>3. ASSUME NEW o \in Orders, IntentExpires(o)
      PROVE  HooksTrue'
  BY <1>3, HooksAre DEF IntentExpires, Send, HooksTrue, TypeOK, RefundHook, rowVars,
     consumerVars, stripeVars
<1>4. ASSUME NEW o \in Orders, ManualRefund(o)
      PROVE  HooksTrue'
  BY <1>4, HooksAre DEF ManualRefund, HooksTrue, TypeOK, RefundHook, rowVars,
     consumerVars, stripeVars
<1>5. ASSUME NEW o \in Orders, RefundSettles(o)
      PROVE  HooksTrue'
  <2>1. CASE refund' = [refund EXCEPT ![o] = "succeeded"] /\ Send(o, RefundHook)
    BY <1>5, <2>1, HooksAre DEF RefundSettles, Send, HooksTrue, TypeOK, RefundHook,
       rowVars, consumerVars, stripeVars
  <2>2. CASE refund' = [refund EXCEPT ![o] = "failed"] /\ UNCHANGED hook
    BY <1>5, <2>2, HooksAre DEF RefundSettles, HooksTrue, TypeOK, RefundHook, rowVars,
       consumerVars, stripeVars
  <2> QED BY <1>5, <2>1, <2>2 DEF RefundSettles
<1>6. ASSUME NEW o \in Orders, NEW r \in Requests, CreateCall(o, r)
      PROVE  HooksTrue'
  BY <1>6, HooksAre DEF CreateCall, HooksTrue, TypeOK, RefundHook, rowVars, consumerVars,
     stripeVars
<1>7. ASSUME NEW o \in Orders, NEW r \in Requests, CreateCommit(o, r)
      PROVE  HooksTrue'
  BY <1>7, HooksAre DEF CreateCommit, HooksTrue, TypeOK, RefundHook, rowVars,
     consumerVars, stripeVars
<1>8. ASSUME NEW o \in Orders, NEW r \in Requests, CreateAborts(o, r)
      PROVE  HooksTrue'
  BY <1>8, HooksAre DEF CreateAborts, HooksTrue, TypeOK, RefundHook, rowVars,
     consumerVars, stripeVars
<1>9. ASSUME NEW o \in Orders, ReadRefunded(o)
      PROVE  HooksTrue'
  BY <1>9, HooksAre DEF ReadRefunded, HooksTrue, TypeOK, RefundHook, rowVars,
     consumerVars, stripeVars
<1>10. ASSUME NEW o \in Orders, NEW h \in HookIds, MarkWebhook(o, h)
      PROVE  HooksTrue'
  BY <1>10, HooksAre DEF MarkWebhook, HooksTrue, TypeOK, RefundHook, rowVars,
     consumerVars, stripeVars
<1>11. ASSUME NEW o \in Orders, NEW h \in HookIds, CommitWebhook(o, h)
      PROVE  HooksTrue'
  BY <1>11, HooksAre DEF CommitWebhook, HooksTrue, TypeOK, RefundHook, rowVars,
     consumerVars, stripeVars
<1>12. ASSUME NEW o \in Orders, RefundHookFails(o)
      PROVE  HooksTrue'
  BY <1>12, HooksAre DEF RefundHookFails, Send, HooksTrue, TypeOK, RefundHook, rowVars,
     consumerVars, stripeVars
<1>13. ASSUME NEW o \in Orders, NEW h \in HookIds, LoseWebhook(o, h)
      PROVE  HooksTrue'
  <2>0. PICK s \in {"lost", "stuck"} : hook' = [hook EXCEPT ![o][h] = s] /\ hook[o][h] # "unsent"
    BY <1>13 DEF LoseWebhook
  <2>1. \A p \in Orders, x \in HookIds : hook'[p][x] # "unsent" => hook[p][x] # "unsent"
    BY <2>0 DEF TypeOK
  <2> QED BY <1>13, <2>1, HooksAre DEF LoseWebhook, HooksTrue, rowVars, consumerVars, stripeVars
<1>14. ASSUME NEW o \in Orders, OrderCancelled(o)
      PROVE  HooksTrue'
  BY <1>14, HooksAre DEF OrderCancelled, HooksTrue, TypeOK, RefundHook, rowVars,
     consumerVars, stripeVars
<1>15. ASSUME NEW o \in Orders, RefundRead(o)
      PROVE  HooksTrue'
  BY <1>15, HooksAre DEF RefundRead, HooksTrue, TypeOK, RefundHook, rowVars,
     consumerVars, stripeVars
<1>16. ASSUME NEW o \in Orders, RefundCall(o)
      PROVE  HooksTrue'
  BY <1>16, HooksAre DEF RefundCall, CancelIntent, FindCanceled, CreateRefund, Send,
     HooksTrue, TypeOK, RefundHook, rowVars, consumerVars, stripeVars
<1>17. ASSUME NEW o \in Orders, RefundCommit(o)
      PROVE  HooksTrue'
  BY <1>17, HooksAre DEF RefundCommit, HooksTrue, TypeOK, RefundHook, rowVars,
     consumerVars, stripeVars
<1>18. ASSUME NEW o \in Orders, RefundFails(o)
      PROVE  HooksTrue'
  BY <1>18, HooksAre DEF RefundFails, HooksTrue, TypeOK, RefundHook, rowVars,
     consumerVars, stripeVars
<1>19. ASSUME NEW o \in Orders, RefundCrash(o)
      PROVE  HooksTrue'
  BY <1>19, HooksAre DEF RefundCrash, HooksTrue, TypeOK, RefundHook, rowVars,
     consumerVars, stripeVars
<1>20. CASE UNCHANGED vars
  BY <1>20 DEF vars, HooksTrue, TypeOK, RefundHook, rowVars, consumerVars, stripeVars
<1> QED BY <1>1, <1>2, <1>3, <1>4, <1>5, <1>6, <1>7, <1>8, <1>9, <1>10, <1>11, <1>12,
         <1>13, <1>14, <1>15, <1>16, <1>17, <1>18, <1>19, <1>20 DEF Next, Stripe,
         Request, Webhook, Settle

\* A decision of the consumer stays true.
LEMMA OutcomeStep ==
  ASSUME TypeOK, OutcomeTrue, [Next]_vars
  PROVE  OutcomeTrue'
<1>1. ASSUME NEW o \in Orders, Pay(o)
      PROVE  OutcomeTrue'
  BY <1>1 DEF Pay, Send, OutcomeTrue, TypeOK, rowVars, consumerVars, stripeVars
<1>2. ASSUME NEW o \in Orders, Decline(o)
      PROVE  OutcomeTrue'
  BY <1>2 DEF Decline, Send, OutcomeTrue, TypeOK, rowVars, consumerVars, stripeVars
<1>3. ASSUME NEW o \in Orders, IntentExpires(o)
      PROVE  OutcomeTrue'
  BY <1>3 DEF IntentExpires, Send, OutcomeTrue, TypeOK, rowVars, consumerVars, stripeVars
<1>4. ASSUME NEW o \in Orders, ManualRefund(o)
      PROVE  OutcomeTrue'
  BY <1>4 DEF ManualRefund, OutcomeTrue, TypeOK, rowVars, consumerVars, stripeVars
<1>5. ASSUME NEW o \in Orders, RefundSettles(o)
      PROVE  OutcomeTrue'
  BY <1>5 DEF RefundSettles, Send, OutcomeTrue, TypeOK, rowVars, consumerVars, stripeVars
<1>6. ASSUME NEW o \in Orders, NEW r \in Requests, CreateCall(o, r)
      PROVE  OutcomeTrue'
  BY <1>6 DEF CreateCall, OutcomeTrue, TypeOK, rowVars, consumerVars, stripeVars
<1>7. ASSUME NEW o \in Orders, NEW r \in Requests, CreateCommit(o, r)
      PROVE  OutcomeTrue'
  BY <1>7 DEF CreateCommit, OutcomeTrue, TypeOK, rowVars, consumerVars, stripeVars
<1>8. ASSUME NEW o \in Orders, NEW r \in Requests, CreateAborts(o, r)
      PROVE  OutcomeTrue'
  BY <1>8 DEF CreateAborts, OutcomeTrue, TypeOK, rowVars, consumerVars, stripeVars
<1>9. ASSUME NEW o \in Orders, ReadRefunded(o)
      PROVE  OutcomeTrue'
  BY <1>9 DEF ReadRefunded, OutcomeTrue, TypeOK, rowVars, consumerVars, stripeVars
<1>10. ASSUME NEW o \in Orders, NEW h \in HookIds, MarkWebhook(o, h)
      PROVE  OutcomeTrue'
  BY <1>10 DEF MarkWebhook, OutcomeTrue, TypeOK, rowVars, consumerVars, stripeVars
<1>11. ASSUME NEW o \in Orders, NEW h \in HookIds, CommitWebhook(o, h)
      PROVE  OutcomeTrue'
  BY <1>11 DEF CommitWebhook, OutcomeTrue, TypeOK, rowVars, consumerVars, stripeVars
<1>12. ASSUME NEW o \in Orders, RefundHookFails(o)
      PROVE  OutcomeTrue'
  BY <1>12 DEF RefundHookFails, Send, OutcomeTrue, TypeOK, rowVars, consumerVars, stripeVars
<1>13. ASSUME NEW o \in Orders, NEW h \in HookIds, LoseWebhook(o, h)
      PROVE  OutcomeTrue'
  BY <1>13 DEF LoseWebhook, OutcomeTrue, TypeOK, rowVars, consumerVars, stripeVars
<1>14. ASSUME NEW o \in Orders, OrderCancelled(o)
      PROVE  OutcomeTrue'
  BY <1>14 DEF OrderCancelled, OutcomeTrue, TypeOK, rowVars, consumerVars, stripeVars
<1>15. ASSUME NEW o \in Orders, RefundRead(o)
      PROVE  OutcomeTrue'
  BY <1>15 DEF RefundRead, OutcomeTrue, TypeOK, rowVars, consumerVars, stripeVars
<1>16. ASSUME NEW o \in Orders, RefundCall(o)
      PROVE  OutcomeTrue'
  BY <1>16 DEF RefundCall, CancelIntent, FindCanceled, CreateRefund, Send, OutcomeTrue,
     TypeOK, rowVars, consumerVars, stripeVars
<1>17. ASSUME NEW o \in Orders, RefundCommit(o)
      PROVE  OutcomeTrue'
  BY <1>17 DEF RefundCommit, OutcomeTrue, TypeOK, rowVars, consumerVars, stripeVars
<1>18. ASSUME NEW o \in Orders, RefundFails(o)
      PROVE  OutcomeTrue'
  BY <1>18 DEF RefundFails, OutcomeTrue, TypeOK, rowVars, consumerVars, stripeVars
<1>19. ASSUME NEW o \in Orders, RefundCrash(o)
      PROVE  OutcomeTrue'
  BY <1>19 DEF RefundCrash, OutcomeTrue, TypeOK, rowVars, consumerVars, stripeVars
<1>20. CASE UNCHANGED vars
  BY <1>20 DEF vars, OutcomeTrue, TypeOK, rowVars, consumerVars, stripeVars
<1> QED BY <1>1, <1>2, <1>3, <1>4, <1>5, <1>6, <1>7, <1>8, <1>9, <1>10, <1>11, <1>12,
         <1>13, <1>14, <1>15, <1>16, <1>17, <1>18, <1>19, <1>20 DEF Next, Stripe,
         Request, Webhook, Settle

\* The consumer decides by its Stripe call and keeps its decision.
LEMMA StageStep ==
  ASSUME TypeOK, ConsumerStage, [Next]_vars
  PROVE  ConsumerStage'
<1>1. ASSUME NEW o \in Orders, Pay(o)
      PROVE  ConsumerStage'
  BY <1>1 DEF Pay, Send, ConsumerStage, TypeOK, rowVars, consumerVars, stripeVars
<1>2. ASSUME NEW o \in Orders, Decline(o)
      PROVE  ConsumerStage'
  BY <1>2 DEF Decline, Send, ConsumerStage, TypeOK, rowVars, consumerVars, stripeVars
<1>3. ASSUME NEW o \in Orders, IntentExpires(o)
      PROVE  ConsumerStage'
  BY <1>3 DEF IntentExpires, Send, ConsumerStage, TypeOK, rowVars, consumerVars, stripeVars
<1>4. ASSUME NEW o \in Orders, ManualRefund(o)
      PROVE  ConsumerStage'
  BY <1>4 DEF ManualRefund, ConsumerStage, TypeOK, rowVars, consumerVars, stripeVars
<1>5. ASSUME NEW o \in Orders, RefundSettles(o)
      PROVE  ConsumerStage'
  BY <1>5 DEF RefundSettles, Send, ConsumerStage, TypeOK, rowVars, consumerVars, stripeVars
<1>6. ASSUME NEW o \in Orders, NEW r \in Requests, CreateCall(o, r)
      PROVE  ConsumerStage'
  BY <1>6 DEF CreateCall, ConsumerStage, TypeOK, rowVars, consumerVars, stripeVars
<1>7. ASSUME NEW o \in Orders, NEW r \in Requests, CreateCommit(o, r)
      PROVE  ConsumerStage'
  BY <1>7 DEF CreateCommit, ConsumerStage, TypeOK, rowVars, consumerVars, stripeVars
<1>8. ASSUME NEW o \in Orders, NEW r \in Requests, CreateAborts(o, r)
      PROVE  ConsumerStage'
  BY <1>8 DEF CreateAborts, ConsumerStage, TypeOK, rowVars, consumerVars, stripeVars
<1>9. ASSUME NEW o \in Orders, ReadRefunded(o)
      PROVE  ConsumerStage'
  BY <1>9 DEF ReadRefunded, ConsumerStage, TypeOK, rowVars, consumerVars, stripeVars
<1>10. ASSUME NEW o \in Orders, NEW h \in HookIds, MarkWebhook(o, h)
      PROVE  ConsumerStage'
  BY <1>10 DEF MarkWebhook, ConsumerStage, TypeOK, rowVars, consumerVars, stripeVars
<1>11. ASSUME NEW o \in Orders, NEW h \in HookIds, CommitWebhook(o, h)
      PROVE  ConsumerStage'
  BY <1>11 DEF CommitWebhook, ConsumerStage, TypeOK, rowVars, consumerVars, stripeVars
<1>12. ASSUME NEW o \in Orders, RefundHookFails(o)
      PROVE  ConsumerStage'
  BY <1>12 DEF RefundHookFails, Send, ConsumerStage, TypeOK, rowVars, consumerVars,
     stripeVars
<1>13. ASSUME NEW o \in Orders, NEW h \in HookIds, LoseWebhook(o, h)
      PROVE  ConsumerStage'
  BY <1>13 DEF LoseWebhook, ConsumerStage, TypeOK, rowVars, consumerVars, stripeVars
<1>14. ASSUME NEW o \in Orders, OrderCancelled(o)
      PROVE  ConsumerStage'
  BY <1>14 DEF OrderCancelled, ConsumerStage, TypeOK, rowVars, consumerVars, stripeVars
<1>15. ASSUME NEW o \in Orders, RefundRead(o)
      PROVE  ConsumerStage'
  BY <1>15 DEF RefundRead, ConsumerStage, TypeOK, rowVars, consumerVars, stripeVars
<1>16. ASSUME NEW o \in Orders, RefundCall(o)
      PROVE  ConsumerStage'
  BY <1>16 DEF RefundCall, CancelIntent, FindCanceled, CreateRefund, Send, ConsumerStage,
     TypeOK, rowVars, consumerVars, stripeVars
<1>17. ASSUME NEW o \in Orders, RefundCommit(o)
      PROVE  ConsumerStage'
  BY <1>17 DEF RefundCommit, ConsumerStage, TypeOK, rowVars, consumerVars, stripeVars
<1>18. ASSUME NEW o \in Orders, RefundFails(o)
      PROVE  ConsumerStage'
  BY <1>18 DEF RefundFails, ConsumerStage, TypeOK, rowVars, consumerVars, stripeVars
<1>19. ASSUME NEW o \in Orders, RefundCrash(o)
      PROVE  ConsumerStage'
  BY <1>19 DEF RefundCrash, ConsumerStage, TypeOK, rowVars, consumerVars, stripeVars
<1>20. CASE UNCHANGED vars
  BY <1>20 DEF vars, ConsumerStage, TypeOK, rowVars, consumerVars, stripeVars
<1> QED BY <1>1, <1>2, <1>3, <1>4, <1>5, <1>6, <1>7, <1>8, <1>9, <1>10, <1>11, <1>12,
         <1>13, <1>14, <1>15, <1>16, <1>17, <1>18, <1>19, <1>20 DEF Next, Stripe,
         Request, Webhook, Settle

\* A handler announces what its webhook, or its own call, has shown.
LEMMA TruthStep ==
  ASSUME TypeOK, HooksTrue, OutcomeTrue, ConsumerStage, EventsTellTruth, [Next]_vars
  PROVE  EventsTellTruth'
<1>1. ASSUME NEW o \in Orders, Pay(o)
      PROVE  EventsTellTruth'
  BY <1>1, PaymentAssumption DEF Pay, Send, EventsTellTruth, Announced, TypeOK, rowVars,
     consumerVars, stripeVars
<1>2. ASSUME NEW o \in Orders, Decline(o)
      PROVE  EventsTellTruth'
  BY <1>2, PaymentAssumption DEF Decline, Send, EventsTellTruth, Announced, TypeOK,
     rowVars, consumerVars, stripeVars
<1>3. ASSUME NEW o \in Orders, IntentExpires(o)
      PROVE  EventsTellTruth'
  BY <1>3, PaymentAssumption DEF IntentExpires, Send, EventsTellTruth, Announced, TypeOK,
     rowVars, consumerVars, stripeVars
<1>4. ASSUME NEW o \in Orders, ManualRefund(o)
      PROVE  EventsTellTruth'
  BY <1>4, PaymentAssumption DEF ManualRefund, EventsTellTruth, Announced, TypeOK,
     rowVars, consumerVars, stripeVars
<1>5. ASSUME NEW o \in Orders, RefundSettles(o)
      PROVE  EventsTellTruth'
  <2>1. CASE refund' = [refund EXCEPT ![o] = "succeeded"] /\ Send(o, RefundHook)
    BY <1>5, <2>1 DEF RefundSettles, Send, EventsTellTruth, Announced, TypeOK, rowVars,
       consumerVars, stripeVars
  <2>2. CASE refund' = [refund EXCEPT ![o] = "failed"] /\ UNCHANGED hook
    BY <1>5, <2>2 DEF RefundSettles, EventsTellTruth, Announced, TypeOK, rowVars,
       consumerVars, stripeVars
  <2> QED BY <1>5, <2>1, <2>2 DEF RefundSettles
<1>6. ASSUME NEW o \in Orders, NEW r \in Requests, CreateCall(o, r)
      PROVE  EventsTellTruth'
  BY <1>6, PaymentAssumption DEF CreateCall, EventsTellTruth, Announced, TypeOK, rowVars,
     consumerVars, stripeVars
<1>7. ASSUME NEW o \in Orders, NEW r \in Requests, CreateCommit(o, r)
      PROVE  EventsTellTruth'
  BY <1>7, PaymentAssumption DEF CreateCommit, EventsTellTruth, Announced, TypeOK,
     rowVars, consumerVars, stripeVars
<1>8. ASSUME NEW o \in Orders, NEW r \in Requests, CreateAborts(o, r)
      PROVE  EventsTellTruth'
  BY <1>8, PaymentAssumption DEF CreateAborts, EventsTellTruth, Announced, TypeOK,
     rowVars, consumerVars, stripeVars
<1>9. ASSUME NEW o \in Orders, ReadRefunded(o)
      PROVE  EventsTellTruth'
  BY <1>9, PaymentAssumption DEF ReadRefunded, EventsTellTruth, Announced, TypeOK,
     rowVars, consumerVars, stripeVars
<1>10. ASSUME NEW o \in Orders, NEW h \in HookIds, MarkWebhook(o, h)
      PROVE  EventsTellTruth'
  BY <1>10, PaymentAssumption DEF MarkWebhook, EventsTellTruth, Announced, TypeOK,
     rowVars, consumerVars, stripeVars
<1>11. ASSUME NEW o \in Orders, NEW h \in HookIds, CommitWebhook(o, h)
      PROVE  EventsTellTruth'
  <2>1. PICK status \in Status, event \in PaymentEvent :
           /\ Record(o, status, event)
           /\ event = "payment.succeeded" => intent[o] = "succeeded"
           /\ event = "payment.cancelled" => intent[o] = "canceled"
           /\ event = "payment.refunded" => refund[o] # "none"
           /\ event = "payment.failed" => declines[o] > 0
    BY <1>11, WebhookRecords DEF CommitWebhook, HooksTrue
  <2>2. \A p \in Orders, e \in PaymentEvent :
          Announced(p, e)' <=> Announced(p, e) \/ (p = o /\ e = event)
    BY <2>1, Recorded
  <2> QED BY <1>11, <2>1, <2>2 DEF CommitWebhook, EventsTellTruth, PaymentEvent, stripeVars
<1>12. ASSUME NEW o \in Orders, RefundHookFails(o)
      PROVE  EventsTellTruth'
  BY <1>12, PaymentAssumption DEF RefundHookFails, Send, EventsTellTruth, Announced,
     TypeOK, rowVars, consumerVars, stripeVars
<1>13. ASSUME NEW o \in Orders, NEW h \in HookIds, LoseWebhook(o, h)
      PROVE  EventsTellTruth'
  BY <1>13, PaymentAssumption DEF LoseWebhook, EventsTellTruth, Announced, TypeOK,
     rowVars, consumerVars, stripeVars
<1>14. ASSUME NEW o \in Orders, OrderCancelled(o)
      PROVE  EventsTellTruth'
  BY <1>14, PaymentAssumption DEF OrderCancelled, EventsTellTruth, Announced, TypeOK,
     rowVars, consumerVars, stripeVars
<1>15. ASSUME NEW o \in Orders, RefundRead(o)
      PROVE  EventsTellTruth'
  BY <1>15, PaymentAssumption DEF RefundRead, EventsTellTruth, Announced, TypeOK,
     rowVars, consumerVars, stripeVars
<1>16. ASSUME NEW o \in Orders, RefundCall(o)
      PROVE  EventsTellTruth'
  BY <1>16, PaymentAssumption DEF RefundCall, CancelIntent, FindCanceled, CreateRefund,
     Send, EventsTellTruth, Announced, TypeOK, rowVars, consumerVars, stripeVars
<1>17. ASSUME NEW o \in Orders, RefundCommit(o)
      PROVE  EventsTellTruth'
  <2>0. outcome[o] \in {"CANCELLED", "REFUNDED"}
    BY <1>17 DEF RefundCommit, TypeOK, ConsumerStage
  <2>1. PICK status \in Status, event \in PaymentEvent :
           /\ Record(o, status, event)
           /\ event = "payment.succeeded" => intent[o] = "succeeded"
           /\ event = "payment.cancelled" => intent[o] = "canceled"
           /\ event = "payment.refunded" => refund[o] # "none"
           /\ event = "payment.failed" => declines[o] > 0
    BY <1>17, <2>0 DEF RefundCommit, OutcomeTrue, Status, PaymentEvent
  <2>2. \A p \in Orders, e \in PaymentEvent :
          Announced(p, e)' <=> Announced(p, e) \/ (p = o /\ e = event)
    BY <2>1, Recorded
  <2> QED BY <1>17, <2>1, <2>2 DEF RefundCommit, EventsTellTruth, PaymentEvent, stripeVars
<1>18. ASSUME NEW o \in Orders, RefundFails(o)
      PROVE  EventsTellTruth'
  BY <1>18, PaymentAssumption DEF RefundFails, EventsTellTruth, Announced, TypeOK,
     rowVars, consumerVars, stripeVars
<1>19. ASSUME NEW o \in Orders, RefundCrash(o)
      PROVE  EventsTellTruth'
  BY <1>19, PaymentAssumption DEF RefundCrash, EventsTellTruth, Announced, TypeOK,
     rowVars, consumerVars, stripeVars
<1>20. CASE UNCHANGED vars
  BY <1>20 DEF vars, EventsTellTruth, Announced, TypeOK, rowVars, consumerVars, stripeVars
<1> QED BY <1>1, <1>2, <1>3, <1>4, <1>5, <1>6, <1>7, <1>8, <1>9, <1>10, <1>11, <1>12,
         <1>13, <1>14, <1>15, <1>16, <1>17, <1>18, <1>19, <1>20 DEF Next, Stripe,
         Request, Webhook, Settle

\* Nothing has happened yet.
LEMMA Start == Init => IInv
<1> SUFFICES ASSUME Init
             PROVE  IInv
  OBVIOUS
<1>1. TypeOK
  BY PaymentAssumption DEF Init, TypeOK, MessageState, HookState, PaymentAssumption
<1>2. HooksTrue
  BY HooksAre DEF Init, HooksTrue
<1>3. OutcomeTrue /\ ConsumerStage
  BY DEF Init, OutcomeTrue, ConsumerStage
<1>4. EventsTellTruth
  <2>1. \A o \in Orders : Len(outbox[o]) = 0
    BY DEF Init
  <2>2. \A o \in Orders, e \in PaymentEvent : ~Announced(o, e)
    BY <2>1 DEF Announced
  <2> QED BY <2>2 DEF EventsTellTruth, PaymentEvent
<1> QED BY <1>1, <1>2, <1>3, <1>4 DEF IInv

-----------------------------------------------------------------------------
(* Theorems.                                                                *)

\* The inductive invariant holds in every reachable state.
THEOREM Inductive == Spec => []IInv
<1>1. ASSUME IInv, [Next]_vars
      PROVE  IInv'
  <2>1. TypeOK' /\ HooksTrue' /\ OutcomeTrue'
    BY <1>1, TypeStep, HooksStep, OutcomeStep DEF IInv
  <2>2. ConsumerStage' /\ EventsTellTruth'
    BY <1>1, StageStep, TruthStep DEF IInv
  <2> QED BY <2>1, <2>2 DEF IInv
<1> QED BY Start, <1>1, PTL DEF Spec

\* The payment row, the outbox and the Stripe objects keep their types.
THEOREM TypeCorrect == Spec => []TypeOK
<1>1. IInv => TypeOK
  BY DEF IInv
<1> QED BY <1>1, Inductive, PTL

\* No event of the outbox is ever false at Stripe, in whatever order webhooks,
\* requests and the consumer of order.cancelled run and crash.
THEOREM EventsAreTrue == Spec => []EventsTellTruth
<1>1. IInv => EventsTellTruth
  BY DEF IInv
<1> QED BY <1>1, Inductive, PTL

\* A consumer that took on a pending or charged payment is not done before the
\* intent is cancelled or the charge has its refund.
THEOREM MoneyIsSettled == Spec => []CancelSettlesMoney
<1>1. IInv => CancelSettlesMoney
  BY DEF IInv, TypeOK, OutcomeTrue, ConsumerStage, CancelSettlesMoney
<1> QED BY <1>1, Inductive, PTL

\* A cancelled intent always has its webhook, and a webhook that was handled
\* and committed has left its event in the outbox.
CancelTraced ==
  \A o \in Orders :
    /\ intent[o] = "canceled" => hook[o][<<"canceled", 1>>] # "unsent"
    /\ hook[o][<<"canceled", 1>>] = "done" => Announced(o, "payment.cancelled")

\* A cancellation of the intent is followed by its webhook through every
\* delivery, and the webhook's own transaction announces it.
LEMMA TraceStep ==
  ASSUME TypeOK, ConsumerStage, CancelTraced, [Next]_vars
  PROVE  CancelTraced'
<1> DEFINE Canceled == <<"canceled", 1>>
<1>0. Canceled \in HookIds /\ Canceled # RefundHook
  BY HooksAre DEF RefundHook
<1>1. ASSUME NEW o \in Orders, Pay(o)
      PROVE  CancelTraced'
  BY <1>0, <1>1 DEF Pay, Send, CancelTraced, Announced, TypeOK, rowVars,
     consumerVars, stripeVars
<1>2. ASSUME NEW o \in Orders, Decline(o)
      PROVE  CancelTraced'
  BY <1>0, <1>2 DEF Decline, Send, CancelTraced, Announced, TypeOK, rowVars,
     consumerVars, stripeVars
<1>3. ASSUME NEW o \in Orders, IntentExpires(o)
      PROVE  CancelTraced'
  BY <1>0, <1>3 DEF IntentExpires, Send, CancelTraced, Announced, TypeOK, rowVars,
     consumerVars, stripeVars
<1>4. ASSUME NEW o \in Orders, ManualRefund(o)
      PROVE  CancelTraced'
  BY <1>0, <1>4 DEF ManualRefund, CancelTraced, Announced, TypeOK, rowVars,
     consumerVars, stripeVars
<1>5. ASSUME NEW o \in Orders, RefundSettles(o)
      PROVE  CancelTraced'
  <2>1. \A p \in Orders : hook'[p][Canceled] = hook[p][Canceled]
    BY <1>0, <1>5 DEF RefundSettles, Send, TypeOK
  <2> QED BY <1>5, <2>1 DEF RefundSettles, CancelTraced, Announced, rowVars
<1>6. ASSUME NEW o \in Orders, NEW r \in Requests, CreateCall(o, r)
      PROVE  CancelTraced'
  BY <1>0, <1>6 DEF CreateCall, CancelTraced, Announced, TypeOK, rowVars,
     consumerVars, stripeVars
<1>7. ASSUME NEW o \in Orders, NEW r \in Requests, CreateCommit(o, r)
      PROVE  CancelTraced'
  BY <1>0, <1>7 DEF CreateCommit, CancelTraced, Announced, TypeOK, rowVars,
     consumerVars, stripeVars
<1>8. ASSUME NEW o \in Orders, NEW r \in Requests, CreateAborts(o, r)
      PROVE  CancelTraced'
  BY <1>0, <1>8 DEF CreateAborts, CancelTraced, Announced, TypeOK, rowVars,
     consumerVars, stripeVars
<1>9. ASSUME NEW o \in Orders, ReadRefunded(o)
      PROVE  CancelTraced'
  BY <1>0, <1>9 DEF ReadRefunded, CancelTraced, Announced, TypeOK, rowVars,
     consumerVars, stripeVars
<1>10. ASSUME NEW o \in Orders, NEW h \in HookIds, MarkWebhook(o, h)
      PROVE  CancelTraced'
  BY <1>0, <1>10 DEF MarkWebhook, CancelTraced, Announced, TypeOK, rowVars,
     consumerVars, stripeVars
<1>11. ASSUME NEW o \in Orders, NEW h \in HookIds, CommitWebhook(o, h)
      PROVE  CancelTraced'
  <2>1. PICK status \in Status, event \in PaymentEvent :
          Record(o, status, event) /\ (h = Canceled => event = "payment.cancelled")
    BY <1>11, WebhookRecords DEF CommitWebhook, RefundHook
  <2>2. \A p \in Orders, e \in PaymentEvent :
          Announced(p, e)' <=> Announced(p, e) \/ (p = o /\ e = event)
    BY <2>1, Recorded
  <2>3. hook' = [hook EXCEPT ![o][h] = "done"] /\ intent' = intent
    BY <1>11 DEF CommitWebhook, stripeVars
  <2> QED BY <1>0, <1>11, <2>1, <2>2, <2>3 DEF CommitWebhook, CancelTraced, TypeOK, PaymentEvent
<1>12. ASSUME NEW o \in Orders, RefundHookFails(o)
      PROVE  CancelTraced'
  BY <1>0, <1>12 DEF RefundHookFails, Send, CancelTraced, Announced, TypeOK,
     rowVars, consumerVars, stripeVars
<1>13. ASSUME NEW o \in Orders, NEW h \in HookIds, LoseWebhook(o, h)
      PROVE  CancelTraced'
  <2>1. PICK s \in {"lost", "stuck"} : hook' = [hook EXCEPT ![o][h] = s]
    BY <1>13 DEF LoseWebhook
  <2>2. \A p \in Orders : \/ hook'[p][Canceled] = hook[p][Canceled]
                          \/ hook'[p][Canceled] \in {"lost", "stuck"}
    BY <1>0, <2>1 DEF TypeOK
  <2> QED BY <1>13, <2>2 DEF LoseWebhook, CancelTraced, Announced, rowVars, stripeVars
<1>14. ASSUME NEW o \in Orders, OrderCancelled(o)
      PROVE  CancelTraced'
  BY <1>0, <1>14 DEF OrderCancelled, CancelTraced, Announced, TypeOK, rowVars,
     consumerVars, stripeVars
<1>15. ASSUME NEW o \in Orders, RefundRead(o)
      PROVE  CancelTraced'
  BY <1>0, <1>15 DEF RefundRead, CancelTraced, Announced, TypeOK, rowVars,
     consumerVars, stripeVars
<1>16. ASSUME NEW o \in Orders, RefundCall(o)
      PROVE  CancelTraced'
  <2>1. CASE CancelIntent(o)
    BY <1>0, <1>16, <2>1 DEF RefundCall, CancelIntent, Send, CancelTraced, Announced, TypeOK, rowVars
  <2>2. CASE FindCanceled(o) \/ CreateRefund(o)
    BY <1>16, <2>2 DEF RefundCall, FindCanceled, CreateRefund, CancelTraced, Announced,
       rowVars, stripeVars
  <2> QED BY <1>16, <2>1, <2>2 DEF RefundCall
<1>17. ASSUME NEW o \in Orders, RefundCommit(o)
      PROVE  CancelTraced'
  <2>0. outcome[o] \in {"CANCELLED", "REFUNDED"}
    BY <1>17 DEF RefundCommit, TypeOK, ConsumerStage
  <2>1. PICK status \in Status, event \in PaymentEvent : Record(o, status, event)
    BY <1>17, <2>0 DEF RefundCommit, Status, PaymentEvent
  <2>2. \A p \in Orders, e \in PaymentEvent : Announced(p, e) => Announced(p, e)'
    BY <2>1, Recorded
  <2> QED BY <1>17, <2>2 DEF RefundCommit, CancelTraced, PaymentEvent, stripeVars
<1>18. ASSUME NEW o \in Orders, RefundFails(o)
      PROVE  CancelTraced'
  BY <1>0, <1>18 DEF RefundFails, CancelTraced, Announced, TypeOK, rowVars,
     consumerVars, stripeVars
<1>19. ASSUME NEW o \in Orders, RefundCrash(o)
      PROVE  CancelTraced'
  BY <1>0, <1>19 DEF RefundCrash, CancelTraced, Announced, TypeOK, rowVars,
     consumerVars, stripeVars
<1>20. CASE UNCHANGED vars
  BY <1>20 DEF vars, CancelTraced, Announced, rowVars, stripeVars
<1> QED BY <1>1, <1>2, <1>3, <1>4, <1>5, <1>6, <1>7, <1>8, <1>9, <1>10, <1>11, <1>12,
         <1>13, <1>14, <1>15, <1>16, <1>17, <1>18, <1>19, <1>20 DEF Next, Stripe,
         Request, Webhook, Settle

\* Every cancelled intent keeps its trace.
THEOREM CancellationsTraced == Spec => []CancelTraced
<1>1. ASSUME Init
      PROVE  CancelTraced
  <2>1. \A o \in Orders : intent[o] = "none" /\ hook[o][<<"canceled", 1>>] = "unsent"
    BY <1>1, HooksAre DEF Init
  <2> QED BY <2>1 DEF CancelTraced
<1>2. ASSUME IInv, CancelTraced, [Next]_vars
      PROVE  CancelTraced'
  BY <1>2, TraceStep DEF IInv
<1> QED BY <1>1, <1>2, Inductive, PTL DEF Spec

\* A consumer that dies after it cancelled the intent at Stripe loses nothing:
\* unless the webhook is lost too, its delivery announces the cancellation.
THEOREM CrashIsTraced == Spec => []CrashLeavesTrace
<1>1. ASSUME IInv, CancelTraced
      PROVE  CrashLeavesTrace
  <2> SUFFICES ASSUME NEW o \in Orders, outcome[o] = "CANCELLED",
                      \A h \in HookIds : hook[o][h] \notin {"lost", "stuck"}, ~Undelivered(o)
               PROVE  Announced(o, "payment.cancelled")
    BY DEF CrashLeavesTrace
  <2> DEFINE state == hook[o][<<"canceled", 1>>]
  <2>1. state \in HookState /\ state \notin {"lost", "stuck"}
    BY <1>1, HooksAre DEF IInv, TypeOK
  <2>2. state \notin {"sent", "read", "marked"}
    BY HooksAre DEF Undelivered
  <2>3. state # "unsent"
    BY <1>1 DEF IInv, OutcomeTrue, CancelTraced
  <2>4. state = "done"
    BY <2>1, <2>2, <2>3 DEF HookState
  <2> QED BY <1>1, <2>4 DEF CancelTraced
<1> QED BY <1>1, Inductive, CancellationsTraced, PTL

=============================================================================
