-------------------------- MODULE FulfilmentProofs --------------------------
(***************************************************************************)
(* Theorems about CJOrder, for every bound on the orders CJ accepts and on *)
(* the faults, and about CJOrder and Shipping side by side (Fulfilment).   *)
(*                                                                         *)
(* While no claim has lapsed the attempt's row decides what the handler of *)
(* order.confirmed may still do: it posts only from a row that was never   *)
(* written, and what it has written keeps it from posting again.           *)
(***************************************************************************)
EXTENDS Fulfilment, TLAPS

confirmStep == at["confirmed"]
cancelStep == at["cancelled"]

NothingSent == placed = 0 /\ ~late

PostedOnce ==
  /\ attempt = "none" \/ confirmStep = "post" => NothingSent
  /\ confirmStep = "build" => attempt = "none"
  /\ confirmStep \in {"query", "post", "requery", "store"} => attempt # "none"
  /\ attempt \in {"created", "failed", "cancelled"} => confirmStep = "done"
  /\ placed = 0 \/ (placed = 1 /\ ~late)

NumberKept ==
  /\ confirmStep = "store" => held \in 1..placed
  /\ number # 0 => confirmStep = "done" /\ number <= placed
  /\ cancelStep \in {"delete", "settle"} => number # 0

FailureIsFinal ==
  Failure \in reports /\ ~misread => NothingSent /\ confirmStep = "done"

DeletionIsFinal ==
  /\ attempt = "cancelled" \/ cancelStep = "settle" => live = {} /\ number # 0
  /\ cancelStep = "done" => overtaken \/ (live = {} /\ number # 0)

\* The inductive invariant.
IInv == TypeOK /\ (~lapsed => PostedOnce /\ NumberKept /\ FailureIsFinal /\ DeletionIsFinal)

-----------------------------------------------------------------------------
(* Type correctness.                                                        *)

\* An order CJ accepts is numbered next.
LEMMA CJAcceptsType ==
  ASSUME TypeOK, CJAccepts
  PROVE  /\ placed \in Nat /\ placed' = placed + 1
         /\ placed' \in Numbers
         /\ live' \subseteq 1..placed'
<1>1. placed \in Nat /\ placed + 1 \in Numbers
  BY CJAssumption DEF CJAssumption, TypeOK, Numbers, CJAccepts
<1>2. live \subseteq 1..(placed + 1)
  BY <1>1 DEF TypeOK
<1>3. placed + 1 \in 1..(placed + 1)
  BY <1>1
<1> QED BY <1>1, <1>2, <1>3 DEF CJAccepts

\* Every action keeps every variable in its type.
LEMMA TypeStep ==
  ASSUME TypeOK, [Next]_vars
  PROVE  TypeOK'
<1> USE CJAssumption DEF CJAssumption, OrderEvents, Numbers, Failure
<1>1. CASE Confirming
  <2>1. CASE ReadAttempt
    BY <2>1 DEF ReadAttempt, Go, TypeOK, Steps, Attempts, remoteVars, orderVars, noteVars
  <2>2. CASE CannotBuild
    BY <2>2 DEF CannotBuild, RecordFailed, Go, TypeOK, Steps, Attempts, remoteVars,
       orderVars, noteVars
  <2>3. CASE RecordCreating
    BY <2>3 DEF RecordCreating, Go, TypeOK, Steps, Attempts, remoteVars, orderVars, noteVars
  <2>4. CASE PostAccepted
    BY <2>4, CJAcceptsType DEF PostAccepted, Go, TypeOK, Steps, Attempts, orderVars,
       noteVars
  <2>5. CASE PostAcceptedWithoutId
    BY <2>5, CJAcceptsType DEF PostAcceptedWithoutId, RecordFailed, Go, TypeOK, Steps,
       Attempts, orderVars
  <2>6. CASE PostRejected
    BY <2>6 DEF PostRejected, RecordFailed, Go, TypeOK, Steps, Attempts, remoteVars,
       orderVars, noteVars
  <2>7. CASE PostErrs
    BY <2>7, CJAcceptsType DEF PostErrs, Go, TypeOK, Steps, Attempts, remoteVars,
       orderVars, noteVars
  <2>8. CASE QueryFinds
    BY <2>8 DEF QueryFinds, Go, TypeOK, Steps, Attempts, remoteVars, orderVars, noteVars
  <2>9. CASE QueryFindsNone
    BY <2>9 DEF QueryFindsNone, Raise, Go, TypeOK, Steps, Attempts, remoteVars,
       orderVars, noteVars
  <2>10. CASE RecordCreated
    BY <2>10 DEF RecordCreated, Go, TypeOK, Steps, Attempts, remoteVars, orderVars, noteVars
  <2> QED BY <1>1, <2>1, <2>2, <2>3, <2>4, <2>5, <2>6, <2>7, <2>8, <2>9,
     <2>10 DEF Confirming
<1>2. CASE Cancelling
  <2>1. CASE ReadNumber
    BY <2>1 DEF ReadNumber, Go, TypeOK, Steps, Attempts, remoteVars, orderVars
  <2>2. CASE DeleteAccepted
    BY <2>2 DEF DeleteAccepted, Go, TypeOK, Steps, Attempts, orderVars, noteVars
  <2>3. CASE DeleteRefused
    BY <2>3 DEF DeleteRefused, Raise, Go, TypeOK, Steps, Attempts, remoteVars, orderVars,
       noteVars
  <2>4. CASE DeleteErrs
    BY <2>4 DEF DeleteErrs, Raise, Go, TypeOK, Steps, Attempts, orderVars, noteVars
  <2>5. CASE RecordCancelled
    BY <2>5 DEF RecordCancelled, Go, TypeOK, Steps, Attempts, remoteVars, orderVars,
       noteVars
  <2> QED BY <1>2, <2>1, <2>2, <2>3, <2>4, <2>5 DEF Cancelling
<1>3. CASE Failing
  <2>1. CASE Crash
    BY <2>1 DEF Crash, Fault, TypeOK, Steps, Attempts, remoteVars, orderVars, noteVars
  <2>2. CASE LateArrival
    BY <2>2, CJAcceptsType DEF LateArrival, TypeOK, supplierVars, orderVars, noteVars
  <2>3. ASSUME NEW e \in OrderEvents, HandlerErrs(e)
        PROVE  TypeOK'
    BY <2>3 DEF HandlerErrs, Fault, Raise, Go, TypeOK, Steps, Attempts, remoteVars,
       orderVars, noteVars
  <2>4. ASSUME NEW e \in OrderEvents, Redeliver(e)
        PROVE  TypeOK'
    BY <2>4 DEF Redeliver, Fault, Go, TypeOK, Steps, Attempts, remoteVars, orderVars
  <2> QED BY <1>3, <2>1, <2>2, <2>3, <2>4 DEF Failing
<1>4. CASE Ordering
  <2>1. CASE CancelOrder
    BY <2>1 DEF CancelOrder, TypeOK, supplierVars, remoteVars, noteVars
  <2>2. ASSUME NEW n \in Numbers, OrderTakesReport(n)
        PROVE  TypeOK'
    BY <2>2 DEF OrderTakesReport, TypeOK, supplierVars, remoteVars, noteVars
  <2> QED BY <1>4, <2>1, <2>2 DEF Ordering
<1>5. CASE UNCHANGED vars
  BY <1>5 DEF TypeOK, vars, supplierVars, remoteVars, orderVars, noteVars
<1> QED BY <1>1, <1>2, <1>3, <1>4, <1>5 DEF Next

-----------------------------------------------------------------------------
(* The inductive invariant.                                                 *)

Settled == PostedOnce /\ NumberKept /\ FailureIsFinal /\ DeletionIsFinal

\* No step unsettles an order whose claims last: what a handler may do next is
\* decided by the attempt's row, and only the steps that write the row move on.
LEMMA SettledStep ==
  ASSUME IInv, [Next]_vars, ~lapsed'
  PROVE  Settled'
<1>1. lapsed' = lapsed \/ \E e \in OrderEvents : Redeliver(e)
  BY DEF Next, Confirming, Cancelling, Failing, Ordering, vars, noteVars,
     ReadAttempt, CannotBuild, RecordCreating, PostAccepted, PostAcceptedWithoutId,
     PostRejected, PostErrs, QueryFinds, QueryFindsNone, RecordCreated, ReadNumber,
     DeleteAccepted, DeleteRefused, DeleteErrs, RecordCancelled, Crash, LateArrival,
     HandlerErrs, CancelOrder, OrderTakesReport
<1>2. ~ \E e \in OrderEvents : Redeliver(e)
  BY DEF Redeliver
<1>3. TypeOK /\ Settled /\ ~lapsed
  BY <1>1, <1>2 DEF IInv, Settled
<1> USE <1>3, CJAssumption DEF CJAssumption, OrderEvents, Numbers, Failure, Steps, Attempts
<1>4. CASE Confirming
  <2>1. CASE ReadAttempt
    BY <2>1 DEF ReadAttempt, Waiting, Go, Settled, PostedOnce, NumberKept,
       FailureIsFinal, DeletionIsFinal, NothingSent, confirmStep, cancelStep,
       TypeOK, remoteVars, orderVars, noteVars
  <2>2. CASE CannotBuild
    BY <2>2 DEF CannotBuild, RecordFailed, Go, Settled, PostedOnce, NumberKept,
       FailureIsFinal, DeletionIsFinal, NothingSent, confirmStep, cancelStep,
       TypeOK, remoteVars, orderVars, noteVars
  <2>3. CASE RecordCreating
    BY <2>3 DEF RecordCreating, Go, Settled, PostedOnce, NumberKept, FailureIsFinal,
       DeletionIsFinal, NothingSent, confirmStep, cancelStep,
       TypeOK, remoteVars, orderVars, noteVars
  <2>4. CASE PostAccepted
    <3>1. placed = 0 /\ ~late /\ placed' = 1
      BY <2>4, CJAcceptsType DEF PostAccepted, Settled, PostedOnce, NothingSent, confirmStep
    <3>2. number = 0 /\ attempt \notin {"none", "created", "failed", "cancelled"}
      BY <2>4 DEF PostAccepted, Settled, PostedOnce, NumberKept, confirmStep
    <3> QED BY <2>4, <3>1, <3>2 DEF PostAccepted, Go, Settled, PostedOnce, NumberKept,
       FailureIsFinal, DeletionIsFinal, NothingSent, confirmStep, cancelStep,
               TypeOK, orderVars, noteVars
  <2>5. CASE PostAcceptedWithoutId
    BY <2>5, CJAcceptsType DEF PostAcceptedWithoutId, RecordFailed, Go, Settled,
       PostedOnce, NumberKept, FailureIsFinal, DeletionIsFinal, NothingSent, confirmStep, cancelStep,
       TypeOK, orderVars
  <2>6. CASE PostRejected
    BY <2>6 DEF PostRejected, RecordFailed, Go, Settled, PostedOnce, NumberKept,
       FailureIsFinal, DeletionIsFinal, NothingSent, confirmStep, cancelStep,
       TypeOK, remoteVars, orderVars, noteVars
  <2>7. CASE PostErrs
    <3>1. placed = 0 /\ ~late
      BY <2>7 DEF PostErrs, Settled, PostedOnce, NothingSent, confirmStep
    <3>2. number = 0 /\ attempt \notin {"none", "created", "failed", "cancelled"}
      BY <2>7 DEF PostErrs, Settled, PostedOnce, NumberKept, confirmStep
    <3>3. placed' = 0 \/ (placed' = 1 /\ ~late')
      BY <2>7, <3>1, CJAcceptsType DEF PostErrs, remoteVars
    <3> QED BY <2>7, <3>1, <3>2, <3>3 DEF PostErrs, Go, Settled, PostedOnce, NumberKept,
       FailureIsFinal, DeletionIsFinal, NothingSent, confirmStep, cancelStep,
               TypeOK, orderVars, noteVars
  <2>8. CASE QueryFinds
    BY <2>8 DEF QueryFinds, Go, Settled, PostedOnce, NumberKept, FailureIsFinal,
       DeletionIsFinal, NothingSent, confirmStep, cancelStep,
       TypeOK, remoteVars, orderVars, noteVars
  <2>9. CASE QueryFindsNone
    BY <2>9 DEF QueryFindsNone, Raise, Go, Settled, PostedOnce, NumberKept,
       FailureIsFinal, DeletionIsFinal, NothingSent, confirmStep, cancelStep,
       TypeOK, remoteVars, orderVars, noteVars
  <2>10. CASE RecordCreated
    BY <2>10 DEF RecordCreated, Go, Settled, PostedOnce, NumberKept, FailureIsFinal,
       DeletionIsFinal, NothingSent, confirmStep, cancelStep,
       TypeOK, remoteVars, orderVars, noteVars
  <2> QED BY <1>4, <2>1, <2>2, <2>3, <2>4, <2>5, <2>6, <2>7, <2>8, <2>9,
     <2>10 DEF Confirming
<1>5. CASE Cancelling
  <2>1. CASE ReadNumber
    BY <2>1 DEF ReadNumber, Waiting, Go, Settled, PostedOnce, NumberKept, FailureIsFinal,
       DeletionIsFinal, NothingSent, confirmStep, cancelStep,
       TypeOK, remoteVars, orderVars
  <2>2. CASE DeleteAccepted
    BY <2>2 DEF DeleteAccepted, Go, Settled, PostedOnce, NumberKept, FailureIsFinal,
       DeletionIsFinal, NothingSent, confirmStep, cancelStep,
       TypeOK, orderVars, noteVars
  <2>3. CASE DeleteRefused
    BY <2>3 DEF DeleteRefused, Raise, Go, Settled, PostedOnce, NumberKept,
       FailureIsFinal, DeletionIsFinal, NothingSent, confirmStep, cancelStep,
       TypeOK, remoteVars, orderVars, noteVars
  <2>4. CASE DeleteErrs
    BY <2>4 DEF DeleteErrs, Raise, Go, Settled, PostedOnce, NumberKept, FailureIsFinal,
       DeletionIsFinal, NothingSent, confirmStep, cancelStep,
       TypeOK, orderVars, noteVars
  <2>5. CASE RecordCancelled
    BY <2>5 DEF RecordCancelled, Go, Settled, PostedOnce, NumberKept, FailureIsFinal,
       DeletionIsFinal, NothingSent, confirmStep, cancelStep,
       TypeOK, remoteVars, orderVars, noteVars
  <2> QED BY <1>5, <2>1, <2>2, <2>3, <2>4, <2>5 DEF Cancelling
<1>6. CASE Failing
  <2>1. CASE Crash
    BY <2>1 DEF Crash, Settled, PostedOnce, NumberKept, FailureIsFinal, DeletionIsFinal,
       NothingSent, confirmStep, cancelStep,
       TypeOK, remoteVars, orderVars, noteVars
  <2>2. CASE LateArrival
    <3>1. placed = 0 /\ late /\ placed' = 1 /\ ~late'
      BY <2>2, CJAcceptsType DEF LateArrival, Settled, PostedOnce
    <3>2. number = 0 /\ confirmStep # "store" /\ attempt # "cancelled"
      BY <3>1 DEF Settled, NumberKept, DeletionIsFinal, TypeOK
    <3> QED BY <2>2, <3>1, <3>2 DEF LateArrival, Settled, PostedOnce, NumberKept,
       FailureIsFinal, DeletionIsFinal, NothingSent, confirmStep, cancelStep,
               TypeOK, supplierVars, orderVars, noteVars
  <2>3. ASSUME NEW e \in OrderEvents, HandlerErrs(e)
        PROVE  Settled'
    BY <2>3 DEF HandlerErrs, Raise, Go, Settled, PostedOnce, NumberKept, FailureIsFinal,
       DeletionIsFinal, NothingSent, confirmStep, cancelStep,
       TypeOK, remoteVars, orderVars, noteVars
  <2> QED BY <1>2, <1>6, <2>1, <2>2, <2>3 DEF Failing
<1>7. CASE Ordering
  <2>1. UNCHANGED <<supplierVars, remoteVars, noteVars>>
    BY <1>7 DEF Ordering, CancelOrder, OrderTakesReport
  <2> QED BY <2>1 DEF Settled, PostedOnce, NumberKept, FailureIsFinal, DeletionIsFinal,
     NothingSent, confirmStep, cancelStep,
             supplierVars, remoteVars, noteVars
<1>8. CASE UNCHANGED vars
  BY <1>8 DEF Settled, PostedOnce, NumberKept, FailureIsFinal, DeletionIsFinal,
     NothingSent, confirmStep, cancelStep,
     vars, supplierVars, remoteVars, noteVars
<1> QED BY <1>4, <1>5, <1>6, <1>7, <1>8 DEF Next

-----------------------------------------------------------------------------
(* The theorems.                                                            *)

\* The order has just been confirmed and nothing was sent.
LEMMA Start == Init => IInv
<1> SUFFICES ASSUME Init
             PROVE  IInv
  OBVIOUS
<1>1. TypeOK
  <2>1. 0 \in Numbers /\ faults \in 0..MaxFaults
    BY CJAssumption DEF CJAssumption, Init, Numbers
  <2>2. at \in [OrderEvents -> {"queued", "done", "dead", "lost"} \cup Steps]
    BY DEF Init
  <2> QED BY <2>1, <2>2 DEF Init, TypeOK, OrderEvents, Attempts
<1>2. PostedOnce /\ NumberKept /\ FailureIsFinal /\ DeletionIsFinal
  BY DEF Init, PostedOnce, NumberKept, FailureIsFinal, DeletionIsFinal, NothingSent,
     confirmStep, cancelStep, OrderEvents
<1> QED BY <1>1, <1>2 DEF IInv

\* The inductive invariant holds throughout.
THEOREM Inductive == Spec => []IInv
<1>1. IInv /\ [Next]_vars => IInv'
  <2> SUFFICES ASSUME IInv, [Next]_vars
               PROVE  IInv'
    OBVIOUS
  <2>1. TypeOK'
    BY TypeStep DEF IInv
  <2>2. ~lapsed' => Settled'
    BY SettledStep
  <2> QED BY <2>1, <2>2 DEF IInv, Settled
<1> QED BY Start, <1>1, PTL DEF Spec

\* handle_order_confirmed and handle_order_cancelled keep every row and every
\* report in its type.
THEOREM TypeCorrect == Spec => []TypeOK
<1>1. IInv => TypeOK
  BY DEF IInv
<1> QED BY <1>1, Inductive, PTL

\* While its claim lasts, order.confirmed places at most one order at CJ, POSTs
\* that are still on their way included: the row "creating", committed before
\* the POST, turns every later delivery into a query.
THEOREM OneCJOrder == Spec => []AtMostOneCJOrder
<1>1. IInv => AtMostOneCJOrder
  BY DEF IInv, TypeOK, PostedOnce, AtMostOneCJOrder, Numbers
<1> QED BY <1>1, Inductive, PTL

\* cj.order.failed, on which the customer is refunded, is only written while CJ
\* has no order, nor will have one.
THEOREM RefundIsSafe == Spec => []RefundOnlyIfNoCJOrder
<1>1. ASSUME IInv
      PROVE  RefundOnlyIfNoCJOrder
  <2> SUFFICES ASSUME Failure \in reports, ~misread, ~lapsed
               PROVE  live = {} /\ ~late
    BY DEF RefundOnlyIfNoCJOrder
  <2>1. placed = 0 /\ ~late /\ live \subseteq 1..placed
    BY <1>1 DEF IInv, FailureIsFinal, NothingSent, TypeOK
  <2> QED BY <2>1
<1> QED BY <1>1, Inductive, PTL

\* A handled cancellation has deleted the CJ order, unless it found no number.
THEOREM CancellationReachesCJ == Spec => []CancelReachesCJ
<1>1. ASSUME IInv
      PROVE  CancelReachesCJ
  <2> SUFFICES ASSUME \A e \in OrderEvents : e \in published /\ at[e] = "done", ~lapsed
               PROVE  live = {} \/ overtaken
    BY DEF CancelReachesCJ
  <2>1. at["cancelled"] = "done"
    BY DEF OrderEvents
  <2> QED BY <1>1, <2>1 DEF IInv, DeletionIsFinal, cancelStep
<1> QED BY <1>1, Inductive, PTL

-----------------------------------------------------------------------------
(* Both services on one order.                                              *)

\* A step of the composition is a step of the supplier's part or leaves it
\* alone, so what is proved of CJOrder holds in it.
THEOREM SupplierPartRuns == FulfilmentSpec => Spec
<1>1. FulfilmentInit => Init
  BY DEF FulfilmentInit
<1>2. [FulfilmentNext]_<<vars, shipVars>> => [Next]_vars
  BY DEF FulfilmentNext, Next
<1> QED BY <1>1, <1>2, PTL DEF FulfilmentSpec, Spec

\* An open update was checked against the status it read.
PatchChecked ==
  patch = Ship!NoPatch \/ patch.to = patch.seen \/ <<patch.seen, patch.to>> \in Ship!ValidTransitions

\* A cancellation that was handled found a shipment and has ended it.
CancelEnds ==
  "cancelled" \in handled => shipment \in {"delivered", "cancelled"} \/ overtook \/ stale

\* Only a published cancellation is being handled.
CancelPublished == cancelling # "none" => "cancelled" \in published

\* The inductive invariant of the shipment.
ShipInv == Ship!TypeOK /\ PatchChecked /\ CancelPublished /\ CancelEnds

\* The shipping service's own steps keep it.
LEMMA ShipmentStep ==
  ASSUME ShipInv, Ship!Administer \/ Ship!Consume
  PROVE  ShipInv'
<1> USE DEF ShipInv, Ship!TypeOK, Ship!Status, Ship!OrderEvents, Ship!NoPatch, Ship!Waiting,
           Ship!orderVars, Ship!noteVars, PatchChecked,
           CancelPublished, CancelEnds, Ship!ValidTransitions
<1>1. CASE Ship!CreateManually
  BY <1>1 DEF Ship!CreateManually
<1>2. CASE Ship!CommitUpdate
  BY <1>2 DEF Ship!CommitUpdate
<1>3. CASE \E to \in Ship!Status : Ship!BeginUpdate(to)
  BY <1>3 DEF Ship!BeginUpdate
<1>4. CASE Ship!CreateFromOrder
  <2>1. CASE shipment = "none" /\ shipment' = "pending" /\ events' = events \cup {"created"}
    BY <1>4, <2>1 DEF Ship!CreateFromOrder
  <2>2. CASE UNCHANGED <<shipment, events>>
    BY <1>4, <2>2 DEF Ship!CreateFromOrder
  <2> QED BY <1>4, <2>1, <2>2 DEF Ship!CreateFromOrder
<1>5. CASE Ship!BeginCancel
  BY <1>5 DEF Ship!BeginCancel
<1>6. CASE Ship!CommitCancel
  BY <1>6 DEF Ship!CommitCancel
<1>7. CASE Ship!CancelFails
  BY <1>7 DEF Ship!CancelFails
<1> QED BY <1>1, <1>2, <1>3, <1>4, <1>5, <1>6, <1>7 DEF Ship!Administer, Ship!Consume

\* The supplier's steps only ever add to the published order events.
LEMMA PublishedGrows ==
  ASSUME TypeOK, [Next]_vars
  PROVE  published \subseteq published'
<1>1. published' = published \/ published' = OrderEvents
  BY DEF Next, Confirming, Cancelling, Failing, Ordering, vars, orderVars, ReadAttempt,
     CannotBuild, RecordCreating, PostAccepted, PostAcceptedWithoutId, PostRejected,
     PostErrs, QueryFinds, QueryFindsNone, RecordCreated, ReadNumber, DeleteAccepted,
     DeleteRefused, DeleteErrs, RecordCancelled, Crash, LateArrival, HandlerErrs,
     Redeliver, CancelOrder, OrderTakesReport
<1> QED BY <1>1 DEF TypeOK

\* Both services' columns keep their types, and the shipment its invariant,
\* while the two run side by side.
THEOREM ShipmentInductive == FulfilmentSpec => [](TypeOK /\ ShipInv)
<1>1. FulfilmentInit => TypeOK /\ ShipInv
  BY Start DEF FulfilmentInit, IInv, ShipInv, Ship!Init, Ship!TypeOK, Ship!OrderEvents,
     Ship!Status, Ship!NoPatch, PatchChecked, CancelPublished, CancelEnds
<1>2. ASSUME TypeOK, ShipInv, [FulfilmentNext]_<<vars, shipVars>>
      PROVE  TypeOK' /\ ShipInv'
  <2>1. [Next]_vars
    BY <1>2 DEF FulfilmentNext, Next
  <2>2. TypeOK' /\ published \subseteq published'
    BY <1>2, <2>1, TypeStep, PublishedGrows
  <2>3. CASE Ship!Administer \/ Ship!Consume
    BY <1>2, <2>2, <2>3, ShipmentStep
  <2>4. CASE UNCHANGED shipVars
    BY <1>2, <2>2, <2>4 DEF shipVars, ShipInv, Ship!TypeOK, Ship!OrderEvents, OrderEvents,
       TypeOK, PatchChecked, CancelPublished, CancelEnds
  <2> QED BY <1>2, <2>3, <2>4 DEF FulfilmentNext
<1> QED BY <1>1, <1>2, PTL DEF FulfilmentSpec

\* Every column of both services keeps its type.
THEOREM FulfilmentTypeCorrect == FulfilmentSpec => []FulfilmentTypeOK
<1>1. TypeOK /\ ShipInv => FulfilmentTypeOK
  BY DEF ShipInv, FulfilmentTypeOK
<1> QED BY <1>1, ShipmentInductive, PTL

\* A handled cancellation leaves no shipment on its way, however the updates of
\* administrators, the supplier's failures and the two order events interleave,
\* unless it found no shipment or an update overwrote it.
THEOREM ShipmentStops == FulfilmentSpec => []ShipmentStopsWithOrder
<1>1. ShipInv => ShipmentStopsWithOrder
  BY DEF ShipInv, CancelEnds, ShipmentStopsWithOrder, Ship!ShipmentStopsWithOrder
<1> QED BY <1>1, ShipmentInductive, PTL

\* What is proved of the supplier's part holds beside the shipping service.
THEOREM SupplierHolds ==
  FulfilmentSpec => [](AtMostOneCJOrder /\ RefundOnlyIfNoCJOrder /\ CancelReachesCJ)
BY SupplierPartRuns, OneCJOrder, RefundIsSafe, CancellationReachesCJ, PTL

=============================================================================
