------------------------ MODULE EventDeliveryProofs ------------------------
(***************************************************************************)
(* Theorems about EventDelivery, for every number of rows, every set of    *)
(* workers, batch size and number of faults, and the refinement of         *)
(* EventChannel.                                                           *)
(***************************************************************************)
EXTENDS EventDelivery, FiniteSetTheorems, TLAPS

\* The event is somewhere behind the broker, or has been.
Reached(e) ==
  queue[e] > 0 \/ Held(e) \/ e \in dead \/ e \in abandoned \/ applied[e] > 0

\* The relay works on rows that are due, and counts its failures.
RowsOK ==
  /\ \A e \in batch \cup sent \cup failed : row[e] = "pending"
  /\ \A e \in failed : attempts[e] > 0

\* What the relay has published has arrived, committed or not.
Published == \A e \in Events : row[e] = "processed" \/ e \in sent => Reached(e)

\* A key is somebody's: a duplicate is only dropped for an event that is being
\* handled, was applied, or was abandoned.
ClaimExplained ==
  \A e \in Events : claim[e] # "free" => Held(e) \/ e \in abandoned \/ applied[e] > 0

CommittedApplied ==
  \A w \in Workers : worker[w].step = "committed" => applied[worker[w].event] > 0

\* An event is applied under a key that keeps everybody out.
AppliedOnce ==
  \A e \in Events : e \notin lapsed \cup stolen /\ applied[e] > 0 =>
    /\ applied[e] = 1
    /\ claim[e] # "free"
    /\ \A w \in Workers : worker[w] # [event |-> e, step |-> "claimed"]

\* The inductive invariant.
IInv ==
  /\ TypeOK
  /\ RowsOK /\ Published
  /\ ClaimExplained /\ CommittedApplied
  /\ ExclusiveHandling /\ AppliedOnce

-----------------------------------------------------------------------------
(* Facts about the operators.                                               *)

\* Events are positive numbers, and there is no event 0.
LEMMA EventsAreNat == Events \subseteq Nat /\ NoEvent \notin Events
BY DeliveryAssumption DEF DeliveryAssumption, Events, NoEvent

\* A worker is idle or at one of the two steps of an event.
LEMMA WorkerForm ==
  ASSUME TypeOK, NEW w \in Workers
  PROVE  \/ worker[w] = Idle /\ worker[w].event = NoEvent /\ worker[w].step = "idle"
         \/ /\ worker[w] # Idle
            /\ worker[w].event \in Events /\ worker[w].step \in {"claimed", "committed"}
            /\ worker[w] = [event |-> worker[w].event, step |-> worker[w].step]
BY EventsAreNat DEF TypeOK, Idle

-----------------------------------------------------------------------------
(* Every action keeps every variable in its type.                           *)

\* Type correctness is preserved.
LEMMA TypeStep ==
  ASSUME TypeOK, RowsOK, [Next]_vars
  PROVE  TypeOK'
<1>1. ASSUME NEW e \in Events, Write(e)
      PROVE  TypeOK'
  BY <1>1, DeliveryAssumption DEF Write, DeliveryAssumption, TypeOK, consumerVars,
     historyVars
<1>2. CASE StartBatch
  BY <1>2, DeliveryAssumption DEF StartBatch, Pending, DeliveryAssumption, TypeOK,
     consumerVars, historyVars
<1>3. CASE PublishNext
  <2>1. PICK e \in batch :
           /\ batch' = batch \ {e} /\ sent' = sent \cup {e}
           /\ queue' = [queue EXCEPT ![e] = @ + 1]
    BY <1>3 DEF PublishNext, Oldest
  <2> QED BY <1>3, <2>1, DeliveryAssumption DEF PublishNext, DeliveryAssumption, TypeOK,
          consumerVars, historyVars
<1>4. CASE PublishFails
  <2>1. PICK e \in batch :
           /\ attempts' = [attempts EXCEPT ![e] = @ + 1]
           /\ batch' = batch \ {e} /\ failed' = failed \cup {e}
           /\ queue' \in {queue, [queue EXCEPT ![e] = @ + 1]}
    BY <1>4 DEF PublishFails, Oldest
  <2> QED BY <1>4, <2>1, DeliveryAssumption DEF PublishFails, DeliveryAssumption, TypeOK,
          consumerVars
<1>5. CASE CommitBatch
  BY <1>5, DeliveryAssumption DEF CommitBatch, DeliveryAssumption, TypeOK, consumerVars,
     historyVars
<1>6. CASE RelayCrash
  BY <1>6, DeliveryAssumption DEF RelayCrash, RowsOK, DeliveryAssumption, TypeOK,
     consumerVars
<1>7. ASSUME NEW e \in Events, RetryDue(e)
      PROVE  TypeOK'
  BY <1>7, DeliveryAssumption DEF RetryDue, DeliveryAssumption, TypeOK, consumerVars,
     historyVars
<1>8. ASSUME NEW w \in Workers, NEW e \in Events, Take(w, e)
      PROVE  TypeOK'
  BY <1>8, DeliveryAssumption DEF Take, DeliveryAssumption, TypeOK, relayVars, historyVars
<1>9. ASSUME NEW w \in Workers, NEW e \in Events, ClaimRaises(w, e)
      PROVE  TypeOK'
  BY <1>9, DeliveryAssumption DEF ClaimRaises, DeliveryAssumption, TypeOK, relayVars
<1>10. ASSUME NEW w \in Workers, CommitEffect(w)
      PROVE  TypeOK'
  <2>1. PICK e \in Events : worker[w] = [event |-> e, step |-> "claimed"]
    BY <1>10, WorkerForm DEF CommitEffect, Idle
  <2>2. worker' = [worker EXCEPT ![w] = [event |-> e, step |-> "committed"]]
    <3>1. [worker[w] EXCEPT !.step = "committed"] = [event |-> e, step |-> "committed"]
      BY <2>1
    <3> QED BY <1>10, <3>1 DEF CommitEffect
  <2> QED BY <1>10, <2>1, <2>2 DEF CommitEffect, TypeOK, relayVars, historyVars
<1>11. ASSUME NEW w \in Workers, HandlerRaises(w)
      PROVE  TypeOK'
  <2>1. worker[w].event \in Events /\ worker[w].step \in {"claimed", "committed"}
    BY <1>11, WorkerForm DEF HandlerRaises
  <2> QED BY <1>11, <2>1 DEF HandlerRaises, Nack, TypeOK, relayVars
<1>12. ASSUME NEW w \in Workers, MarkProcessed(w)
      PROVE  TypeOK'
  <2>1. worker[w].event \in Events /\ worker[w].step \in {"claimed", "committed"}
    BY <1>12, WorkerForm DEF MarkProcessed
  <2> QED BY <1>12, <2>1 DEF MarkProcessed, TypeOK, relayVars, historyVars
<1>13. ASSUME NEW w \in Workers, MarkFails(w)
      PROVE  TypeOK'
  <2>1. worker[w].event \in Events /\ worker[w].step \in {"claimed", "committed"}
    BY <1>13, WorkerForm DEF MarkFails
  <2> QED BY <1>13, <2>1 DEF MarkFails, Nack, TypeOK, relayVars
<1>14. CASE ConsumerCrash
  <2>1. \A e \in Events : Cardinality({w \in Workers : worker[w].event = e}) \in Nat
    BY DeliveryAssumption, FS_Subset, FS_CardinalityType DEF DeliveryAssumption
  <2> QED BY <1>14, <2>1, DeliveryAssumption DEF ConsumerCrash, DeliveryAssumption,
          TypeOK, relayVars
<1>15. ASSUME NEW e \in Events, ClaimExpires(e)
      PROVE  TypeOK'
  BY <1>15, DeliveryAssumption DEF ClaimExpires, DeliveryAssumption, TypeOK, relayVars
<1>16. CASE UNCHANGED vars
  BY <1>16, DeliveryAssumption DEF vars, DeliveryAssumption, TypeOK, relayVars,
     consumerVars, historyVars
<1> QED BY <1>1, <1>2, <1>3, <1>4, <1>5, <1>6, <1>7, <1>8, <1>9, <1>10, <1>11, <1>12,
         <1>13, <1>14, <1>15, <1>16 DEF Next, Relay, Consume

-----------------------------------------------------------------------------
(* The parts of the inductive invariant.                                    *)

\* A batch keeps its rows locked, and a failure is counted before it is noted.
LEMMA RowsStep ==
  ASSUME TypeOK, RowsOK, [Next]_vars
  PROVE  RowsOK'
<1>1. ASSUME NEW e \in Events, Write(e)
      PROVE  RowsOK'
  BY <1>1 DEF Write, RowsOK, TypeOK, consumerVars, historyVars
<1>2. CASE StartBatch
  BY <1>2 DEF StartBatch, Pending, BatchOpen, RowsOK, TypeOK, consumerVars, historyVars
<1>3. CASE PublishNext
  <2>1. PICK e \in batch :
           /\ batch' = batch \ {e} /\ sent' = sent \cup {e}
           /\ queue' = [queue EXCEPT ![e] = @ + 1]
    BY <1>3 DEF PublishNext, Oldest
  <2> QED BY <1>3, <2>1 DEF PublishNext, RowsOK, TypeOK, consumerVars, historyVars
<1>4. CASE PublishFails
  <2>1. PICK e \in batch :
           /\ attempts' = [attempts EXCEPT ![e] = @ + 1]
           /\ batch' = batch \ {e} /\ failed' = failed \cup {e}
           /\ queue' \in {queue, [queue EXCEPT ![e] = @ + 1]}
    BY <1>4 DEF PublishFails, Oldest
  <2> QED BY <1>4, <2>1 DEF PublishFails, RowsOK, TypeOK, consumerVars
<1>5. CASE CommitBatch
  BY <1>5 DEF CommitBatch, RowsOK, TypeOK, consumerVars, historyVars
<1>6. CASE RelayCrash
  BY <1>6 DEF RelayCrash, RowsOK, TypeOK, consumerVars
<1>7. ASSUME NEW e \in Events, RetryDue(e)
      PROVE  RowsOK'
  BY <1>7 DEF RetryDue, RowsOK, TypeOK, consumerVars, historyVars
<1>8. ASSUME NEW w \in Workers, NEW e \in Events, Take(w, e)
      PROVE  RowsOK'
  BY <1>8 DEF Take, RowsOK, TypeOK, relayVars, historyVars
<1>9. ASSUME NEW w \in Workers, NEW e \in Events, ClaimRaises(w, e)
      PROVE  RowsOK'
  BY <1>9 DEF ClaimRaises, RowsOK, TypeOK, relayVars
<1>10. ASSUME NEW w \in Workers, CommitEffect(w)
      PROVE  RowsOK'
  <2>1. PICK e \in Events : worker[w] = [event |-> e, step |-> "claimed"]
    BY <1>10, WorkerForm DEF CommitEffect, Idle
  <2>2. worker' = [worker EXCEPT ![w] = [event |-> e, step |-> "committed"]]
    <3>1. [worker[w] EXCEPT !.step = "committed"] = [event |-> e, step |-> "committed"]
      BY <2>1
    <3> QED BY <1>10, <3>1 DEF CommitEffect
  <2> QED BY <1>10, <2>1, <2>2 DEF CommitEffect, RowsOK, TypeOK, relayVars, historyVars
<1>11. ASSUME NEW w \in Workers, HandlerRaises(w)
      PROVE  RowsOK'
  <2>1. PICK e \in Events : worker[w] = [event |-> e, step |-> "claimed"]
    BY <1>11, WorkerForm DEF HandlerRaises, Idle
  <2> QED BY <1>11, <2>1 DEF HandlerRaises, Nack, RowsOK, TypeOK, relayVars
<1>12. ASSUME NEW w \in Workers, MarkProcessed(w)
      PROVE  RowsOK'
  <2>1. PICK e \in Events : worker[w] = [event |-> e, step |-> "committed"]
    BY <1>12, WorkerForm DEF MarkProcessed, Idle
  <2> QED BY <1>12, <2>1 DEF MarkProcessed, RowsOK, TypeOK, relayVars, historyVars
<1>13. ASSUME NEW w \in Workers, MarkFails(w)
      PROVE  RowsOK'
  <2>1. PICK e \in Events : worker[w] = [event |-> e, step |-> "committed"]
    BY <1>13, WorkerForm DEF MarkFails, Idle
  <2> QED BY <1>13, <2>1 DEF MarkFails, Nack, RowsOK, TypeOK, relayVars
<1>14. CASE ConsumerCrash
  BY <1>14 DEF ConsumerCrash, RowsOK, TypeOK, relayVars
<1>15. ASSUME NEW e \in Events, ClaimExpires(e)
      PROVE  RowsOK'
  BY <1>15 DEF ClaimExpires, RowsOK, TypeOK, relayVars
<1>16. CASE UNCHANGED vars
  BY <1>16 DEF vars, RowsOK, TypeOK, relayVars, consumerVars, historyVars
<1> QED BY <1>1, <1>2, <1>3, <1>4, <1>5, <1>6, <1>7, <1>8, <1>9, <1>10, <1>11, <1>12,
         <1>13, <1>14, <1>15, <1>16 DEF Next, Relay, Consume

\* A key that is not stolen is freed by its owner only.
LEMMA ExclusiveStep ==
  ASSUME TypeOK, ExclusiveHandling, [Next]_vars
  PROVE  ExclusiveHandling'
<1>1. ASSUME NEW e \in Events, Write(e)
      PROVE  ExclusiveHandling'
  BY <1>1, EventsAreNat DEF Write, ExclusiveHandling, Held, Idle, TypeOK, consumerVars,
     historyVars
<1>2. CASE StartBatch
  BY <1>2, EventsAreNat DEF StartBatch, Pending, BatchOpen, ExclusiveHandling, Held,
     Idle, TypeOK, consumerVars, historyVars
<1>3. CASE PublishNext
  <2>1. PICK e \in batch :
           /\ batch' = batch \ {e} /\ sent' = sent \cup {e}
           /\ queue' = [queue EXCEPT ![e] = @ + 1]
    BY <1>3 DEF PublishNext, Oldest
  <2> QED BY <1>3, <2>1, EventsAreNat DEF PublishNext, ExclusiveHandling, Held, Idle,
          TypeOK, consumerVars, historyVars
<1>4. CASE PublishFails
  <2>1. PICK e \in batch :
           /\ attempts' = [attempts EXCEPT ![e] = @ + 1]
           /\ batch' = batch \ {e} /\ failed' = failed \cup {e}
           /\ queue' \in {queue, [queue EXCEPT ![e] = @ + 1]}
    BY <1>4 DEF PublishFails, Oldest
  <2> QED BY <1>4, <2>1, EventsAreNat DEF PublishFails, ExclusiveHandling, Held, Idle,
          TypeOK, consumerVars
<1>5. CASE CommitBatch
  BY <1>5, EventsAreNat DEF CommitBatch, ExclusiveHandling, Held, Idle, TypeOK,
     consumerVars, historyVars
<1>6. CASE RelayCrash
  BY <1>6, EventsAreNat DEF RelayCrash, ExclusiveHandling, Held, Idle, TypeOK, consumerVars
<1>7. ASSUME NEW e \in Events, RetryDue(e)
      PROVE  ExclusiveHandling'
  BY <1>7, EventsAreNat DEF RetryDue, ExclusiveHandling, Held, Idle, TypeOK,
     consumerVars, historyVars
<1>8. ASSUME NEW w \in Workers, NEW e \in Events, Take(w, e)
      PROVE  ExclusiveHandling'
  <2>1. CASE claim[e] = "free"
    <3>1. /\ claim' = [claim EXCEPT ![e] = "processing"] /\ UNCHANGED stolen
          /\ worker' = [worker EXCEPT ![w] = [event |-> e, step |-> "claimed"]]
      BY <1>8, <2>1 DEF Take, historyVars
    <3>2. \A v \in Workers : e \notin stolen => worker[v].event # e
      BY <2>1, EventsAreNat DEF ExclusiveHandling, Idle
    <3> QED BY <3>1, <3>2, EventsAreNat DEF ExclusiveHandling, Idle, TypeOK
  <2>2. CASE claim[e] # "free"
    BY <1>8, <2>2 DEF Take, ExclusiveHandling, historyVars
  <2> QED BY <2>1, <2>2
<1>9. ASSUME NEW w \in Workers, NEW e \in Events, ClaimRaises(w, e)
      PROVE  ExclusiveHandling'
  BY <1>9, EventsAreNat DEF ClaimRaises, ExclusiveHandling, Held, Idle, TypeOK, relayVars
<1>10. ASSUME NEW w \in Workers, CommitEffect(w)
      PROVE  ExclusiveHandling'
  <2>1. PICK e \in Events : worker[w] = [event |-> e, step |-> "claimed"]
    BY <1>10, WorkerForm DEF CommitEffect, Idle
  <2>2. worker' = [worker EXCEPT ![w] = [event |-> e, step |-> "committed"]]
    <3>1. [worker[w] EXCEPT !.step = "committed"] = [event |-> e, step |-> "committed"]
      BY <2>1
    <3> QED BY <1>10, <3>1 DEF CommitEffect
  <2> QED BY <1>10, <2>1, <2>2, EventsAreNat DEF CommitEffect, ExclusiveHandling, Held,
          Idle, TypeOK, relayVars, historyVars
<1>11. ASSUME NEW w \in Workers, HandlerRaises(w)
      PROVE  ExclusiveHandling'
  <2>1. PICK e \in Events : worker[w] = [event |-> e, step |-> "claimed"]
    BY <1>11, WorkerForm DEF HandlerRaises, Idle
  <2> QED BY <1>11, <2>1, EventsAreNat DEF HandlerRaises, Nack, ExclusiveHandling, Held,
          Idle, TypeOK, relayVars
<1>12. ASSUME NEW w \in Workers, MarkProcessed(w)
      PROVE  ExclusiveHandling'
  <2>1. PICK e \in Events : worker[w] = [event |-> e, step |-> "committed"]
    BY <1>12, WorkerForm DEF MarkProcessed, Idle
  <2> QED BY <1>12, <2>1, EventsAreNat DEF MarkProcessed, ExclusiveHandling, Held, Idle,
          TypeOK, relayVars, historyVars
<1>13. ASSUME NEW w \in Workers, MarkFails(w)
      PROVE  ExclusiveHandling'
  <2>1. PICK e \in Events : worker[w] = [event |-> e, step |-> "committed"]
    BY <1>13, WorkerForm DEF MarkFails, Idle
  <2> QED BY <1>13, <2>1, EventsAreNat DEF MarkFails, Nack, ExclusiveHandling, Held, Idle,
          TypeOK, relayVars
<1>14. CASE ConsumerCrash
  BY <1>14, EventsAreNat DEF ConsumerCrash, ExclusiveHandling, Held, Idle, TypeOK, relayVars
<1>15. ASSUME NEW e \in Events, ClaimExpires(e)
      PROVE  ExclusiveHandling'
  BY <1>15, EventsAreNat DEF ClaimExpires, ExclusiveHandling, Held, Idle, TypeOK, relayVars
<1>16. CASE UNCHANGED vars
  BY <1>16, EventsAreNat DEF vars, ExclusiveHandling, Held, Idle, TypeOK, relayVars,
     consumerVars, historyVars
<1> QED BY <1>1, <1>2, <1>3, <1>4, <1>5, <1>6, <1>7, <1>8, <1>9, <1>10, <1>11, <1>12,
         <1>13, <1>14, <1>15, <1>16 DEF Next, Relay, Consume

\* What is committed stays committed.
LEMMA CommittedStep ==
  ASSUME TypeOK, CommittedApplied, [Next]_vars
  PROVE  CommittedApplied'
<1>1. ASSUME NEW e \in Events, Write(e)
      PROVE  CommittedApplied'
  BY <1>1, EventsAreNat DEF Write, CommittedApplied, Idle, TypeOK, consumerVars, historyVars
<1>2. CASE StartBatch
  BY <1>2, EventsAreNat DEF StartBatch, Pending, BatchOpen, CommittedApplied, Idle,
     TypeOK, consumerVars, historyVars
<1>3. CASE PublishNext
  <2>1. PICK e \in batch :
           /\ batch' = batch \ {e} /\ sent' = sent \cup {e}
           /\ queue' = [queue EXCEPT ![e] = @ + 1]
    BY <1>3 DEF PublishNext, Oldest
  <2> QED BY <1>3, <2>1, EventsAreNat DEF PublishNext, CommittedApplied, Idle, TypeOK,
          consumerVars, historyVars
<1>4. CASE PublishFails
  <2>1. PICK e \in batch :
           /\ attempts' = [attempts EXCEPT ![e] = @ + 1]
           /\ batch' = batch \ {e} /\ failed' = failed \cup {e}
           /\ queue' \in {queue, [queue EXCEPT ![e] = @ + 1]}
    BY <1>4 DEF PublishFails, Oldest
  <2> QED BY <1>4, <2>1, EventsAreNat DEF PublishFails, CommittedApplied, Idle, TypeOK,
          consumerVars
<1>5. CASE CommitBatch
  BY <1>5, EventsAreNat DEF CommitBatch, CommittedApplied, Idle, TypeOK, consumerVars,
     historyVars
<1>6. CASE RelayCrash
  BY <1>6, EventsAreNat DEF RelayCrash, CommittedApplied, Idle, TypeOK, consumerVars
<1>7. ASSUME NEW e \in Events, RetryDue(e)
      PROVE  CommittedApplied'
  BY <1>7, EventsAreNat DEF RetryDue, CommittedApplied, Idle, TypeOK, consumerVars,
     historyVars
<1>8. ASSUME NEW w \in Workers, NEW e \in Events, Take(w, e)
      PROVE  CommittedApplied'
  BY <1>8, EventsAreNat DEF Take, CommittedApplied, Idle, TypeOK, relayVars, historyVars
<1>9. ASSUME NEW w \in Workers, NEW e \in Events, ClaimRaises(w, e)
      PROVE  CommittedApplied'
  BY <1>9, EventsAreNat DEF ClaimRaises, CommittedApplied, Idle, TypeOK, relayVars
<1>10. ASSUME NEW w \in Workers, CommitEffect(w)
      PROVE  CommittedApplied'
  <2>1. PICK e \in Events : worker[w] = [event |-> e, step |-> "claimed"]
    BY <1>10, WorkerForm DEF CommitEffect, Idle
  <2>2. worker' = [worker EXCEPT ![w] = [event |-> e, step |-> "committed"]]
    <3>1. [worker[w] EXCEPT !.step = "committed"] = [event |-> e, step |-> "committed"]
      BY <2>1
    <3> QED BY <1>10, <3>1 DEF CommitEffect
  <2> QED BY <1>10, <2>1, <2>2, EventsAreNat DEF CommitEffect, CommittedApplied, Idle,
          TypeOK, relayVars, historyVars
<1>11. ASSUME NEW w \in Workers, HandlerRaises(w)
      PROVE  CommittedApplied'
  <2>1. PICK e \in Events : worker[w] = [event |-> e, step |-> "claimed"]
    BY <1>11, WorkerForm DEF HandlerRaises, Idle
  <2> QED BY <1>11, <2>1, EventsAreNat DEF HandlerRaises, Nack, CommittedApplied, Idle,
          TypeOK, relayVars
<1>12. ASSUME NEW w \in Workers, MarkProcessed(w)
      PROVE  CommittedApplied'
  <2>1. PICK e \in Events : worker[w] = [event |-> e, step |-> "committed"]
    BY <1>12, WorkerForm DEF MarkProcessed, Idle
  <2> QED BY <1>12, <2>1, EventsAreNat DEF MarkProcessed, CommittedApplied, Idle, TypeOK,
          relayVars, historyVars
<1>13. ASSUME NEW w \in Workers, MarkFails(w)
      PROVE  CommittedApplied'
  <2>1. PICK e \in Events : worker[w] = [event |-> e, step |-> "committed"]
    BY <1>13, WorkerForm DEF MarkFails, Idle
  <2> QED BY <1>13, <2>1, EventsAreNat DEF MarkFails, Nack, CommittedApplied, Idle,
          TypeOK, relayVars
<1>14. CASE ConsumerCrash
  BY <1>14, EventsAreNat DEF ConsumerCrash, CommittedApplied, Idle, TypeOK, relayVars
<1>15. ASSUME NEW e \in Events, ClaimExpires(e)
      PROVE  CommittedApplied'
  BY <1>15, EventsAreNat DEF ClaimExpires, CommittedApplied, Idle, TypeOK, relayVars
<1>16. CASE UNCHANGED vars
  BY <1>16, EventsAreNat DEF vars, CommittedApplied, Idle, TypeOK, relayVars,
     consumerVars, historyVars
<1> QED BY <1>1, <1>2, <1>3, <1>4, <1>5, <1>6, <1>7, <1>8, <1>9, <1>10, <1>11, <1>12,
         <1>13, <1>14, <1>15, <1>16 DEF Next, Relay, Consume

\* An event that was applied is not claimed again before its key is lost.
LEMMA OnceStep ==
  ASSUME TypeOK, ExclusiveHandling, AppliedOnce, [Next]_vars
  PROVE  AppliedOnce'
<1>1. ASSUME NEW e \in Events, Write(e)
      PROVE  AppliedOnce'
  BY <1>1, EventsAreNat DEF Write, AppliedOnce, ExclusiveHandling, Held, Idle, TypeOK,
     consumerVars, historyVars
<1>2. CASE StartBatch
  BY <1>2, EventsAreNat DEF StartBatch, Pending, BatchOpen, AppliedOnce,
     ExclusiveHandling, Held, Idle, TypeOK, consumerVars, historyVars
<1>3. CASE PublishNext
  <2>1. PICK e \in batch :
           /\ batch' = batch \ {e} /\ sent' = sent \cup {e}
           /\ queue' = [queue EXCEPT ![e] = @ + 1]
    BY <1>3 DEF PublishNext, Oldest
  <2> QED BY <1>3, <2>1, EventsAreNat DEF PublishNext, AppliedOnce, ExclusiveHandling,
          Held, Idle, TypeOK, consumerVars, historyVars
<1>4. CASE PublishFails
  <2>1. PICK e \in batch :
           /\ attempts' = [attempts EXCEPT ![e] = @ + 1]
           /\ batch' = batch \ {e} /\ failed' = failed \cup {e}
           /\ queue' \in {queue, [queue EXCEPT ![e] = @ + 1]}
    BY <1>4 DEF PublishFails, Oldest
  <2> QED BY <1>4, <2>1, EventsAreNat DEF PublishFails, AppliedOnce, ExclusiveHandling,
          Held, Idle, TypeOK, consumerVars
<1>5. CASE CommitBatch
  BY <1>5, EventsAreNat DEF CommitBatch, AppliedOnce, ExclusiveHandling, Held, Idle,
     TypeOK, consumerVars, historyVars
<1>6. CASE RelayCrash
  BY <1>6, EventsAreNat DEF RelayCrash, AppliedOnce, ExclusiveHandling, Held, Idle,
     TypeOK, consumerVars
<1>7. ASSUME NEW e \in Events, RetryDue(e)
      PROVE  AppliedOnce'
  BY <1>7, EventsAreNat DEF RetryDue, AppliedOnce, ExclusiveHandling, Held, Idle, TypeOK,
     consumerVars, historyVars
<1>8. ASSUME NEW w \in Workers, NEW e \in Events, Take(w, e)
      PROVE  AppliedOnce'
  BY <1>8, EventsAreNat DEF Take, AppliedOnce, ExclusiveHandling, Held, Idle, TypeOK,
     relayVars, historyVars
<1>9. ASSUME NEW w \in Workers, NEW e \in Events, ClaimRaises(w, e)
      PROVE  AppliedOnce'
  BY <1>9, EventsAreNat DEF ClaimRaises, AppliedOnce, ExclusiveHandling, Held, Idle,
     TypeOK, relayVars
<1>10. ASSUME NEW w \in Workers, CommitEffect(w)
      PROVE  AppliedOnce'
  <2>1. PICK e \in Events : worker[w] = [event |-> e, step |-> "claimed"]
    BY <1>10, WorkerForm DEF CommitEffect, Idle
  <2>2. worker' = [worker EXCEPT ![w] = [event |-> e, step |-> "committed"]]
    <3>1. [worker[w] EXCEPT !.step = "committed"] = [event |-> e, step |-> "committed"]
      BY <2>1
    <3> QED BY <1>10, <3>1 DEF CommitEffect
  <2> QED BY <1>10, <2>1, <2>2, EventsAreNat DEF CommitEffect, AppliedOnce,
          ExclusiveHandling, Held, Idle, TypeOK, relayVars, historyVars
<1>11. ASSUME NEW w \in Workers, HandlerRaises(w)
      PROVE  AppliedOnce'
  <2>1. PICK e \in Events : worker[w] = [event |-> e, step |-> "claimed"]
    BY <1>11, WorkerForm DEF HandlerRaises, Idle
  <2> QED BY <1>11, <2>1, EventsAreNat DEF HandlerRaises, Nack, AppliedOnce,
          ExclusiveHandling, Held, Idle, TypeOK, relayVars
<1>12. ASSUME NEW w \in Workers, MarkProcessed(w)
      PROVE  AppliedOnce'
  <2>1. PICK e \in Events : worker[w] = [event |-> e, step |-> "committed"]
    BY <1>12, WorkerForm DEF MarkProcessed, Idle
  <2> QED BY <1>12, <2>1, EventsAreNat DEF MarkProcessed, AppliedOnce, ExclusiveHandling,
          Held, Idle, TypeOK, relayVars, historyVars
<1>13. ASSUME NEW w \in Workers, MarkFails(w)
      PROVE  AppliedOnce'
  <2>1. PICK e \in Events : worker[w] = [event |-> e, step |-> "committed"]
    BY <1>13, WorkerForm DEF MarkFails, Idle
  <2> QED BY <1>13, <2>1, EventsAreNat DEF MarkFails, Nack, AppliedOnce,
          ExclusiveHandling, Held, Idle, TypeOK, relayVars
<1>14. CASE ConsumerCrash
  BY <1>14, EventsAreNat DEF ConsumerCrash, AppliedOnce, ExclusiveHandling, Held, Idle,
     TypeOK, relayVars
<1>15. ASSUME NEW e \in Events, ClaimExpires(e)
      PROVE  AppliedOnce'
  BY <1>15, EventsAreNat DEF ClaimExpires, AppliedOnce, ExclusiveHandling, Held, Idle,
     TypeOK, relayVars
<1>16. CASE UNCHANGED vars
  BY <1>16, EventsAreNat DEF vars, AppliedOnce, ExclusiveHandling, Held, Idle, TypeOK,
     relayVars, consumerVars, historyVars
<1> QED BY <1>1, <1>2, <1>3, <1>4, <1>5, <1>6, <1>7, <1>8, <1>9, <1>10, <1>11, <1>12,
         <1>13, <1>14, <1>15, <1>16 DEF Next, Relay, Consume

\* A handler gives up its key, its effect, or its event.
LEMMA ExplainedStep ==
  ASSUME TypeOK, CommittedApplied, ClaimExplained, [Next]_vars
  PROVE  ClaimExplained'
<1>1. ASSUME NEW e \in Events, Write(e)
      PROVE  ClaimExplained'
  BY <1>1, EventsAreNat DEF Write, ClaimExplained, CommittedApplied, Held, Idle, TypeOK,
     consumerVars, historyVars
<1>2. CASE StartBatch
  BY <1>2, EventsAreNat DEF StartBatch, Pending, BatchOpen, ClaimExplained,
     CommittedApplied, Held, Idle, TypeOK, consumerVars, historyVars
<1>3. CASE PublishNext
  <2>1. PICK e \in batch :
           /\ batch' = batch \ {e} /\ sent' = sent \cup {e}
           /\ queue' = [queue EXCEPT ![e] = @ + 1]
    BY <1>3 DEF PublishNext, Oldest
  <2> QED BY <1>3, <2>1, EventsAreNat DEF PublishNext, ClaimExplained, CommittedApplied,
          Held, Idle, TypeOK, consumerVars, historyVars
<1>4. CASE PublishFails
  <2>1. PICK e \in batch :
           /\ attempts' = [attempts EXCEPT ![e] = @ + 1]
           /\ batch' = batch \ {e} /\ failed' = failed \cup {e}
           /\ queue' \in {queue, [queue EXCEPT ![e] = @ + 1]}
    BY <1>4 DEF PublishFails, Oldest
  <2> QED BY <1>4, <2>1, EventsAreNat DEF PublishFails, ClaimExplained, CommittedApplied,
          Held, Idle, TypeOK, consumerVars
<1>5. CASE CommitBatch
  BY <1>5, EventsAreNat DEF CommitBatch, ClaimExplained, CommittedApplied, Held, Idle,
     TypeOK, consumerVars, historyVars
<1>6. CASE RelayCrash
  BY <1>6, EventsAreNat DEF RelayCrash, ClaimExplained, CommittedApplied, Held, Idle,
     TypeOK, consumerVars
<1>7. ASSUME NEW e \in Events, RetryDue(e)
      PROVE  ClaimExplained'
  BY <1>7, EventsAreNat DEF RetryDue, ClaimExplained, CommittedApplied, Held, Idle,
     TypeOK, consumerVars, historyVars
<1>8. ASSUME NEW w \in Workers, NEW e \in Events, Take(w, e)
      PROVE  ClaimExplained'
  BY <1>8, EventsAreNat DEF Take, ClaimExplained, CommittedApplied, Held, Idle, TypeOK,
     relayVars, historyVars
<1>9. ASSUME NEW w \in Workers, NEW e \in Events, ClaimRaises(w, e)
      PROVE  ClaimExplained'
  BY <1>9, EventsAreNat DEF ClaimRaises, ClaimExplained, CommittedApplied, Held, Idle,
     TypeOK, relayVars
<1>10. ASSUME NEW w \in Workers, CommitEffect(w)
      PROVE  ClaimExplained'
  <2>1. PICK e \in Events : worker[w] = [event |-> e, step |-> "claimed"]
    BY <1>10, WorkerForm DEF CommitEffect, Idle
  <2>2. worker' = [worker EXCEPT ![w] = [event |-> e, step |-> "committed"]]
    <3>1. [worker[w] EXCEPT !.step = "committed"] = [event |-> e, step |-> "committed"]
      BY <2>1
    <3> QED BY <1>10, <3>1 DEF CommitEffect
  <2> QED BY <1>10, <2>1, <2>2, EventsAreNat DEF CommitEffect, ClaimExplained,
          CommittedApplied, Held, Idle, TypeOK, relayVars, historyVars
<1>11. ASSUME NEW w \in Workers, HandlerRaises(w)
      PROVE  ClaimExplained'
  <2>1. PICK e \in Events : worker[w] = [event |-> e, step |-> "claimed"]
    BY <1>11, WorkerForm DEF HandlerRaises, Idle
  <2> QED BY <1>11, <2>1, EventsAreNat DEF HandlerRaises, Nack, ClaimExplained,
          CommittedApplied, Held, Idle, TypeOK, relayVars
<1>12. ASSUME NEW w \in Workers, MarkProcessed(w)
      PROVE  ClaimExplained'
  <2>1. PICK e \in Events : worker[w] = [event |-> e, step |-> "committed"]
    BY <1>12, WorkerForm DEF MarkProcessed, Idle
  <2> QED BY <1>12, <2>1, EventsAreNat DEF MarkProcessed, ClaimExplained,
          CommittedApplied, Held, Idle, TypeOK, relayVars, historyVars
<1>13. ASSUME NEW w \in Workers, MarkFails(w)
      PROVE  ClaimExplained'
  <2>1. PICK e \in Events : worker[w] = [event |-> e, step |-> "committed"]
    BY <1>13, WorkerForm DEF MarkFails, Idle
  <2> QED BY <1>13, <2>1, EventsAreNat DEF MarkFails, Nack, ClaimExplained,
          CommittedApplied, Held, Idle, TypeOK, relayVars
<1>14. CASE ConsumerCrash
  BY <1>14, EventsAreNat DEF ConsumerCrash, ClaimExplained, CommittedApplied, Held, Idle,
     TypeOK, relayVars
<1>15. ASSUME NEW e \in Events, ClaimExpires(e)
      PROVE  ClaimExplained'
  BY <1>15, EventsAreNat DEF ClaimExpires, ClaimExplained, CommittedApplied, Held, Idle,
     TypeOK, relayVars
<1>16. CASE UNCHANGED vars
  BY <1>16, EventsAreNat DEF vars, ClaimExplained, CommittedApplied, Held, Idle, TypeOK,
     relayVars, consumerVars, historyVars
<1> QED BY <1>1, <1>2, <1>3, <1>4, <1>5, <1>6, <1>7, <1>8, <1>9, <1>10, <1>11, <1>12,
         <1>13, <1>14, <1>15, <1>16 DEF Next, Relay, Consume

\* An event that has reached the broker leaves a trace for ever.
LEMMA ReachedStays ==
  ASSUME TypeOK, CommittedApplied, ClaimExplained, [Next]_vars
  PROVE  (\A f \in Events : Reached(f) => Reached(f)')
<1>1. ASSUME NEW e \in Events, Write(e)
      PROVE  (\A f \in Events : Reached(f) => Reached(f)')
  BY <1>1, EventsAreNat DEF Write, Reached, ClaimExplained, CommittedApplied, Held, Idle,
     TypeOK, consumerVars, historyVars
<1>2. CASE StartBatch
  BY <1>2, EventsAreNat DEF StartBatch, Pending, BatchOpen, Reached, ClaimExplained,
     CommittedApplied, Held, Idle, TypeOK, consumerVars, historyVars
<1>3. CASE PublishNext
  <2>1. PICK e \in batch :
           /\ batch' = batch \ {e} /\ sent' = sent \cup {e}
           /\ queue' = [queue EXCEPT ![e] = @ + 1]
    BY <1>3 DEF PublishNext, Oldest
  <2>2. \A f \in Events : queue[f] > 0 => queue'[f] > 0
    BY <2>1 DEF TypeOK
  <2> QED BY <1>3, <2>2 DEF PublishNext, Reached, Held, consumerVars, historyVars
<1>4. CASE PublishFails
  <2>1. PICK e \in batch :
           /\ attempts' = [attempts EXCEPT ![e] = @ + 1]
           /\ batch' = batch \ {e} /\ failed' = failed \cup {e}
           /\ queue' \in {queue, [queue EXCEPT ![e] = @ + 1]}
    BY <1>4 DEF PublishFails, Oldest
  <2>2. \A f \in Events : queue[f] > 0 => queue'[f] > 0
    BY <2>1 DEF TypeOK
  <2> QED BY <1>4, <2>2 DEF PublishFails, Reached, Held, consumerVars, historyVars
<1>5. CASE CommitBatch
  BY <1>5, EventsAreNat DEF CommitBatch, Reached, ClaimExplained, CommittedApplied, Held,
     Idle, TypeOK, consumerVars, historyVars
<1>6. CASE RelayCrash
  BY <1>6, EventsAreNat DEF RelayCrash, Reached, ClaimExplained, CommittedApplied, Held,
     Idle, TypeOK, consumerVars
<1>7. ASSUME NEW e \in Events, RetryDue(e)
      PROVE  (\A f \in Events : Reached(f) => Reached(f)')
  BY <1>7, EventsAreNat DEF RetryDue, Reached, ClaimExplained, CommittedApplied, Held,
     Idle, TypeOK, consumerVars, historyVars
<1>8. ASSUME NEW w \in Workers, NEW e \in Events, Take(w, e)
      PROVE  (\A f \in Events : Reached(f) => Reached(f)')
  BY <1>8, EventsAreNat DEF Take, Reached, ClaimExplained, CommittedApplied, Held, Idle,
     TypeOK, relayVars, historyVars
<1>9. ASSUME NEW w \in Workers, NEW e \in Events, ClaimRaises(w, e)
      PROVE  (\A f \in Events : Reached(f) => Reached(f)')
  BY <1>9, EventsAreNat DEF ClaimRaises, Reached, ClaimExplained, CommittedApplied, Held,
     Idle, TypeOK, relayVars
<1>10. ASSUME NEW w \in Workers, CommitEffect(w)
      PROVE  (\A f \in Events : Reached(f) => Reached(f)')
  <2>1. PICK e \in Events : worker[w] = [event |-> e, step |-> "claimed"]
    BY <1>10, WorkerForm DEF CommitEffect, Idle
  <2>2. worker' = [worker EXCEPT ![w] = [event |-> e, step |-> "committed"]]
    <3>1. [worker[w] EXCEPT !.step = "committed"] = [event |-> e, step |-> "committed"]
      BY <2>1
    <3> QED BY <1>10, <3>1 DEF CommitEffect
  <2> QED BY <1>10, <2>1, <2>2, EventsAreNat DEF CommitEffect, Reached, ClaimExplained,
          CommittedApplied, Held, Idle, TypeOK, relayVars, historyVars
<1>11. ASSUME NEW w \in Workers, HandlerRaises(w)
      PROVE  (\A f \in Events : Reached(f) => Reached(f)')
  <2>1. PICK e \in Events : worker[w] = [event |-> e, step |-> "claimed"]
    BY <1>11, WorkerForm DEF HandlerRaises, Idle
  <2> QED BY <1>11, <2>1, EventsAreNat DEF HandlerRaises, Nack, Reached, ClaimExplained,
          CommittedApplied, Held, Idle, TypeOK, relayVars
<1>12. ASSUME NEW w \in Workers, MarkProcessed(w)
      PROVE  (\A f \in Events : Reached(f) => Reached(f)')
  <2>1. PICK e \in Events : worker[w] = [event |-> e, step |-> "committed"]
    BY <1>12, WorkerForm DEF MarkProcessed, Idle
  <2> QED BY <1>12, <2>1, EventsAreNat DEF MarkProcessed, Reached, ClaimExplained,
          CommittedApplied, Held, Idle, TypeOK, relayVars, historyVars
<1>13. ASSUME NEW w \in Workers, MarkFails(w)
      PROVE  (\A f \in Events : Reached(f) => Reached(f)')
  <2>1. PICK e \in Events : worker[w] = [event |-> e, step |-> "committed"]
    BY <1>13, WorkerForm DEF MarkFails, Idle
  <2> QED BY <1>13, <2>1, EventsAreNat DEF MarkFails, Nack, Reached, ClaimExplained,
          CommittedApplied, Held, Idle, TypeOK, relayVars
<1>14. CASE ConsumerCrash
  <2>1. \A e \in Events : Cardinality({w \in Workers : worker[w].event = e}) \in Nat
    BY DeliveryAssumption, FS_Subset, FS_CardinalityType DEF DeliveryAssumption
  <2>2. \A f \in Events : queue[f] > 0 => queue'[f] > 0
    BY <1>14, <2>1 DEF ConsumerCrash, TypeOK
  <2>3. \A f \in Events : Held(f) => f \in abandoned' \/ applied[f] > 0
    <3> SUFFICES ASSUME NEW f \in Events, NEW w \in Workers, worker[w].event = f
                 PROVE  f \in abandoned' \/ applied[f] > 0
      BY DEF Held
    <3>1. CASE worker[w].step = "committed"
      BY <3>1 DEF CommittedApplied
    <3>2. CASE worker[w].step # "committed"
      BY <1>14, <3>2, WorkerForm, EventsAreNat DEF ConsumerCrash
    <3> QED BY <3>1, <3>2
  <2> QED BY <1>14, <2>2, <2>3 DEF ConsumerCrash, Reached
<1>15. ASSUME NEW e \in Events, ClaimExpires(e)
      PROVE  (\A f \in Events : Reached(f) => Reached(f)')
  BY <1>15, EventsAreNat DEF ClaimExpires, Reached, ClaimExplained, CommittedApplied,
     Held, Idle, TypeOK, relayVars
<1>16. CASE UNCHANGED vars
  BY <1>16, EventsAreNat DEF vars, Reached, ClaimExplained, CommittedApplied, Held, Idle,
     TypeOK, relayVars, consumerVars, historyVars
<1> QED BY <1>1, <1>2, <1>3, <1>4, <1>5, <1>6, <1>7, <1>8, <1>9, <1>10, <1>11, <1>12,
         <1>13, <1>14, <1>15, <1>16 DEF Next, Relay, Consume

\* A row is marked only once its message is with the broker.
LEMMA PublishedStep ==
  ASSUME TypeOK, RowsOK, CommittedApplied, ClaimExplained, Published, [Next]_vars
  PROVE  Published'
<1>1. CASE PublishNext
  <2>1. PICK e \in batch :
           /\ sent' = sent \cup {e} /\ row' = row
           /\ queue' = [queue EXCEPT ![e] = @ + 1]
    BY <1>1 DEF PublishNext, Oldest
  <2>2. Reached(e)'
    BY <2>1 DEF TypeOK, Reached
  <2> QED BY <2>1, <2>2, ReachedStays DEF Published
<1>2. CASE CommitBatch
  BY <1>2, ReachedStays DEF CommitBatch, Published
<1>3. \/ PublishNext \/ CommitBatch
      \/ /\ sent' \subseteq sent
         /\ \A e \in Events : row'[e] = "processed" => row[e] = "processed"
  BY DEF Next, Relay, Consume, vars, relayVars, Write, StartBatch, PublishFails, RelayCrash,
     RetryDue, Take, ClaimRaises, CommitEffect, HandlerRaises, MarkProcessed, MarkFails,
     ConsumerCrash, ClaimExpires, TypeOK
<1> QED BY <1>1, <1>2, <1>3, ReachedStays DEF Published

\* Nothing has happened yet.
LEMMA Start == Init => IInv
<1> SUFFICES ASSUME Init
             PROVE  IInv
  OBVIOUS
<1>1. TypeOK
  BY DeliveryAssumption DEF Init, TypeOK, DeliveryAssumption
<1>2. RowsOK /\ Published /\ ClaimExplained
  BY DEF Init, RowsOK, Published, ClaimExplained
<1>3. CommittedApplied /\ ExclusiveHandling /\ AppliedOnce
  BY DEF Init, CommittedApplied, ExclusiveHandling, AppliedOnce, Idle
<1> QED BY <1>1, <1>2, <1>3 DEF IInv

-----------------------------------------------------------------------------
(* Theorems.                                                                *)

\* The inductive invariant holds in every reachable state.
THEOREM Inductive == Spec => []IInv
<1>1. ASSUME IInv, [Next]_vars
      PROVE  IInv'
  <2>1. TypeOK' /\ RowsOK' /\ Published'
    BY <1>1, TypeStep, RowsStep, PublishedStep DEF IInv
  <2>2. ClaimExplained' /\ CommittedApplied'
    BY <1>1, ExplainedStep, CommittedStep DEF IInv
  <2>3. ExclusiveHandling' /\ AppliedOnce'
    BY <1>1, ExclusiveStep, OnceStep DEF IInv
  <2> QED BY <2>1, <2>2, <2>3 DEF IInv
<1> QED BY Start, <1>1, PTL DEF Spec

\* Relay, queue and consumer keep their state in its types.
THEOREM TypeCorrect == Spec => []TypeOK
<1>1. IInv => TypeOK
  BY DEF IInv
<1> QED BY <1>1, Inductive, PTL

\* SET NX keeps two tasks off one event, whatever crashes or is redelivered,
\* unless a task that could not claim it deleted the owner's key.
THEOREM Exclusive == Spec => []ExclusiveHandling
<1>1. IInv => ExclusiveHandling
  BY DEF IInv
<1> QED BY <1>1, Inductive, PTL

\* An event republished and redelivered at will takes effect at most once while
\* its key lives and is its owner's.
THEOREM AtMostOnce == Spec => []AppliedAtMostOnce
<1>1. IInv => AppliedAtMostOnce
  BY DEF IInv, TypeOK, AppliedOnce, AppliedAtMostOnce
<1> QED BY <1>1, Inductive, PTL

\* An event with nothing left to deliver was applied, dead-lettered, or claimed
\* by a handler that left its key behind.
THEOREM LostOnly == Spec => []LostOnlyIfAbandoned
<1>1. IInv => LostOnlyIfAbandoned
  BY DEF IInv, TypeOK, Published, Reached, Settled, LostOnlyIfAbandoned
<1> QED BY <1>1, Inductive, PTL

-----------------------------------------------------------------------------
(* The refinement.                                                          *)

Phase == [e \in Events |-> PhaseOf(e)]

\* The phase of an event is told by three facts about it.
LEMMA PhaseForm ==
  ASSUME NEW e \in Events
  PROVE  PhaseOf(e) = IF applied[e] > 0 THEN "applied"
                      ELSE IF Reached(e) THEN "published"
                      ELSE IF row[e] # "absent" THEN "written" ELSE "absent"
BY DEF PhaseOf, Reached

\* Handling, failing, crashing and expiring move no event on its way.
LEMMA QuietStep ==
  ASSUME IInv, [Next]_vars,
         ~ \E e \in Events : Write(e),
         ~PublishNext, ~PublishFails,
         ~ \E w \in Workers : CommitEffect(w),
         NEW e \in Events
  PROVE  /\ applied'[e] = applied[e]
         /\ row'[e] = "absent" <=> row[e] = "absent"
         /\ Reached(e)' => Reached(e)
<1> USE DEF IInv
<1>1. CASE StartBatch
  BY <1>1 DEF StartBatch, Reached, Held, consumerVars, historyVars
<1>2. CASE CommitBatch
  BY <1>2 DEF CommitBatch, TypeOK, RowsOK, Reached, Held, consumerVars, historyVars
<1>3. CASE RelayCrash
  BY <1>3 DEF RelayCrash, Reached, Held, consumerVars
<1>4. ASSUME NEW f \in Events, RetryDue(f)
      PROVE  /\ applied'[e] = applied[e]
             /\ row'[e] = "absent" <=> row[e] = "absent"
             /\ Reached(e)' => Reached(e)
  BY <1>4 DEF RetryDue, TypeOK, Reached, Held, consumerVars, historyVars
<1>5. ASSUME NEW w \in Workers, NEW f \in Events, Take(w, f)
      PROVE  /\ applied'[e] = applied[e]
             /\ row'[e] = "absent" <=> row[e] = "absent"
             /\ Reached(e)' => Reached(e)
  BY <1>5 DEF Take, TypeOK, Reached, Held, Idle, relayVars, historyVars
<1>6. ASSUME NEW w \in Workers, NEW f \in Events, ClaimRaises(w, f)
      PROVE  /\ applied'[e] = applied[e]
             /\ row'[e] = "absent" <=> row[e] = "absent"
             /\ Reached(e)' => Reached(e)
  BY <1>6 DEF ClaimRaises, TypeOK, Reached, Held, relayVars
<1>7. ASSUME NEW w \in Workers, HandlerRaises(w)
      PROVE  /\ applied'[e] = applied[e]
             /\ row'[e] = "absent" <=> row[e] = "absent"
             /\ Reached(e)' => Reached(e)
  BY <1>7, WorkerForm, EventsAreNat DEF HandlerRaises, Nack, TypeOK, Reached, Held, Idle, relayVars
<1>8. ASSUME NEW w \in Workers, MarkProcessed(w)
      PROVE  /\ applied'[e] = applied[e]
             /\ row'[e] = "absent" <=> row[e] = "absent"
             /\ Reached(e)' => Reached(e)
  BY <1>8, EventsAreNat DEF MarkProcessed, TypeOK, Reached, Held, Idle, relayVars, historyVars
<1>9. ASSUME NEW w \in Workers, MarkFails(w)
      PROVE  /\ applied'[e] = applied[e]
             /\ row'[e] = "absent" <=> row[e] = "absent"
             /\ Reached(e)' => Reached(e)
  BY <1>9, WorkerForm, EventsAreNat DEF MarkFails, Nack, TypeOK, Reached, Held, Idle, relayVars
<1>10. CASE ConsumerCrash
  <2>1. queue'[e] > 0 => queue[e] > 0 \/ Held(e)
    <3> SUFFICES ASSUME ~Held(e)
                 PROVE  queue'[e] = queue[e]
      BY DEF TypeOK
    <3>1. {w \in Workers : worker[w].event = e} = {}
      BY DEF Held
    <3>2. Cardinality({w \in Workers : worker[w].event = e}) = 0
      BY <3>1, FS_EmptySet
    <3> QED BY <1>10, <3>2 DEF ConsumerCrash, TypeOK
  <2>2. ~Held(e)'
    BY <1>10, EventsAreNat DEF ConsumerCrash, Held, Idle
  <2>3. e \in abandoned' => e \in abandoned \/ Held(e)
    BY <1>10 DEF ConsumerCrash, Held
  <2> QED BY <1>10, <2>1, <2>2, <2>3 DEF ConsumerCrash, Reached, relayVars
<1>11. ASSUME NEW f \in Events, ClaimExpires(f)
       PROVE  /\ applied'[e] = applied[e]
              /\ row'[e] = "absent" <=> row[e] = "absent"
              /\ Reached(e)' => Reached(e)
  BY <1>11 DEF ClaimExpires, Reached, Held, relayVars
<1>12. CASE UNCHANGED vars
  BY <1>12 DEF vars, Reached, Held, relayVars, consumerVars, historyVars
<1> QED BY <1>1, <1>2, <1>3, <1>4, <1>5, <1>6, <1>7, <1>8, <1>9, <1>10, <1>11, <1>12
        DEF Next, Relay, Consume

\* Every step moves at most one event, and that by one phase.
LEMMA PhaseStep ==
  ASSUME IInv, [Next]_vars
  PROVE  [Channel!Next]_Phase
<1> USE DEF IInv
<1>1. \A e \in Events : Reached(e) => Reached(e)'
  BY ReachedStays
<1>2. ASSUME NEW e \in Events, PhaseOf(e) = "absent", PhaseOf(e)' = "written",
             \A f \in Events \ {e} : PhaseOf(f)' = PhaseOf(f)
      PROVE  Channel!Next
  <2>1. Phase' = [Phase EXCEPT ![e] = "written"]
    BY <1>2 DEF Phase
  <2> QED BY <1>2, <2>1 DEF Phase, Channel!Next, Channel!Write, Channel!Move
<1>3. ASSUME NEW e \in Events, PhaseOf(e) = "written", PhaseOf(e)' = "published",
             \A f \in Events \ {e} : PhaseOf(f)' = PhaseOf(f)
      PROVE  Channel!Next
  <2>1. Phase' = [Phase EXCEPT ![e] = "published"]
    BY <1>3 DEF Phase
  <2> QED BY <1>3, <2>1 DEF Phase, Channel!Next, Channel!Publish, Channel!Move
<1>4. ASSUME NEW e \in Events, PhaseOf(e) = "published", PhaseOf(e)' = "applied",
             \A f \in Events \ {e} : PhaseOf(f)' = PhaseOf(f)
      PROVE  Channel!Next
  <2>1. Phase' = [Phase EXCEPT ![e] = "applied"]
    BY <1>4 DEF Phase
  <2> QED BY <1>4, <2>1 DEF Phase, Channel!Next, Channel!Apply, Channel!Move
<1>5. ASSUME \A f \in Events : PhaseOf(f)' = PhaseOf(f)
      PROVE  UNCHANGED Phase
  BY <1>5 DEF Phase
<1>6. ASSUME NEW e \in Events, Write(e)
      PROVE  [Channel!Next]_Phase
  <2>1. \A f \in Events : /\ applied'[f] = applied[f] /\ Reached(f)' = Reached(f)
                          /\ f # e => row'[f] = row[f]
    BY <1>6 DEF Write, TypeOK, Reached, Held, consumerVars, historyVars
  <2>2. \A f \in Events \ {e} : PhaseOf(f)' = PhaseOf(f)
    BY <2>1 DEF PhaseOf, Reached
  <2>3. row[e] = "absent" /\ row'[e] = "pending"
    BY <1>6 DEF Write, TypeOK
  <2> QED BY <1>2, <1>5, <2>1, <2>2, <2>3 DEF PhaseOf, Reached
<1>7. ASSUME NEW e \in batch, row' = row, applied' = applied,
             queue' \in {queue, [queue EXCEPT ![e] = @ + 1]},
             UNCHANGED <<worker, dead, abandoned>>
      PROVE  [Channel!Next]_Phase
  <2>1. e \in Events /\ row[e] = "pending"
    BY DEF TypeOK, RowsOK
  <2>2. \A f \in Events \ {e} : PhaseOf(f)' = PhaseOf(f)
    BY <1>7 DEF PhaseOf, Held, TypeOK
  <2>3. \/ PhaseOf(e)' = PhaseOf(e)
        \/ PhaseOf(e) = "written" /\ PhaseOf(e)' = "published"
    BY <1>7, <2>1 DEF PhaseOf, Held, TypeOK
  <2> QED BY <1>3, <1>5, <2>1, <2>2, <2>3
<1>8. CASE PublishNext
  BY <1>7, <1>8 DEF PublishNext, Oldest, consumerVars, historyVars
<1>9. CASE PublishFails
  BY <1>7, <1>9 DEF PublishFails, Oldest, consumerVars
<1>10. ASSUME NEW w \in Workers, CommitEffect(w)
       PROVE  [Channel!Next]_Phase
  <2>1. PICK e \in Events : worker[w] = [event |-> e, step |-> "claimed"]
    BY <1>10, WorkerForm DEF CommitEffect, Idle
  <2>2. applied' = [applied EXCEPT ![e] = @ + 1] /\ UNCHANGED <<row, queue, dead, abandoned>>
    BY <1>10, <2>1 DEF CommitEffect, relayVars, historyVars
  <2>3. worker' = [worker EXCEPT ![w].step = "committed"]
    BY <1>10 DEF CommitEffect
  <2>4. \A v \in Workers : worker'[v].event = worker[v].event
    BY <2>1, <2>3 DEF TypeOK
  <2>5. \A f \in Events \ {e} : PhaseOf(f)' = PhaseOf(f)
    BY <2>2, <2>4 DEF PhaseOf, Held, TypeOK
  <2>6. PhaseOf(e)' = "applied" /\ PhaseOf(e) \in {"published", "applied"}
    BY <2>1, <2>2 DEF PhaseOf, Held, TypeOK
  <2> QED BY <1>4, <1>5, <2>5, <2>6
<1>11. ASSUME ~ \E e \in Events : Write(e),
              ~PublishNext, ~PublishFails,
              ~ \E w \in Workers : CommitEffect(w)
       PROVE  UNCHANGED Phase
  <2>1. ASSUME NEW e \in Events
        PROVE  PhaseOf(e)' = PhaseOf(e)
    <3>1. /\ applied'[e] = applied[e]
          /\ row'[e] = "absent" <=> row[e] = "absent"
          /\ Reached(e)' <=> Reached(e)
      BY <1>1, <1>11, QuietStep
    <3> QED BY <3>1 DEF PhaseOf, Reached
  <2> QED BY <2>1, <1>5
<1> QED BY <1>6, <1>8, <1>9, <1>10, <1>11

\* The outbox, its relay, the queue and the claims implement the channel: an
\* event is written, then reaches the broker, then takes effect, and no crash,
\* retry or redelivery takes it a step back.
THEOREM Refinement == Spec => ImplementsChannel
<1>1. Init => Phase = [e \in Events |-> "absent"]
  BY EventsAreNat DEF Init, Phase, PhaseOf, Held, Idle
<1>2. Init => Channel!Init
  BY <1>1 DEF Channel!Init, Phase
<1>3. ASSUME IInv, [Next]_vars
      PROVE  [Channel!Next]_[e \in Events |-> PhaseOf(e)]
  BY <1>3, PhaseStep DEF Phase
<1> QED BY <1>2, <1>3, Inductive, PTL DEF Spec, ImplementsChannel, Channel!Spec

=============================================================================
