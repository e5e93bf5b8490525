--------------------------- MODULE EventDelivery ---------------------------
(***************************************************************************)
(* The path of an event between two services: the producer's outbox table, *)
(* its relay process, one consumer's RabbitMQ queue and the consumer       *)
(* process with its Redis claims.  Every pair of services of the system is *)
(* joined by this code (shared/outbox, shared/idempotency, and the handler *)
(* shape that every events_consumer repeats).                              *)
(*                                                                         *)
(* An event is the rank of its outbox row in date_created order.           *)
(***************************************************************************)
EXTENDS Naturals, FiniteSets

CONSTANTS
  NumEvents,    \* outbox rows
  Workers,      \* messages the consumer process handles concurrently
  BatchSize,    \* rows one relay transaction locks (50)
  MaxApplied,   \* bound: transactions a consumer commits for one event
  MaxFaults     \* bound: crashes, failed publications and failed claims, together

ASSUME DeliveryAssumption ==
  /\ NumEvents \in Nat \ {0}
  /\ IsFiniteSet(Workers)
  /\ BatchSize \in Nat \ {0}
  /\ MaxApplied \in Nat \ {0}
  /\ MaxFaults \in Nat

Events == 1..NumEvents
NoEvent == 0

VARIABLES
  row,        \* outbox row: "absent", "pending", "backoff" (next_retry_at ahead), "processed"
  attempts,   \* outbox_events.attempts
  batch,      \* relay: locked rows it has still to publish
  sent,       \* relay: rows marked processed in its open transaction
  failed,     \* relay: rows marked for a retry in its open transaction
  queue,      \* copies of the event that wait in the consumer's queue
  worker,     \* [event, step]: the message a task holds and how far it got
  claim,      \* the Redis key of the event
  applied,    \* transactions of the consumer committed for the event
  dead,       \* events with a rejected (dead-lettered) copy
  abandoned,  \* history: events whose handler ended uncommitted, its key left behind
  lapsed,     \* history: events whose key was lost after their commit
  stolen,     \* history: events whose key was deleted by a task that did not own it
  faults      \* history: crashes, failed publications and failed claims so far

relayVars == <<row, attempts, batch, sent, failed>>
consumerVars == <<worker, claim, applied, dead>>
historyVars == <<abandoned, lapsed, stolen, faults>>
vars == <<relayVars, queue, consumerVars, historyVars>>

Idle == [event |-> NoEvent, step |-> "idle"]

TypeOK ==
  /\ row \in [Events -> {"absent", "pending", "backoff", "processed"}]
  /\ attempts \in [Events -> Nat]
  /\ batch \subseteq Events /\ sent \subseteq Events /\ failed \subseteq Events
  /\ queue \in [Events -> Nat]
  /\ worker \in [Workers -> {Idle} \cup
                   [event : Events, step : {"claimed", "committed"}]]
  /\ claim \in [Events -> {"free", "processing", "processed"}]
  /\ applied \in [Events -> Nat]
  /\ dead \subseteq Events /\ abandoned \subseteq Events
  /\ lapsed \subseteq Events /\ stolen \subseteq Events
  /\ faults \in 0..MaxFaults

Init ==
  /\ row = [e \in Events |-> "absent"]
  /\ attempts = [e \in Events |-> 0]
  /\ batch = {} /\ sent = {} /\ failed = {}
  /\ queue = [e \in Events |-> 0]
  /\ worker = [w \in Workers |-> Idle]
  /\ claim = [e \in Events |-> "free"]
  /\ applied = [e \in Events |-> 0]
  /\ dead = {} /\ abandoned = {} /\ lapsed = {} /\ stolen = {}
  /\ faults = 0

-----------------------------------------------------------------------------
(* Producer and relay.                                                      *)

\* A service's transaction commits with an outbox row in it.  Rows become
\* visible in any order: date_created is set before the commit.
Write(e) ==
  /\ row[e] = "absent"
  /\ row' = [row EXCEPT ![e] = "pending"]
  /\ UNCHANGED <<attempts, batch, sent, failed, queue, consumerVars, historyVars>>

Pending == {e \in Events : row[e] = "pending"}
BatchOpen == batch \cup sent \cup failed # {}

\* get_pending_with_lock: the oldest rows due, at most BatchSize of them.
StartBatch ==
  /\ ~BatchOpen
  /\ Pending # {}
  /\ batch' = {e \in Pending : Cardinality({f \in Pending : f < e}) < BatchSize}
  /\ UNCHANGED <<row, attempts, sent, failed, queue, consumerVars, historyVars>>

Oldest(S) == {e \in S : \A f \in S : e <= f}

PublishNext ==
  /\ batch # {}
  /\ \E e \in Oldest(batch) :
         /\ batch' = batch \ {e}
         /\ sent' = sent \cup {e}
         /\ queue' = [queue EXCEPT ![e] = @ + 1]
  /\ UNCHANGED <<row, attempts, failed, consumerVars, historyVars>>

\* event_router raises; the broker may have taken the message all the same.
PublishFails ==
  /\ batch # {}
  /\ faults < MaxFaults
  /\ faults' = faults + 1
  /\ \E e \in Oldest(batch) :
         /\ attempts' = [attempts EXCEPT ![e] = @ + 1]
         /\ batch' = batch \ {e}
         /\ failed' = failed \cup {e}
         /\ queue' \in {queue, [queue EXCEPT ![e] = @ + 1]}
  /\ UNCHANGED <<row, sent, consumerVars, abandoned, lapsed, stolen>>

CommitBatch ==
  /\ batch = {}
  /\ sent \cup failed # {}
  /\ row' = [e \in Events |->
       IF e \in sent THEN "processed" ELSE IF e \in failed THEN "backoff" ELSE row[e]]
  /\ sent' = {} /\ failed' = {}
  /\ UNCHANGED <<attempts, batch, queue, consumerVars, historyVars>>

\* The relay dies or its commit fails: the transaction rolls back, attempts
\* included, and what was published stays published.
RelayCrash ==
  /\ BatchOpen
  /\ faults < MaxFaults
  /\ faults' = faults + 1
  /\ attempts' = [e \in Events |-> IF e \in failed THEN attempts[e] - 1 ELSE attempts[e]]
  /\ batch' = {} /\ sent' = {} /\ failed' = {}
  /\ UNCHANGED <<row, queue, consumerVars, abandoned, lapsed, stolen>>

\* Mutant of RetryDue: selects only rows that never failed.
RetryUnfailed(e) ==
  /\ row[e] = "backoff" /\ attempts[e] = 0
  /\ row' = [row EXCEPT ![e] = "pending"]
  /\ UNCHANGED <<attempts, batch, sent, failed, queue, consumerVars, historyVars>>

RetryDue(e) ==
  /\ row[e] = "backoff"
  /\ row' = [row EXCEPT ![e] = "pending"]
  /\ UNCHANGED <<attempts, batch, sent, failed, queue, consumerVars, historyVars>>

-----------------------------------------------------------------------------
(* Consumer: claim, transaction, mark; on an exception release and raise.   *)

Held(e) == \E w \in Workers : worker[w].event = e

\* Mutant of Take: drops only the duplicates of an event marked processed.
TakeUnlessProcessed(w, e) ==
  /\ worker[w] = Idle
  /\ queue[e] > 0
  /\ queue' = [queue EXCEPT ![e] = @ - 1]
  /\ \/ /\ claim[e] # "processed"
        /\ claim' = [claim EXCEPT ![e] = "processing"]
        /\ worker' = [worker EXCEPT ![w] = [event |-> e, step |-> "claimed"]]
     \/ claim[e] = "processed" /\ UNCHANGED <<claim, worker>>
  /\ UNCHANGED <<relayVars, applied, dead, historyVars>>

Take(w, e) ==
  /\ worker[w] = Idle
  /\ queue[e] > 0
  /\ queue' = [queue EXCEPT ![e] = @ - 1]
  /\ \/ /\ claim[e] = "free"
        /\ claim' = [claim EXCEPT ![e] = "processing"]
        /\ worker' = [worker EXCEPT ![w] = [event |-> e, step |-> "claimed"]]
     \/ /\ claim[e] # "free"            \* a duplicate: acknowledged, nothing done
        /\ UNCHANGED <<claim, worker>>
  /\ UNCHANGED <<relayVars, applied, dead, historyVars>>

\* What becomes of a message whose handler raised is the broker's policy:
\* requeued, or rejected to the queue's dead-letter exchange.
Nack(e) ==
  \/ queue' = [queue EXCEPT ![e] = @ + 1] /\ UNCHANGED dead
  \/ dead' = dead \cup {e} /\ UNCHANGED queue

\* SET NX raises: the except branch deletes the key, whoever set it, or cannot
\* reach Redis either, and then a SET whose reply was lost stays behind.
ClaimRaises(w, e) ==
  /\ worker[w] = Idle
  /\ queue[e] > 0
  /\ faults < MaxFaults
  /\ faults' = faults + 1
  /\ \/ /\ claim' = [claim EXCEPT ![e] = "free"]
        /\ lapsed' = IF applied[e] > 0 THEN lapsed \cup {e} ELSE lapsed
        /\ stolen' = IF claim[e] # "free" THEN stolen \cup {e} ELSE stolen
        /\ UNCHANGED abandoned
     \/ /\ claim[e] = "free"
        /\ claim' = [claim EXCEPT ![e] = "processing"]
        /\ abandoned' = abandoned \cup {e}
        /\ UNCHANGED <<lapsed, stolen>>
  /\ \/ UNCHANGED <<queue, dead>>
     \/ queue' = [queue EXCEPT ![e] = @ - 1] /\ dead' = dead \cup {e}
  /\ UNCHANGED <<relayVars, worker, applied>>

CommitEffect(w) ==
  /\ worker[w].step = "claimed"
  /\ applied[worker[w].event] < MaxApplied
  /\ applied' = [applied EXCEPT ![worker[w].event] = @ + 1]
  /\ worker' = [worker EXCEPT ![w].step = "committed"]
  /\ UNCHANGED <<relayVars, queue, claim, dead, historyVars>>

\* Mutant of HandlerRaises: raises without releasing the claim.
HandlerRaisesClaimed(w) ==
  /\ worker[w].step = "claimed"
  /\ Nack(worker[w].event)
  /\ worker' = [worker EXCEPT ![w] = Idle]
  /\ UNCHANGED <<relayVars, claim, applied, historyVars>>

\* The handler or its commit raises: rollback, release_claim, raise.  The
\* release itself may fail to reach Redis.
HandlerRaises(w) ==
  /\ worker[w].step = "claimed"
  /\ LET e == worker[w].event
     IN  /\ \/ claim' = [claim EXCEPT ![e] = "free"] /\ UNCHANGED abandoned
            \/ abandoned' = abandoned \cup {e} /\ UNCHANGED claim
         /\ Nack(e)
  /\ worker' = [worker EXCEPT ![w] = Idle]
  /\ UNCHANGED <<relayVars, applied, lapsed, stolen, faults>>

\* Mutant of MarkProcessed: releases the claim as after a failure.
MarkReleases(w) ==
  /\ worker[w].step = "committed"
  /\ claim' = [claim EXCEPT ![worker[w].event] = "free"]
  /\ worker' = [worker EXCEPT ![w] = Idle]
  /\ UNCHANGED <<relayVars, queue, applied, dead, historyVars>>

MarkProcessed(w) ==
  /\ worker[w].step = "committed"
  /\ claim' = [claim EXCEPT ![worker[w].event] = "processed"]
  /\ worker' = [worker EXCEPT ![w] = Idle]
  /\ UNCHANGED <<relayVars, queue, applied, dead, historyVars>>

\* mark_event_as_processed raises after the commit: the same except branch
\* releases the claim, or fails to if Redis is still unreachable.
MarkFails(w) ==
  /\ worker[w].step = "committed"
  /\ LET e == worker[w].event
     IN  /\ \/ /\ claim' = [claim EXCEPT ![e] = "free"]
               /\ lapsed' = lapsed \cup {e}
            \/ UNCHANGED <<claim, lapsed>>
         /\ Nack(e)
  /\ worker' = [worker EXCEPT ![w] = Idle]
  /\ UNCHANGED <<relayVars, applied, abandoned, stolen, faults>>

\* The process dies with every task in it; RabbitMQ requeues what they held.
ConsumerCrash ==
  /\ faults < MaxFaults
  /\ \E w \in Workers : worker[w] # Idle
  /\ faults' = faults + 1
  /\ queue' = [e \in Events |->
       queue[e] + Cardinality({w \in Workers : worker[w].event = e})]
  /\ abandoned' = abandoned \cup
       {e \in Events : \E w \in Workers : worker[w] = [event |-> e, step |-> "claimed"]}
  /\ worker' = [w \in Workers |-> Idle]
  /\ UNCHANGED <<relayVars, claim, applied, dead, lapsed, stolen>>

\* The key's 72 hours pass; no handler runs that long.
ClaimExpires(e) ==
  /\ claim[e] # "free"
  /\ ~Held(e)
  /\ claim' = [claim EXCEPT ![e] = "free"]
  /\ lapsed' = IF applied[e] > 0 THEN lapsed \cup {e} ELSE lapsed
  /\ UNCHANGED <<relayVars, queue, worker, applied, dead, abandoned, stolen, faults>>

-----------------------------------------------------------------------------

Relay ==
  \/ StartBatch \/ PublishNext \/ PublishFails \/ CommitBatch \/ RelayCrash
  \/ \E e \in Events : RetryDue(e)

Consume ==
  \/ \E w \in Workers :
       \/ \E e \in Events : Take(w, e) \/ ClaimRaises(w, e)
       \/ CommitEffect(w) \/ HandlerRaises(w) \/ MarkProcessed(w) \/ MarkFails(w)
  \/ ConsumerCrash
  \/ \E e \in Events : ClaimExpires(e)

Next == (\E e \in Events : Write(e)) \/ Relay \/ Consume

Spec == Init /\ [][Next]_vars

\* The relay loop polls for ever, a due time passes, and the process is
\* restarted after a crash.
FairSpec ==
  /\ Spec
  /\ WF_vars(StartBatch) /\ WF_vars(PublishNext) /\ WF_vars(CommitBatch)
  /\ \A e \in Events : WF_vars(RetryDue(e))

-----------------------------------------------------------------------------
(* Properties.                                                              *)

\* Claims exclude: two tasks never work on the same event at once, and the
\* one that does owns the key, unless a task that could not claim the event
\* deleted the key of the task that had.
ExclusiveHandling ==
  \A w \in Workers : worker[w] # Idle /\ worker[w].event \notin stolen =>
    /\ claim[worker[w].event] = "processing"
    /\ \A v \in Workers \ {w} : worker[v].event # worker[w].event

\* However often the relay republishes and RabbitMQ redelivers, an event takes
\* effect at most once as long as its key is its owner's to delete and outlives
\* the commit.
AppliedAtMostOnce ==
  \A e \in Events : e \notin lapsed \cup stolen => applied[e] <= 1

Settled(e) == row[e] = "processed" /\ queue[e] = 0 /\ ~Held(e) /\ e \notin dead

\* The only way to lose an event without a trace is a handler that ends between
\* its claim and its commit, by a crash or with Redis out of reach, and leaves
\* the key behind for the redelivery to trip over.
LostOnlyIfAbandoned ==
  \A e \in Events : Settled(e) /\ e \notin abandoned => applied[e] > 0

\* What the relay's docstring promises: at-least-once delivery rather than
\* data loss.  Once nothing is left to deliver, the event was applied.
NoDataLoss == \A e \in Events : Settled(e) => applied[e] > 0

\* Every committed outbox row is published, whatever fails on the way.
EventuallyPublished ==
  \A e \in Events : row[e] = "pending" ~> row[e] = "processed"

PhaseOf(e) ==
  IF applied[e] > 0 THEN "applied"
  ELSE IF queue[e] > 0 \/ Held(e) \/ e \in dead \cup abandoned THEN "published"
  ELSE IF row[e] # "absent" THEN "written" ELSE "absent"

\* Outbox, relay, queue and claims implement the channel.
Channel == INSTANCE EventChannel WITH phase <- [e \in Events |-> PhaseOf(e)]
ImplementsChannel == Channel!Spec

=============================================================================
