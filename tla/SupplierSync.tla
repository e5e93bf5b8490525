---------------------------- MODULE SupplierSync ----------------------------
(***************************************************************************)
(* Catalog synchronisation with one supplier.  A scheduled or manual run   *)
(* fetches pages from CJ and writes one event per page to the supplier     *)
(* service's outbox; the product service imports each batch and reports    *)
(* it; the supplier service's consumer counts the reports until the run is *)
(* complete.  Only one run may be active, and an active run refuses every  *)
(* other.                                                                  *)
(*                                                                         *)
(* The "_with_errors" statuses differ in wording only.  The consumer's     *)
(* import.failed branch is left out: no service writes that event.         *)
(***************************************************************************)
EXTENDS Naturals, Sequences, FiniteSets

CONSTANTS
  Starters,    \* the scheduler's task and the requests of administrators
  MaxRuns,     \* bound: runs attempted
  MaxBatches,  \* bound: pages of one run
  MaxFaults    \* bound: crashes and failed commits

VARIABLES
  runs,     \* rows of supplier_sync_states, in the order of their insertion
  starter,  \* [step, at, run]: a run_sync call and the time it started at
  clock,    \* the time, advanced by each call
  batch,    \* each run's batches on their way to the product service
  report,   \* the product service's reports on their way back
  stuck,    \* history: runs that lost their call, a batch or a report
  faults

vars == <<runs, starter, clock, batch, report, stuck, faults>>

RunIds == 1..MaxRuns
Batches == 1..MaxBatches

ACTIVE_STATUSES == {"running", "awaiting_import", "importing"}

Resting == [step |-> "idle", at |-> 0, run |-> 0]

Rows == [at : RunIds, status : ACTIVE_STATUSES \cup {"completed", "failed"},
         total : 0..MaxBatches, processed : 0..MaxBatches, acked : SUBSET Batches]

TypeOK ==
  /\ runs \in Seq(Rows) /\ Len(runs) <= MaxRuns
  /\ starter \in [Starters ->
       [step : {"idle", "insert", "fetch"}, at : 0..MaxRuns, run : 0..MaxRuns]]
  /\ clock \in 0..MaxRuns
  /\ batch \in [RunIds -> [Batches -> {"none", "queued", "imported", "dead"}]]
  /\ report \in [RunIds -> [Batches ->
       {"none", "queued", "claimed", "recorded", "done", "dead"}]]
  /\ stuck \subseteq RunIds
  /\ faults \in 0..MaxFaults

Init ==
  /\ runs = <<>>
  /\ starter = [s \in Starters |-> Resting]
  /\ clock = 0
  /\ batch = [r \in RunIds |-> [b \in Batches |-> "none"]]
  /\ report = [r \in RunIds |-> [b \in Batches |-> "none"]]
  /\ stuck = {}
  /\ faults = 0

Fault == faults < MaxFaults /\ faults' = faults + 1
Active(r) == runs[r].status \in ACTIVE_STATUSES
SetStatus(r, status) == runs' = [runs EXCEPT ![r].status = status]

-----------------------------------------------------------------------------
(* run_sync and run_product_sync.                                           *)

\* get_latest_by_supplier_id orders by started_at, which a call takes before
\* it inserts its row: the latest row need not be the last inserted.
Latest == CHOOSE r \in DOMAIN runs : \A q \in DOMAIN runs : runs[q].at <= runs[r].at

\* The first check; a latest run that is active refuses the call.
Check(s) ==
  /\ starter[s] = Resting
  /\ clock < MaxRuns
  /\ runs # <<>> => ~Active(Latest)
  /\ clock' = clock + 1
  /\ starter' = [starter EXCEPT ![s] = [Resting EXCEPT !.step = "insert", !.at = clock']]
  /\ UNCHANGED <<runs, batch, report, stuck, faults>>

NewRun(s) ==
  [at |-> starter[s].at, status |-> "running", total |-> 0, processed |-> 0, acked |-> {}]

\* The row is committed before the fetch; the partial unique index over the
\* active rows turns a second one into IntegrityError.
InsertRun(s) ==
  /\ starter[s].step = "insert"
  /\ \/ /\ \A r \in DOMAIN runs : ~Active(r)
        /\ runs' = Append(runs, NewRun(s))
        /\ starter' = [starter EXCEPT ![s].step = "fetch", ![s].run = Len(runs')]
     \/ /\ \E r \in DOMAIN runs : Active(r)
        /\ starter' = [starter EXCEPT ![s] = Resting]
        /\ UNCHANGED runs
  /\ UNCHANGED <<clock, batch, report, stuck, faults>>

\* Every page's event and the new status commit in one transaction.
FetchSucceeds(s) ==
  /\ starter[s].step = "fetch"
  /\ LET r == starter[s].run
     IN  \E n \in Batches :
           /\ runs' = [runs EXCEPT ![r].status = "awaiting_import", ![r].total = n]
           /\ batch' = [batch EXCEPT ![r] =
                [b \in Batches |-> IF b <= n THEN "queued" ELSE "none"]]
  /\ starter' = [starter EXCEPT ![s] = Resting]
  /\ UNCHANGED <<clock, report, stuck, faults>>

\* The except branch: rollback, then a commit of its own that records the
\* failure.
FetchFails(s) ==
  /\ starter[s].step = "fetch"
  /\ SetStatus(starter[s].run, "failed")
  /\ starter' = [starter EXCEPT ![s] = Resting]
  /\ UNCHANGED <<clock, batch, report, stuck, faults>>

\* The process dies, the caller's commit fails after run_sync returned, or the
\* write of the failure raises and is passed over: the row stays "running".
CallLost(s) ==
  /\ starter[s].step = "fetch"
  /\ Fault
  /\ stuck' = stuck \cup {starter[s].run}
  /\ starter' = [starter EXCEPT ![s] = Resting]
  /\ UNCHANGED <<runs, clock, batch, report>>

-----------------------------------------------------------------------------
(* The product service.                                                     *)

\* Mutant of ImportBatch: imports without a report in the outbox.
ImportUnreported(r, b) ==
  /\ batch[r][b] = "queued"
  /\ batch' = [batch EXCEPT ![r][b] = "imported"]
  /\ UNCHANGED <<runs, starter, clock, report, stuck, faults>>

\* The inbox row, the products and the report commit together; a repeated
\* delivery finds the inbox row and does nothing.
ImportBatch(r, b) ==
  /\ batch[r][b] = "queued"
  /\ batch' = [batch EXCEPT ![r][b] = "imported"]
  /\ report' = [report EXCEPT ![r][b] = "queued"]
  /\ UNCHANGED <<runs, starter, clock, stuck, faults>>

\* The handler raises and the message is dead-lettered; nobody reports it.
ImportRaises(r, b) ==
  /\ batch[r][b] = "queued"
  /\ Fault
  /\ batch' = [batch EXCEPT ![r][b] = "dead"]
  /\ stuck' = stuck \cup {r}
  /\ UNCHANGED <<runs, starter, clock, report>>

-----------------------------------------------------------------------------
(* The supplier service's consumer of the reports.                          *)

MoveReport(r, b, to) == report' = [report EXCEPT ![r][b] = to]

ClaimReport(r, b) ==
  /\ report[r][b] = "queued"
  /\ MoveReport(r, b, "claimed")
  /\ UNCHANGED <<runs, starter, clock, batch, stuck, faults>>

Counted(row, b) ==
  [row EXCEPT !.acked = @ \cup {b}, !.processed = @ + 1,
              !.status = IF row.processed + 1 >= row.total THEN "completed" ELSE "importing"]

\* Mutant of RecordReport: counts a batch without looking at the acknowledged
\* ones.
RecordAgain(r, b) ==
  /\ report[r][b] = "claimed"
  /\ runs[r].processed < MaxBatches
  /\ MoveReport(r, b, "recorded")
  /\ runs' = [runs EXCEPT ![r] = Counted(@, b)]
  /\ UNCHANGED <<starter, clock, batch, stuck, faults>>

\* _update_sync_state_on_feedback, under the row's lock.
RecordReport(r, b) ==
  /\ report[r][b] = "claimed"
  /\ MoveReport(r, b, "recorded")
  /\ runs' = IF b \in runs[r].acked THEN runs ELSE [runs EXCEPT ![r] = Counted(@, b)]
  /\ UNCHANGED <<starter, clock, batch, stuck, faults>>

MarkReport(r, b) ==
  /\ report[r][b] = "recorded"
  /\ MoveReport(r, b, "done")
  /\ UNCHANGED <<runs, starter, clock, batch, stuck, faults>>

\* The transaction or the mark raises: the claim is released and the message
\* is requeued or dead-lettered.
ReportRaises(r, b) ==
  /\ report[r][b] \in {"claimed", "recorded"}
  /\ Fault
  /\ \/ MoveReport(r, b, "queued") /\ UNCHANGED stuck
     \/ /\ MoveReport(r, b, "dead")
        /\ stuck' = IF report[r][b] = "claimed" THEN stuck \cup {r} ELSE stuck
  /\ UNCHANGED <<runs, starter, clock, batch>>

\* The process dies, or cannot reach Redis to release the claim: the message
\* returns, finds its own claim and is dropped.
ReportDropped(r, b) ==
  /\ report[r][b] \in {"claimed", "recorded"}
  /\ Fault
  /\ MoveReport(r, b, "done")
  /\ stuck' = IF report[r][b] = "claimed" THEN stuck \cup {r} ELSE stuck
  /\ UNCHANGED <<runs, starter, clock, batch>>

\* The relay publishes a report again after its claim has expired.
ReportRepeated(r, b) ==
  /\ report[r][b] = "done"
  /\ Fault
  /\ MoveReport(r, b, "queued")
  /\ UNCHANGED <<runs, starter, clock, batch, stuck>>

-----------------------------------------------------------------------------

Run(s) == Check(s) \/ InsertRun(s) \/ FetchSucceeds(s) \/ FetchFails(s) \/ CallLost(s)
Import(r, b) == ImportBatch(r, b) \/ ImportRaises(r, b)
Feedback(r, b) ==
  \/ ClaimReport(r, b) \/ RecordReport(r, b) \/ MarkReport(r, b)
  \/ ReportRaises(r, b) \/ ReportDropped(r, b) \/ ReportRepeated(r, b)

Next ==
  \/ \E s \in Starters : Run(s)
  \/ \E r \in RunIds, b \in Batches : Import(r, b) \/ Feedback(r, b)

Spec == Init /\ [][Next]_vars

\* What goes on by itself: a fetch ends, and both consumers run.
Progress ==
  \/ \E s \in Starters : FetchSucceeds(s) \/ FetchFails(s)
  \/ \E r \in RunIds, b \in Batches :
       ImportBatch(r, b) \/ ClaimReport(r, b) \/ RecordReport(r, b) \/ MarkReport(r, b)

-----------------------------------------------------------------------------
(* Properties.                                                              *)

\* A run is completed only when each of its batches has been imported, however
\* often a report is delivered.
CompletedSawEveryBatch ==
  \A r \in DOMAIN runs : runs[r].status = "completed" =>
    \A b \in 1..runs[r].total : batch[r][b] = "imported"

\* An active run ends, unless its call, one of its batches or one of its
\* reports was lost (then it refuses every later run): again and again no
\* other run is active.
EveryRunEnds == []<>(\A r \in DOMAIN runs : Active(r) => r \in stuck)

=============================================================================
