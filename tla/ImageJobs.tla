----------------------------- MODULE ImageJobs -----------------------------
(***************************************************************************)
(* Generating artwork.  A request spends one unit of its owner's quota, a  *)
(* Redis counter that expires with its window, stores a pending job and    *)
(* queues a TaskIQ task; a worker generates the image and writes the job's *)
(* end; the browser polls the job until it ends or two minutes have passed.*)
(* INCR and EXPIRE are two calls, and every call may be the last of its    *)
(* process.                                                                *)
(***************************************************************************)
EXTENDS Naturals, FiniteSets

CONSTANTS
  Requests,    \* generation requests of one owner, each made at most once
  Limit,       \* PRODUCT_IMAGE_*_GENERATION_LIMIT
  MaxWindows,  \* bound: quota windows
  MaxFaults    \* bound: crashes and failed calls

VARIABLES
  counter,  \* [count, ttl, window]: the quota key; count 0 means it is absent
  req,      \* [step, count, window]: a request of the API
  job,      \* the job's key in Redis
  task,     \* its task: "none", "queued", "running" or "acked"
  browser,  \* what the browser makes of the job
  unwritten,  \* history: jobs whose end could not be written, or has expired
  faults

vars == <<counter, req, job, task, browser, unwritten, faults>>

Size == Cardinality(Requests)
Steps == {"new", "counted", "repaired", "accepted", "stored", "answered", "refused", "lost"}
Ended == {"completed", "failed"}

TypeOK ==
  /\ counter \in [count : 0..Size, ttl : {"none", "running"}, window : 1..MaxWindows + 1]
  /\ req \in [Requests -> [step : Steps, count : 0..Size, window : 0..MaxWindows + 1]]
  /\ job \in [Requests -> {"none", "pending", "running"} \cup Ended]
  /\ task \in [Requests -> {"none", "queued", "running", "acked"}]
  /\ browser \in [Requests -> {"none", "polling", "image", "error", "timeout"}]
  /\ unwritten \subseteq Requests
  /\ faults \in 0..MaxFaults

Init ==
  /\ counter = [count |-> 0, ttl |-> "none", window |-> 1]
  /\ req = [q \in Requests |-> [step |-> "new", count |-> 0, window |-> 0]]
  /\ job = [q \in Requests |-> "none"]
  /\ task = [q \in Requests |-> "none"]
  /\ browser = [q \in Requests |-> "none"]
  /\ unwritten = {}
  /\ faults = 0

Fault == faults < MaxFaults /\ faults' = faults + 1
Step(q, from, to) == req[q].step = from /\ req' = [req EXCEPT ![q].step = to]

-----------------------------------------------------------------------------
(* GenerationQuotaService.consume.                                          *)

Incr(q) ==
  /\ req[q].step = "new"
  /\ counter' = [counter EXCEPT !.count = @ + 1]
  /\ req' = [req EXCEPT ![q] =
       [step |-> "counted", count |-> counter'.count, window |-> counter.window]]
  /\ UNCHANGED <<job, task, browser, unwritten, faults>>

\* Mutant of StartWindow: only the first of a window sets its expiry.
StartWindowOnce(q) ==
  /\ Step(q, "counted", "repaired")
  /\ counter' = IF req[q].count = 1 /\ counter.count > 0
                THEN [counter EXCEPT !.ttl = "running"] ELSE counter
  /\ UNCHANGED <<job, task, browser, unwritten, faults>>

\* EXPIRE by the first, and by anyone who finds the key without one; it does
\* nothing to a key that is gone.
StartWindow(q) ==
  /\ Step(q, "counted", "repaired")
  /\ counter' = IF counter.count > 0 /\ (req[q].count = 1 \/ counter.ttl = "none")
                THEN [counter EXCEPT !.ttl = "running"] ELSE counter
  /\ UNCHANGED <<job, task, browser, unwritten, faults>>

\* PRODUCT_IMAGE_GUEST_GENERATION_WINDOW_HOURS pass and Redis drops the key.
WindowEnds ==
  /\ counter.ttl = "running" /\ counter.window <= MaxWindows
  /\ counter' = [count |-> 0, ttl |-> "none", window |-> counter.window + 1]
  /\ UNCHANGED <<req, job, task, browser, unwritten, faults>>

\* 429 with Retry-After.
Refuse(q) ==
  /\ req[q].count > Limit
  /\ Step(q, "repaired", "refused")
  /\ UNCHANGED <<counter, job, task, browser, unwritten, faults>>

-----------------------------------------------------------------------------
(* submit_job and the route.                                                *)

Accept(q) ==
  /\ req[q].count <= Limit
  /\ Step(q, "repaired", "accepted")
  /\ UNCHANGED <<counter, job, task, browser, unwritten, faults>>

CreateJob(q) ==
  /\ Step(q, "accepted", "stored")
  /\ job' = [job EXCEPT ![q] = "pending"]
  /\ UNCHANGED <<counter, task, browser, unwritten, faults>>

QueueTask(q) ==
  /\ Step(q, "stored", "answered")
  /\ task' = [task EXCEPT ![q] = "queued"]
  /\ browser' = [browser EXCEPT ![q] = "polling"]
  /\ UNCHANGED <<counter, job, unwritten, faults>>

\* The API process dies or a call of Redis or RabbitMQ fails: the unit is
\* spent, and a stored job stays pending.
RequestLost(q) ==
  /\ req[q].step \in {"counted", "repaired", "accepted", "stored"}
  /\ Fault
  /\ req' = [req EXCEPT ![q].step = "lost"]
  /\ UNCHANGED <<counter, job, task, browser, unwritten>>

-----------------------------------------------------------------------------
(* The worker: run_job.                                                     *)

StartJob(q) ==
  /\ task[q] = "queued"
  /\ task' = [task EXCEPT ![q] = "running"]
  /\ job' = [job EXCEPT ![q] = "running"]
  /\ UNCHANGED <<counter, req, browser, unwritten, faults>>

\* completed, or failed when the provider or the storage raised.
EndJob(q) ==
  /\ task[q] = "running"
  /\ \E end \in Ended : job' = [job EXCEPT ![q] = end]
  /\ task' = [task EXCEPT ![q] = "acked"]
  /\ UNCHANGED <<counter, req, browser, unwritten, faults>>

\* Redis is down: the task raises and its message is acknowledged all the same.
WriteFails(q) ==
  /\ task[q] \in {"queued", "running"}
  /\ Fault
  /\ task' = [task EXCEPT ![q] = "acked"]
  /\ unwritten' = unwritten \cup {q}
  /\ UNCHANGED <<counter, req, job, browser>>

\* Mutant of WorkerCrashes: the message was acknowledged on receipt.
WorkerCrashesAcked(q) ==
  /\ task[q] = "running"
  /\ Fault
  /\ task' = [task EXCEPT ![q] = "acked"]
  /\ UNCHANGED <<counter, req, job, browser, unwritten>>

\* The worker dies before it acknowledges, perhaps with the end written:
\* RabbitMQ delivers the task again.
WorkerCrashes(q) ==
  /\ task[q] = "running"
  /\ Fault
  /\ task' = [task EXCEPT ![q] = "queued"]
  /\ \E status \in {"running"} \cup Ended : job' = [job EXCEPT ![q] = status]
  /\ UNCHANGED <<counter, req, browser, unwritten>>

\* _JOB_TTL: an hour after the last write.
JobExpires(q) ==
  /\ job[q] # "none" /\ req[q].step # "stored"
  /\ Fault
  /\ job' = [job EXCEPT ![q] = "none"]
  /\ unwritten' = unwritten \cup {q}
  /\ UNCHANGED <<counter, req, task, browser>>

-----------------------------------------------------------------------------
(* The browser: generateImage.                                              *)

Poll(q) ==
  /\ browser[q] = "polling" /\ job[q] \notin {"pending", "running"}
  /\ browser' = [browser EXCEPT ![q] = IF job[q] = "completed" THEN "image" ELSE "error"]
  /\ UNCHANGED <<counter, req, job, task, unwritten, faults>>

\* POLL_TIMEOUT_MS, a failed request, or the customer leaves.
GiveUp(q) ==
  /\ browser[q] = "polling"
  /\ browser' = [browser EXCEPT ![q] = "timeout"]
  /\ UNCHANGED <<counter, req, job, task, unwritten, faults>>

-----------------------------------------------------------------------------

Submit(q) ==
  \/ Incr(q) \/ StartWindow(q) \/ Refuse(q) \/ Accept(q) \/ CreateJob(q) \/ QueueTask(q)
  \/ RequestLost(q)
Worker(q) == StartJob(q) \/ EndJob(q) \/ WriteFails(q) \/ WorkerCrashes(q) \/ JobExpires(q)
Browser(q) == Poll(q) \/ GiveUp(q)

Next == (\E q \in Requests : Submit(q) \/ Worker(q) \/ Browser(q)) \/ WindowEnds

Spec == Init /\ [][Next]_vars

\* What goes on by itself: a worker is running.
Progress == \E q \in Requests : StartJob(q) \/ EndJob(q)

-----------------------------------------------------------------------------
(* Properties.                                                              *)

CountedIn(q) == req[q].step \notin {"new", "counted", "lost"}

\* No window admits more than Limit requests, however they interleave; and no
\* owner is shut out for good: a window some request has got through ends,
\* even if the process that opened it died before its EXPIRE.
QuotaHolds ==
  /\ \A w \in 1..MaxWindows + 1 :
       Cardinality({q \in Requests :
         req[q].step \in {"accepted", "stored", "answered"} /\ req[q].window = w}) <= Limit
  /\ (\E q \in Requests : CountedIn(q) /\ req[q].window = counter.window)
       => counter.ttl = "running"

\* A job that was answered with 202 ends, although its worker may crash at any
\* point and start it over, unless its end could not be written: again and
\* again none is left open.
JobEnds ==
  []<>(\A q \in Requests :
         req[q].step = "answered" => job[q] \in Ended \/ q \in unwritten)

=============================================================================
