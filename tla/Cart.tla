-------------------------------- MODULE Cart --------------------------------
(***************************************************************************)
(* The lines one product has in one customer's cart.  Nothing in the       *)
(* database makes them one line: adding reads, then inserts or updates.    *)
(* An order clears the cart twice, when it is created and again when it is *)
(* confirmed, the second time as a safety net for the first.               *)
(*                                                                         *)
(* Quantities are left out.                                                *)
(***************************************************************************)
EXTENDS Naturals, FiniteSets

CONSTANTS
  Requests,   \* the customer's requests, each made at most once
  MaxFaults   \* bound: crashes, failed handlers, repeated messages

VARIABLES
  lines,    \* ids of the cart_items rows
  last,     \* ids given out
  req,      \* [op, step, seen]: a request and the rows it has read
  placed,   \* the order: "none", "created" or "confirmed"
  ordered,  \* rows there were when the order was created
  event,    \* order.created and order.confirmed on their way
  claim,    \* their keys in Redis
  seen,     \* rows each handler has read
  lost,     \* history: events whose handling ended before the rows were deleted
  faults

vars == <<lines, last, req, placed, ordered, event, claim, seen, lost, faults>>

Ids == 1..Cardinality(Requests)
OrderEvents == {"order.created", "order.confirmed"}

TypeOK ==
  /\ lines \subseteq Ids /\ last \in 0..Cardinality(Requests)
  /\ req \in [Requests -> [op : {"add", "update", "remove", "clear"},
                           step : {"new", "ready", "end"}, seen : SUBSET Ids]]
  /\ placed \in {"none", "created", "confirmed"}
  /\ ordered \subseteq Ids
  /\ event \in [OrderEvents -> {"none", "queued", "claimed", "read", "cleared", "done", "dead"}]
  /\ claim \in [OrderEvents -> {"none", "processing", "processed"}]
  /\ seen \in [OrderEvents -> SUBSET Ids]
  /\ lost \subseteq OrderEvents
  /\ faults \in 0..MaxFaults

Init ==
  /\ lines = {} /\ last = 0
  /\ req \in [Requests -> [op : {"add", "update", "remove", "clear"}, step : {"new"}, seen : {{}}]]
  /\ placed = "none" /\ ordered = {}
  /\ event = [e \in OrderEvents |-> "none"]
  /\ claim = [e \in OrderEvents |-> "none"]
  /\ seen = [e \in OrderEvents |-> {}]
  /\ lost = {}
  /\ faults = 0

Fault == faults < MaxFaults /\ faults' = faults + 1
End(q) == req' = [req EXCEPT ![q].step = "end"]

-----------------------------------------------------------------------------
(* Requests: a read, then a flush and the commit.                           *)

\* An update or a removal names one row.
ReadLines(q) ==
  /\ req[q].step = "new"
  /\ \E rows \in IF req[q].op \in {"add", "clear"} THEN {lines} ELSE {{i} : i \in lines} :
       req' = [req EXCEPT ![q].step = "ready", ![q].seen = rows]
  /\ UNCHANGED <<lines, last, placed, ordered, event, claim, seen, lost, faults>>

\* The row is not there; or two are, and scalar_one_or_none raises; or the
\* UPDATE finds its row deleted; or the commit fails.
Refused(q) ==
  /\ req[q].step \in {"new", "ready"}
  /\ End(q)
  /\ UNCHANGED <<lines, last, placed, ordered, event, claim, seen, lost, faults>>

\* add_item_to_cart found no row.
InsertLine(q) ==
  /\ req[q].step = "ready" /\ req[q].op = "add" /\ req[q].seen = {}
  /\ lines' = lines \cup {last + 1} /\ last' = last + 1
  /\ End(q)
  /\ UNCHANGED <<placed, ordered, event, claim, seen, lost, faults>>

\* The one row it found gets the new quantity, if it still exists.
UpdateLine(q) ==
  /\ req[q].step = "ready" /\ req[q].op \in {"add", "update"}
  /\ \E i \in lines : req[q].seen = {i}
  /\ End(q)
  /\ UNCHANGED <<lines, last, placed, ordered, event, claim, seen, lost, faults>>

\* remove_item and clear_cart delete the rows they have read.
DeleteLines(q) ==
  /\ req[q].step = "ready" /\ req[q].op \in {"remove", "clear"}
  /\ lines' = lines \ req[q].seen
  /\ End(q)
  /\ UNCHANGED <<last, placed, ordered, event, claim, seen, lost, faults>>

-----------------------------------------------------------------------------
(* The order and the cart's consumer of its events.                         *)

CreateOrder ==
  /\ placed = "none"
  /\ placed' = "created" /\ ordered' = lines
  /\ event' = [event EXCEPT !["order.created"] = "queued"]
  /\ UNCHANGED <<lines, last, req, claim, seen, lost, faults>>

ConfirmOrder ==
  /\ placed = "created"
  /\ placed' = "confirmed"
  /\ event' = [event EXCEPT !["order.confirmed"] = "queued"]
  /\ UNCHANGED <<lines, last, req, ordered, claim, seen, lost, faults>>

Move(e, to) == event' = [event EXCEPT ![e] = to]
ClaimIs(e, value) == claim' = [claim EXCEPT ![e] = value]

ClaimEvent(e) ==
  /\ event[e] = "queued"
  /\ IF claim[e] = "none"
     THEN ClaimIs(e, "processing") /\ Move(e, "claimed")
     ELSE Move(e, "done") /\ UNCHANGED claim
  /\ UNCHANGED <<lines, last, req, placed, ordered, seen, lost, faults>>

\* clear_cart: the rows are read, then deleted one by one.
SelectLines(e) ==
  /\ event[e] = "claimed"
  /\ seen' = [seen EXCEPT ![e] = lines]
  /\ Move(e, "read")
  /\ UNCHANGED <<lines, last, req, placed, ordered, claim, lost, faults>>

ClearCart(e) ==
  /\ event[e] = "read"
  /\ lines' = lines \ seen[e]
  /\ Move(e, "cleared")
  /\ UNCHANGED <<last, req, placed, ordered, claim, seen, lost, faults>>

MarkEvent(e) ==
  /\ event[e] = "cleared"
  /\ ClaimIs(e, "processed") /\ Move(e, "done")
  /\ UNCHANGED <<lines, last, req, placed, ordered, seen, lost, faults>>

Handling == {"claimed", "read", "cleared"}
LoseUncleared(e) == lost' = IF event[e] = "cleared" THEN lost ELSE lost \cup {e}

\* Mutant of HandlerRaises: the except branch keeps the claim.
HandlerRaisesKeepingClaim(e) ==
  /\ event[e] \in Handling
  /\ Fault
  /\ Move(e, "queued")
  /\ UNCHANGED <<lines, last, req, placed, ordered, claim, seen, lost>>

\* The claim is released and the message requeued or dead-lettered.
HandlerRaises(e) ==
  /\ event[e] \in Handling
  /\ Fault
  /\ ClaimIs(e, "none")
  /\ \/ Move(e, "queued") /\ UNCHANGED lost
     \/ Move(e, "dead") /\ LoseUncleared(e)
  /\ UNCHANGED <<lines, last, req, placed, ordered, seen>>

\* The claim stays: the consumer dies, or its except branch cannot reach Redis
\* to release it.  The message returns and finds the claim, or is dead-lettered.
ConsumerCrashes(e) ==
  /\ event[e] \in Handling
  /\ Fault
  /\ Move(e, "queued") \/ Move(e, "dead")
  /\ LoseUncleared(e)
  /\ UNCHANGED <<lines, last, req, placed, ordered, claim, seen>>

\* The relay publishes the event a second time.
Republished(e) ==
  /\ event[e] = "done"
  /\ Fault
  /\ Move(e, "queued")
  /\ UNCHANGED <<lines, last, req, placed, ordered, claim, seen, lost>>

-----------------------------------------------------------------------------

Request(q) ==
  ReadLines(q) \/ Refused(q) \/ InsertLine(q) \/ UpdateLine(q) \/ DeleteLines(q)

Consumer(e) ==
  \/ ClaimEvent(e) \/ SelectLines(e) \/ ClearCart(e) \/ MarkEvent(e)
  \/ HandlerRaises(e) \/ ConsumerCrashes(e) \/ Republished(e)

Next ==
  \/ \E q \in Requests : Request(q)
  \/ CreateOrder \/ ConfirmOrder
  \/ \E e \in OrderEvents : Consumer(e)

Spec == Init /\ [][Next]_vars

-----------------------------------------------------------------------------
(* Properties.                                                              *)

Settled(e) == event[e] \in {"done", "dead"}

\* The safety net holds: when both events of a confirmed order are dealt with,
\* no line that was ordered is left in the cart, whatever the customer did
\* meanwhile, unless both handlers were lost before they deleted.
OrderedLinesLeaveCart ==
  (\A e \in OrderEvents : Settled(e)) /\ lost # OrderEvents => lines \cap ordered = {}

=============================================================================
